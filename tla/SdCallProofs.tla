---------------------------- MODULE SdCallProofs ----------------------------
(***************************************************************************)
(* What each function of SdVolume and SdFile does to a volume on a card    *)
(* that does not fail.  A ghost says whose clusters are whose; Sound says  *)
(* that the FAT, the directory, the contents and the open file are those   *)
(* of the ghost.  From the cache up - cacheFlush(), cacheRawBlock(), the   *)
(* FAT, the walks, sync(), truncate(), open(), remove(), write(), read() - *)
(* each lemma takes a sound state to a sound state of a ghost that differs *)
(* from the first as the call means it to.  SdProofs puts the calls        *)
(* together.                                                               *)
(***************************************************************************)
EXTENDS SdFile, Remainders, FiniteSetTheorems, SequenceTheorems, WellFoundedInduction

(***** induction, and arithmetic of positions *****)

\* Induction over 0..n, from the existence of least elements.
LEMMA Induct ==
  ASSUME NEW n \in Nat, NEW B, 0 \in B, \A i \in 1..n : i - 1 \in B => i \in B
  PROVE  \A i \in 0..n : i \in B
<1> DEFINE T == (0..n) \ B
           R == OpToRel(<, Nat)
<1> SUFFICES ASSUME T # {} PROVE FALSE  OBVIOUS
<1>1. IsWellFoundedOn(R, Nat)  BY NatLessThanWellFounded
<1>2. T \subseteq Nat  OBVIOUS
<1> HIDE DEF R, T
<1>3. PICK x \in T : \A y \in T : ~(<<y, x>> \in R)  BY <1>1, <1>2, WFMin
<1>4. x \in 1..n /\ x \notin B /\ x - 1 \in B
  <2>1. x \in 0..n /\ x \notin B  BY <1>3 DEF T
  <2>2. x - 1 \notin T
    <3>1. ASSUME x - 1 \in T PROVE <<x - 1, x>> \in R  BY <3>1, <1>2, <2>1 DEF R, OpToRel
    <3> QED  BY <1>3, <3>1
  <2> QED  BY <2>1, <2>2 DEF T
<1> QED  BY <1>4

\* The least element of a set of naturals is one of it.
LEMMA MinIn ==
  ASSUME NEW S, S \subseteq Nat, S # {}
  PROVE  Min(S) \in S /\ \A y \in S : Min(S) <= y
<1> DEFINE R == OpToRel(<, Nat)
<1>1. IsWellFoundedOn(R, Nat)  BY NatLessThanWellFounded
<1> HIDE DEF R
<1>2. PICK x \in S : \A y \in S : ~(<<y, x>> \in R)  BY <1>1, WFMin
<1>3. \A y \in S : x <= y
  <2> SUFFICES ASSUME NEW y \in S, y < x PROVE FALSE  OBVIOUS
  <2>1. <<y, x>> \in R  BY DEF R, OpToRel
  <2> QED  BY <1>2, <2>1
<1> QED  BY <1>3 DEF Min

\* Min, on the lesser of two numbers: how write() and read() clip a part to its block.
LEMMA MinOfTwo ==
  ASSUME NEW a \in Nat, NEW b \in Nat
  PROVE  Min({a, b}) = IF a <= b THEN a ELSE b
<1>1. Min({a, b}) \in {a, b} /\ \A y \in {a, b} : Min({a, b}) <= y
  BY MinIn, {a, b} \subseteq Nat, {a, b} # {}
<1> QED  BY <1>1

\* Where position p is: in a cell of a block of a cluster of the file.
LEMMA Position ==
  ASSUME NEW p \in Nat
  PROVE  /\ p = BlockLen * (p \div BlockLen) + (p % BlockLen)
         /\ p \div BlockLen \in Nat /\ p % BlockLen \in 0..(BlockLen - 1)
         /\ p \div BlockLen = blocksPerCluster * (p \div ClusterLen) + blockOfCluster(p)
         /\ p \div ClusterLen \in Nat /\ blockOfCluster(p) \in 0..(blocksPerCluster - 1)
<1> DEFINE L == BlockLen
           M == blocksPerCluster
           x == p \div L
           o == p % L
           y == x \div M
           j == x % M
           r == j * L + o
<1>1. L \in Nat \ {0} /\ M \in Nat \ {0}  BY GeometryAssumption
<1> HIDE DEF L, M
<1>2. x \in Nat /\ o \in 0..(L - 1) /\ p = L * x + o  BY <1>1
<1> HIDE DEF x, o
<1>3. y \in Nat /\ j \in 0..(M - 1) /\ x = M * y + j  BY <1>1, <1>2
<1> HIDE DEF y, j
<1>4. L * M \in Nat \ {0}  BY <1>1
<1>5. r \in 0..(L * M - 1)
  <2>1. j * L \in Nat /\ (M - 1 - j) * L \in Nat  BY <1>1, <1>3
  <2>2. (M - 1 - j) * L = L * M - L - j * L  BY <1>1, <1>3
  <2> DEFINE P == L * M
             Q == j * L
  <2>3. P - L - Q >= 0 /\ Q \in Nat /\ P \in Nat  BY <1>4, <2>1, <2>2
  <2> HIDE DEF P, Q
  <2>4. Q + o >= 0 /\ Q + o <= P - 1 /\ Q + o \in Int  BY <1>1, <1>2, <2>3
  <2> QED  BY <2>4, <2>3 DEF P, Q
<1>6. p = y * (L * M) + r
  <2>1. L * x = L * (M * y) + L * j  BY <1>1, <1>3
  <2>2. L * (M * y) = y * (L * M) /\ L * j = j * L  BY <1>1, <1>3
  <2>3. y * (L * M) \in Nat /\ j * L \in Nat  BY <1>1, <1>3
  <2> QED  BY <1>2, <2>1, <2>2, <2>3
<1> HIDE DEF r
<1>7. p \div (L * M) = y  BY <1>3, <1>4, <1>5, <1>6, DivUnique
<1>8. ClusterLen = L * M  BY DEF ClusterLen, L, M
<1> QED  BY <1>2, <1>3, <1>7, <1>8 DEF blockOfCluster, x, o, y, j, L, M

\* The numbers the layout of a volume is computed from.
LEMMA Lengths0 ==
  /\ BlockLen \in Nat \ {0} /\ blocksPerCluster \in Nat \ {0} /\ ClusterLen \in Nat \ {0}
  /\ clusterCount \in Nat \ {0} /\ LastCluster = clusterCount + 1
BY GeometryAssumption DEF ClusterLen, LastCluster

\* Below r clusters of cells, a position is in one of the first r clusters.
LEMMA ClusterOf ==
  ASSUME NEW p \in Nat, NEW r \in Nat
  PROVE  p < ClusterLen * r <=> p \div ClusterLen < r
<1> DEFINE C == ClusterLen
           y == p \div C
           o == p % C
<1>1. C \in Nat \ {0}  BY Lengths0
<1> HIDE DEF C
<1>2. y \in Nat /\ o \in 0..(C - 1) /\ p = C * y + o  BY <1>1
<1> HIDE DEF y, o
<1>3. ASSUME y < r PROVE p < C * r
  <2>1. C * (r - 1 - y) \in Nat /\ C * (r - 1 - y) = C * r - C - C * y  BY <1>1, <1>2, <1>3
  <2>2. C * y \in Nat /\ C * r \in Nat  BY <1>1, <1>2
  <2> QED  BY <1>1, <1>2, <2>1, <2>2
<1>4. ASSUME y >= r PROVE p >= C * r
  <2>1. C * (y - r) \in Nat /\ C * (y - r) = C * y - C * r  BY <1>1, <1>2, <1>4
  <2>2. C * y \in Nat /\ C * r \in Nat  BY <1>1, <1>2
  <2> QED  BY <1>2, <2>1, <2>2
<1>5. p < C * r <=> y < r
  <2>1. C * r \in Nat  BY <1>1
  <2> QED  BY <1>2, <1>3, <1>4, <2>1
<1> QED  BY <1>5 DEF y, C

\* The position before p is in the same cluster, unless p is at the start of one.
LEMMA PreviousCluster ==
  ASSUME NEW p \in Nat \ {0}
  PROVE  /\ (p - 1) \div ClusterLen \in Nat
         /\ p % ClusterLen # 0 => p \div ClusterLen = (p - 1) \div ClusterLen
         /\ p % ClusterLen = 0 => p \div ClusterLen = (p - 1) \div ClusterLen + 1
<1> DEFINE C == ClusterLen
           y == p \div C
           o == p % C
<1>1. C \in Nat \ {0}  BY Lengths0
<1> HIDE DEF C
<1>2. y \in Nat /\ o \in 0..(C - 1) /\ p = C * y + o  BY <1>1
<1>3. y * C \in Nat /\ p = y * C + o  BY <1>1, <1>2
<1> HIDE DEF y, o
<1>4. CASE o # 0
  <2>1. p - 1 = y * C + (o - 1) /\ o - 1 \in 0..(C - 1)
    <3> DEFINE P == y * C
    <3>1. P \in Nat /\ p = P + o  BY <1>3
    <3> HIDE DEF P
    <3>2. p - 1 = P + (o - 1) /\ o - 1 \in 0..(C - 1)  BY <1>1, <1>2, <1>4, <3>1
    <3> QED  BY <3>2 DEF P
  <2>2. (p - 1) \div C = y  BY <1>1, <1>2, <2>1, DivUnique
  <2> QED  BY <1>2, <1>4, <2>2 DEF y, o, C
<1>5. CASE o = 0
  <2>1. p - 1 = (y - 1) * C + (C - 1) /\ C - 1 \in 0..(C - 1)
    <3>1. (y - 1) * C = y * C - C  BY <1>1, <1>2
    <3> QED  BY <1>1, <1>2, <1>3, <1>5, <3>1
  <2>2. (p - 1) \div C = y - 1  BY <1>1, <1>2, <2>1, DivUnique
  <2>3. y # 0
    <3>1. y = 0 => C * y = 0  BY <1>1
    <3> QED  BY <1>2, <1>5, <3>1
  <2>4. y - 1 \in Nat /\ y = (y - 1) + 1  BY <1>2, <2>3
  <2> QED  BY <1>5, <2>2, <2>4 DEF y, o, C
<1> QED  BY <1>4, <1>5
-----------------------------------------------------------------------------
(***** the regions of the volume *****)

\* The regions of a card.
FirstFat  == 1..blocksPerFat
SecondFat == IF fatCount = 2 THEN (blocksPerFat + 1)..(2 * blocksPerFat) ELSE {}
Data      == dataStartBlock..(dataStartBlock + clusterCount * blocksPerCluster - 1)
Known     == FirstFat \cup {rootDirStart} \cup Data     \* blocks the cache may hold

\* The regions lie one after the other, and apart.
LEMMA Regions ==
  /\ blocksPerFat \in Nat \ {0} /\ rootDirStart \in Nat /\ dataStartBlock = rootDirStart + 1
  /\ rootDirStart = IF fatCount = 2 THEN 2 * blocksPerFat + 1 ELSE blocksPerFat + 1
  /\ Blocks = Known \cup SecondFat /\ Known \cap SecondFat = {} /\ Known \subseteq Nat \ {0}
  /\ rootDirStart \notin FirstFat \cup Data /\ FirstFat \cap Data = {}
  /\ NoBlock \notin Known /\ NoBlock \notin Blocks
<1>1. clusterCount * blocksPerCluster \in Nat  BY GeometryAssumption
<1>2. (clusterCount + 1) \div EntriesPerBlock \in Nat  BY GeometryAssumption
<1>3. fatCount = 1 \/ fatCount = 2  BY GeometryAssumption
<1>4. blocksPerFat \in Nat \ {0}  BY <1>2 DEF blocksPerFat
<1> DEFINE n == clusterCount * blocksPerCluster
<1>5. n \in Nat  BY <1>1
<1> HIDE DEF n
<1>6. /\ dataStartBlock = rootDirStart + 1
      /\ rootDirStart = IF fatCount = 2 THEN 2 * blocksPerFat + 1 ELSE blocksPerFat + 1
      /\ Blocks = 1..(dataStartBlock + n - 1) /\ Data = dataStartBlock..(dataStartBlock + n - 1)
  BY <1>3, <1>4 DEF dataStartBlock, rootDirStart, fatStartBlock, Blocks, Data, n
<1> HIDE DEF Blocks, Data, dataStartBlock, rootDirStart, blocksPerFat
<1>7. rootDirStart \in Nat  BY <1>4, <1>6
<1>8. Blocks = Known \cup SecondFat
  BY <1>3, <1>4, <1>5, <1>6, <1>7 DEF Known, FirstFat, SecondFat
<1>9. Known \cap SecondFat = {} /\ Known \subseteq Nat \ {0}
  BY <1>4, <1>5, <1>6, <1>7 DEF Known, FirstFat, SecondFat
<1>10. rootDirStart \notin FirstFat \cup Data /\ FirstFat \cap Data = {}
  BY <1>3, <1>4, <1>5, <1>6, <1>7 DEF FirstFat
<1> QED  BY <1>4, <1>6, <1>7, <1>8, <1>9, <1>10 DEF NoBlock, Blocks

\* The block of a cluster's entry is in the first FAT, and entry and block make the cluster.
LEMMA FatBlocks ==
  /\ \A c \in 0..LastCluster : FatBlock(c) \in FirstFat /\ c % EntriesPerBlock \in 0..(EntriesPerBlock - 1)
  /\ \A c, d \in 0..LastCluster :
        FatBlock(c) = FatBlock(d) /\ c % EntriesPerBlock = d % EntriesPerBlock => c = d
<1> DEFINE E == EntriesPerBlock
           q(c) == c \div E
           r(c) == c % E
           N == LastCluster
<1>1. E \in Nat \ {0} /\ N \in Nat  BY GeometryAssumption DEF LastCluster
<1> HIDE DEF E, N
<1>2. \A c \in Nat : q(c) \in Nat /\ r(c) \in 0..(E - 1) /\ c = E * q(c) + r(c)  BY <1>1
<1> HIDE DEF q, r
<1>3. \A c \in 0..N : FatBlock(c) = q(c) + 1  BY <1>1, <1>2 DEF FatBlock, fatStartBlock, q, E
<1>4. blocksPerFat = q(N) + 1  BY DEF blocksPerFat, q, E, N, LastCluster
<1>5. \A c \in 0..N : q(c) <= q(N)
  <2> SUFFICES ASSUME NEW c \in 0..N, q(c) >= q(N) + 1 PROVE FALSE  BY <1>1, <1>2
  <2> DEFINE d == q(c) - q(N) - 1
  <2>0. c \in Nat /\ q(c) \in Nat /\ q(N) \in Nat  BY <1>1, <1>2
  <2>1. d \in Nat /\ q(c) = q(N) + 1 + d /\ q(N) \in Nat  BY <2>0
  <2> HIDE DEF d
  <2>2. E * q(c) = E * q(N) + E + E * d /\ E * d \in Nat /\ E * q(N) \in Nat  BY <1>1, <2>1
  <2>3. c = E * q(c) + r(c) /\ N = E * q(N) + r(N) /\ r(c) \in 0..(E - 1) /\ r(N) \in 0..(E - 1)
    BY <1>1, <1>2
  <2> QED  BY <1>1, <2>2, <2>3
<1>6. \A c \in 0..N : FatBlock(c) \in FirstFat /\ r(c) \in 0..(E - 1)
  BY <1>1, <1>2, <1>3, <1>4, <1>5 DEF FirstFat
<1>7. \A c, d \in 0..N : FatBlock(c) = FatBlock(d) /\ r(c) = r(d) => c = d
  <2> SUFFICES ASSUME NEW c \in 0..N, NEW d \in 0..N, FatBlock(c) = FatBlock(d), r(c) = r(d) PROVE c = d
    OBVIOUS
  <2>1. c \in Nat /\ d \in Nat  BY <1>1
  <2>2. q(c) = q(d)  BY <1>2, <1>3, <2>1
  <2> QED  BY <1>2, <2>1, <2>2
<1> QED  BY <1>6, <1>7 DEF r, E, N

\* Clusters have blocks of their own.
LEMMA ClusterBlocks ==
  /\ \A c \in Clusters, i \in 0..(blocksPerCluster - 1) : clusterStartBlock(c) + i \in Data
  /\ \A c, d \in Clusters, i, j \in 0..(blocksPerCluster - 1) :
        clusterStartBlock(c) + i = clusterStartBlock(d) + j => c = d /\ i = j
<1> DEFINE M == blocksPerCluster
           N == clusterCount
           D == dataStartBlock
           P(c) == (c - 2) * M
<1>1. M \in Nat \ {0} /\ N \in Nat \ {0} /\ D \in Nat /\ Clusters = 2..(N + 1)
  BY GeometryAssumption, Regions DEF Clusters, LastCluster
<1>2. \A c \in Clusters : clusterStartBlock(c) = D + P(c)  BY DEF clusterStartBlock
<1>3. Data = D..(D + N * M - 1)  BY DEF Data
<1> HIDE DEF M, N, D
<1>4. ASSUME NEW c \in Clusters PROVE P(c) \in Nat /\ P(c) <= N * M - M /\ N * M \in Nat
  <2>1. (c - 2) * M \in Nat /\ (N + 1 - c) * M \in Nat  BY <1>1
  <2>2. (N + 1 - c) * M = N * M - M - (c - 2) * M  BY <1>1
  <2>3. N * M \in Nat  BY <1>1
  <2> DEFINE Q == (c - 2) * M
             R == N * M
  <2>4. Q \in Nat /\ R - M - Q \in Nat /\ R \in Nat  BY <2>1, <2>2, <2>3
  <2> HIDE DEF Q, R
  <2>5. Q <= R - M  BY <1>1, <2>4
  <2> QED  BY <2>4, <2>5 DEF Q, R
<1>5. \A c, d \in Clusters, i, j \in 0..(M - 1) : P(c) + i = P(d) + j => c = d /\ i = j
  <2> SUFFICES ASSUME NEW c \in Clusters, NEW d \in Clusters, NEW i \in 0..(M - 1), NEW j \in 0..(M - 1),
                      P(c) + i = P(d) + j
               PROVE  c = d /\ i = j
    OBVIOUS
  <2>1. c - 2 \in Int /\ d - 2 \in Int  BY <1>1
  <2>2. (P(c) + i) \div M = c - 2 /\ (P(d) + j) \div M = d - 2  BY <1>1, <2>1, DivUnique
  <2>3. c = d  BY <1>1, <2>2
  <2>4. P(c) \in Int  BY <1>1
  <2> HIDE DEF P
  <2> QED  BY <1>1, <2>3, <2>4
<1> HIDE DEF P
<1>6. \A c \in Clusters, i \in 0..(M - 1) : D + P(c) + i \in Data
  <2> SUFFICES ASSUME NEW c \in Clusters, NEW i \in 0..(M - 1) PROVE D + P(c) + i \in Data  OBVIOUS
  <2> DEFINE R == N * M
  <2>1. P(c) \in Nat /\ P(c) <= R - M /\ R \in Nat /\ Data = D..(D + R - 1)  BY <1>3, <1>4
  <2> HIDE DEF R
  <2> QED  BY <1>1, <2>1
<1>7. \A c \in Clusters : P(c) \in Nat  BY <1>4
<1> QED
  <2>1. \A c \in Clusters, i \in 0..(M - 1) : clusterStartBlock(c) + i \in Data
    BY <1>1, <1>2, <1>6
  <2>2. \A c, d \in Clusters, i, j \in 0..(M - 1) :
          clusterStartBlock(c) + i = clusterStartBlock(d) + j => c = d /\ i = j
    <3> SUFFICES ASSUME NEW c \in Clusters, NEW d \in Clusters, NEW i \in 0..(M - 1), NEW j \in 0..(M - 1),
                        clusterStartBlock(c) + i = clusterStartBlock(d) + j
                 PROVE  c = d /\ i = j
      OBVIOUS
    <3>1. P(c) \in Nat /\ P(d) \in Nat /\ i \in Int /\ j \in Int /\ D \in Nat  BY <1>1, <1>7
    <3>2. D + P(c) + i = D + P(d) + j  BY <1>2
    <3>3. P(c) + i = P(d) + j  BY <3>1, <3>2
    <3> QED  BY <1>5, <3>3
  <2> QED  BY <2>1, <2>2 DEF M
-----------------------------------------------------------------------------
(***** the cache, on a card that does not fail *****)

\* The record of SdVolume.
Shape(s) ==
    /\ DOMAIN s = {"card", "block", "dirty", "mirror", "data", "start", "f", "err",
                   "left", "lands", "next", "got"}
    /\ DOMAIN s.card = Blocks
    /\ DOMAIN s.f = {"open", "name", "index", "write", "sync", "append", "first",
                     "size", "cur", "pos", "dirty"}

\* A clean cache holds what the card does; a dirty block of the FAT has its mirror
\* pending, and on the card the copies agree.
Sane(s) ==
    /\ Shape(s) /\ s.dirty \in BOOLEAN /\ s.left \in Int /\ s.left < 0
    /\ s.block \in Known \cup {NoBlock}
    /\ ~s.dirty /\ s.block # NoBlock => s.data = s.card[s.block]
    /\ s.mirror = IF s.dirty /\ fatCount = 2 /\ s.block \in FirstFat THEN s.block + blocksPerFat ELSE 0
    /\ fatCount = 2 => \A b \in FirstFat : s.card[b + blocksPerFat] = s.card[b]

\* What is dirty has a block to go to.  (A full block written past the cache takes it away.)
Live(s) == ~(s.dirty /\ s.block = NoBlock)

\* The blocks as the library sees them.
ViewOf(s, b) == IF b = s.block THEN s.data ELSE s.card[b]
\* The cache and the card, read together, say the same.
SameView(s, t) == \A b \in Known : ViewOf(t, b) = ViewOf(s, b)

\* What a use of the cache leaves alone.
Rest(s, t) == t.f = s.f /\ t.start = s.start /\ t.next = s.next /\ t.got = s.got

\* writeBlock() writes the block it is told to.
LEMMA WriteBlock ==
  ASSUME NEW s, Shape(s), s.left \in Int, s.left < 0, Ok(s), NEW b \in Blocks, NEW x
  PROVE  LET t == writeBlock(s, b, x)
         IN  /\ Shape(t) /\ Rest(s, t) /\ t.left \in Int /\ t.left < 0
             /\ t.block = s.block /\ t.data = s.data /\ t.dirty = s.dirty /\ t.mirror = s.mirror
             /\ \A c \in Blocks : t.card[c] = IF c = b THEN x ELSE s.card[c]
             /\ Ok(t)
<1> DEFINE t == writeBlock(s, b, x)
<1>1. t = [s EXCEPT !.card[b] = x, !.left = @ - 1]  BY DEF writeBlock
<1>2. /\ DOMAIN t = DOMAIN s /\ DOMAIN t.card = DOMAIN s.card
      /\ t.left = s.left - 1 /\ t.err = s.err /\ t.f = s.f /\ Rest(s, t)
      /\ t.block = s.block /\ t.data = s.data /\ t.dirty = s.dirty /\ t.mirror = s.mirror
      /\ \A c \in Blocks : t.card[c] = IF c = b THEN x ELSE s.card[c]
  BY <1>1 DEF Shape, Rest
<1> HIDE DEF t
<1>3. Shape(t)  BY <1>2 DEF Shape
<1>4. Ok(t)  BY <1>2 DEF Ok
<1> QED  BY <1>2, <1>3, <1>4 DEF t

\* cacheFlush() changes what is on the card, not what the volume reads.
LEMMA Flush ==
  ASSUME NEW s, Sane(s), Ok(s)
  PROVE  LET t == cacheFlush(s)
         IN  /\ Sane(t) /\ Rest(s, t) /\ SameView(s, t)
             /\ t.block = s.block /\ t.data = s.data
             /\ Live(s) => Ok(t) /\ ~t.dirty
             /\ ~Live(s) => t.err = "address"
<1> DEFINE a == writeBlock(s, s.block, s.data)
           b == IF a.mirror = 0 THEN a ELSE writeBlock(a, a.mirror, a.data)
           c == [b EXCEPT !.mirror = 0, !.dirty = FALSE]
           t == cacheFlush(s)
<1>0. s.block \in Known \cup {NoBlock} /\ NoBlock \notin Known /\ Known \subseteq Blocks
  BY Regions DEF Sane
<1>1. CASE ~s.dirty  BY <1>1 DEF cacheFlush, Rest, SameView, Ok, Live
<1>2. CASE s.dirty /\ s.block = NoBlock
  <2>1. t = Fail(s, "address")  BY <1>2, Regions DEF cacheFlush, Then, writeBlock, Ok, Fail
  <2> DEFINE u == Fail(s, "address")
  <2>2. Shape(u) /\ Rest(s, u) /\ u.card = s.card /\ u.block = s.block /\ u.data = s.data
        /\ u.dirty = s.dirty /\ u.mirror = s.mirror /\ u.left = s.left /\ u.err = "address"
    BY DEF Sane, Shape, Rest, Fail
  <2> HIDE DEF u
  <2>3. Sane(u)  BY <2>2 DEF Sane
  <2>4. SameView(s, u)  BY <2>2 DEF SameView, ViewOf
  <2> QED  BY <1>2, <2>1, <2>2, <2>3, <2>4 DEF Live, u
<1>3. CASE s.dirty /\ s.block # NoBlock
  <2>1. t = IF Ok(a) THEN IF Ok(b) THEN c ELSE b ELSE a  BY <1>3 DEF cacheFlush, Then
  <2>2. s.block \in Blocks /\ s.block \in Known  BY <1>0, <1>3
  <2>3. /\ Shape(a) /\ Rest(s, a) /\ a.left \in Int /\ a.left < 0
        /\ a.block = s.block /\ a.data = s.data /\ a.dirty = s.dirty /\ a.mirror = s.mirror
        /\ \A i \in Blocks : a.card[i] = IF i = s.block THEN s.data ELSE s.card[i]
        /\ Ok(a)
    BY <2>2, WriteBlock DEF Sane
  <2> HIDE DEF a
  <2>4. s.mirror # 0 => s.mirror \in Blocks /\ s.mirror \notin Known /\ s.mirror = s.block + blocksPerFat
    BY Regions DEF Sane, FirstFat, SecondFat
  <2>5. /\ Shape(b) /\ Rest(s, b) /\ b.left \in Int /\ b.left < 0
        /\ b.block = s.block /\ b.data = s.data
        /\ \A i \in Blocks : b.card[i] = IF i = s.mirror THEN s.data ELSE a.card[i]
        /\ Ok(b)
    <3>1. CASE a.mirror = 0
      <4>1. 0 \notin Blocks  BY Regions DEF Blocks
      <4> QED  BY <2>3, <3>1, <4>1
    <3>2. CASE a.mirror # 0  BY <2>3, <2>4, <3>2, WriteBlock DEF Rest
    <3> QED  BY <3>1, <3>2
  <2> HIDE DEF b
  <2>6. /\ Shape(c) /\ Rest(s, c) /\ c.block = s.block /\ c.data = s.data /\ c.dirty = FALSE
        /\ c.left = b.left /\ c.mirror = 0 /\ c.card = b.card /\ c.err = b.err
    BY <2>5 DEF Shape, Rest
  <2> HIDE DEF c
  <2>7. \A i \in Blocks : c.card[i] = IF i \in {s.block, s.mirror} THEN s.data ELSE s.card[i]
    BY <2>3, <2>5, <2>6
  <2>8. fatCount = 2 => \A i \in FirstFat : c.card[i + blocksPerFat] = c.card[i]
    <3> SUFFICES ASSUME fatCount = 2, NEW i \in FirstFat PROVE c.card[i + blocksPerFat] = c.card[i]
      OBVIOUS
    <3>1. i \in Known /\ i \in Blocks /\ i + blocksPerFat \in SecondFat /\ i + blocksPerFat \in Blocks
          /\ i + blocksPerFat \notin Known
      BY Regions DEF FirstFat, SecondFat, Known
    <3>2. s.card[i + blocksPerFat] = s.card[i]  BY DEF Sane
    <3>3. CASE i = s.block
      <4>1. s.mirror = i + blocksPerFat  BY <1>3, <3>3 DEF Sane
      <4> QED  BY <2>7, <3>1, <3>3, <4>1
    <3>4. CASE i # s.block
      <4>1. i + blocksPerFat # s.block  BY <2>2, <3>1
      <4>2. s.mirror # i + blocksPerFat
        <5> SUFFICES ASSUME s.mirror = i + blocksPerFat PROVE FALSE  OBVIOUS
        <5>1. s.mirror # 0 /\ i \in Int /\ blocksPerFat \in Int  BY Regions DEF FirstFat
        <5>2. Known \subseteq Int  BY Regions
        <5>3. s.block \in Int  BY <2>2, <5>2
        <5> QED  BY <2>4, <3>4, <5>1, <5>3
      <4>3. s.mirror # i  BY <2>4, <3>1, Regions
      <4> QED  BY <2>7, <3>1, <3>2, <3>4, <4>1, <4>2, <4>3
    <3> QED  BY <3>3, <3>4
  <2>9. c.card[s.block] = s.data  BY <2>2, <2>7
  <2>10. Sane(c)  BY <2>2, <2>5, <2>6, <2>8, <2>9 DEF Sane
  <2>11. SameView(s, c)
    <3> SUFFICES ASSUME NEW i \in Known PROVE ViewOf(c, i) = ViewOf(s, i)  BY DEF SameView
    <3>1. i \in Blocks /\ i # s.mirror  BY <1>0, <2>4, Regions
    <3> QED  BY <2>6, <2>7, <3>1 DEF ViewOf
  <2>12. t = c  BY <2>1, <2>3, <2>5
  <2> QED  BY <1>3, <2>5, <2>6, <2>10, <2>11, <2>12 DEF Live, Ok
<1> QED  BY <1>1, <1>2, <1>3 DEF Sane

\* Fields that are none of the cache's.
LEMMA Alike ==
  ASSUME NEW s, NEW t, Sane(s), Shape(t), t.left = s.left, t.card = s.card, t.block = s.block,
         t.data = s.data, t.dirty = s.dirty, t.mirror = s.mirror
  PROVE  Sane(t) /\ SameView(s, t) /\ (Live(s) => Live(t))
<1>1. Sane(t)  BY DEF Sane
<1>2. SameView(s, t)  BY DEF SameView, ViewOf
<1> QED  BY <1>1, <1>2 DEF Live

\* A step that fails has changed nothing the volume reads.
LEMMA FailKeeps ==
  ASSUME NEW s, Sane(s), NEW why
  PROVE  LET t == Fail(s, why)
         IN  Sane(t) /\ SameView(s, t) /\ Rest(s, t) /\ t.err = why /\ (Live(s) => Live(t))
<1> DEFINE t == Fail(s, why)
<1>1. /\ Shape(t) /\ t.left = s.left /\ t.card = s.card /\ t.block = s.block
      /\ t.data = s.data /\ t.dirty = s.dirty /\ t.mirror = s.mirror /\ Rest(s, t) /\ t.err = why
  BY DEF Sane, Shape, Fail, Rest
<1> HIDE DEF t
<1> QED  BY <1>1, Alike DEF t

\* Reading the same is transitive.
LEMMA SameViewTrans ==
  ASSUME NEW s, NEW t, NEW u, SameView(s, t), SameView(t, u)
  PROVE  SameView(s, u)
BY DEF SameView

\* cacheRawBlock() brings in the block it is asked for.
LEMMA RawBlock ==
  ASSUME NEW s, Sane(s), Ok(s), NEW b \in Known, NEW w \in BOOLEAN, w => b \notin FirstFat
  PROVE  LET t == cacheRawBlock(s, b, w)
         IN  /\ Sane(t) /\ Rest(s, t) /\ SameView(s, t)
             /\ Live(s) => Ok(t) /\ Live(t) /\ t.block = b /\ (w => t.dirty)
             /\ ~Live(s) => t.err = "address"
<1> DEFINE a == cacheFlush(s)
           c == Access(a, b)
           d == [c EXCEPT !.data = c.card[b], !.block = b]
           e == IF s.block = b THEN s ELSE IF Ok(a) THEN IF Ok(c) THEN d ELSE c ELSE a
           g == [e EXCEPT !.dirty = @ \/ w]
           t == cacheRawBlock(s, b, w)
<1>0. b \in Blocks /\ b # NoBlock  BY Regions
<1>1. t = IF Ok(e) THEN g ELSE e  BY DEF cacheRawBlock, Then
<1>2. /\ Sane(a) /\ Rest(s, a) /\ SameView(s, a)
      /\ a.block = s.block /\ a.data = s.data
      /\ Live(s) => Ok(a) /\ ~a.dirty
      /\ ~Live(s) => a.err = "address"
  BY Flush
<1> HIDE DEF a
<1>3. /\ Sane(e) /\ Rest(s, e) /\ SameView(s, e)
      /\ Live(s) => Ok(e) /\ e.block = b
      /\ ~Live(s) => e.err = "address"
  <2>1. CASE s.block = b  BY <1>0, <2>1 DEF Rest, SameView, Live
  <2>2. CASE s.block # b /\ ~Live(s)  BY <1>2, <2>2 DEF Ok
  <2>3. CASE s.block # b /\ Live(s)
    <3>1. /\ Shape(c) /\ Rest(a, c) /\ c.card = a.card /\ c.block = a.block /\ c.data = a.data
          /\ c.dirty = FALSE /\ c.mirror = 0 /\ c.left \in Int /\ c.left < 0 /\ Ok(c)
      BY <1>0, <1>2, <2>3 DEF Sane, Shape, Rest, Access, Fail, Ok
    <3> HIDE DEF c
    <3>2. /\ Shape(d) /\ Rest(c, d) /\ d.card = c.card /\ d.block = b /\ d.data = c.card[b]
          /\ d.dirty = FALSE /\ d.mirror = 0 /\ d.left = c.left /\ Ok(d)
      BY <3>1 DEF Shape, Rest, Ok
    <3> HIDE DEF d
    <3>3. Sane(d)  BY <1>0, <1>2, <3>1, <3>2 DEF Sane
    <3>4. SameView(a, d)
      <4> SUFFICES ASSUME NEW i \in Known PROVE ViewOf(d, i) = ViewOf(a, i)  BY DEF SameView
      <4>1. a.block = i => a.data = a.card[i]  BY <1>2, <2>3, Regions DEF Sane
      <4> QED  BY <3>1, <3>2, <4>1 DEF ViewOf
    <3>5. SameView(s, d)  BY <1>2, <3>4, SameViewTrans
    <3>6. e = d  BY <1>2, <2>3, <3>1
    <3> QED  BY <1>2, <2>3, <3>1, <3>2, <3>3, <3>5, <3>6 DEF Rest
  <2> QED  BY <2>1, <2>2, <2>3
<1> HIDE DEF e
<1>4. CASE ~Live(s)  BY <1>1, <1>3, <1>4 DEF Ok
<1>5. CASE Live(s)
  <2>1. /\ Shape(g) /\ Rest(e, g) /\ g.card = e.card /\ g.block = e.block /\ g.data = e.data
        /\ g.dirty = (e.dirty \/ w) /\ g.mirror = e.mirror /\ g.left = e.left /\ g.err = e.err
    BY <1>3 DEF Sane, Shape, Rest
  <2>2. t = g  BY <1>1, <1>3, <1>5
  <2> HIDE DEF g
  <2>3. e.dirty \in BOOLEAN  BY <1>3 DEF Sane
  <2>4. CASE w
    <3>1. g.dirty = TRUE  BY <2>1, <2>4, Zenon
    <3>2. g.mirror = 0 /\ g.block \notin FirstFat  BY <1>3, <1>5, <2>1, <2>4 DEF Sane
    <3>3. Sane(g)  BY <1>3, <1>5, <2>1, <3>1, <3>2 DEF Sane
    <3>4. SameView(s, g)  BY <1>3, <2>1 DEF SameView, ViewOf
    <3>5. Live(g)  BY <1>0, <1>3, <1>5, <2>1 DEF Live
    <3> QED  BY <1>3, <1>5, <2>1, <2>2, <3>1, <3>3, <3>4, <3>5 DEF Rest, Ok
  <2>5. CASE ~w
    <3>1. g.dirty = e.dirty  BY <2>1, <2>3, <2>5, Zenon
    <3>2. Sane(g) /\ SameView(e, g)  BY <1>3, <2>1, <3>1, Alike
    <3>3. SameView(s, g)  BY <1>3, <3>2, SameViewTrans
    <3>4. Live(g)  BY <1>0, <1>3, <1>5, <2>1 DEF Live
    <3> QED  BY <1>3, <1>5, <2>1, <2>2, <2>5, <3>2, <3>3, <3>4 DEF Rest, Ok
  <2> QED  BY <2>4, <2>5
<1> QED  BY <1>4, <1>5
-----------------------------------------------------------------------------
(***** the files, and the invariant *****)

\* Whose clusters are whose: ch[n][0..len[n]-1] are the clusters of file n, in
\* order, and size[n] is its size.
Ghost == [ch : [Name -> [Nat -> Clusters]], len : [Name -> Nat], size : [Name -> Nat]]

\* Where a file of the ghost begins, and the block of its position p.
FirstOf(g, n)    == IF g.len[n] = 0 THEN 0 ELSE g.ch[n][0]
BlockAt(g, n, p) == clusterStartBlock(g.ch[n][p \div ClusterLen]) + blockOfCluster(p)

\* What is read of the FAT, of the directory and of a file.
FatOf(s, c)        == ViewOf(s, FatBlock(c))[c % EntriesPerBlock]
DirOf(s)           == ViewOf(s, rootDirStart)
CellOf(s, g, n, p) == ViewOf(s, BlockAt(g, n, p))[(p % BlockLen) + 1]

Cell == (Name \X Nat) \cup {Junk}

\* Every block of a region has the shape of its region.
FatFormed(s)  == \A b \in FirstFat : DOMAIN ViewOf(s, b) = 0..(EntriesPerBlock - 1)
DataFormed(s) == \A b \in Data : ViewOf(s, b) \in [1..BlockLen -> Cell]
DirFormed(s)  ==
    /\ DOMAIN DirOf(s) = 1..Slots
    /\ \A i \in 1..Slots : /\ DOMAIN DirOf(s)[i] = {"name", "first", "size"}
                           /\ DirOf(s)[i].name \in Name \cup {NoName}
    /\ \A i, j \in 1..Slots : DirOf(s)[i].name = DirOf(s)[j].name /\ i # j => DirOf(s)[i].name = NoName

\* The chains have no cluster in common.
Disjoint(g) ==
    \A m, n \in Name : \A i \in 0..(g.len[m] - 1), j \in 0..(g.len[n] - 1) :
        g.ch[m][i] = g.ch[n][j] => m = n /\ i = j

\* The FAT says what the chains are.
Linked(s, g) ==
    \A n \in Name : \A i \in 0..(g.len[n] - 1) :
        FatOf(s, g.ch[n][i]) = IF i + 1 < g.len[n] THEN g.ch[n][i + 1] ELSE EOC

\* They hold the files.
Held(s, g) ==
    \A n \in Name : /\ g.size[n] <= ClusterLen * g.len[n]
                    /\ \A p \in 0..(g.size[n] - 1) : CellOf(s, g, n, p) = <<n, p>>

\* The directory knows them, but for the files that are open.
Listed(s, g, names) ==
    /\ \A i \in 1..Slots :
          DirOf(s)[i].name \in Name \ names =>
              /\ DirOf(s)[i].first = FirstOf(g, DirOf(s)[i].name)
              /\ DirOf(s)[i].size = g.size[DirOf(s)[i].name]
    /\ \A n \in Name : (\A i \in 1..Slots : DirOf(s)[i].name # n) => g.len[n] = 0

\* An open file is a stored one; when it is not dirty, its entry says what it does.
Opened(s, g, f) ==
    /\ f.open => /\ f.name \in Name /\ f.index \in 1..Slots /\ DirOf(s)[f.index].name = f.name
                 /\ f.first = FirstOf(g, f.name) /\ f.size = g.size[f.name]
                 /\ ~f.dirty => /\ DirOf(s)[f.index].first = f.first
                                /\ DirOf(s)[f.index].size = f.size
    /\ ~f.open => f = Closed

\* Its position is in the chain, or nowhere while it is 0 ...
At(g, f) == /\ f.pos \in 0..(ClusterLen * g.len[f.name])
            /\ f.cur = IF f.pos = 0 THEN 0 ELSE g.ch[f.name][(f.pos - 1) \div ClusterLen]

\* ... unless a call has failed half-way.
Astray(g, f) == f.pos \in 0..(ClusterLen * g.len[f.name]) /\ f.cur \in Clusters \cup {0}

\* A volume is formed, and its FAT, its directory and its contents are those of g.
Formed(s)    == FatFormed(s) /\ DataFormed(s) /\ DirFormed(s)
Volume(s, g) == Formed(s) /\ Disjoint(g) /\ Linked(s, g) /\ Held(s, g)

\* The volume, while the file s.f is in use and o is, perhaps, open too.
Sound(s, g, o) ==
    /\ g \in Ghost /\ s.start \in 2..(LastCluster + 1)
    /\ Volume(s, g) /\ Listed(s, g, {s.f.name, o.name})
    /\ Opened(s, g, s.f) /\ Opened(s, g, o)
    /\ s.f.open /\ o.open => s.f.name # o.name

\* Between two calls, ready for the next.
Ready(s) == [s EXCEPT !.left = Plenty]

\* A state between two calls.
Settled(s, g, fail) ==
    /\ Sane(s) /\ Sound(s, g, Closed)
    /\ s.f.open => /\ Astray(g, s.f)
                   /\ ~fail => At(g, s.f) /\ s.f.pos <= s.f.size
-----------------------------------------------------------------------------
(***** the FAT *****)

\* A call that fails at its first use of the cache.
Refused(s, t) == Sane(t) /\ Rest(s, t) /\ SameView(s, t) /\ t.err = "address"
\* A state a call may go on from.
Good(s)       == Sane(s) /\ Ok(s) /\ Live(s)

\* Same blocks but for the FAT's.
SameButFat(s, t) == \A b \in {rootDirStart} \cup Data : ViewOf(t, b) = ViewOf(s, b)

\* What the blocks say of the files does not depend on what the cache holds.
LEMMA SameFat ==
  ASSUME NEW s, NEW t, SameView(s, t)
  PROVE  /\ \A c \in 0..LastCluster : FatOf(t, c) = FatOf(s, c)
         /\ DirOf(t) = DirOf(s) /\ SameButFat(s, t)
         /\ FatFormed(s) => FatFormed(t)
<1>1. FirstFat \subseteq Known /\ rootDirStart \in Known /\ Data \subseteq Known  BY DEF Known
<1> QED  BY <1>1, FatBlocks DEF SameView, FatOf, DirOf, SameButFat, FatFormed

\* fatGet() reads the entry of c.
LEMMA FatGet ==
  ASSUME NEW s, Sane(s), Ok(s), NEW c \in 0..LastCluster
  PROVE  LET t == fatGet(s, c)
         IN  /\ Sane(t) /\ Rest(s, t) /\ SameView(s, t)
             /\ Live(s) => Good(t) /\ Entry(t, c) = FatOf(s, c)
             /\ ~Live(s) => Refused(s, t)
<1> DEFINE t == fatGet(s, c)
<1>1. FatBlock(c) \in Known /\ c <= LastCluster /\ LastCluster \in Int /\ c \in Int
  BY FatBlocks, Lengths0 DEF Known
<1>2. t = cacheRawBlock(s, FatBlock(c), FALSE)
  <2>1. ~(c > LastCluster)  BY <1>1
  <2> QED  BY <2>1, Zenon DEF fatGet
<1>3. /\ Sane(t) /\ Rest(s, t) /\ SameView(s, t)
      /\ Live(s) => Ok(t) /\ Live(t) /\ t.block = FatBlock(c)
      /\ ~Live(s) => t.err = "address"
  <2> DEFINE u == cacheRawBlock(s, FatBlock(c), FALSE)
  <2>1. /\ Sane(u) /\ Rest(s, u) /\ SameView(s, u)
        /\ Live(s) => Ok(u) /\ Live(u) /\ u.block = FatBlock(c)
        /\ ~Live(s) => u.err = "address"
    BY <1>1, RawBlock
  <2> HIDE DEF u
  <2>2. t = u  BY <1>2 DEF u
  <2> HIDE DEF t
  <2> QED  BY <2>1, <2>2
<1> HIDE DEF t
<1>4. Live(s) => t.data = ViewOf(t, FatBlock(c)) /\ ViewOf(t, FatBlock(c)) = ViewOf(s, FatBlock(c))
  BY <1>1, <1>3 DEF SameView, ViewOf
<1>5. Live(s) => Entry(t, c) = FatOf(s, c)  BY <1>4 DEF Entry, FatOf
<1> QED  BY <1>3, <1>5 DEF Good, Refused, t

\* fatPut() writes the entry of c and no other.
LEMMA FatPut ==
  ASSUME NEW s, Sane(s), Ok(s), FatFormed(s), NEW c \in Clusters, NEW v
  PROVE  LET t == fatPut(s, c, v)
         IN  /\ Live(s) => /\ Good(t) /\ Rest(s, t) /\ FatFormed(t) /\ SameButFat(s, t)
                           /\ \A d \in 0..LastCluster : FatOf(t, d) = IF d = c THEN v ELSE FatOf(s, d)
             /\ ~Live(s) => Refused(s, t)
<1> DEFINE b == FatBlock(c)
           k == c % EntriesPerBlock
           u == cacheRawBlock(s, b, FALSE)
           w == [u EXCEPT !.data[k] = v, !.dirty = TRUE,
                          !.mirror = IF fatCount > 1 THEN b + blocksPerFat ELSE @]
           t == fatPut(s, c, v)
<1>0. c \in 0..LastCluster  BY Lengths0 DEF Clusters
<1>1. b \in FirstFat /\ b \in Known /\ k \in 0..(EntriesPerBlock - 1)
  BY <1>0, FatBlocks DEF Known
<1>2. /\ Sane(u) /\ Rest(s, u) /\ SameView(s, u)
      /\ Live(s) => Ok(u) /\ Live(u) /\ u.block = b
      /\ ~Live(s) => u.err = "address"
  BY <1>1, RawBlock
<1>3. t = IF Ok(u) THEN w ELSE u  BY DEF fatPut, Then
<1> HIDE DEF u, t
<1>4. CASE ~Live(s)  BY <1>2, <1>3, <1>4 DEF Ok, Refused, t
<1>5. CASE Live(s)
  <2>1. t = w  BY <1>2, <1>3, <1>5
  <2>2. /\ Shape(w) /\ Rest(u, w) /\ w.card = u.card /\ w.block = b /\ w.dirty = TRUE
        /\ w.left = u.left /\ w.err = u.err
        /\ w.mirror = (IF fatCount > 1 THEN b + blocksPerFat ELSE u.mirror)
        /\ w.data = [u.data EXCEPT ![k] = v]
    BY <1>2, <1>5 DEF Sane, Shape, Rest
  <2> HIDE DEF w
  <2>3. fatCount = 2 \/ fatCount = 1  BY GeometryAssumption
  <2>4. w.mirror = IF fatCount = 2 THEN b + blocksPerFat ELSE 0
    BY <1>2, <1>5, <2>2, <2>3 DEF Sane
  <2>5. Sane(w)  BY <1>1, <1>2, <2>2, <2>3, <2>4 DEF Sane
  <2>6. Good(w)
    <3>1. b # NoBlock  BY <1>1, Regions
    <3> QED  BY <1>2, <1>5, <2>2, <2>5, <3>1 DEF Good, Live, Ok
  <2>7. \A i \in Known : ViewOf(w, i) = IF i = b THEN [ViewOf(s, b) EXCEPT ![k] = v] ELSE ViewOf(s, i)
    BY <1>1, <1>2, <1>5, <2>2 DEF SameView, ViewOf
  <2>8. DOMAIN ViewOf(s, b) = 0..(EntriesPerBlock - 1)  BY <1>1 DEF FatFormed
  <2>9. SameButFat(s, w)
    <3>1. b \notin {rootDirStart} \cup Data  BY <1>1, Regions
    <3> QED  BY <2>7, <3>1 DEF SameButFat, Known
  <2>10. FatFormed(w)
    <3>1. \A i \in FirstFat : DOMAIN ViewOf(s, i) = 0..(EntriesPerBlock - 1)  BY DEF FatFormed
    <3>2. DOMAIN [ViewOf(s, b) EXCEPT ![k] = v] = DOMAIN ViewOf(s, b)  OBVIOUS
    <3> QED  BY <2>7, <2>8, <3>1, <3>2 DEF FatFormed, Known
  <2>11. ASSUME NEW d \in 0..LastCluster PROVE FatOf(w, d) = IF d = c THEN v ELSE FatOf(s, d)
    <3> DEFINE e == FatBlock(d)
               j == d % EntriesPerBlock
    <3>1. e \in Known /\ j \in 0..(EntriesPerBlock - 1) /\ (e = b /\ j = k => d = c)
      BY <1>0, FatBlocks DEF Known
    <3>2. d = c => e = b /\ j = k  OBVIOUS
    <3>3. ViewOf(w, e)[j] = IF e = b /\ j = k THEN v ELSE ViewOf(s, e)[j]
      <4> HIDE DEF e, j, b, k
      <4> QED  BY <2>7, <2>8, <3>1
    <3>4. FatOf(w, d) = ViewOf(w, e)[j] /\ FatOf(s, d) = ViewOf(s, e)[j]  BY DEF FatOf
    <3> HIDE DEF e, j, b, k
    <3> QED  BY <3>1, <3>2, <3>3, <3>4
  <2>12. Rest(s, w)  BY <1>2, <2>2 DEF Rest
  <2> QED  BY <1>5, <2>1, <2>6, <2>9, <2>10, <2>11, <2>12 DEF t
<1> QED  BY <1>4, <1>5
-----------------------------------------------------------------------------
(***** loops *****)

\* One turn of each of the loops, on t; those of write and read end at "x", the
\* search for a free cluster goes through the sequence x, and Chain follows the
\* FAT of the state x.
FreeNext(t) == IF isEOC(t.next) THEN t
               ELSE Then(fatGet(t, t.next), LAMBDA u :
                    Then(fatPut(u, u.next, 0), LAMBDA v :
                         [v EXCEPT !.next = Entry(u, u.next)]))
\* The loops of the model, by the step each repeats.
FreeFrom(t, first) == [t EXCEPT !.start = 2, !.next = first]
Walked(s, n)  == Repeat(NextCluster, s, n)
Try(acc, c)   == IF acc.found \/ ~Ok(acc.s) THEN acc ELSE Tried(fatGet(acc.s, c), c)
Extend(x, chain) == LET c == FatOf(x, Last(chain))
                    IN  IF c \in Clusters /\ ~Contains(chain, c) THEN Append(chain, c) ELSE chain

\* The turns of a loop, by its name: Transfer and Repeat are recursive functions of one.
Turn(loop, x, i, t) ==
    CASE loop = "next"   -> IF Ok(t) THEN NextCluster(t) ELSE t
      [] loop = "free"   -> IF Ok(t) THEN FreeNext(t) ELSE t
      [] loop = "write"  -> IF Ok(t) THEN IF t.f.pos >= x THEN t ELSE WriteBlockPart(t, x - t.f.pos) ELSE t
      [] loop = "read"   -> IF Ok(t) THEN IF t.f.pos >= x THEN t ELSE ReadBlockPart(t, x - t.f.pos) ELSE t
      [] loop = "search" -> Try(t, x[i])
      [] loop = "follow" -> Extend(x, t)

\* The states a loop goes through.
Turning(loop, x, s, n, f) == f = [i \in 0..n |-> IF i = 0 THEN s ELSE Turn(loop, x, i, f[i - 1])]

\* A loop has the states it goes through.
LEMMA Turns ==
  ASSUME NEW loop, NEW x, NEW s, NEW n \in Nat
  PROVE  \E f : Turning(loop, x, s, n, f)
<1> DEFINE Fits(f, k) == f = [i \in 0..k |-> IF i = 0 THEN s ELSE Turn(loop, x, i, f[i - 1])]
           B == {k \in 0..n : \E f : Fits(f, k)}
<1>1. 0 \in B
  <2>1. Fits([i \in 0..0 |-> s], 0)  OBVIOUS
  <2> HIDE DEF Fits
  <2> QED  BY <2>1
<1>2. ASSUME NEW k \in 1..n, k - 1 \in B PROVE k \in B
  <2>1. PICK f : Fits(f, k - 1)  BY <1>2
  <2> DEFINE g == [i \in 0..k |-> IF i = k THEN Turn(loop, x, k, f[k - 1]) ELSE f[i]]
  <2>2. Fits(g, k)  BY <2>1
  <2> HIDE DEF Fits, g
  <2> QED  BY <2>2
<1>3. n \in B
  <2> HIDE DEF B
  <2> QED  BY <1>1, <1>2, Induct
<1> HIDE DEF Fits
<1>4. \E f : Fits(f, n)  BY <1>3
<1> QED  BY <1>4 DEF Fits, Turning

\* The states of the walk of seek().
LEMMA NextTurns ==
  ASSUME NEW s, NEW n \in Nat
  PROVE  \E f : /\ Walked(s, n) = f[n] /\ f[0] = s
                /\ \A i \in 1..n : f[i] = IF Ok(f[i - 1]) THEN NextCluster(f[i - 1]) ELSE f[i - 1]
<1> DEFINE Fits(f) == f = [i \in 0..n |-> IF i = 0 THEN s ELSE
                             IF Ok(f[i - 1]) THEN NextCluster(f[i - 1]) ELSE f[i - 1]]
           after == CHOOSE f : Fits(f)
<1>1. PICK g : Turning("next", 0, s, n, g)  BY Turns
<1>2. Fits(g)  BY <1>1 DEF Turning, Turn
<1>3. Repeat(NextCluster, s, n) = after[n]  BY DEF Repeat, Then
<1> HIDE DEF Fits
<1>4. Fits(after)  BY <1>2
<1> HIDE DEF after
<1>5. after[0] = s /\ \A i \in 1..n : after[i] = IF Ok(after[i - 1]) THEN NextCluster(after[i - 1]) ELSE after[i - 1]
  BY <1>4 DEF Fits
<1> QED  BY <1>3, <1>5 DEF Walked

\* The states of freeChain().
LEMMA FreeTurns ==
  ASSUME NEW s, NEW first
  PROVE  \E f : /\ freeChain(s, first) = f[clusterCount + 1]
                /\ f[0] = FreeFrom(s, first)
                /\ \A i \in 1..(clusterCount + 1) : f[i] = IF Ok(f[i - 1]) THEN FreeNext(f[i - 1]) ELSE f[i - 1]
<1> DEFINE n == clusterCount + 1
           r == [s EXCEPT !.start = 2, !.next = first]
           Fits(f) == f = [i \in 0..n |-> IF i = 0 THEN r ELSE
                             IF Ok(f[i - 1]) THEN FreeNext(f[i - 1]) ELSE f[i - 1]]
           after == CHOOSE f : Fits(f)
<1>1. n \in Nat  BY GeometryAssumption
<1>2. freeChain(s, first) = after[n]  BY DEF freeChain, Repeat, Then, FreeNext
<1> HIDE DEF n, r
<1>3. PICK g : Turning("free", 0, r, n, g)  BY <1>1, Turns
<1>4. Fits(g)  BY <1>3 DEF Turning, Turn
<1> HIDE DEF Fits
<1>5. Fits(after)  BY <1>4
<1> HIDE DEF after
<1>6. after[0] = r /\ \A i \in 1..n : after[i] = IF Ok(after[i - 1]) THEN FreeNext(after[i - 1]) ELSE after[i - 1]
  BY <1>1, <1>5 DEF Fits
<1> QED  BY <1>2, <1>6 DEF n, r, FreeFrom

\* The states of the search for a free cluster.
LEMMA SearchTurns ==
  ASSUME NEW s, NEW start
  PROVE  \E f : /\ Search(s, start) = f[clusterCount] /\ f[0] = [s |-> s, c |-> 0, found |-> FALSE]
                /\ \A i \in 1..clusterCount : f[i] = Try(f[i - 1], SearchOrder(start)[i])
<1> DEFINE x == SearchOrder(start)
           r == [s |-> s, c |-> 0, found |-> FALSE]
           n == Len(SearchOrder(start))
           Fits(f) == f = [i \in 0..n |-> IF i = 0 THEN r ELSE
                             IF f[i - 1].found \/ ~Ok(f[i - 1].s) THEN f[i - 1]
                             ELSE Tried(fatGet(f[i - 1].s, x[i]), x[i])]
           after == CHOOSE f : Fits(f)
<1>1. n = clusterCount /\ clusterCount \in Nat  BY GeometryAssumption DEF SearchOrder
<1>2. Search(s, start) = after[n]  BY DEF Search
<1> HIDE DEF n, r, x
<1>3. PICK g : Turning("search", x, r, n, g)  BY <1>1, Turns
<1>4. Fits(g)  BY <1>3 DEF Turning, Turn, Try
<1> HIDE DEF Fits
<1>5. Fits(after)  BY <1>4
<1> HIDE DEF after
<1>6. after[0] = r /\ \A i \in 1..n : after[i] = Try(after[i - 1], x[i])
  BY <1>1, <1>5 DEF Fits, Try
<1> QED  BY <1>1, <1>2, <1>6 DEF r, x
-----------------------------------------------------------------------------
(***** a free cluster is found if there is one *****)

\* Every cluster is tried.
LEMMA AllTried ==
  ASSUME NEW start \in 2..(LastCluster + 1)
  PROVE  /\ \A j \in 1..clusterCount : SearchOrder(start)[j] \in Clusters
         /\ \A c \in Clusters : \E j \in 1..clusterCount : SearchOrder(start)[j] = c
<1> DEFINE N == clusterCount
           a == start - 2
<1>1. N \in Nat \ {0} /\ a \in 0..N /\ Clusters = 2..(N + 1)  BY Lengths0 DEF Clusters
<1>2. \A j \in 1..N : SearchOrder(start)[j] = 2 + ((a + j - 1) % N)  BY DEF SearchOrder
<1> HIDE DEF N, a
<1>3. \A y \in 0..(2 * N - 1) : y % N = IF y < N THEN y ELSE y - N
  <2> TAKE y \in 0..(2 * N - 1)
  <2> QED  BY <1>1, ModAround
<1>4. \A j \in 1..N : SearchOrder(start)[j] = IF a + j - 1 < N THEN a + j + 1 ELSE a + j + 1 - N
  <2> TAKE j \in 1..N
  <2> DEFINE y == a + j - 1
  <2>1. SearchOrder(start)[j] = 2 + (y % N)  BY <1>2
  <2>2. y \in 0..(2 * N - 1) /\ y = a + j - 1  BY <1>1
  <2> HIDE DEF y
  <2> DEFINE z == y % N
  <2>3. z = (IF y < N THEN y ELSE y - N) /\ SearchOrder(start)[j] = 2 + z  BY <1>3, <2>1, <2>2
  <2> HIDE DEF z
  <2> QED  BY <1>1, <2>2, <2>3
<1>5. \A j \in 1..N : SearchOrder(start)[j] \in Clusters  BY <1>1, <1>4
<1>6. ASSUME NEW c \in Clusters PROVE \E j \in 1..N : SearchOrder(start)[j] = c
  <2>1. CASE c - 2 >= a
    <3>1. c - 1 - a \in 1..N  BY <1>1, <2>1
    <3>2. SearchOrder(start)[c - 1 - a] = c  BY <1>1, <1>4, <2>1, <3>1
    <3> QED  BY <3>1, <3>2
  <2>2. CASE c - 2 < a
    <3>1. c - 1 - a + N \in 1..N  BY <1>1, <2>2
    <3>2. SearchOrder(start)[c - 1 - a + N] = c  BY <1>1, <1>4, <2>2, <3>1
    <3> QED  BY <3>1, <3>2
  <2> QED  BY <1>1, <2>1, <2>2
<1> QED  BY <1>5, <1>6 DEF N

\* The search is over at a cluster whose entry is 0.
LEMMA TriedFields ==
  ASSUME NEW s, NEW c
  PROVE  Tried(s, c).found <=> Ok(s) /\ Entry(s, c) = 0
<1> DEFINE P == Ok(s) /\ Entry(s, c) = 0
<1>1. Tried(s, c) = [s |-> s, c |-> c, found |-> P]  BY DEF Tried
<1> HIDE DEF P
<1>2. [s |-> s, c |-> c, found |-> P].found = P  OBVIOUS
<1>3. Tried(s, c).found = P  BY <1>1, <1>2, Zenon
<1> QED  BY <1>3, Zenon DEF P

\* Cached or not, the search tells free clusters from the others.
LEMMA Searched ==
  ASSUME NEW s, Sane(s), Ok(s), NEW start \in 2..(LastCluster + 1)
  PROVE  LET r == Search(s, start)
         IN  /\ Live(s) => /\ Good(r.s) /\ Rest(s, r.s) /\ SameView(s, r.s)
                           /\ r.found => r.c \in Clusters /\ FatOf(s, r.c) = 0
                           /\ ~r.found => \A c \in Clusters : FatOf(s, c) # 0
             /\ ~Live(s) => ~r.found /\ Refused(s, r.s)
<1> DEFINE x == SearchOrder(start)
           N == clusterCount
           r == Search(s, start)
<1>1. PICK f : /\ r = f[N] /\ f[0] = [s |-> s, c |-> 0, found |-> FALSE]
               /\ \A i \in 1..N : f[i] = Try(f[i - 1], x[i])
  BY SearchTurns
<1>2. N \in Nat \ {0} /\ \A j \in 1..N : x[j] \in Clusters  BY AllTried, GeometryAssumption
<1>3. Clusters \subseteq 0..LastCluster  BY Lengths0 DEF Clusters
<1> HIDE DEF x, N, r
<1>4. CASE Live(s)
  <2> DEFINE P(a, i) == /\ Good(a.s) /\ Rest(s, a.s) /\ SameView(s, a.s)
                        /\ a.found => a.c \in Clusters /\ FatOf(s, a.c) = 0
                        /\ ~a.found => \A j \in 1..i : FatOf(s, x[j]) # 0
             B == {i \in 0..N : P(f[i], i)}
  <2>1. 0 \in B  BY <1>1, <1>2, <1>4 DEF Good, Rest, SameView
  <2>2. ASSUME NEW i \in 1..N, i - 1 \in B PROVE i \in B
    <3> DEFINE a == f[i - 1]
               t == fatGet(a.s, x[i])
    <3>1. P(a, i - 1) /\ f[i] = Try(a, x[i]) /\ x[i] \in 0..LastCluster  BY <1>1, <1>2, <1>3, <2>2
    <3> HIDE DEF a
    <3>2. CASE a.found  BY <3>1, <3>2 DEF Try
    <3>3. CASE ~a.found
      <4>1. f[i] = Tried(t, x[i])  BY <3>1, <3>3 DEF Try, Good
      <4>2. Rest(a.s, t) /\ SameView(a.s, t) /\ Good(t) /\ Entry(t, x[i]) = FatOf(a.s, x[i])
        BY <3>1, FatGet DEF Good
      <4>3. FatOf(a.s, x[i]) = FatOf(s, x[i])  BY <3>1, SameFat
      <4> HIDE DEF t
      <4>4. SameView(s, t) /\ Rest(s, t)  BY <3>1, <4>2, SameViewTrans DEF Rest
      <4>5. Ok(t)  BY <4>2 DEF Good
      <4>6. f[i].s = t /\ f[i].c = x[i] /\ (f[i].found <=> FatOf(s, x[i]) = 0)
        <5>1. f[i].s = t /\ f[i].c = x[i]  BY <4>1 DEF Tried
        <5> QED  BY <4>1, <4>2, <4>3, <4>5, <5>1, TriedFields
      <4>7. \A j \in 1..i : j = i \/ j \in 1..(i - 1)  OBVIOUS
      <4>8. P(f[i], i)  BY <1>2, <3>1, <3>3, <4>2, <4>4, <4>6, <4>7
      <4> QED  BY <4>8
    <3> QED  BY <3>2, <3>3
  <2>3. P(f[N], N)
    <3> HIDE DEF P
    <3>1. \A i \in 0..N : i \in B
      <4> HIDE DEF B
      <4> QED  BY <1>2, <2>1, <2>2, Induct
    <3> QED  BY <1>2, <3>1
  <2>4. \A c \in Clusters : \E j \in 1..N : x[j] = c  BY AllTried DEF x, N
  <2> QED  BY <1>1, <1>4, <2>3, <2>4 DEF r
<1>5. CASE ~Live(s)
  <2> DEFINE P(a) == ~a.found /\ Refused(s, a.s)
             B == {i \in 0..N : i = 0 \/ P(f[i])}
  <2>1. 0 \in B  BY <1>2
  <2>2. ASSUME NEW i \in 1..N, i - 1 \in B PROVE i \in B
    <3> DEFINE a == f[i - 1]
               t == fatGet(a.s, x[i])
    <3>1. (a = f[0] \/ P(a)) /\ f[i] = Try(a, x[i]) /\ x[i] \in 0..LastCluster
      BY <1>1, <1>2, <1>3, <2>2
    <3>2. CASE P(a)
      <4> HIDE DEF a
      <4>1. f[i] = a  BY <3>1, <3>2 DEF Try, Refused, Ok
      <4> QED  BY <3>2, <4>1
    <3>3. CASE a = f[0]
      <4>1. a.s = s /\ ~a.found  BY <1>1, <3>3
      <4> HIDE DEF a
      <4>2. f[i] = Tried(t, x[i])  BY <3>1, <4>1 DEF Try
      <4>3. Refused(s, t)  BY <1>5, <3>1, <4>1, FatGet
      <4> HIDE DEF t
      <4>4. f[i].s = t /\ ~f[i].found
        <5>1. f[i].s = t  BY <4>2 DEF Tried
        <5>2. ~Ok(t)  BY <4>3 DEF Refused, Ok
        <5> QED  BY <4>2, <5>1, <5>2, TriedFields
      <4> QED  BY <4>3, <4>4
    <3> QED  BY <3>1, <3>2, <3>3
  <2>3. P(f[N])
    <3> HIDE DEF P
    <3>1. \A i \in 0..N : i \in B
      <4> HIDE DEF B
      <4> QED  BY <1>2, <2>1, <2>2, Induct
    <3> QED  BY <1>2, <3>1
  <2> QED  BY <1>1, <1>5, <2>3 DEF r
<1> QED  BY <1>4, <1>5
-----------------------------------------------------------------------------
(***** chains are extended and freed *****)

\* Goodness is about the cache and the card alone.
LEMMA GoodAlike ==
  ASSUME NEW s, NEW t, Good(s), Shape(t), t.left = s.left, t.card = s.card, t.block = s.block,
         t.data = s.data, t.dirty = s.dirty, t.mirror = s.mirror, t.err = s.err
  PROVE  Good(t) /\ SameView(s, t)
BY Alike DEF Good, Ok

\* Link makes c the end of the chain, after cur.
LEMMA Linking ==
  ASSUME NEW s, Good(s), FatFormed(s), NEW c \in Clusters, NEW cur \in Clusters \cup {0}
  PROVE  LET t == Link(s, cur, c)
         IN  /\ Good(t) /\ FatFormed(t) /\ SameButFat(s, t)
             /\ t.f = [s.f EXCEPT !.cur = c] /\ t.next = s.next /\ t.got = s.got
             /\ t.start = IF cur = 0 THEN c + 1 ELSE s.start
             /\ \A d \in 0..LastCluster :
                   FatOf(t, d) = IF d = cur /\ cur # 0 THEN c ELSE IF d = c THEN EOC ELSE FatOf(s, d)
<1> DEFINE a == fatPut(s, c, EOC)
           b == IF cur = 0 THEN a ELSE fatPut(a, cur, c)
           t == [b EXCEPT !.f.cur = c, !.start = IF cur = 0 THEN c + 1 ELSE @]
<1>1. Link(s, cur, c) = IF Ok(a) THEN IF Ok(b) THEN t ELSE b ELSE a  BY DEF Link, Then
<1>2. /\ Good(a) /\ Rest(s, a) /\ FatFormed(a) /\ SameButFat(s, a)
      /\ \A d \in 0..LastCluster : FatOf(a, d) = IF d = c THEN EOC ELSE FatOf(s, d)
  BY FatPut DEF Good
<1> HIDE DEF a
<1>3. /\ Good(b) /\ Rest(a, b) /\ FatFormed(b) /\ SameButFat(a, b)
      /\ \A d \in 0..LastCluster : FatOf(b, d) = IF d = cur /\ cur # 0 THEN c ELSE FatOf(a, d)
  <2>1. CASE cur = 0  BY <1>2, <2>1 DEF Rest, SameButFat
  <2>2. CASE cur # 0  BY <1>2, <2>2, FatPut DEF Good
  <2> QED  BY <2>1, <2>2
<1> HIDE DEF b
<1>4. /\ Shape(t) /\ t.left = b.left /\ t.card = b.card /\ t.block = b.block /\ t.data = b.data
      /\ t.dirty = b.dirty /\ t.mirror = b.mirror /\ t.err = b.err
      /\ t.f = [b.f EXCEPT !.cur = c] /\ t.next = b.next /\ t.got = b.got
      /\ t.start = IF cur = 0 THEN c + 1 ELSE b.start
  BY <1>3 DEF Good, Sane, Shape
<1>5. Link(s, cur, c) = t  BY <1>1, <1>2, <1>3 DEF Good
<1> HIDE DEF t
<1>6. Good(t) /\ SameView(b, t)  BY <1>3, <1>4, GoodAlike
<1>7. /\ FatFormed(t) /\ SameButFat(b, t) /\ \A d \in 0..LastCluster : FatOf(t, d) = FatOf(b, d)
  BY <1>3, <1>6, SameFat
<1>8. SameButFat(s, t)  BY <1>2, <1>3, <1>7 DEF SameButFat
<1> QED  BY <1>2, <1>3, <1>4, <1>5, <1>6, <1>7, <1>8 DEF Rest

\* Clusters ch[lo] to ch[m-1] are the end of a chain.
Chained(s, ch, lo, m) ==
    /\ \A i, j \in lo..(m - 1) : ch[i] = ch[j] => i = j
    /\ \A i \in lo..(m - 1) : FatOf(s, ch[i]) = IF i + 1 < m THEN ch[i + 1] ELSE EOC

\* Only their entries have changed.
Spares(s, t, ch, lo, m) ==
    /\ FatFormed(t) /\ SameButFat(s, t)
    /\ \A d \in 0..LastCluster : (\A i \in lo..(m - 1) : ch[i] # d) => FatOf(t, d) = FatOf(s, d)

\* What freeChain leaves alone: all but the chain.
LEMMA Freed ==
  ASSUME NEW s, Sane(s), Ok(s), FatFormed(s), NEW ch \in [Nat -> Clusters], NEW m \in Nat, NEW lo \in 0..(m - 1),
         Chained(s, ch, lo, m)
  PROVE  LET t == freeChain(s, ch[lo])
         IN  /\ t.f = s.f /\ t.got = s.got /\ t.start = 2
             /\ Live(s) => Good(t) /\ Spares(s, t, ch, lo, m)
             /\ ~Live(s) => Sane(t) /\ SameView(s, t) /\ t.err = "address"
<1> DEFINE N == clusterCount + 1
           r == FreeFrom(s, ch[lo])
           t == freeChain(s, ch[lo])
           EndOr(k) == IF k < m THEN ch[k] ELSE EOC
<1>0. /\ \A i, j \in lo..(m - 1) : ch[i] = ch[j] => i = j
      /\ \A i \in lo..(m - 1) : FatOf(s, ch[i]) = IF i + 1 < m THEN ch[i + 1] ELSE EOC
  BY DEF Chained
<1>1. PICK f : /\ t = f[N] /\ f[0] = r
               /\ \A i \in 1..N : f[i] = IF Ok(f[i - 1]) THEN FreeNext(f[i - 1]) ELSE f[i - 1]
  BY FreeTurns
<1>2. N \in Nat \ {0}  BY GeometryAssumption
<1>3. Clusters \subseteq 0..LastCluster /\ EOC \notin Clusters
  BY Lengths0, EOCAssumption DEF Clusters, EOC
<1>4. /\ Shape(r) /\ r.left = s.left /\ r.card = s.card /\ r.block = s.block /\ r.data = s.data
      /\ r.dirty = s.dirty /\ r.mirror = s.mirror /\ r.err = s.err
      /\ r.f = s.f /\ r.got = s.got /\ r.start = 2 /\ r.next = ch[lo]
  BY DEF Sane, Shape, FreeFrom
<1> HIDE DEF t, r, N
<1>5. Sane(r) /\ SameView(s, r) /\ Ok(r)  BY <1>4, Alike DEF Ok
<1>6. /\ FatFormed(r) /\ SameButFat(s, r) /\ \A d \in 0..LastCluster : FatOf(r, d) = FatOf(s, d)
  BY <1>5, SameFat
<1>7. CASE Live(s)
  <2> DEFINE P(u) == /\ u.f = s.f /\ u.got = s.got /\ u.start = 2
                     /\ Good(u) /\ FatFormed(u) /\ SameButFat(s, u)
                     /\ \A d \in 0..LastCluster :
                           (\A i \in lo..(m - 1) : ch[i] # d) => FatOf(u, d) = FatOf(s, d)
                     /\ \E k \in lo..m : /\ u.next = EndOr(k)
                                         /\ \A i \in k..(m - 1) : FatOf(u, ch[i]) = EndOr(i + 1)
             B == {i \in 0..N : P(f[i])}
  <2>1. 0 \in B
    <3>1. Good(r)  BY <1>4, <1>5, <1>7 DEF Good, Live
    <3>2. r.next = EndOr(lo) /\ lo \in lo..m  BY <1>4
    <3>3. \A i \in lo..(m - 1) : FatOf(r, ch[i]) = EndOr(i + 1)
      <4> TAKE i \in lo..(m - 1)
      <4>1. i \in Nat /\ i + 1 \in Nat  OBVIOUS
      <4>2. ch[i] \in 0..LastCluster  BY <1>3, <4>1
      <4>3. FatOf(r, ch[i]) = FatOf(s, ch[i])  BY <1>6, <4>2
      <4> QED  BY <1>0, <4>3
    <3> HIDE DEF EndOr
    <3>4. P(r)  BY <1>4, <1>6, <3>1, <3>2, <3>3
    <3> QED  BY <1>1, <1>2, <3>4
  <2>2. ASSUME NEW u, P(u) PROVE P(FreeNext(u))
    <3>1. PICK k \in lo..m : /\ u.next = EndOr(k)
                             /\ \A i \in k..(m - 1) : FatOf(u, ch[i]) = EndOr(i + 1)
      BY <2>2
    <3>2. CASE k = m
      <4>1. FreeNext(u) = u  BY <3>1, <3>2 DEF FreeNext, isEOC
      <4> QED  BY <2>2, <4>1
    <3>3. CASE k < m
      <4> DEFINE c == ch[k]
                 v == fatGet(u, u.next)
                 w == fatPut(v, v.next, 0)
                 z == [w EXCEPT !.next = Entry(v, v.next)]
      <4>1. u.next = c /\ c \in Clusters /\ ~isEOC(c)  BY <1>3, <3>1, <3>3 DEF isEOC
      <4>2. FreeNext(u) = IF Ok(v) THEN IF Ok(w) THEN z ELSE w ELSE v  BY <4>1 DEF FreeNext, Then
      <4>3. Good(v) /\ Rest(u, v) /\ SameView(u, v) /\ Entry(v, c) = FatOf(u, c)
        <5>1. c \in 0..LastCluster  BY <1>3, <4>1
        <5> HIDE DEF c
        <5>2. v = fatGet(u, c)  BY <4>1
        <5> HIDE DEF v
        <5> QED  BY <2>2, <5>1, <5>2, FatGet DEF Good
      <4> HIDE DEF v
      <4>4. /\ FatFormed(v) /\ SameButFat(u, v) /\ \A d \in 0..LastCluster : FatOf(v, d) = FatOf(u, d)
            /\ v.next = c
        BY <2>2, <4>1, <4>3, SameFat DEF Rest
      <4>5. /\ Good(w) /\ Rest(v, w) /\ FatFormed(w) /\ SameButFat(v, w)
            /\ \A d \in 0..LastCluster : FatOf(w, d) = IF d = c THEN 0 ELSE FatOf(v, d)
        BY <4>1, <4>3, <4>4, FatPut DEF Good
      <4> HIDE DEF w
      <4>6. /\ Shape(z) /\ z.left = w.left /\ z.card = w.card /\ z.block = w.block /\ z.data = w.data
            /\ z.dirty = w.dirty /\ z.mirror = w.mirror /\ z.err = w.err
            /\ z.f = w.f /\ z.got = w.got /\ z.start = w.start /\ z.next = Entry(v, v.next)
        BY <4>5 DEF Good, Sane, Shape
      <4>7. FreeNext(u) = z  BY <4>2, <4>3, <4>5 DEF Good
      <4> HIDE DEF z
      <4>8. Good(z) /\ SameView(w, z)  BY <4>5, <4>6, GoodAlike
      <4>9. /\ FatFormed(z) /\ SameButFat(w, z) /\ \A d \in 0..LastCluster : FatOf(z, d) = FatOf(w, d)
        BY <4>5, <4>8, SameFat
      <4>10. SameButFat(s, z)  BY <2>2, <4>4, <4>5, <4>9 DEF SameButFat
      <4>11. k \in lo..(m - 1) /\ k + 1 \in lo..m  BY <3>3
      <4>12. z.next = EndOr(k + 1)
        <5>1. z.next = FatOf(u, c)  BY <4>3, <4>4, <4>6
        <5>2. k \in k..(m - 1)  BY <4>11
        <5> HIDE DEF EndOr
        <5>3. FatOf(u, ch[k]) = EndOr(k + 1)  BY <3>1, <5>2
        <5> QED  BY <5>1, <5>3
      <4>13. ASSUME NEW i \in (k + 1)..(m - 1) PROVE FatOf(z, ch[i]) = EndOr(i + 1)
        <5>1. i \in lo..(m - 1) /\ i # k /\ i \in k..(m - 1) /\ i \in Nat  BY <4>11
        <5>2. ch[i] # c /\ ch[i] \in 0..LastCluster  BY <1>0, <1>3, <4>11, <5>1
        <5>3. FatOf(z, ch[i]) = FatOf(u, ch[i])  BY <4>4, <4>5, <4>9, <5>2
        <5> HIDE DEF EndOr
        <5> QED  BY <3>1, <5>1, <5>3
      <4>14. ASSUME NEW d \in 0..LastCluster, \A i \in lo..(m - 1) : ch[i] # d
             PROVE  FatOf(z, d) = FatOf(s, d)
        <5>1. d # c  BY <4>11, <4>14
        <5>2. FatOf(z, d) = FatOf(u, d)  BY <4>4, <4>5, <4>9, <5>1
        <5> QED  BY <2>2, <4>14, <5>2
      <4> HIDE DEF EndOr, c
      <4>15. z.f = s.f /\ z.got = s.got /\ z.start = 2  BY <2>2, <4>3, <4>5, <4>6 DEF Rest
      <4>16. P(z)  BY <4>8, <4>9, <4>10, <4>11, <4>12, <4>13, <4>14, <4>15
      <4> HIDE DEF P
      <4> QED  BY <4>7, <4>16
    <3> QED  BY <3>1, <3>2, <3>3
  <2>3. ASSUME NEW i \in 1..N, i - 1 \in B PROVE i \in B
    <3>1. P(f[i - 1]) /\ Ok(f[i - 1])  BY <2>3 DEF Good
    <3> HIDE DEF P
    <3>2. P(f[i])  BY <1>1, <2>2, <3>1
    <3> QED  BY <1>2, <3>2
  <2>4. P(f[N])
    <3> HIDE DEF P
    <3>1. \A i \in 0..N : i \in B
      <4> HIDE DEF B
      <4> QED  BY <1>2, <2>1, <2>3, Induct
    <3> QED  BY <1>2, <3>1
  <2>5. Spares(s, f[N], ch, lo, m)  BY <2>4, Zenon DEF Spares
  <2> QED  BY <1>1, <1>7, <2>4, <2>5 DEF t
<1>8. CASE ~Live(s)
  <2> DEFINE P(u) == Sane(u) /\ SameView(s, u) /\ u.err = "address" /\ u.f = s.f /\ u.got = s.got /\ u.start = 2
             B == {i \in 0..N : i = 0 \/ P(f[i])}
  <2>1. 0 \in B  BY <1>2
  <2>2. ASSUME NEW i \in 1..N, i - 1 \in B PROVE i \in B
    <3>1. CASE i - 1 # 0
      <4>1. P(f[i - 1])  BY <2>2, <3>1
      <4>2. ~Ok(f[i - 1])  BY <4>1 DEF Ok
      <4>3. f[i] = f[i - 1]  BY <1>1, <4>2
      <4> QED  BY <4>1, <4>3
    <3>2. CASE i - 1 = 0
      <4> DEFINE v == fatGet(r, ch[lo])
      <4>1. ch[lo] \in Clusters /\ ~isEOC(ch[lo])  BY <1>3 DEF isEOC
      <4>2. ~Live(r)  BY <1>4, <1>8 DEF Live
      <4>3. Refused(r, v)  BY <1>3, <1>5, <4>1, <4>2, FatGet
      <4>4. f[i] = FreeNext(r)  BY <1>1, <1>5, <3>2
      <4>5. FreeNext(r) = v  BY <1>4, <4>1, <4>3 DEF FreeNext, Then, Refused, Ok
      <4> HIDE DEF v
      <4>6. SameView(s, v)  BY <1>5, <4>3, SameViewTrans DEF Refused
      <4> QED  BY <1>4, <4>3, <4>4, <4>5, <4>6 DEF Refused, Rest
    <3> QED  BY <3>1, <3>2
  <2>3. P(f[N])
    <3> HIDE DEF P
    <3>1. \A i \in 0..N : i \in B
      <4> HIDE DEF B
      <4> QED  BY <1>2, <2>1, <2>2, Induct
    <3> QED  BY <1>2, <3>1
  <2> QED  BY <1>1, <1>8, <2>3 DEF t
<1> QED  BY <1>7, <1>8
-----------------------------------------------------------------------------
(***** files and blocks *****)

\* The types of the ghost of a file.
LEMMA GhostTypes ==
  ASSUME NEW g \in Ghost, NEW n \in Name
  PROVE  /\ g.len[n] \in Nat /\ g.size[n] \in Nat /\ g.ch[n] \in [Nat -> Clusters]
         /\ \A i \in Nat : g.ch[n][i] \in Clusters /\ g.ch[n][i] \in 0..LastCluster
         /\ ClusterLen * g.len[n] \in Nat
         /\ FirstOf(g, n) \in Clusters \cup {0} /\ (FirstOf(g, n) = 0 <=> g.len[n] = 0)
         /\ \A p \in Nat : BlockAt(g, n, p) \in Data /\ BlockAt(g, n, p) \in Known
<1>1. g.len[n] \in Nat /\ g.size[n] \in Nat /\ g.ch[n] \in [Nat -> Clusters]  BY DEF Ghost
<1>2. Clusters \subseteq 1..LastCluster  BY Lengths0 DEF Clusters
<1>3. ClusterLen * g.len[n] \in Nat
  <2>1. \A x, y \in Nat : x * y \in Nat  OBVIOUS
  <2> QED  BY <1>1, <2>1, Lengths0
<1>4. FirstOf(g, n) \in Clusters \cup {0} /\ (FirstOf(g, n) = 0 <=> g.len[n] = 0)
  <2>1. g.ch[n][0] \in Clusters /\ 0 \notin Clusters  BY <1>1, <1>2
  <2> QED  BY <2>1 DEF FirstOf
<1>5. ASSUME NEW p \in Nat PROVE BlockAt(g, n, p) \in Data
  <2>1. p \div ClusterLen \in Nat /\ blockOfCluster(p) \in 0..(blocksPerCluster - 1)  BY Position
  <2>2. g.ch[n][p \div ClusterLen] \in Clusters  BY <1>1, <2>1
  <2> QED  BY <2>1, <2>2, ClusterBlocks DEF BlockAt
<1>6. \A i \in Nat : g.ch[n][i] \in Clusters /\ g.ch[n][i] \in 0..LastCluster
  <2> TAKE i \in Nat
  <2>1. g.ch[n][i] \in Clusters  BY <1>1
  <2>2. Clusters \subseteq 0..LastCluster  BY Lengths0 DEF Clusters
  <2> QED  BY <2>1, <2>2
<1>7. \A p \in Nat : BlockAt(g, n, p) \in Data /\ BlockAt(g, n, p) \in Known  BY <1>5 DEF Known
<1> QED  BY <1>1, <1>3, <1>4, <1>6, <1>7

\* Two positions in one block are of one file, and of one block of it.
LEMMA BlocksApart ==
  ASSUME NEW g \in Ghost, Disjoint(g), NEW m \in Name, NEW n \in Name, NEW p \in Nat, NEW q \in Nat,
         p < ClusterLen * g.len[m], q < ClusterLen * g.len[n], BlockAt(g, m, p) = BlockAt(g, n, q)
  PROVE  m = n /\ p \div BlockLen = q \div BlockLen
<1> DEFINE i == p \div ClusterLen
           j == q \div ClusterLen
           x == blockOfCluster(p)
           y == blockOfCluster(q)
<1>1. /\ i \in Nat /\ x \in 0..(blocksPerCluster - 1) /\ p \div BlockLen = blocksPerCluster * i + x
      /\ j \in Nat /\ y \in 0..(blocksPerCluster - 1) /\ q \div BlockLen = blocksPerCluster * j + y
  BY Position
<1>2. i < g.len[m] /\ j < g.len[n]  BY GhostTypes, ClusterOf
<1>3. g.ch[m][i] \in Clusters /\ g.ch[n][j] \in Clusters  BY <1>1, GhostTypes
<1>4. clusterStartBlock(g.ch[m][i]) + x = clusterStartBlock(g.ch[n][j]) + y  BY DEF BlockAt
<1> HIDE DEF i, j, x, y
<1>5. g.ch[m][i] = g.ch[n][j] /\ x = y  BY <1>1, <1>3, <1>4, ClusterBlocks
<1>6. i \in 0..(g.len[m] - 1) /\ j \in 0..(g.len[n] - 1)  BY <1>1, <1>2, GhostTypes
<1>7. m = n /\ i = j  BY <1>5, <1>6 DEF Disjoint
<1> QED  BY <1>1, <1>5, <1>7

\* What does not depend on the FAT.
LEMMA ButFat ==
  ASSUME NEW s, NEW t, NEW g \in Ghost, SameButFat(s, t)
  PROVE  /\ DirOf(t) = DirOf(s)
         /\ DataFormed(s) => DataFormed(t)
         /\ DirFormed(s) => DirFormed(t)
         /\ \A n \in Name, p \in Nat : CellOf(t, g, n, p) = CellOf(s, g, n, p)
         /\ Held(s, g) => Held(t, g)
         /\ \A names : Listed(s, g, names) => Listed(t, g, names)
         /\ \A f : Opened(s, g, f) => Opened(t, g, f)
<1>1. DirOf(t) = DirOf(s)  BY DEF SameButFat, DirOf
<1>2. DataFormed(s) => DataFormed(t)  BY DEF SameButFat, DataFormed
<1>3. DirFormed(s) => DirFormed(t)  BY <1>1 DEF DirFormed
<1>4. \A n \in Name, p \in Nat : CellOf(t, g, n, p) = CellOf(s, g, n, p)
  BY GhostTypes DEF SameButFat, CellOf
<1>5. Held(s, g) => Held(t, g)
  <2> SUFFICES ASSUME Held(s, g), NEW n \in Name, NEW p \in 0..(g.size[n] - 1)
               PROVE  CellOf(t, g, n, p) = <<n, p>>
    BY DEF Held
  <2>1. p \in Nat  BY GhostTypes
  <2> QED  BY <1>4, <2>1 DEF Held
<1>6. \A names : Listed(s, g, names) => Listed(t, g, names)  BY <1>1 DEF Listed
<1>7. \A f : Opened(s, g, f) => Opened(t, g, f)  BY <1>1 DEF Opened
<1> QED  BY <1>1, <1>2, <1>3, <1>4, <1>5, <1>6, <1>7

\* What depends on it.
LEMMA OfFat ==
  ASSUME NEW s, NEW t, NEW g \in Ghost, \A c \in 0..LastCluster : FatOf(t, c) = FatOf(s, c), Linked(s, g)
  PROVE  Linked(t, g)
<1> SUFFICES ASSUME NEW n \in Name, NEW i \in 0..(g.len[n] - 1)
             PROVE  FatOf(t, g.ch[n][i]) = IF i + 1 < g.len[n] THEN g.ch[n][i + 1] ELSE EOC
  BY DEF Linked
<1>1. i \in Nat  BY GhostTypes
<1>2. FatOf(t, g.ch[n][i]) = FatOf(s, g.ch[n][i])  BY <1>1, GhostTypes
<1> QED  BY <1>2 DEF Linked

\* The same file, at another position.
SameFile(f, h) ==
    /\ h.open = f.open /\ h.name = f.name /\ h.index = f.index /\ h.write = f.write /\ h.sync = f.sync
    /\ h.append = f.append /\ h.first = f.first /\ h.size = f.size /\ h.dirty = f.dirty

\* A step that leaves the view and the open file as they are leaves the volume sound.
LEMMA SoundSame ==
  ASSUME NEW s, NEW t, NEW g, NEW o, Sound(s, g, o), SameView(s, t),
         t.start = s.start \/ t.start \in 2..(LastCluster + 1),
         t.f = s.f \/ (s.f.open /\ SameFile(s.f, t.f))
  PROVE  Sound(t, g, o)
<1>1. /\ \A c \in 0..LastCluster : FatOf(t, c) = FatOf(s, c)
      /\ SameButFat(s, t) /\ FatFormed(t)
  BY SameFat DEF Sound, Volume, Formed
<1>2. Volume(t, g)  BY <1>1, ButFat, OfFat DEF Sound, Volume, Formed
<1>3. t.f.name = s.f.name /\ t.f.open = s.f.open  BY DEF SameFile
<1>4. Listed(t, g, {t.f.name, o.name}) /\ Opened(t, g, o) /\ Opened(t, g, s.f)
  BY <1>1, <1>3, ButFat DEF Sound
<1>5. Opened(t, g, t.f)  BY <1>4 DEF Opened, SameFile
<1> QED  BY <1>2, <1>3, <1>4, <1>5 DEF Sound
-----------------------------------------------------------------------------
(***** seekSet *****)

\* A step that writes nothing and moves, at most, the position.
Moved(s, t) == SameView(s, t) /\ t.start = s.start /\ t.next = s.next /\ t.got = s.got /\ SameFile(s.f, t.f)

\* Moving is transitive.
LEMMA MovedTrans ==
  ASSUME NEW s, NEW t, NEW u, Moved(s, t), Moved(t, u)
  PROVE  Moved(s, u)
BY SameViewTrans DEF Moved, SameFile

\* A step that changes nothing but the cache moves nothing.
LEMMA MovedRest ==
  ASSUME NEW s, NEW t, Rest(s, t), SameView(s, t)
  PROVE  Moved(s, t)
BY DEF Moved, Rest, SameFile

\* Putting the position elsewhere.
PutCur(s, c) == [s EXCEPT !.f.cur = c]
\* A file at another position.
PutPos(s, p) == [s EXCEPT !.f.pos = p]
Put(s, c, p) == [s EXCEPT !.f.cur = c, !.f.pos = p]

\* Giving a file another cluster and position only moves it.
LEMMA Placed ==
  ASSUME NEW s, Sane(s), NEW c, NEW p
  PROVE  LET t == Put(s, c, p)
         IN  /\ Sane(t) /\ Moved(s, t) /\ t.f.cur = c /\ t.f.pos = p
             /\ t.err = s.err /\ (Live(t) <=> Live(s))
<1> DEFINE t == Put(s, c, p)
<1>1. /\ Shape(t) /\ t.left = s.left /\ t.card = s.card /\ t.block = s.block /\ t.data = s.data
      /\ t.dirty = s.dirty /\ t.mirror = s.mirror /\ t.err = s.err
      /\ t.start = s.start /\ t.next = s.next /\ t.got = s.got
      /\ SameFile(s.f, t.f) /\ t.f.cur = c /\ t.f.pos = p
  BY DEF Sane, Shape, SameFile, Put, PutCur, PutPos
<1> HIDE DEF t
<1>2. Sane(t) /\ SameView(s, t)  BY <1>1, Alike
<1> QED  BY <1>1, <1>2 DEF Moved, Live, t

\* The same, of the cluster alone.
LEMMA PlacedCur ==
  ASSUME NEW s, Sane(s), NEW c
  PROVE  LET t == PutCur(s, c)
         IN  /\ Sane(t) /\ Moved(s, t) /\ t.f.cur = c /\ t.f.pos = s.f.pos
             /\ t.err = s.err /\ (Live(t) <=> Live(s))
<1> DEFINE t == PutCur(s, c)
<1>1. /\ Shape(t) /\ t.left = s.left /\ t.card = s.card /\ t.block = s.block /\ t.data = s.data
      /\ t.dirty = s.dirty /\ t.mirror = s.mirror /\ t.err = s.err
      /\ t.start = s.start /\ t.next = s.next /\ t.got = s.got
      /\ SameFile(s.f, t.f) /\ t.f.cur = c /\ t.f.pos = s.f.pos
  BY DEF Sane, Shape, SameFile, Put, PutCur, PutPos
<1> HIDE DEF t
<1>2. Sane(t) /\ SameView(s, t)  BY <1>1, Alike
<1> QED  BY <1>1, <1>2 DEF Moved, Live, t

\* The same, of the position alone.
LEMMA PlacedPos ==
  ASSUME NEW s, Sane(s), NEW p
  PROVE  LET t == PutPos(s, p)
         IN  /\ Sane(t) /\ Moved(s, t) /\ t.f.cur = s.f.cur /\ t.f.pos = p
             /\ t.err = s.err /\ (Live(t) <=> Live(s))
<1> DEFINE t == PutPos(s, p)
<1>1. /\ Shape(t) /\ t.left = s.left /\ t.card = s.card /\ t.block = s.block /\ t.data = s.data
      /\ t.dirty = s.dirty /\ t.mirror = s.mirror /\ t.err = s.err
      /\ t.start = s.start /\ t.next = s.next /\ t.got = s.got
      /\ SameFile(s.f, t.f) /\ t.f.cur = s.f.cur /\ t.f.pos = p
  BY DEF Sane, Shape, SameFile, Put, PutCur, PutPos
<1> HIDE DEF t
<1>2. Sane(t) /\ SameView(s, t)  BY <1>1, Alike
<1> QED  BY <1>1, <1>2 DEF Moved, Live, t

\* From one cluster of a chain to the next.
LEMMA OneNext ==
  ASSUME NEW s, Sane(s), Ok(s), NEW g \in Ghost, Linked(s, g), NEW n \in Name, NEW i \in Nat,
         i + 1 < g.len[n], s.f.cur = g.ch[n][i]
  PROVE  LET t == NextCluster(s)
         IN  /\ Sane(t) /\ Moved(s, t) /\ t.f.pos = s.f.pos
             /\ Live(s) => Good(t) /\ t.f.cur = g.ch[n][i + 1]
             /\ ~Live(s) => t.err = "address" /\ t.f.cur = s.f.cur
<1> DEFINE c == g.ch[n][i]
           u == fatGet(s, c)
           v == PutCur(u, Entry(u, u.f.cur))
           t == NextCluster(s)
<1>1. c \in 0..LastCluster  BY GhostTypes
<1>2. FatOf(s, c) = g.ch[n][i + 1]
  <2>1. i \in 0..(g.len[n] - 1)  BY GhostTypes
  <2> QED  BY <2>1 DEF Linked
<1>3. t = IF Ok(u) THEN v ELSE u  BY DEF NextCluster, Then, PutCur
<1> HIDE DEF c
<1>4. /\ Sane(u) /\ Rest(s, u) /\ SameView(s, u)
      /\ Live(s) => Good(u) /\ Entry(u, c) = FatOf(s, c)
      /\ ~Live(s) => Refused(s, u)
  BY <1>1, FatGet
<1> HIDE DEF u, t
<1>5. /\ Sane(v) /\ Moved(u, v) /\ v.f.cur = Entry(u, u.f.cur) /\ v.f.pos = u.f.pos
      /\ v.err = u.err /\ (Live(v) <=> Live(u))
  BY <1>4, PlacedCur
<1> HIDE DEF v
<1>6. Moved(s, u) /\ u.f = s.f  BY <1>4, MovedRest DEF Rest
<1>7. Moved(s, v)  BY <1>5, <1>6, MovedTrans
<1>8. CASE Live(s)
  <2>1. t = v /\ Good(v)  BY <1>3, <1>4, <1>5, <1>8 DEF Good, Ok
  <2>2. v.f.cur = g.ch[n][i + 1]  BY <1>2, <1>4, <1>5, <1>6, <1>8 DEF c
  <2> QED  BY <1>5, <1>6, <1>7, <1>8, <2>1, <2>2 DEF t
<1>9. CASE ~Live(s)
  <2>1. t = u  BY <1>3, <1>4, <1>9 DEF Refused, Ok
  <2> QED  BY <1>4, <1>6, <1>9, <2>1 DEF Refused, t
<1> QED  BY <1>8, <1>9

\* Along a chain.
LEMMA Walk ==
  ASSUME NEW s, Sane(s), Ok(s), NEW g \in Ghost, Linked(s, g), NEW n \in Name, NEW i \in Nat, NEW k \in Nat,
         i + k < g.len[n], s.f.cur = g.ch[n][i]
  PROVE  LET t == Walked(s, k)
         IN  /\ Sane(t) /\ Moved(s, t) /\ t.f.pos = s.f.pos
             /\ Live(s) => Good(t)
             /\ Ok(t) => t.f.cur = g.ch[n][i + k]
             /\ ~Ok(t) => t.err = "address" /\ t.f.cur = s.f.cur
<1> DEFINE t == Walked(s, k)
<1>1. PICK f : /\ t = f[k] /\ f[0] = s
               /\ \A j \in 1..k : f[j] = IF Ok(f[j - 1]) THEN NextCluster(f[j - 1]) ELSE f[j - 1]
  BY NextTurns
<1> HIDE DEF t
<1> DEFINE P(u, j) == /\ Sane(u) /\ Moved(s, u) /\ u.f.pos = s.f.pos
                      /\ Live(s) => Good(u)
                      /\ Ok(u) => u.f.cur = g.ch[n][i + j]
                      /\ ~Ok(u) => u.err = "address" /\ u.f.cur = s.f.cur
                      /\ j > 0 /\ ~Live(s) => ~Ok(u)
                      /\ j = 0 => u = s
           B == {j \in 0..k : P(f[j], j)}
<1>2. 0 \in B
  <2>1. Moved(s, s)  BY DEF Moved, SameView, SameFile
  <2>2. P(s, 0)  BY <2>1 DEF Good
  <2> QED  BY <1>1, <2>2
<1>3. ASSUME NEW j \in 1..k, j - 1 \in B PROVE j \in B
  <2> DEFINE u == f[j - 1]
             v == NextCluster(u)
             e == j - 1
  <2>1. P(u, e)  BY <1>3
  <2>2. f[j] = IF Ok(u) THEN v ELSE u  BY <1>1
  <2>3. e \in Nat /\ j = e + 1 /\ j > 0  OBVIOUS
  <2> HIDE DEF u, e
  <2>4. CASE ~Ok(u)
    <3>1. P(u, j)  BY <2>1, <2>3, <2>4
    <3> QED  BY <2>2, <2>4, <3>1
  <2>5. CASE Ok(u)
    <3>1. Linked(u, g)  BY <2>1, OfFat, SameFat DEF Moved
    <3>2. i + e \in Nat /\ (i + e) + 1 < g.len[n] /\ (i + e) + 1 = i + j
      BY <2>3, GhostTypes
    <3>3. /\ Sane(v) /\ Moved(u, v) /\ v.f.pos = u.f.pos
          /\ Live(u) => Good(v) /\ v.f.cur = g.ch[n][i + j]
          /\ ~Live(u) => v.err = "address" /\ v.f.cur = u.f.cur
      <4> DEFINE a == i + e
      <4>1. u.f.cur = g.ch[n][a] /\ a \in Nat /\ a + 1 < g.len[n] /\ a + 1 = i + j  BY <2>1, <2>5, <3>2
      <4> HIDE DEF a, v
      <4> QED  BY <2>1, <2>5, <3>1, <4>1, OneNext DEF v
    <3> HIDE DEF v
    <3>4. Moved(s, v)  BY <2>1, <3>3, MovedTrans
    <3>5. Live(s) => Live(u) /\ Ok(v)  BY <2>1, <3>3 DEF Good
    <3>6. ~Live(s) => u = s
      <4>1. ~Live(s) => ~(e > 0)  BY <2>1, <2>5
      <4> QED  BY <2>1, <2>3, <4>1
    <3>7. v.err = "address" => ~Ok(v)  BY DEF Ok
    <3>8. Live(u) => Ok(v)  BY <3>3 DEF Good
    <3>9. P(v, j)
      <4>1. ~Ok(v) => v.err = "address" /\ v.f.cur = s.f.cur
        BY <3>3, <3>5, <3>6, <3>8
      <4>2. Ok(v) => v.f.cur = g.ch[n][i + j]  BY <3>3, <3>7
      <4>3. ~Live(s) => ~Ok(v)  BY <3>3, <3>6, <3>7
      <4>4. v.f.pos = s.f.pos /\ (Live(s) => Good(v))  BY <2>1, <3>3, <3>5
      <4> QED  BY <2>3, <3>3, <3>4, <4>1, <4>2, <4>3, <4>4
    <3> QED  BY <2>2, <2>5, <3>9
  <2> QED  BY <2>4, <2>5
<1>4. P(f[k], k)
  <2> HIDE DEF P
  <2>1. \A j \in 0..k : j \in B
    <3> HIDE DEF B
    <3> QED  BY <1>2, <1>3, Induct
  <2> QED  BY <2>1
<1> QED  BY <1>1, <1>4 DEF t

\* seekSet finds the cluster of its position.
LEMMA Sought ==
  ASSUME NEW s, NEW g, NEW o, Sane(s), Ok(s), Sound(s, g, o), s.f.open, At(g, s.f), NEW pos \in Nat
  PROVE  LET t == seekSet(s, pos)
         IN  /\ Sane(t) /\ Moved(s, t) /\ Sound(t, g, o) /\ Astray(g, t.f)
             /\ pos <= s.f.size /\ Live(s) => Good(t)
             /\ Ok(t) => At(g, t.f) /\ t.f.pos = pos /\ pos <= s.f.size
             /\ ~Ok(t) => t.err \in {"position", "address"} /\ (pos <= s.f.size => ~Live(s))
             /\ ~Ok(t) => t.f.pos = s.f.pos
<1> DEFINE n == s.f.name
           C == ClusterLen
           from == (s.f.pos - 1) \div C
           to == (pos - 1) \div C
           again == to < from \/ s.f.pos = 0
           k == IF again THEN to ELSE to - from
           i == IF again THEN 0 ELSE from
           r == PutCur(s, IF again THEN s.f.first ELSE s.f.cur)
           w == Walked(r, k)
           x == PutPos(w, pos)
           t == seekSet(s, pos)
<1>1. g \in Ghost /\ n \in Name /\ Linked(s, g) /\ Held(s, g) /\ s.f.first = FirstOf(g, n) /\ s.f.size = g.size[n]
  BY DEF Sound, Volume, Opened
<1>2. /\ s.f.size \in Nat /\ g.len[n] \in Nat /\ s.f.size <= C * g.len[n] /\ C \in Nat \ {0} /\ C * g.len[n] \in Nat
      /\ s.f.pos \in Nat /\ s.f.pos <= C * g.len[n]
  BY <1>1, GhostTypes, Lengths0 DEF Held, At
<1> DEFINE T == /\ Sane(t) /\ Moved(s, t) /\ Astray(g, t.f)
                /\ pos <= s.f.size /\ Live(s) => Good(t)
                /\ Ok(t) => At(g, t.f) /\ t.f.pos = pos /\ pos <= s.f.size
                /\ ~Ok(t) => t.err \in {"position", "address"} /\ (pos <= s.f.size => ~Live(s))
                /\ ~Ok(t) => t.f.pos = s.f.pos
<1>3. Astray(g, s.f)
  <2>1. s.f.cur \in Clusters \cup {0}
    <3>1. s.f.pos # 0 => from \in Nat
      <4>1. s.f.pos # 0 => s.f.pos \in Nat \ {0}  BY <1>2
      <4> QED  BY <4>1, PreviousCluster
    <3> HIDE DEF from
    <3>2. s.f.cur = IF s.f.pos = 0 THEN 0 ELSE g.ch[n][from]  BY DEF At, from
    <3> QED  BY <1>1, <3>1, <3>2, GhostTypes
  <2> QED  BY <2>1 DEF At, Astray
<1>4. ASSUME pos > s.f.size PROVE T
  <2>1. t = Fail(s, "position")  BY <1>4 DEF seekSet
  <2>2. Sane(t) /\ SameView(s, t) /\ Rest(s, t) /\ t.err = "position"  BY <2>1, FailKeeps
  <2> HIDE DEF t
  <2>3. Moved(s, t) /\ t.f = s.f /\ ~Ok(t)  BY <2>2, MovedRest DEF Rest, Ok
  <2> QED  BY <1>2, <1>3, <1>4, <2>2, <2>3
<1>5. ASSUME pos <= s.f.size, pos = 0 PROVE T
  <2>1. t = Put(s, 0, 0)  BY <1>2, <1>5 DEF seekSet, Put
  <2>2. /\ Sane(t) /\ Moved(s, t) /\ t.f.cur = 0 /\ t.f.pos = 0 /\ t.err = s.err /\ (Live(t) <=> Live(s))
    BY <2>1, Placed
  <2> HIDE DEF t
  <2>3. t.f.name = n  BY <2>2 DEF Moved, SameFile
  <2> QED  BY <1>2, <1>5, <2>2, <2>3 DEF Good, Ok, At, Astray
<1>6. ASSUME pos <= s.f.size, pos # 0 PROVE T
  <2>1. to \in Nat /\ to < g.len[n]
    <3>1. pos - 1 \in Nat /\ pos - 1 < C * g.len[n]  BY <1>2, <1>6
    <3>2. to \in Nat  BY <3>1, Position
    <3> QED  BY <1>2, <3>1, <3>2, ClusterOf
  <2>2. s.f.first = g.ch[n][0]  BY <1>1, <2>1 DEF FirstOf
  <2>3. ~again => s.f.pos # 0 /\ from \in Nat /\ to >= from /\ s.f.cur = g.ch[n][from]
    <3>1. s.f.pos # 0 => from \in Nat
      <4>1. s.f.pos # 0 => s.f.pos \in Nat \ {0}  BY <1>2
      <4> QED  BY <4>1, PreviousCluster
    <3>2. s.f.pos # 0 => s.f.cur = g.ch[n][from]  BY DEF At
    <3> HIDE DEF from, to
    <3> QED  BY <2>1, <3>1, <3>2
  <2>4. t = IF Ok(w) THEN x ELSE w
    <3>1. ~(~s.f.open \/ pos > s.f.size)  BY <1>2, <1>6
    <3> QED  BY <1>6, <3>1, Zenon DEF seekSet, Then, Walked, PutCur, PutPos
  <2> HIDE DEF from, to, again
  <2>5. k \in Nat /\ i \in Nat /\ i + k < g.len[n] /\ i + k = to  BY <1>2, <2>1, <2>3
  <2>6. /\ Sane(r) /\ Moved(s, r) /\ r.f.cur = g.ch[n][i] /\ r.f.pos = s.f.pos
        /\ r.err = s.err /\ (Live(r) <=> Live(s))
    <3> DEFINE c == IF again THEN s.f.first ELSE s.f.cur
    <3>1. r = PutCur(s, c)  OBVIOUS
    <3>2. c = g.ch[n][i]  BY <2>2, <2>3
    <3> DEFINE q == PutCur(s, c)
    <3> HIDE DEF c, r
    <3>3. /\ Sane(q) /\ Moved(s, q) /\ q.f.cur = c /\ q.f.pos = s.f.pos
          /\ q.err = s.err /\ (Live(q) <=> Live(s))
      BY PlacedCur
    <3> HIDE DEF q
    <3>4. r = q  BY <3>1 DEF q
    <3> QED  BY <3>2, <3>3, <3>4
  <2>7. Linked(r, g)  BY <1>1, <2>6, OfFat, SameFat DEF Moved
  <2> HIDE DEF r, i, k
  <2>8. /\ Sane(w) /\ Moved(r, w) /\ w.f.pos = r.f.pos
        /\ Live(r) => Good(w)
        /\ Ok(w) => w.f.cur = g.ch[n][to]
        /\ ~Ok(w) => w.err = "address" /\ w.f.cur = r.f.cur
    BY <1>1, <2>5, <2>6, <2>7, Walk DEF Ok
  <2> HIDE DEF w, t
  <2>9. /\ Sane(x) /\ Moved(w, x) /\ x.f.cur = w.f.cur /\ x.f.pos = pos
        /\ x.err = w.err /\ (Live(x) <=> Live(w))
    BY <2>8, PlacedPos
  <2> HIDE DEF x
  <2>10. Moved(s, w) /\ Moved(s, x)  BY <2>6, <2>8, <2>9, MovedTrans
  <2>11. g.ch[n][to] \in Clusters /\ g.ch[n][i] \in Clusters  BY <1>1, <2>1, <2>5, GhostTypes
  <2>12. CASE Ok(w)
    <3>1. t = x /\ Ok(x) /\ (Live(s) => Good(x))  BY <2>4, <2>6, <2>8, <2>9, <2>12 DEF Ok, Good
    <3>2. x.f.name = n  BY <2>10 DEF Moved, SameFile
    <3>3. x.f.cur = g.ch[n][(pos - 1) \div ClusterLen]  BY <2>8, <2>9, <2>12 DEF to
    <3>4. pos \in 0..(C * g.len[n])  BY <1>2, <1>6
    <3>5. At(g, x.f)  BY <1>6, <2>9, <3>2, <3>3, <3>4 DEF At
    <3>6. Astray(g, x.f)  BY <2>8, <2>9, <2>11, <2>12, <3>2, <3>4 DEF Astray
    <3> QED  BY <1>6, <2>9, <2>10, <3>1, <3>5, <3>6
  <2>13. CASE ~Ok(w)
    <3>1. t = w /\ ~Live(s)  BY <2>4, <2>6, <2>8, <2>13 DEF Good
    <3>2. w.f.name = n  BY <2>10 DEF Moved, SameFile
    <3>3. Astray(g, w.f)
      <4>1. w.f.pos \in 0..(C * g.len[n])  BY <1>2, <2>6, <2>8
      <4> QED  BY <2>6, <2>8, <2>11, <2>13, <3>2, <4>1 DEF Astray
    <3> QED  BY <1>6, <2>6, <2>8, <2>10, <2>13, <3>1, <3>3
  <2> QED  BY <2>12, <2>13
<1>7. T  BY <1>2, <1>4, <1>5, <1>6
<1>8. Sound(t, g, o)
  <2> HIDE DEF t
  <2> QED  BY <1>7, SoundSame DEF Moved
<1> QED  BY <1>7, <1>8
-----------------------------------------------------------------------------
(***** sync *****)

\* Same blocks but for the directory.
SameButDir(s, t) == \A b \in FirstFat \cup Data : ViewOf(t, b) = ViewOf(s, b)

\* Writing the directory changes neither the FAT nor the contents.
LEMMA ButDir ==
  ASSUME NEW s, NEW t, NEW g \in Ghost, SameButDir(s, t)
  PROVE  /\ FatFormed(s) => FatFormed(t)
         /\ DataFormed(s) => DataFormed(t)
         /\ \A c \in 0..LastCluster : FatOf(t, c) = FatOf(s, c)
         /\ Linked(s, g) => Linked(t, g)
         /\ \A n \in Name, p \in Nat : CellOf(t, g, n, p) = CellOf(s, g, n, p)
         /\ Held(s, g) => Held(t, g)
<1>1. FatFormed(s) => FatFormed(t)  BY DEF SameButDir, FatFormed
<1>2. DataFormed(s) => DataFormed(t)  BY DEF SameButDir, DataFormed
<1>3. \A c \in 0..LastCluster : FatOf(t, c) = FatOf(s, c)  BY FatBlocks DEF SameButDir, FatOf
<1>4. \A n \in Name, p \in Nat : CellOf(t, g, n, p) = CellOf(s, g, n, p)
  BY GhostTypes DEF SameButDir, CellOf
<1>5. Held(s, g) => Held(t, g)
  <2> SUFFICES ASSUME Held(s, g), NEW n \in Name, NEW p \in 0..(g.size[n] - 1)
               PROVE  CellOf(t, g, n, p) = <<n, p>>
    BY DEF Held
  <2>1. p \in Nat  BY GhostTypes
  <2> QED  BY <1>4, <2>1 DEF Held
<1> QED  BY <1>1, <1>2, <1>3, <1>4, <1>5, OfFat

\* The directory in the cache, about to be written.
LEMMA DirCached ==
  ASSUME NEW s, Sane(s), Ok(s), NEW w \in BOOLEAN
  PROVE  LET t == cacheRawBlock(s, rootDirStart, w)
         IN  /\ Sane(t) /\ Rest(s, t) /\ SameView(s, t)
             /\ Live(s) => Good(t) /\ t.block = rootDirStart /\ t.data = DirOf(s) /\ (w => t.dirty)
             /\ ~Live(s) => Refused(s, t)
<1> DEFINE t == cacheRawBlock(s, rootDirStart, w)
<1>1. rootDirStart \in Known /\ rootDirStart \notin FirstFat  BY Regions DEF Known
<1>2. /\ Sane(t) /\ Rest(s, t) /\ SameView(s, t)
      /\ Live(s) => Ok(t) /\ Live(t) /\ t.block = rootDirStart /\ (w => t.dirty)
      /\ ~Live(s) => t.err = "address"
  BY <1>1, RawBlock
<1> HIDE DEF t
<1>3. Live(s) => t.data = DirOf(s)  BY <1>1, <1>2 DEF SameView, ViewOf, DirOf
<1> QED  BY <1>2, <1>3 DEF Good, Refused, t

\* A change of the directory in the cache.
LEMMA DirWritten ==
  ASSUME NEW t, Good(t), t.block = rootDirStart, NEW u, Shape(u),
         u.left = t.left, u.card = t.card, u.block = t.block, u.dirty = TRUE, u.mirror = t.mirror, u.err = t.err
  PROVE  Good(u) /\ SameButDir(t, u) /\ DirOf(u) = u.data
<1>1. rootDirStart \notin FirstFat \cup Data /\ rootDirStart \in Known /\ rootDirStart # NoBlock
  BY Regions DEF Known
<1>2. u.mirror = 0  BY <1>1 DEF Good, Sane
<1>3. Sane(u)
  <2>1. Sane(t)  BY DEF Good
  <2>2. u.dirty \in BOOLEAN /\ u.dirty  OBVIOUS
  <2>3. u.block \in Known /\ u.block \notin FirstFat  BY <1>1
  <2>4. u.left \in Int /\ u.left < 0  BY <2>1 DEF Sane
  <2>5. fatCount = 2 => \A b \in FirstFat : u.card[b + blocksPerFat] = u.card[b]  BY <2>1 DEF Sane
  <2> QED  BY <1>2, <2>2, <2>3, <2>4, <2>5 DEF Sane
<1>4. Good(u)  BY <1>1, <1>3 DEF Good, Ok, Live
<1>5. SameButDir(t, u)  BY <1>1 DEF SameButDir, ViewOf
<1>6. DirOf(u) = u.data  BY DEF DirOf, ViewOf
<1> QED  BY <1>4, <1>5, <1>6

\* The entry of the open file brought up to date.
Recorded(t) == [t EXCEPT !.data[t.f.index].size = t.f.size,
                         !.data[t.f.index].first = t.f.first,
                         !.f.dirty = FALSE]

\* The same file, clean or dirty.
SameButDirty(f, h) ==
    /\ h.open = f.open /\ h.name = f.name /\ h.index = f.index /\ h.write = f.write /\ h.sync = f.sync
    /\ h.append = f.append /\ h.first = f.first /\ h.size = f.size /\ h.cur = f.cur /\ h.pos = f.pos

\* sync()'s copy of the open file into its entry keeps the volume sound.
LEMMA Recording ==
  ASSUME NEW t, Good(t), NEW g, NEW o, Sound(t, g, o), t.f.open, t.block = rootDirStart, t.dirty
  PROVE  LET u == Recorded(t)
         IN  /\ Good(u) /\ Sound(u, g, o) /\ SameButDirty(t.f, u.f) /\ ~u.f.dirty
             /\ u.start = t.start /\ u.next = t.next /\ u.got = t.got
<1> DEFINE u == Recorded(t)
           d == t.data
           k == t.f.index
           e == u.data
<1>1. /\ Shape(u) /\ u.left = t.left /\ u.card = t.card /\ u.block = t.block /\ u.dirty = t.dirty
      /\ u.mirror = t.mirror /\ u.err = t.err /\ u.start = t.start /\ u.next = t.next /\ u.got = t.got
      /\ SameButDirty(t.f, u.f) /\ u.f.dirty = FALSE
  BY DEF Recorded, Good, Sane, Shape, SameButDirty
<1>2. d = DirOf(t)  BY DEF DirOf, ViewOf
<1>3. k \in 1..Slots /\ d[k].name = t.f.name /\ t.f.name \in Name  BY <1>2 DEF Sound, Opened
<1>4. /\ DOMAIN d = 1..Slots
      /\ \A i \in 1..Slots : DOMAIN d[i] = {"name", "first", "size"}
  BY <1>2 DEF Sound, Volume, Formed, DirFormed
<1>5. /\ DOMAIN e = 1..Slots
      /\ \A i \in 1..Slots : /\ DOMAIN e[i] = {"name", "first", "size"} /\ e[i].name = d[i].name
                             /\ i # k => e[i] = d[i]
      /\ e[k].first = t.f.first /\ e[k].size = t.f.size
  <2>1. e = [[d EXCEPT ![k].size = t.f.size] EXCEPT ![k].first = t.f.first]
    BY DEF Recorded, Good, Sane, Shape
  <2> DEFINE r == [d EXCEPT ![k].size = t.f.size]
             q == [r EXCEPT ![k].first = t.f.first]
  <2>2. /\ DOMAIN r = 1..Slots
        /\ \A i \in 1..Slots : /\ DOMAIN r[i] = {"name", "first", "size"} /\ r[i].name = d[i].name
                               /\ i # k => r[i] = d[i]
        /\ r[k].size = t.f.size
    BY <1>3, <1>4
  <2> HIDE DEF r
  <2>3. /\ DOMAIN q = 1..Slots
        /\ \A i \in 1..Slots : /\ DOMAIN q[i] = {"name", "first", "size"} /\ q[i].name = r[i].name
                               /\ i # k => q[i] = r[i]
        /\ q[k].first = t.f.first /\ q[k].size = r[k].size
    BY <1>3, <2>2
  <2> HIDE DEF q
  <2>4. e = q  BY <2>1 DEF q, r
  <2> HIDE DEF e
  <2> QED  BY <2>2, <2>3, <2>4
<1>6. u.dirty = TRUE  BY <1>1
<1> HIDE DEF u
<1>7. Good(u) /\ SameButDir(t, u) /\ DirOf(u) = e  BY <1>1, <1>6, DirWritten
<1> HIDE DEF d, k, e
<1>8. DirFormed(u)
  <2>1. DirFormed(t)  BY DEF Sound, Volume, Formed
  <2> QED  BY <1>2, <1>5, <1>7, <2>1 DEF DirFormed
<1>9. Volume(u, g)  BY <1>7, <1>8, ButDir DEF Sound, Volume, Formed
<1>10. Listed(u, g, {u.f.name, o.name})
  <2>1. Listed(t, g, {t.f.name, o.name}) /\ u.f.name = t.f.name  BY <1>1 DEF Sound, SameButDirty
  <2>2. \A i \in 1..Slots : e[i].name # t.f.name => e[i] = d[i]  BY <1>3, <1>5
  <2> QED  BY <1>2, <1>5, <1>7, <2>1, <2>2 DEF Listed
<1>11. Opened(u, g, u.f)
  <2>1. u.f.open /\ u.f.index = k /\ u.f.name = t.f.name /\ u.f.first = t.f.first /\ u.f.size = t.f.size
    BY <1>1 DEF SameButDirty, k
  <2>2. t.f.first = FirstOf(g, t.f.name) /\ t.f.size = g.size[t.f.name]  BY DEF Sound, Opened
  <2> QED  BY <1>3, <1>5, <1>7, <2>1, <2>2 DEF Opened
<1>12. Opened(u, g, o)
  <2>1. Opened(t, g, o) /\ (o.open => t.f.name # o.name)  BY DEF Sound
  <2>2. o.open => o.index \in 1..Slots /\ d[o.index].name = o.name  BY <1>2, <2>1 DEF Opened
  <2>3. o.open => e[o.index] = d[o.index]  BY <1>3, <1>5, <2>1, <2>2
  <2> QED  BY <1>2, <1>7, <2>1, <2>3 DEF Opened
<1>13. Sound(u, g, o)  BY <1>1, <1>9, <1>10, <1>11, <1>12 DEF Sound, SameButDirty
<1> QED  BY <1>1, <1>7, <1>13 DEF u

\* sync() puts all on the card, or fails at once.
LEMMA Synced ==
  ASSUME NEW s, NEW g, NEW o, Sane(s), Ok(s), Sound(s, g, o), s.f.open
  PROVE  LET t == sync(s)
         IN  /\ Sane(t) /\ Sound(t, g, o) /\ SameButDirty(s.f, t.f)
             /\ t.start = s.start /\ t.next = s.next /\ t.got = s.got
             /\ Live(s) => Good(t) /\ ~t.dirty /\ ~t.f.dirty
             /\ ~Live(s) => t.err = "address"
<1> DEFINE c == cacheDirEntry(s)
           r == Recorded(c)
           a == IF ~s.f.dirty THEN s ELSE IF Ok(c) THEN r ELSE c
           b == cacheFlush(a)
           t == sync(s)
<1>1. t = IF Ok(a) THEN b ELSE a  BY Zenon DEF sync, Then, Recorded
<1>2. /\ Sane(a) /\ Sound(a, g, o) /\ SameButDirty(s.f, a.f)
      /\ a.start = s.start /\ a.next = s.next /\ a.got = s.got
      /\ Live(s) => Good(a) /\ ~a.f.dirty
      /\ ~Live(s) => (~Live(a) /\ Ok(a)) \/ a.err = "address"
  <2>1. CASE ~s.f.dirty  BY <2>1 DEF SameButDirty, Good
  <2>2. CASE s.f.dirty
    <3>1. /\ Sane(c) /\ Rest(s, c) /\ SameView(s, c)
          /\ Live(s) => Good(c) /\ c.block = rootDirStart /\ c.data = DirOf(s) /\ c.dirty
          /\ ~Live(s) => Refused(s, c)
      <4>1. c = cacheRawBlock(s, rootDirStart, TRUE)  BY DEF cacheDirEntry
      <4> HIDE DEF c
      <4> DEFINE e == cacheRawBlock(s, rootDirStart, TRUE)
      <4>2. /\ Sane(e) /\ Rest(s, e) /\ SameView(s, e)
            /\ Live(s) => Good(e) /\ e.block = rootDirStart /\ e.data = DirOf(s) /\ e.dirty
            /\ ~Live(s) => Refused(s, e)
        BY DirCached
      <4> HIDE DEF e
      <4>3. c = e  BY <4>1 DEF e
      <4> QED  BY <4>2, <4>3
    <3> HIDE DEF c
    <3>2. Sound(c, g, o) /\ c.f = s.f /\ c.start = s.start /\ c.next = s.next /\ c.got = s.got
      BY <3>1, SoundSame DEF Rest
    <3>3. CASE Live(s)
      <4>1. /\ Good(r) /\ Sound(r, g, o) /\ SameButDirty(c.f, r.f) /\ ~r.f.dirty
            /\ r.start = c.start /\ r.next = c.next /\ r.got = c.got
        BY <3>1, <3>2, <3>3, Recording
      <4>2. a = r  BY <2>2, <3>1, <3>3 DEF Good
      <4> HIDE DEF a, r
      <4> QED  BY <3>2, <3>3, <4>1, <4>2 DEF Good
    <3>4. CASE ~Live(s)
      <4>1. a = c  BY <2>2, <3>1, <3>4 DEF Refused, Ok
      <4> HIDE DEF a
      <4> QED  BY <3>1, <3>2, <3>4, <4>1 DEF Refused, SameButDirty
    <3> QED  BY <3>3, <3>4
  <2> QED  BY <2>1, <2>2
<1> HIDE DEF a, t
<1>3. CASE Ok(a)
  <2>1. /\ Sane(b) /\ Rest(a, b) /\ SameView(a, b)
        /\ Live(a) => Ok(b) /\ ~b.dirty
        /\ ~Live(a) => b.err = "address"
    BY <1>2, <1>3, Flush
  <2>2. t = b  BY <1>1, <1>3
  <2> HIDE DEF b
  <2>3. Sound(b, g, o) /\ b.f = a.f /\ b.start = a.start /\ b.next = a.next /\ b.got = a.got
    BY <1>2, <2>1, SoundSame DEF Rest
  <2>4. Live(a) => Good(b)  BY <2>1 DEF Good, Live
  <2>5. a.err # "address"  BY <1>3 DEF Ok
  <2> QED  BY <1>2, <2>1, <2>2, <2>3, <2>4, <2>5 DEF Good, t
<1>4. CASE ~Ok(a)
  <2>1. t = a /\ ~Live(s)  BY <1>1, <1>2, <1>4 DEF Good
  <2> QED  BY <1>2, <1>4, <2>1 DEF t
<1> QED  BY <1>3, <1>4
-----------------------------------------------------------------------------
(***** truncate *****)

\* The assignments of truncate().
NextIs(s, c)  == [s EXCEPT !.next = c]
FirstIs(s, c) == [s EXCEPT !.f.first = c]
Shrunk(s, p)  == [s EXCEPT !.f.size = p, !.f.dirty = TRUE]

\* All of the file but what truncate and write change.
SameOpen(f, h) ==
    h.open = f.open /\ h.name = f.name /\ h.index = f.index /\ h.write = f.write /\ h.sync = f.sync
       /\ h.append = f.append

\* Where the next search begins is not read.
LEMMA NextSet ==
  ASSUME NEW s, Sane(s), NEW c
  PROVE  LET t == NextIs(s, c)
         IN  /\ Sane(t) /\ SameView(s, t) /\ t.err = s.err /\ (Live(t) <=> Live(s))
             /\ t.f = s.f /\ t.start = s.start /\ t.got = s.got /\ t.next = c
<1> DEFINE t == NextIs(s, c)
<1>1. /\ Shape(t) /\ t.left = s.left /\ t.card = s.card /\ t.block = s.block /\ t.data = s.data
      /\ t.dirty = s.dirty /\ t.mirror = s.mirror /\ t.err = s.err
      /\ t.f = s.f /\ t.start = s.start /\ t.got = s.got /\ t.next = c
  BY DEF Sane, Shape, NextIs
<1> HIDE DEF t
<1> QED  BY <1>1, Alike DEF Live, t

\* Giving the open file another first cluster leaves the card alone.
LEMMA FirstSet ==
  ASSUME NEW s, Sane(s), NEW c
  PROVE  LET t == FirstIs(s, c)
         IN  /\ Sane(t) /\ SameView(s, t) /\ t.err = s.err /\ (Live(t) <=> Live(s))
             /\ SameOpen(s.f, t.f) /\ t.f.first = c /\ t.f.size = s.f.size /\ t.f.cur = s.f.cur
             /\ t.f.pos = s.f.pos /\ t.f.dirty = s.f.dirty
             /\ t.start = s.start /\ t.got = s.got /\ t.next = s.next
<1> DEFINE t == FirstIs(s, c)
<1>1. /\ Shape(t) /\ t.left = s.left /\ t.card = s.card /\ t.block = s.block /\ t.data = s.data
      /\ t.dirty = s.dirty /\ t.mirror = s.mirror /\ t.err = s.err
      /\ SameOpen(s.f, t.f) /\ t.f.first = c /\ t.f.size = s.f.size /\ t.f.cur = s.f.cur
      /\ t.f.pos = s.f.pos /\ t.f.dirty = s.f.dirty
      /\ t.start = s.start /\ t.got = s.got /\ t.next = s.next
  BY DEF Sane, Shape, FirstIs, SameOpen
<1> HIDE DEF t
<1> QED  BY <1>1, Alike DEF Live, t

\* t is s with another size.
Resized(s, t, p) ==
    /\ Sane(t) /\ SameView(s, t) /\ t.err = s.err /\ (Live(t) <=> Live(s))
    /\ SameOpen(s.f, t.f) /\ t.f.first = s.f.first /\ t.f.size = p /\ t.f.cur = s.f.cur
    /\ t.f.pos = s.f.pos /\ t.f.dirty = TRUE
    /\ t.start = s.start /\ t.got = s.got /\ t.next = s.next

\* Giving the open file another size leaves the card alone.
LEMMA SizeSet ==
  ASSUME NEW s, Sane(s), NEW p
  PROVE  Resized(s, Shrunk(s, p), p)
<1> DEFINE t == Shrunk(s, p)
<1>1. /\ Shape(t) /\ t.left = s.left /\ t.card = s.card /\ t.block = s.block /\ t.data = s.data
      /\ t.dirty = s.dirty /\ t.mirror = s.mirror /\ t.err = s.err
      /\ SameOpen(s.f, t.f) /\ t.f.first = s.f.first /\ t.f.size = p /\ t.f.cur = s.f.cur
      /\ t.f.pos = s.f.pos /\ t.f.dirty = TRUE
      /\ t.start = s.start /\ t.got = s.got /\ t.next = s.next
  BY DEF Sane, Shape, Shrunk, SameOpen
<1> HIDE DEF t
<1>2. Sane(t) /\ SameView(s, t)  BY <1>1, Alike
<1>3. Live(t) <=> Live(s)  BY <1>1 DEF Live
<1>4. Resized(s, t, p)  BY <1>1, <1>2, <1>3 DEF Resized
<1> QED  BY <1>4 DEF t

\* The other files are as they were.
Others(g, h, n) == \A m \in Name \ {n} : h.ch[m] = g.ch[m] /\ h.len[m] = g.len[m] /\ h.size[m] = g.size[m]

\* In the FAT, file n ends after its first j clusters.
CutOff(s, t, g, n, j) ==
    /\ FatFormed(t) /\ SameButFat(s, t)
    /\ \A d \in 0..LastCluster :
          (\A i \in 0..(g.len[n] - 1) : i + 1 >= j => g.ch[n][i] # d) => FatOf(t, d) = FatOf(s, d)
    /\ j > 0 => FatOf(t, g.ch[n][j - 1]) = EOC

\* The ghost with the first j clusters of n, and its length.
Shorter(g, n, j, length) == [g EXCEPT !.len[n] = j, !.size[n] = length]

\* The open file is n, and it ends there.
CutTo(s, t, g, n, j, length) ==
    /\ s.f.open /\ n = s.f.name /\ t.start \in 2..(LastCluster + 1)
    /\ j <= g.len[n] /\ length <= g.size[n] /\ length <= ClusterLen * j
    /\ CutOff(s, t, g, n, j)
    /\ SameOpen(s.f, t.f) /\ t.f.first = (IF j = 0 THEN 0 ELSE s.f.first) /\ t.f.size = length /\ t.f.dirty = TRUE

\* A file cut down to its first j clusters.
LEMMA CutDown ==
  ASSUME NEW s, NEW g, NEW o, Sound(s, g, o), NEW n, NEW t, NEW j \in Nat, NEW length \in Nat,
         CutTo(s, t, g, n, j, length)
  PROVE  LET h == Shorter(g, n, j, length)
         IN  Sound(t, h, o) /\ Others(g, h, n) /\ h.len[n] = j /\ h.ch = g.ch /\ h.size[n] = length
<1> DEFINE h == Shorter(g, n, j, length)
<1>a. /\ s.f.open /\ n = s.f.name /\ t.start \in 2..(LastCluster + 1)
      /\ j <= g.len[n] /\ length <= g.size[n] /\ length <= ClusterLen * j
      /\ CutOff(s, t, g, n, j)
      /\ SameOpen(s.f, t.f) /\ t.f.first = (IF j = 0 THEN 0 ELSE s.f.first) /\ t.f.size = length /\ t.f.dirty = TRUE
  BY DEF CutTo
<1> USE <1>a
<1>16. /\ SameButFat(s, t) /\ FatFormed(t)
       /\ \A d \in 0..LastCluster :
             (\A i \in 0..(g.len[n] - 1) : i + 1 >= j => g.ch[n][i] # d) => FatOf(t, d) = FatOf(s, d)
       /\ j > 0 => FatOf(t, g.ch[n][j - 1]) = EOC
  BY DEF CutOff
<1>1. g \in Ghost /\ n \in Name  BY DEF Sound, Opened
<1>2. /\ h \in Ghost /\ h.ch = g.ch /\ h.len[n] = j /\ h.size[n] = length
      /\ \A m \in Name \ {n} : h.len[m] = g.len[m] /\ h.size[m] = g.size[m]
  <2>1. /\ h.ch = g.ch /\ h.len = [g.len EXCEPT ![n] = j] /\ h.size = [g.size EXCEPT ![n] = length]
        /\ h \in Ghost
    BY <1>1 DEF Ghost, Shorter
  <2> HIDE DEF h
  <2>2. DOMAIN g.len = Name /\ DOMAIN g.size = Name  BY <1>1 DEF Ghost
  <2> QED  BY <1>1, <2>1, <2>2
<1> HIDE DEF h
<1>3. Others(g, h, n)  BY <1>2 DEF Others
<1>4. \A m \in Name : h.len[m] <= g.len[m] /\ h.size[m] <= g.size[m]
                      /\ h.len[m] \in Nat /\ g.len[m] \in Nat /\ h.size[m] \in Nat /\ g.size[m] \in Nat
  <2> TAKE m \in Name
  <2>1. g.len[m] \in Nat /\ g.size[m] \in Nat  BY <1>1, GhostTypes
  <2>2. CASE m = n  BY <1>2, <2>1, <2>2
  <2>3. CASE m # n  BY <1>2, <2>1, <2>3
  <2> QED  BY <2>2, <2>3
<1>5. Disjoint(h)
  <2>1. Disjoint(g)  BY DEF Sound, Volume
  <2> SUFFICES ASSUME NEW a \in Name, NEW b \in Name, NEW x \in 0..(h.len[a] - 1), NEW y \in 0..(h.len[b] - 1),
                      h.ch[a][x] = h.ch[b][y]
               PROVE  a = b /\ x = y
    BY DEF Disjoint
  <2>2. x \in 0..(g.len[a] - 1) /\ y \in 0..(g.len[b] - 1)  BY <1>4
  <2> QED  BY <1>2, <2>1, <2>2 DEF Disjoint
<1>6. Linked(t, h)
  <2>0. Disjoint(g) /\ Linked(s, g)  BY DEF Sound, Volume
  <2> SUFFICES ASSUME NEW m \in Name, NEW i \in 0..(h.len[m] - 1)
               PROVE  FatOf(t, g.ch[m][i]) = IF i + 1 < h.len[m] THEN g.ch[m][i + 1] ELSE EOC
    BY <1>2 DEF Linked
  <2>1. i \in 0..(g.len[m] - 1) /\ i \in Nat  BY <1>4
  <2>2. g.ch[m][i] \in 0..LastCluster  BY <1>1, <2>1, GhostTypes
  <2>3. FatOf(s, g.ch[m][i]) = IF i + 1 < g.len[m] THEN g.ch[m][i + 1] ELSE EOC  BY <2>0, <2>1 DEF Linked
  <2>4. CASE m # n
    <3>1. \A k \in 0..(g.len[n] - 1) : g.ch[n][k] # g.ch[m][i]  BY <1>1, <2>0, <2>1, <2>4 DEF Disjoint
    <3>2. FatOf(t, g.ch[m][i]) = FatOf(s, g.ch[m][i])  BY <1>16, <2>2, <3>1
    <3> QED  BY <1>2, <2>3, <2>4, <3>2
  <2>5. CASE m = n /\ i + 1 < j
    <3>1. \A k \in 0..(g.len[n] - 1) : k + 1 >= j => g.ch[n][k] # g.ch[m][i]
      <4> SUFFICES ASSUME NEW k \in 0..(g.len[n] - 1), k + 1 >= j, g.ch[n][k] = g.ch[m][i] PROVE FALSE
        OBVIOUS
      <4>1. k = i  BY <1>1, <2>0, <2>1, <2>5 DEF Disjoint
      <4> QED  BY <2>1, <2>5, <4>1
    <3>2. FatOf(t, g.ch[m][i]) = FatOf(s, g.ch[m][i])  BY <1>16, <2>2, <3>1
    <3>3. i + 1 < g.len[n]  BY <1>4, <1>1, <2>1, <2>5
    <3> QED  BY <1>2, <2>3, <2>5, <3>2, <3>3
  <2>6. CASE m = n /\ ~(i + 1 < j)
    <3>1. i = j - 1 /\ j > 0  BY <1>2, <2>1, <2>6
    <3> QED  BY <1>2, <1>16, <2>6, <3>1
  <2> QED  BY <2>4, <2>5, <2>6
<1>0. \A m \in Name, p \in Nat : CellOf(t, g, m, p) = CellOf(s, g, m, p)  BY <1>1, <1>16, ButFat
<1>7. Held(t, h)
  <2> SUFFICES ASSUME NEW m \in Name
               PROVE  /\ h.size[m] <= ClusterLen * h.len[m]
                      /\ \A p \in 0..(h.size[m] - 1) : CellOf(t, h, m, p) = <<m, p>>
    BY DEF Held
  <2>1. Held(s, g)  BY DEF Sound, Volume
  <2>2. h.size[m] <= ClusterLen * h.len[m]
    <3>1. CASE m = n  BY <1>2, <3>1
    <3>2. CASE m # n  BY <1>2, <2>1, <3>2 DEF Held
    <3> QED  BY <3>1, <3>2
  <2>3. ASSUME NEW p \in 0..(h.size[m] - 1) PROVE CellOf(t, h, m, p) = <<m, p>>
    <3>1. p \in 0..(g.size[m] - 1) /\ p \in Nat  BY <1>4
    <3>2. CellOf(t, h, m, p) = CellOf(t, g, m, p)  BY <1>2 DEF CellOf, BlockAt
    <3>3. CellOf(t, g, m, p) = CellOf(s, g, m, p)  BY <1>0, <3>1
    <3> QED  BY <2>1, <3>1, <3>2, <3>3 DEF Held
  <2> QED  BY <2>2, <2>3
<1>8. Volume(t, h)
  <2>1. DataFormed(t) /\ DirFormed(t)  BY <1>1, <1>16, ButFat DEF Sound, Volume, Formed
  <2> QED  BY <1>5, <1>6, <1>7, <1>16, <2>1 DEF Volume, Formed
<1>9. DirOf(t) = DirOf(s)  BY <1>1, <1>16, ButFat
<1>10. \A m \in Name \ {n} : FirstOf(h, m) = FirstOf(g, m)  BY <1>2 DEF FirstOf
<1>11. t.f.name = n /\ t.f.open /\ t.f.index = s.f.index  BY DEF SameOpen
<1>12. Listed(t, h, {t.f.name, o.name})
  <2>1. Listed(s, g, {n, o.name})  BY DEF Sound
  <2>2. ASSUME NEW i \in 1..Slots, DirOf(t)[i].name \in Name \ {n, o.name}
        PROVE  /\ DirOf(t)[i].first = FirstOf(h, DirOf(t)[i].name)
               /\ DirOf(t)[i].size = h.size[DirOf(t)[i].name]
    <3> DEFINE m == DirOf(t)[i].name
    <3>1. m \in Name \ {n}  BY <2>2
    <3>2. DirOf(t)[i].first = FirstOf(g, m) /\ DirOf(t)[i].size = g.size[m]  BY <1>9, <2>1, <2>2 DEF Listed
    <3> HIDE DEF m
    <3>3. DirOf(t)[i].first = FirstOf(h, m) /\ DirOf(t)[i].size = h.size[m]  BY <1>2, <1>10, <3>1, <3>2
    <3> QED  BY <3>3 DEF m
  <2>3. ASSUME NEW m \in Name, \A i \in 1..Slots : DirOf(t)[i].name # m PROVE h.len[m] = 0
    <3>1. g.len[m] = 0  BY <1>9, <2>1, <2>3 DEF Listed
    <3> QED  BY <1>4, <3>1
  <2> QED  BY <1>11, <2>2, <2>3 DEF Listed
<1>13. Opened(t, h, t.f)
  <2>1. s.f.index \in 1..Slots /\ DirOf(s)[s.f.index].name = n /\ s.f.first = FirstOf(g, n)
    BY DEF Sound, Opened
  <2>2. t.f.first = FirstOf(h, n)
    <3>1. j > 0 => g.len[n] # 0  BY <1>1, <1>4
    <3> QED  BY <1>2, <2>1, <3>1 DEF FirstOf
  <2> QED  BY <1>1, <1>2, <1>9, <1>11, <2>1, <2>2 DEF Opened
<1>14. Opened(t, h, o)
  <2>1. Opened(s, g, o) /\ (o.open => o.name # n)  BY DEF Sound
  <2> QED  BY <1>2, <1>9, <1>10, <2>1 DEF Opened
<1>15. Sound(t, h, o)  BY <1>2, <1>8, <1>11, <1>12, <1>13, <1>14 DEF Sound
<1> QED  BY <1>2, <1>3, <1>15 DEF h

\* The clusters from the j-th on are no longer the file's.
LEMMA CutFat ==
  ASSUME NEW s, Good(s), NEW g, NEW o, Sound(s, g, o), s.f.open, NEW n, n = s.f.name,
         NEW j \in 0..g.len[n], NEW length \in Nat, length = 0 <=> j = 0, g.len[n] > 0,
         j > 0 => s.f.cur = g.ch[n][j - 1],
         s.next = IF j < g.len[n] THEN g.ch[n][j] ELSE EOC
  PROVE  LET t == Cut(s, length)
         IN  /\ Good(t) /\ CutOff(s, t, g, n, j) /\ t.got = s.got
             /\ t.start \in 2..(LastCluster + 1)
             /\ SameOpen(s.f, t.f) /\ t.f.first = IF j = 0 THEN 0 ELSE s.f.first
             /\ t.f.cur = s.f.cur /\ t.f.pos = s.f.pos
<1> DEFINE ch == g.ch[n]
           m == g.len[n]
           b == freeChain(s, s.next)
           x == FirstIs(b, 0)
           y == fatPut(b, b.f.cur, EOC)
           t == Cut(s, length)
           R(q) == /\ Good(q) /\ FatFormed(q) /\ SameButFat(s, q) /\ q.got = s.got
                   /\ q.start \in 2..(LastCluster + 1)
                   /\ \A d \in 0..LastCluster :
                         (\A i \in 0..(m - 1) : i + 1 >= j => ch[i] # d) => FatOf(q, d) = FatOf(s, d)
                   /\ j > 0 => FatOf(q, ch[j - 1]) = EOC
                   /\ SameOpen(s.f, q.f) /\ q.f.first = IF j = 0 THEN 0 ELSE s.f.first
                   /\ q.f.cur = s.f.cur /\ q.f.pos = s.f.pos
<1>1. n \in Name /\ g \in Ghost /\ Disjoint(g) /\ Linked(s, g) /\ FatFormed(s)
  BY DEF Sound, Opened, Volume, Formed
<1>2. m \in Nat /\ ch \in [Nat -> Clusters] /\ \A i \in Nat : ch[i] \in 0..LastCluster  BY <1>1, GhostTypes
<1>3. EOC \notin Clusters /\ 2 \in 2..(LastCluster + 1)  BY Lengths0, EOCAssumption DEF Clusters, EOC
<1>4. \A i \in 0..(m - 1) : FatOf(s, ch[i]) = IF i + 1 < m THEN ch[i + 1] ELSE EOC  BY <1>1 DEF Linked
<1>5. \A i, k \in 0..(m - 1) : ch[i] = ch[k] => i = k  BY <1>1 DEF Disjoint
<1>6. t = IF length > 0 /\ isEOC(s.next) THEN s
          ELSE IF Ok(b) THEN IF length = 0 THEN x ELSE y ELSE b
  BY Zenon DEF Cut, Then, FirstIs
<1>7. s.start \in 2..(LastCluster + 1)  BY DEF Sound
<1> HIDE DEF ch, m, b, x, y, t
<1>8. ASSUME j = m PROVE R(t)
  <2>1. j > 0 /\ length > 0 /\ isEOC(s.next)  BY <1>2, <1>8 DEF isEOC, m
  <2>2. t = s  BY <1>6, <2>1
  <2>3. FatOf(s, ch[j - 1]) = EOC
    <3>1. j - 1 \in 0..(m - 1) /\ ~((j - 1) + 1 < m)  BY <1>2, <1>8, <2>1
    <3> QED  BY <1>4, <3>1
  <2>4. R(s)
    <3>1. SameButFat(s, s) /\ SameOpen(s.f, s.f)  BY DEF SameButFat, SameOpen
    <3> QED  BY <1>1, <1>7, <2>1, <2>3, <3>1
  <2> HIDE DEF R
  <2> QED  BY <2>2, <2>4
<1>9. ASSUME j # m PROVE R(t)
  <2>1. j \in 0..(m - 1) /\ j < m  BY <1>2, <1>9 DEF m
  <2>2. s.next = ch[j] /\ ch[j] \in Clusters /\ ~isEOC(s.next)
    <3>1. s.next = ch[j]  BY <2>1 DEF ch, m
    <3> QED  BY <1>2, <1>3, <2>1, <3>1 DEF isEOC
  <2>3. /\ b.f = s.f /\ b.got = s.got /\ b.start = 2
        /\ Good(b) /\ FatFormed(b) /\ SameButFat(s, b)
        /\ \A d \in 0..LastCluster :
              (\A i \in j..(m - 1) : ch[i] # d) => FatOf(b, d) = FatOf(s, d)
    <3> DEFINE c == freeChain(s, ch[j])
    <3>1. \A i, k \in j..(m - 1) : ch[i] = ch[k] => i = k  BY <1>2, <1>5, <2>1
    <3>2. \A i \in j..(m - 1) : FatOf(s, ch[i]) = IF i + 1 < m THEN ch[i + 1] ELSE EOC
      BY <1>2, <1>4, <2>1
    <3>5. Chained(s, ch, j, m)  BY <3>1, <3>2, Zenon DEF Chained
    <3>3. c.f = s.f /\ c.got = s.got /\ c.start = 2 /\ Good(c) /\ Spares(s, c, ch, j, m)
      <4>1. Sane(s) /\ Ok(s) /\ Live(s)  BY DEF Good
      <4> HIDE DEF c
      <4> QED  BY <1>1, <1>2, <2>1, <3>5, <4>1, Freed DEF c
    <3>4. b = c  BY <2>2 DEF b
    <3> HIDE DEF c
    <3> QED  BY <3>3, <3>4 DEF Spares
  <2>4. Ok(b) /\ Sane(b) /\ Live(b)  BY <2>3 DEF Good
  <2>5. CASE j = 0
    <3>1. t = x  BY <1>6, <2>4, <2>5
    <3>2. /\ Sane(x) /\ SameView(b, x) /\ x.err = b.err /\ (Live(x) <=> Live(b))
          /\ SameOpen(b.f, x.f) /\ x.f.first = 0 /\ x.f.size = b.f.size /\ x.f.cur = b.f.cur
          /\ x.f.pos = b.f.pos
          /\ x.start = b.start /\ x.got = b.got
      BY <2>4, FirstSet DEF x
    <3>3. /\ FatFormed(x) /\ SameButFat(b, x) /\ \A d \in 0..LastCluster : FatOf(x, d) = FatOf(b, d)
      BY <2>3, <3>2, SameFat
    <3>4. Good(x)  BY <2>4, <3>2 DEF Good, Ok
    <3>5. SameButFat(s, x)  BY <2>3, <3>3 DEF SameButFat
    <3>6. \A d \in 0..LastCluster : (\A i \in 0..(m - 1) : i + 1 >= j => ch[i] # d) => FatOf(x, d) = FatOf(s, d)
      <4> SUFFICES ASSUME NEW d \in 0..LastCluster, \A i \in 0..(m - 1) : i + 1 >= j => ch[i] # d
                   PROVE  FatOf(x, d) = FatOf(s, d)
        OBVIOUS
      <4>1. \A i \in j..(m - 1) : ch[i] # d  BY <1>2, <2>5
      <4> QED  BY <2>3, <3>3, <4>1
    <3> QED  BY <1>3, <2>3, <2>5, <3>1, <3>2, <3>3, <3>4, <3>5, <3>6 DEF SameOpen
  <2>6. CASE j > 0
    <3>1. t = y /\ length > 0  BY <1>6, <2>2, <2>4, <2>6
    <3>2. b.f.cur = ch[j - 1] /\ ch[j - 1] \in Clusters /\ j - 1 \in 0..(m - 1) /\ ch[j - 1] \in 0..LastCluster
      <4>1. s.f.cur = ch[j - 1]  BY <2>6 DEF ch
      <4>2. j - 1 \in Nat /\ j - 1 \in 0..(m - 1)  BY <1>2, <2>1, <2>6
      <4> QED  BY <1>2, <2>3, <4>1, <4>2
    <3>3. /\ Good(y) /\ Rest(b, y) /\ FatFormed(y) /\ SameButFat(b, y)
          /\ \A d \in 0..LastCluster : FatOf(y, d) = IF d = ch[j - 1] THEN EOC ELSE FatOf(b, d)
      <4> DEFINE c == ch[j - 1]
                 q == fatPut(b, c, EOC)
      <4>1. c \in Clusters /\ y = q  BY <3>2 DEF y
      <4> HIDE DEF c
      <4>2. /\ Good(q) /\ Rest(b, q) /\ FatFormed(q) /\ SameButFat(b, q)
            /\ \A d \in 0..LastCluster : FatOf(q, d) = IF d = c THEN EOC ELSE FatOf(b, d)
        BY <2>3, <2>4, <4>1, FatPut
      <4> HIDE DEF q
      <4> QED  BY <4>1, <4>2 DEF c
    <3>4. SameButFat(s, y)  BY <2>3, <3>3 DEF SameButFat
    <3>5. \A d \in 0..LastCluster : (\A i \in 0..(m - 1) : i + 1 >= j => ch[i] # d) => FatOf(y, d) = FatOf(s, d)
      <4> SUFFICES ASSUME NEW d \in 0..LastCluster, \A i \in 0..(m - 1) : i + 1 >= j => ch[i] # d
                   PROVE  FatOf(y, d) = FatOf(s, d)
        OBVIOUS
      <4>1. \A i \in j..(m - 1) : ch[i] # d  BY <1>2, <2>1
      <4>2. d # ch[j - 1]
        <5>1. (j - 1) + 1 >= j  OBVIOUS
        <5> QED  BY <3>2, <5>1
      <4> QED  BY <2>3, <3>3, <4>1, <4>2
    <3>6. FatOf(y, ch[j - 1]) = EOC  BY <3>2, <3>3
    <3>7. y.f = s.f /\ y.got = s.got /\ y.start = 2  BY <2>3, <3>3 DEF Rest
    <3>8. R(y)
      <4>1. SameOpen(s.f, s.f)  BY DEF SameOpen
      <4> QED  BY <1>3, <2>6, <3>3, <3>4, <3>5, <3>6, <3>7, <4>1
    <3> HIDE DEF R
    <3> QED  BY <3>1, <3>8
  <2> QED  BY <2>5, <2>6
<1>10. R(t)  BY <1>8, <1>9
<1>11. CutOff(s, t, g, n, j)  BY <1>10, Zenon DEF CutOff, ch, m
<1> QED  BY <1>10, <1>11 DEF t

\* What any use of the open file leaves: a sound volume, the other files as they were, and a
\* position that is right unless the call has failed.
Result(s, t, g, o) ==
    /\ Sane(t) /\ SameOpen(s.f, t.f)
    /\ \E h : /\ Sound(t, h, o) /\ Others(g, h, s.f.name) /\ Astray(h, t.f)
              /\ Ok(t) => At(h, t.f) /\ t.f.pos <= t.f.size

\* What truncate() does.
LEMMA Truncated ==
  ASSUME NEW s, Sane(s), Ok(s), NEW g, NEW o, Sound(s, g, o), s.f.open, At(g, s.f), s.f.pos <= s.f.size,
         NEW length \in Nat
  PROVE  LET t == truncate(s, length)
         IN  /\ Result(s, t, g, o) /\ t.got = s.got
             /\ t.err \in {"none", "refused", "position", "address"} /\ (Live(s) => Live(t))
             /\ Live(s) /\ s.f.write /\ length <= s.f.size => Ok(t)
<1> DEFINE n == s.f.name
           newPos == Min({s.f.pos, length})
           a == seekSet(s, length)
           e == fatGet(a, a.f.cur)
           b == IF length = 0 THEN NextIs(a, a.f.first)
                ELSE IF Ok(e) THEN NextIs(e, Entry(e, e.f.cur)) ELSE e
           c == Cut(b, length)
           x == Shrunk(c, length)
           d == sync(x)
           z == seekSet(d, newPos)
           t == truncate(s, length)
           Q(q) == /\ Result(s, q, g, o) /\ q.got = s.got
                   /\ q.err \in {"none", "refused", "position", "address"} /\ (Live(s) => Live(q))
                   /\ Live(s) /\ s.f.write /\ length <= s.f.size => Ok(q)
           j == IF length = 0 THEN 0 ELSE (length - 1) \div ClusterLen + 1
           h == Shorter(g, n, j, length)
<1>1. t = IF ~s.f.open \/ ~s.f.write \/ length > s.f.size THEN Fail(s, "refused")
          ELSE IF s.f.size = 0 THEN s
          ELSE IF Ok(a) THEN IF Ok(b) THEN IF Ok(c) THEN IF Ok(d) THEN z ELSE d ELSE c ELSE b ELSE a
  BY Zenon DEF truncate, Then, NextIs, Shrunk
<1>2. /\ g \in Ghost /\ n \in Name /\ s.f.size = g.size[n] /\ s.f.first = FirstOf(g, n)
      /\ g.size[n] <= ClusterLen * g.len[n] /\ Linked(s, g) /\ s.start \in 2..(LastCluster + 1)
  BY DEF Sound, Opened, Volume, Held
<1>3. g.len[n] \in Nat /\ s.f.size \in Nat /\ s.f.pos \in Nat /\ ClusterLen * g.len[n] \in Nat /\ ClusterLen \in Nat \ {0}
  BY <1>2, GhostTypes, Lengths0 DEF At
<1>4. Others(g, g, n)  BY DEF Others
<1>5. ASSUME NEW q, Sane(q), SameView(s, q), SameFile(s.f, q.f), q.start = s.start \/ q.start \in 2..(LastCluster + 1),
             q.got = s.got, q.err \in {"refused", "position", "address"}, Live(s) => Live(q), Astray(g, q.f),
             ~(Live(s) /\ s.f.write /\ length <= s.f.size)
      PROVE  Q(q)
  <2>1. Sound(q, g, o)  BY <1>5, SoundSame
  <2>2. SameOpen(s.f, q.f) /\ ~Ok(q)  BY <1>5 DEF SameFile, SameOpen, Ok
  <2> QED  BY <1>4, <1>5, <2>1, <2>2 DEF Result
<1>6. Astray(g, s.f)
  <2>1. s.f.pos # 0 => g.ch[n][(s.f.pos - 1) \div ClusterLen] \in Clusters
    <3>1. s.f.pos # 0 => s.f.pos \in Nat \ {0}  BY <1>3
    <3>2. s.f.pos # 0 => (s.f.pos - 1) \div ClusterLen \in Nat  BY <3>1, PreviousCluster
    <3> QED  BY <1>2, <3>2, GhostTypes
  <2> QED  BY <2>1 DEF At, Astray
<1> HIDE DEF Q
<1>7. CASE ~s.f.write \/ length > s.f.size
  <2> DEFINE q == Fail(s, "refused")
  <2>1. Sane(q) /\ SameView(s, q) /\ Rest(s, q) /\ q.err = "refused" /\ (Live(s) => Live(q))  BY FailKeeps
  <2>2. t = q  BY <1>1, <1>7
  <2> HIDE DEF q, t
  <2>3. SameFile(s.f, q.f) /\ q.f = s.f /\ q.start = s.start /\ q.got = s.got  BY <2>1 DEF Rest, SameFile
  <2>4. Q(q)  BY <1>3, <1>5, <1>6, <1>7, <2>1, <2>3
  <2> QED  BY <2>2, <2>4 DEF Q, t
<1>8. CASE s.f.write /\ length <= s.f.size /\ s.f.size = 0
  <2>1. t = s  BY <1>1, <1>3, <1>8
  <2>2. SameOpen(s.f, s.f)  BY DEF SameOpen
  <2>3. Q(s)  BY <1>4, <1>6, <2>2 DEF Q, Result, Ok
  <2> HIDE DEF t
  <2> QED  BY <2>1, <2>3 DEF Q, t
<1>9. CASE s.f.write /\ length <= s.f.size /\ s.f.size # 0
  <2>1. t = IF Ok(a) THEN IF Ok(b) THEN IF Ok(c) THEN IF Ok(d) THEN z ELSE d ELSE c ELSE b ELSE a
    <3>1. ~(~s.f.open \/ ~s.f.write \/ length > s.f.size) /\ ~(s.f.size = 0)  BY <1>3, <1>9
    <3> QED  BY <1>1, <3>1, Zenon
  <2> HIDE DEF t
  <2>2. g.len[n] > 0
    <3>1. g.len[n] = 0 => ClusterLen * g.len[n] = 0  BY <1>3
    <3> QED  BY <1>2, <1>3, <1>9, <3>1
  <2>3. /\ Sane(a) /\ Moved(s, a) /\ Sound(a, g, o) /\ Astray(g, a.f)
        /\ Live(s) => Good(a)
        /\ Ok(a) => At(g, a.f) /\ a.f.pos = length
        /\ ~Ok(a) => a.err \in {"position", "address"} /\ ~Live(s)
    BY <1>9, Sought
  <2> HIDE DEF a
  <2>4. ASSUME ~Ok(a) PROVE Q(t)
    <3>1. Q(a)  BY <1>5, <2>3, <2>4 DEF Moved
    <3> QED  BY <2>1, <2>4, <3>1
  <2>5. length = 0 \/ (length > 0 /\ length - 1 \in Nat)  OBVIOUS
  <2>6. /\ j \in Nat /\ (length = 0 <=> j = 0) /\ j <= g.len[n] /\ length <= ClusterLen * j
        /\ length > 0 => j - 1 = (length - 1) \div ClusterLen
    <3>1. CASE length = 0
      <4>1. ClusterLen * 0 = 0  BY <1>3
      <4> QED  BY <1>3, <3>1, <4>1
    <3>2. CASE length > 0
      <4> DEFINE p == length - 1
                 y == p \div ClusterLen
      <4>1. p \in Nat /\ y \in Nat  BY <3>2, Position
      <4>2. p < ClusterLen * g.len[n]  BY <1>2, <1>3, <1>9, <3>2
      <4>3. y < g.len[n]  BY <1>3, <4>1, <4>2, ClusterOf
      <4>4. y + 1 \in Nat /\ (p < ClusterLen * (y + 1) <=> y < y + 1)  BY <4>1, ClusterOf
      <4>5. j = y + 1  BY <3>2
      <4>6. ClusterLen * (y + 1) \in Int
        <5>1. \A u, v \in Nat : u * v \in Int  OBVIOUS
        <5> QED  BY <1>3, <4>4, <5>1
      <4> HIDE DEF y, j
      <4>7. length <= ClusterLen * j  BY <4>1, <4>4, <4>5, <4>6
      <4> QED  BY <1>3, <3>2, <4>1, <4>3, <4>5, <4>7 DEF y
    <3> QED  BY <3>1, <3>2, <2>5
  <2> HIDE DEF j
  <2>7. a.f.name = n /\ a.f.first = s.f.first /\ a.f.size = s.f.size /\ a.f.open  BY <2>3 DEF Moved, SameFile
  <2>8. ASSUME Ok(a), length > 0
        PROVE  /\ a.f.cur = g.ch[n][j - 1] /\ a.f.cur \in 0..LastCluster /\ j - 1 \in 0..(g.len[n] - 1)
               /\ FatOf(a, a.f.cur) = IF j < g.len[n] THEN g.ch[n][j] ELSE EOC
    <3>1. a.f.cur = g.ch[n][j - 1]  BY <2>3, <2>6, <2>7, <2>8 DEF At
    <3>2. j - 1 \in 0..(g.len[n] - 1) /\ j - 1 \in Nat /\ (j - 1) + 1 = j  BY <1>3, <2>6, <2>8
    <3>3. FatOf(a, g.ch[n][j - 1]) = IF (j - 1) + 1 < g.len[n] THEN g.ch[n][(j - 1) + 1] ELSE EOC
      BY <1>2, <2>3, <3>2 DEF Sound, Volume, Linked
    <3>4. g.ch[n][j - 1] \in 0..LastCluster  BY <1>2, <3>2, GhostTypes
    <3> QED  BY <3>1, <3>2, <3>3, <3>4
  <2>9. ASSUME Ok(a), ~Live(a), length > 0 PROVE Q(t)
    <3>1. Refused(a, e)  BY <2>3, <2>8, <2>9, FatGet
    <3> HIDE DEF e
    <3>2. b = e /\ ~Ok(e)  BY <2>9, <3>1 DEF Refused, Ok
    <3> HIDE DEF b
    <3>3. t = e  BY <2>1, <2>9, <3>2
    <3>4. e.f = a.f /\ e.start = a.start /\ e.got = a.got /\ SameView(s, e)
      BY <2>3, <3>1, SameViewTrans DEF Refused, Rest, Moved
    <3>5. Q(e)  BY <1>5, <2>3, <2>9, <3>1, <3>4 DEF Moved, Refused, Good
    <3> QED  BY <3>3, <3>5
  <2>10. ASSUME Ok(a), ~Live(a) \/ length = 0 \/ Live(a)
         PROVE  length = 0 \/ Live(a) =>
                  /\ Sane(b) /\ SameView(a, b) /\ Ok(b) /\ (Live(b) <=> Live(a)) /\ b.f = a.f /\ b.start = a.start
                  /\ b.got = a.got /\ b.next = IF j < g.len[n] THEN g.ch[n][j] ELSE EOC
    <3>1. CASE length = 0
      <4>1. b = NextIs(a, a.f.first)  BY <3>1
      <4>2. a.f.first = g.ch[n][0] /\ j = 0 /\ j < g.len[n]  BY <1>2, <2>2, <2>6, <2>7, <3>1 DEF FirstOf
      <4> DEFINE q == NextIs(a, a.f.first)
      <4>3. /\ Sane(q) /\ SameView(a, q) /\ q.err = a.err /\ (Live(q) <=> Live(a))
            /\ q.f = a.f /\ q.start = a.start /\ q.got = a.got /\ q.next = a.f.first
        BY <2>3, NextSet
      <4> HIDE DEF b, q
      <4>4. b = q  BY <4>1 DEF q
      <4> QED  BY <2>10, <4>2, <4>3, <4>4 DEF Ok
    <3>2. CASE length > 0 /\ Live(a)
      <4>1. Rest(a, e) /\ SameView(a, e) /\ Good(e) /\ Entry(e, a.f.cur) = FatOf(a, a.f.cur)
        BY <2>3, <2>8, <2>10, <3>2, FatGet
      <4> DEFINE q == NextIs(e, Entry(e, e.f.cur))
      <4>2. b = q  BY <3>2, <4>1 DEF Good
      <4> HIDE DEF e
      <4>3. /\ Sane(q) /\ SameView(e, q) /\ q.err = e.err /\ (Live(q) <=> Live(e))
            /\ q.f = e.f /\ q.start = e.start /\ q.got = e.got /\ q.next = Entry(e, e.f.cur)
        BY <4>1, NextSet DEF Good
      <4> HIDE DEF b, q
      <4>4. SameView(a, q)  BY <4>1, <4>3, SameViewTrans
      <4>5. q.next = IF j < g.len[n] THEN g.ch[n][j] ELSE EOC  BY <2>8, <2>10, <3>2, <4>1, <4>3 DEF Rest
      <4> QED  BY <3>2, <4>1, <4>2, <4>3, <4>4, <4>5 DEF Good, Ok, Rest
    <3> QED  BY <2>5, <3>1, <3>2
  <2>11. ASSUME Ok(a), ~Live(a), length = 0 PROVE Q(t)
    <3>1. /\ Sane(b) /\ SameView(a, b) /\ Ok(b) /\ ~Live(b) /\ b.f = a.f /\ b.start = a.start
          /\ b.got = a.got /\ b.next = g.ch[n][0]
      BY <2>2, <2>6, <2>10, <2>11
    <3> HIDE DEF b
    <3>2. ~isEOC(b.next)
      <4>1. g.ch[n][0] \in Clusters  BY <1>2, GhostTypes
      <4> QED  BY <3>1, <4>1, Lengths0, EOCAssumption DEF isEOC, Clusters, EOC
    <3> DEFINE y == freeChain(b, b.next)
               r == freeChain(b, g.ch[n][0])
    <3>3. c = IF Ok(y) THEN FirstIs(y, 0) ELSE y  BY <2>11, <3>2, Zenon DEF Cut, Then, FirstIs
    <3>4. Sound(b, g, o)  BY <2>3, <3>1, SoundSame
    <3>5. Chained(b, g.ch[n], 0, g.len[n])
      <4>1. Disjoint(g) /\ Linked(b, g)  BY <3>4 DEF Sound, Volume
      <4> QED  BY <1>2, <4>1 DEF Chained, Disjoint, Linked
    <3>6. r.f = b.f /\ r.got = b.got /\ r.start = 2 /\ Sane(r) /\ SameView(b, r) /\ r.err = "address"
      <4> DEFINE ch == g.ch[n]
                 m == g.len[n]
      <4>1. ch \in [Nat -> Clusters] /\ m \in Nat /\ 0 \in 0..(m - 1)  BY <1>2, <1>3, <2>2, GhostTypes
      <4>2. FatFormed(b) /\ Chained(b, ch, 0, m)  BY <3>4, <3>5 DEF Sound, Volume, Formed
      <4> HIDE DEF ch, m
      <4> DEFINE k == freeChain(b, ch[0])
      <4>3. k.f = b.f /\ k.got = b.got /\ k.start = 2 /\ Sane(k) /\ SameView(b, k) /\ k.err = "address"
        BY <3>1, <4>1, <4>2, Freed
      <4>4. r = k  BY DEF ch
      <4> HIDE DEF k, r
      <4> QED  BY <4>3, <4>4
    <3>7. y = r  BY <3>1
    <3> HIDE DEF y, r, c
    <3>8. c = r /\ ~Ok(r)  BY <3>3, <3>6, <3>7 DEF Ok
    <3>9. t = r  BY <2>1, <2>11, <3>1, <3>8
    <3>10. SameView(s, r)  BY <2>3, <3>1, <3>6, SameViewTrans DEF Moved
    <3>11. r.start \in 2..(LastCluster + 1)  BY <3>6, Lengths0
    <3>12. ~Live(s)  BY <2>3, <2>11 DEF Good
    <3>13. Q(r)  BY <1>5, <2>3, <3>1, <3>6, <3>10, <3>11, <3>12 DEF Moved
    <3> QED  BY <3>9, <3>13
  <2>12. ASSUME Ok(a), Live(a) PROVE Q(t)
    <3>1. /\ Sane(b) /\ SameView(a, b) /\ Ok(b) /\ Live(b) /\ b.f = a.f /\ b.start = a.start
          /\ b.got = a.got /\ b.next = IF j < g.len[n] THEN g.ch[n][j] ELSE EOC
      BY <2>10, <2>12
    <3> HIDE DEF b
    <3>2. Sound(b, g, o) /\ Good(b)  BY <2>3, <3>1, SoundSame DEF Good
    <3>3. /\ Good(c) /\ CutOff(b, c, g, n, j) /\ c.got = b.got
          /\ c.start \in 2..(LastCluster + 1)
          /\ SameOpen(b.f, c.f) /\ c.f.first = IF j = 0 THEN 0 ELSE b.f.first
          /\ c.f.cur = b.f.cur /\ c.f.pos = b.f.pos
      <4>1. b.f.name = n /\ b.f.open /\ j \in 0..g.len[n]  BY <1>3, <2>6, <2>7, <3>1
      <4>2. j > 0 => b.f.cur = g.ch[n][j - 1]  BY <2>6, <2>8, <2>12, <3>1, <2>5
      <4> HIDE DEF n, c
      <4> QED  BY <2>2, <2>6, <3>1, <3>2, <4>1, <4>2, CutFat DEF c
    <3> HIDE DEF c
    <3>4. /\ Sane(x) /\ SameView(c, x) /\ x.err = c.err /\ (Live(x) <=> Live(c))
          /\ SameOpen(c.f, x.f) /\ x.f.first = c.f.first /\ x.f.size = length /\ x.f.cur = c.f.cur
          /\ x.f.pos = c.f.pos /\ x.f.dirty = TRUE
          /\ x.start = c.start /\ x.got = c.got /\ x.next = c.next
      <4>1. Resized(c, x, length)
        <5>1. Sane(c)  BY <3>3 DEF Good
        <5> QED  BY <5>1, SizeSet
      <4> HIDE DEF x
      <4> QED  BY <4>1 DEF Resized
    <3> HIDE DEF x
    <3>5. Good(x)  BY <3>3, <3>4 DEF Good, Ok
    <3>6. CutOff(b, x, g, n, j)
      <4>1. /\ FatFormed(c) /\ SameButFat(b, c)
            /\ \A w \in 0..LastCluster :
                  (\A i \in 0..(g.len[n] - 1) : i + 1 >= j => g.ch[n][i] # w) => FatOf(c, w) = FatOf(b, w)
            /\ j > 0 => FatOf(c, g.ch[n][j - 1]) = EOC
        BY <3>3 DEF CutOff
      <4>2. FatFormed(x) /\ SameButFat(c, x) /\ \A w \in 0..LastCluster : FatOf(x, w) = FatOf(c, w)
        BY <3>4, <4>1, SameFat
      <4>3. SameButFat(b, x)  BY <4>1, <4>2 DEF SameButFat
      <4>4. j > 0 => g.ch[n][j - 1] \in 0..LastCluster
        <5>1. j > 0 => j - 1 \in Nat  BY <2>6
        <5> QED  BY <1>2, <5>1, GhostTypes
      <4>5. j > 0 => FatOf(x, g.ch[n][j - 1]) = EOC  BY <4>1, <4>2, <4>4
      <4> HIDE DEF n
      <4> QED  BY <4>1, <4>2, <4>3, <4>5 DEF CutOff
    <3>7. Sound(x, h, o) /\ Others(g, h, n) /\ h.len[n] = j /\ h.ch = g.ch /\ h.size[n] = length
      <4>1. n = b.f.name /\ b.f.open /\ SameOpen(b.f, x.f)  BY <2>7, <3>1, <3>3, <3>4 DEF SameOpen
      <4>2. length <= g.size[n] /\ x.f.first = (IF j = 0 THEN 0 ELSE b.f.first) /\ x.start \in 2..(LastCluster + 1)
        BY <1>2, <1>9, <3>3, <3>4
      <4> HIDE DEF n
      <4>3. j \in Nat /\ j <= g.len[n] /\ length <= ClusterLen * j /\ length \in Nat  BY <2>6
      <4>4. CutTo(b, x, g, n, j, length)  BY <3>4, <3>6, <4>1, <4>2, <4>3 DEF CutTo
      <4> QED  BY <3>2, <4>3, <4>4, CutDown
    <3> HIDE DEF h
    <3>8. /\ Good(d) /\ Sound(d, h, o) /\ SameButDirty(x.f, d.f) /\ d.got = x.got
      <4>1. x.f.open  BY <2>7, <3>1, <3>3, <3>4 DEF SameOpen
      <4> QED  BY <3>5, <3>7, <4>1, Synced DEF Good
    <3> HIDE DEF d
    <3>9. d.f.name = n /\ d.f.open /\ d.f.pos = length /\ d.f.cur = a.f.cur /\ d.f.size = length
          /\ SameOpen(s.f, d.f)
      BY <2>3, <2>7, <2>12, <3>1, <3>3, <3>4, <3>8 DEF SameButDirty, SameOpen, Moved, SameFile
    <3>10. At(h, d.f)
      <4>1. a.f.cur = IF length = 0 THEN 0 ELSE g.ch[n][(length - 1) \div ClusterLen]
        BY <2>3, <2>7, <2>12 DEF At
      <4>2. length \in 0..(ClusterLen * j)
        <5>1. \A u, v \in Nat : u * v \in Int  OBVIOUS
        <5>2. ClusterLen * j \in Int  BY <1>3, <2>6, <5>1
        <5> QED  BY <2>6, <5>2
      <4> QED  BY <3>7, <3>9, <4>1, <4>2 DEF At
    <3>11. newPos \in Nat /\ newPos <= length
      <4>1. newPos = IF s.f.pos <= length THEN s.f.pos ELSE length  BY <1>3, MinOfTwo
      <4> QED  BY <1>3, <4>1
    <3> HIDE DEF newPos
    <3>12. /\ Sane(z) /\ Moved(d, z) /\ Sound(z, h, o) /\ Astray(h, z.f) /\ Good(z)
           /\ At(h, z.f) /\ z.f.pos = newPos
      <4>1. Ok(d) /\ Sane(d) /\ Live(d)  BY <3>8 DEF Good
      <4>2. newPos <= d.f.size  BY <3>9, <3>11
      <4>3. /\ Sane(z) /\ Moved(d, z) /\ Sound(z, h, o) /\ Astray(h, z.f)
            /\ newPos <= d.f.size /\ Live(d) => Good(z)
            /\ Ok(z) => At(h, z.f) /\ z.f.pos = newPos
        BY <3>8, <3>9, <3>10, <3>11, <4>1, Sought
      <4> HIDE DEF z
      <4> QED  BY <4>1, <4>2, <4>3 DEF Good
    <3> HIDE DEF z
    <3>13. t = z  BY <2>1, <2>12, <3>1, <3>3, <3>8 DEF Good
    <3>14. SameOpen(s.f, z.f) /\ z.f.size = length  BY <3>9, <3>12 DEF Moved, SameFile, SameOpen
    <3>15. Result(s, z, g, o)  BY <3>7, <3>11, <3>12, <3>14 DEF Result
    <3>16. z.got = s.got  BY <2>3, <3>1, <3>3, <3>4, <3>8, <3>12 DEF Moved
    <3>17. Q(z)  BY <3>12, <3>15, <3>16 DEF Q, Good, Ok
    <3> QED  BY <3>13, <3>17
  <2>13. Q(t)  BY <2>4, <2>5, <2>9, <2>11, <2>12
  <2> QED  BY <2>13 DEF Q, t
<1> QED  BY <1>3, <1>7, <1>8, <1>9
-----------------------------------------------------------------------------
(***** open *****)

\* The file of entry i, just opened.
Entered(u, i, mode) ==
    [u EXCEPT !.f = [Closed EXCEPT
        !.open = TRUE, !.name = u.data[i].name, !.index = i,
        !.write = mode.write, !.sync = mode.sync, !.append = mode.append,
        !.first = u.data[i].first, !.size = u.data[i].size]]

\* A volume that reads the same is the same volume.
LEMMA VolumeSame ==
  ASSUME NEW s, NEW t, NEW g \in Ghost, Volume(s, g), SameView(s, t)
  PROVE  /\ Volume(t, g) /\ DirOf(t) = DirOf(s)
         /\ \A names : Listed(s, g, names) => Listed(t, g, names)
         /\ \A f : Opened(s, g, f) => Opened(t, g, f)
<1>1. /\ \A c \in 0..LastCluster : FatOf(t, c) = FatOf(s, c)
      /\ SameButFat(s, t) /\ FatFormed(t)
  BY SameFat DEF Volume, Formed
<1>2. Volume(t, g)  BY <1>1, ButFat, OfFat DEF Volume, Formed
<1> QED  BY <1>1, <1>2, ButFat

\* A file opened from its entry is at its start.
LEMMA Entering ==
  ASSUME NEW u, Good(u), NEW g, NEW o, Sound(u, g, o), ~u.f.open, u.data = DirOf(u),
         NEW name \in Name, o.open => o.name # name, NEW i \in 1..Slots, u.data[i].name = name, NEW mode
  PROVE  LET v == Entered(u, i, mode)
         IN  /\ Good(v) /\ Sound(v, g, o) /\ v.got = u.got /\ v.f.open /\ v.f.name = name
             /\ At(g, v.f) /\ v.f.pos <= v.f.size /\ v.f.write = mode.write
<1> DEFINE v == Entered(u, i, mode)
<1>1. /\ Shape(v) /\ v.left = u.left /\ v.card = u.card /\ v.block = u.block /\ v.data = u.data
      /\ v.dirty = u.dirty /\ v.mirror = u.mirror /\ v.err = u.err /\ v.start = u.start /\ v.got = u.got
      /\ v.f.open = TRUE /\ v.f.name = u.data[i].name /\ v.f.index = i /\ v.f.write = mode.write
      /\ v.f.first = u.data[i].first /\ v.f.size = u.data[i].size /\ v.f.cur = 0 /\ v.f.pos = 0
  BY DEF Entered, Closed, Good, Sane, Shape
<1>2. v.f.open  BY <1>1
<1> HIDE DEF v
<1>3. Good(v) /\ SameView(u, v)  BY <1>1, GoodAlike
<1>4. u.f = Closed /\ u.f.name = NoName /\ g \in Ghost  BY DEF Sound, Opened, Closed
<1>5. name # o.name
  <2>1. ~o.open => o.name = NoName  BY DEF Sound, Opened, Closed
  <2> QED  BY <2>1, NameAssumption
<1>6. /\ Volume(v, g) /\ DirOf(v) = DirOf(u) /\ Listed(v, g, {NoName, o.name}) /\ Opened(v, g, o)
      /\ Listed(u, g, {NoName, o.name})
  BY <1>3, <1>4, VolumeSame DEF Sound
<1>7. u.data[i].first = FirstOf(g, name) /\ u.data[i].size = g.size[name]
  <2>1. name \notin {NoName, o.name}  BY <1>5, NameAssumption
  <2> QED  BY <1>6, <2>1 DEF Listed
<1>8. Listed(v, g, {v.f.name, o.name})
  <2>1. NoName \notin Name  BY NameAssumption
  <2> QED  BY <1>1, <1>6, <2>1 DEF Listed
<1>9. Opened(v, g, v.f)  BY <1>1, <1>2, <1>6, <1>7 DEF Opened
<1>10. Sound(v, g, o)  BY <1>1, <1>2, <1>4, <1>5, <1>6, <1>8, <1>9 DEF Sound
<1>11. At(g, v.f) /\ v.f.pos <= v.f.size
  <2>1. ClusterLen * g.len[name] \in Nat /\ g.size[name] \in Nat  BY <1>4, GhostTypes
  <2> QED  BY <1>1, <1>7, <2>1 DEF At
<1> QED  BY <1>1, <1>2, <1>3, <1>10, <1>11 DEF v

\* A new entry in slot k.
Made(t, k, name) == [t EXCEPT !.data[k] = [name |-> name, first |-> 0, size |-> 0], !.dirty = TRUE]

\* A new entry is of an empty file.
LEMMA Making ==
  ASSUME NEW t, Good(t), t.block = rootDirStart, NEW g, NEW o, Sound(t, g, o), ~t.f.open,
         NEW name \in Name, NEW k \in 1..Slots, t.data[k].name = NoName,
         \A i \in 1..Slots : t.data[i].name # name
  PROVE  LET u == Made(t, k, name)
         IN  Good(u) /\ Sound(u, g, o) /\ u.f = t.f /\ u.got = t.got /\ u.data = DirOf(u)
             /\ u.data[k].name = name
<1> DEFINE u == Made(t, k, name)
           d == t.data
           e == u.data
           new == [name |-> name, first |-> 0, size |-> 0]
<1>1. /\ Shape(u) /\ u.left = t.left /\ u.card = t.card /\ u.block = t.block /\ u.dirty = TRUE
      /\ u.mirror = t.mirror /\ u.err = t.err /\ u.start = t.start /\ u.got = t.got /\ u.f = t.f
      /\ e = [d EXCEPT ![k] = new]
  BY DEF Made, Good, Sane, Shape
<1>2. d = DirOf(t)  BY DEF DirOf, ViewOf
<1>3. DOMAIN d = 1..Slots  BY <1>2 DEF Sound, Volume, Formed, DirFormed
<1>4. /\ DOMAIN e = 1..Slots /\ e[k] = new /\ \A i \in 1..Slots : i # k => e[i] = d[i]
  BY <1>1, <1>3
<1>5. new.name = name /\ new.first = 0 /\ new.size = 0 /\ DOMAIN new = {"name", "first", "size"}  OBVIOUS
<1> HIDE DEF u, d, e, new
<1>6. Good(u) /\ SameButDir(t, u) /\ DirOf(u) = e  BY <1>1, DirWritten DEF e
<1>7. DirFormed(u)
  <2>1. DirFormed(t)  BY DEF Sound, Volume, Formed
  <2>2. /\ \A i \in 1..Slots : DOMAIN d[i] = {"name", "first", "size"} /\ d[i].name \in Name \cup {NoName} /\ d[i].name # name
        /\ \A i, j \in 1..Slots : d[i].name = d[j].name /\ i # j => d[i].name = NoName
    BY <1>2, <2>1 DEF DirFormed, d
  <2>3. \A i \in 1..Slots : DOMAIN e[i] = {"name", "first", "size"} /\ e[i].name \in Name \cup {NoName}
    BY <1>4, <1>5, <2>2
  <2>4. \A i, j \in 1..Slots : e[i].name = e[j].name /\ i # j => e[i].name = NoName
    BY <1>4, <1>5, <2>2
  <2> QED  BY <1>4, <1>6, <2>3, <2>4 DEF DirFormed
<1>8. g \in Ghost /\ t.f = Closed  BY DEF Sound, Opened
<1>9. Volume(u, g)  BY <1>6, <1>7, <1>8, ButDir DEF Sound, Volume, Formed
<1>10. Listed(t, g, {t.f.name, o.name}) /\ Opened(t, g, o)  BY DEF Sound
<1>11. g.len[name] = 0 /\ g.size[name] = 0
  <2>1. g.len[name] = 0  BY <1>2, <1>10 DEF Listed, d
  <2>2. g.size[name] \in Nat /\ ClusterLen * 0 = 0  BY <1>8, GhostTypes, Lengths0
  <2>3. g.size[name] <= ClusterLen * g.len[name]  BY DEF Sound, Volume, Held
  <2> QED  BY <2>1, <2>2, <2>3
<1>12. Listed(u, g, {u.f.name, o.name})
  <2>1. FirstOf(g, name) = 0  BY <1>11 DEF FirstOf
  <2>2. ASSUME NEW i \in 1..Slots, e[i].name \in Name \ {u.f.name, o.name}
        PROVE  e[i].first = FirstOf(g, e[i].name) /\ e[i].size = g.size[e[i].name]
    <3>1. CASE i = k  BY <1>4, <1>5, <1>11, <2>1, <3>1
    <3>2. CASE i # k  BY <1>1, <1>2, <1>4, <1>10, <2>2, <3>2 DEF Listed
    <3> QED  BY <3>1, <3>2
  <2>3. ASSUME NEW n \in Name, \A i \in 1..Slots : e[i].name # n PROVE g.len[n] = 0
    <3>1. n # NoName  BY NameAssumption
    <3>2. \A i \in 1..Slots : d[i].name # n
      <4> TAKE i \in 1..Slots
      <4>1. CASE i = k  BY <3>1, <4>1 DEF d
      <4>2. CASE i # k  BY <1>4, <2>3, <4>2
      <4> QED  BY <4>1, <4>2
    <3> QED  BY <1>2, <1>10, <3>2 DEF Listed
  <2> QED  BY <1>6, <2>2, <2>3 DEF Listed
<1>13. Opened(u, g, o)
  <2>1. o.open => o.index \in 1..Slots /\ d[o.index].name = o.name /\ o.name \in Name  BY <1>2, <1>10 DEF Opened
  <2>2. o.open => o.index # k  BY <2>1, NameAssumption DEF d
  <2>3. o.open => e[o.index] = d[o.index]  BY <1>4, <2>1, <2>2
  <2> QED  BY <1>2, <1>6, <1>10, <2>3 DEF Opened
<1>14. Opened(u, g, u.f)  BY <1>1, <1>8 DEF Opened, Closed
<1>15. ~(u.f.open)  BY <1>1
<1>16. Sound(u, g, o)  BY <1>1, <1>8, <1>9, <1>12, <1>13, <1>14, <1>15 DEF Sound
<1> QED  BY <1>1, <1>4, <1>5, <1>6, <1>16 DEF u, e

\* What open() leaves, if it has to do with file name.
OpenedAs(t, g, o, name) ==
    /\ Sane(t) /\ Live(t)
    /\ \E h : /\ Sound(t, h, o) /\ Others(g, h, name)
              /\ t.f.open => t.f.name = name /\ Astray(h, t.f)
              /\ Ok(t) => t.f.open /\ At(h, t.f) /\ t.f.pos <= t.f.size

\* A file that is in its place is, in particular, in one of its clusters.
LEMMA AtAstray ==
  ASSUME NEW g \in Ghost, NEW f, f.name \in Name, At(g, f)
  PROVE  Astray(g, f)
<1> DEFINE j == (f.pos - 1) \div ClusterLen
<1>1. f.pos \in Nat  BY GhostTypes DEF At
<1>2. f.pos # 0 => f.pos \in Nat \ {0}  BY <1>1
<1>3. f.pos # 0 => j \in Nat  BY <1>2, PreviousCluster
<1>4. f.cur = IF f.pos = 0 THEN 0 ELSE g.ch[f.name][j]  BY DEF At
<1> HIDE DEF j
<1>5. f.cur \in Clusters \cup {0}  BY <1>3, <1>4, GhostTypes
<1> QED  BY <1>5 DEF At, Astray

\* What openCachedEntry() does.
LEMMA OpenedEntry ==
  ASSUME NEW u, Good(u), NEW g, NEW o, Sound(u, g, o), ~u.f.open, u.data = DirOf(u),
         NEW name \in Name, o.open => o.name # name, NEW i \in 1..Slots, u.data[i].name = name, NEW mode
  PROVE  LET t == openCachedEntry(u, i, mode)
         IN  /\ OpenedAs(t, g, o, name) /\ t.got = u.got
             /\ t.err \in {"none", "refused", "position", "address"}
             /\ t.f.write = mode.write /\ (~mode.trunc => Ok(t))
<1> DEFINE v == Entered(u, i, mode)
           w == truncate(v, 0)
           t == openCachedEntry(u, i, mode)
<1>1. t = IF Ok(v) THEN IF mode.trunc THEN w ELSE v ELSE v  BY Zenon DEF openCachedEntry, Then, Entered
<1>2. /\ Good(v) /\ Sound(v, g, o) /\ v.got = u.got /\ v.f.open /\ v.f.name = name
      /\ At(g, v.f) /\ v.f.pos <= v.f.size /\ v.f.write = mode.write
  <2> HIDE DEF v
  <2> QED  BY Entering DEF v
<1> HIDE DEF v, t
<1>3. Sane(v) /\ Ok(v) /\ Live(v)  BY <1>2 DEF Good
<1>4. CASE ~mode.trunc
  <2>1. t = v  BY <1>1, <1>4
  <2>2. Others(g, g, name)  BY DEF Others
  <2>3. g \in Ghost  BY <1>2 DEF Sound
  <2>4. Astray(g, v.f)  BY <1>2, <2>3, AtAstray
  <2>5. OpenedAs(v, g, o, name)  BY <1>2, <1>3, <2>2, <2>4 DEF OpenedAs
  <2> QED  BY <1>2, <1>3, <1>4, <2>1, <2>5 DEF Ok, t
<1>5. CASE mode.trunc
  <2>1. t = w  BY <1>1, <1>3, <1>5
  <2>2. /\ Result(v, w, g, o) /\ w.got = v.got
        /\ w.err \in {"none", "refused", "position", "address"} /\ (Live(v) => Live(w))
    BY <1>2, <1>3, Truncated
  <2> HIDE DEF w
  <2>3. SameOpen(v.f, w.f) /\ w.f.open /\ w.f.name = name /\ w.f.write = mode.write  BY <1>2, <2>2 DEF Result, SameOpen
  <2>4. OpenedAs(w, g, o, name)  BY <1>2, <1>3, <2>2, <2>3 DEF OpenedAs, Result
  <2> QED  BY <1>2, <1>5, <2>1, <2>2, <2>3, <2>4 DEF t
<1> QED  BY <1>4, <1>5

\* What open() does.
LEMMA OpenDone ==
  ASSUME NEW s, Sane(s), Ok(s), NEW g, NEW o, Sound(s, g, o), ~s.f.open,
         NEW name \in Name, o.open => o.name # name, NEW mode
  PROVE  LET t == open(s, name, mode)
         IN  /\ t.got = s.got /\ t.err \in {"none", "refused", "position", "address"}
             /\ \/ OpenedAs(t, g, o, name) /\ t.f.write = mode.write /\ (~mode.trunc => Ok(t))
                \/ Sane(t) /\ Sound(t, g, o) /\ ~Ok(t) /\ t.f = Closed
<1> DEFINE a == cacheRawBlock(s, rootDirStart, FALSE)
           m == Made(a, Min(SlotsOf(a, NoName)), name)
           w == cacheFlush(m)
           u == IF SlotsOf(a, name) # {} THEN a
                ELSE IF ~(mode.write /\ mode.creat) \/ SlotsOf(a, NoName) = {} THEN Fail(a, "refused") ELSE w
           z == openCachedEntry(u, Min(SlotsOf(u, name)), mode)
           t == open(s, name, mode)
           Q(q) == /\ q.got = s.got /\ q.err \in {"none", "refused", "position", "address"}
                   /\ \/ OpenedAs(q, g, o, name) /\ q.f.write = mode.write /\ (~mode.trunc => Ok(q))
                      \/ Sane(q) /\ Sound(q, g, o) /\ ~Ok(q) /\ q.f = Closed
<1>1. t = IF Ok(a) THEN IF Ok(u) THEN z ELSE u ELSE a  BY Zenon DEF open, Then, Made
<1>2. s.f = Closed /\ g \in Ghost  BY DEF Sound, Opened
<1>3. /\ Sane(a) /\ Rest(s, a) /\ SameView(s, a)
      /\ Live(s) => Good(a) /\ a.block = rootDirStart /\ a.data = DirOf(s)
      /\ ~Live(s) => Refused(s, a)
  BY DirCached
<1> HIDE DEF a, t
<1>4. Sound(a, g, o) /\ a.f = Closed /\ ~a.f.open /\ a.got = s.got  BY <1>2, <1>3, SoundSame DEF Rest
<1>5. CASE ~Live(s)
  <2>1. ~Ok(a) /\ a.err = "address"  BY <1>3, <1>5 DEF Refused, Ok
  <2>2. Q(a)  BY <1>3, <1>4, <2>1
  <2> HIDE DEF Q
  <2>3. t = a  BY <1>1, <2>1
  <2> QED  BY <2>2, <2>3 DEF Q, t
<1>6. CASE Live(s)
  <2>1. Good(a) /\ Ok(a) /\ a.block = rootDirStart /\ a.data = DirOf(a)
    <3>1. DirOf(a) = DirOf(s)  BY <1>3, SameFat
    <3> QED  BY <1>3, <1>6, <3>1 DEF Good
  <2>2. \A q, x : SlotsOf(q, x) \subseteq Nat  BY DEF SlotsOf
  <2>3. \A q, x : SlotsOf(q, x) # {} => Min(SlotsOf(q, x)) \in 1..Slots /\ q.data[Min(SlotsOf(q, x))].name = x
    <3> TAKE q, x
    <3> DEFINE S == SlotsOf(q, x)
    <3>1. S \subseteq Nat  BY <2>2
    <3>2. \A i : i \in S => i \in 1..Slots /\ q.data[i].name = x  BY DEF SlotsOf
    <3> HIDE DEF S
    <3>3. S # {} => Min(S) \in S  BY <3>1, MinIn
    <3>4. S # {} => Min(S) \in 1..Slots /\ q.data[Min(S)].name = x  BY <3>2, <3>3
    <3> QED  BY <3>4 DEF S
  <2>4. ASSUME NEW q, Good(q), Sound(q, g, o), ~q.f.open, q.data = DirOf(q), q.got = s.got, SlotsOf(q, name) # {},
               NEW y, y = openCachedEntry(q, Min(SlotsOf(q, name)), mode)
        PROVE  Q(y)
    <3> DEFINE i == Min(SlotsOf(q, name))
               r == openCachedEntry(q, i, mode)
    <3>1. i \in 1..Slots /\ q.data[i].name = name  BY <2>3, <2>4
    <3>2. y = r  BY <2>4
    <3> HIDE DEF i
    <3>3. /\ OpenedAs(r, g, o, name) /\ r.got = q.got
          /\ r.err \in {"none", "refused", "position", "address"}
          /\ r.f.write = mode.write /\ (~mode.trunc => Ok(r))
      BY <2>4, <3>1, OpenedEntry
    <3> HIDE DEF r
    <3> QED  BY <2>4, <3>2, <3>3
  <2> HIDE DEF Q
  <2>5. CASE SlotsOf(a, name) # {}
    <3>1. u = a  BY <2>5
    <3>2. t = openCachedEntry(a, Min(SlotsOf(a, name)), mode)  BY <1>1, <2>1, <3>1
    <3>3. Q(t)  BY <1>4, <2>1, <2>4, <2>5, <3>2
    <3> QED  BY <3>3 DEF Q, t
  <2>6. CASE SlotsOf(a, name) = {} /\ (~(mode.write /\ mode.creat) \/ SlotsOf(a, NoName) = {})
    <3> DEFINE q == Fail(a, "refused")
    <3>1. u = q  BY <2>6
    <3>2. Sane(q) /\ SameView(a, q) /\ Rest(a, q) /\ q.err = "refused"  BY <1>3, FailKeeps
    <3> HIDE DEF u, q
    <3>3. Sound(q, g, o) /\ q.f = Closed /\ q.got = s.got  BY <1>4, <3>2, SoundSame DEF Rest
    <3>4. ~Ok(q)  BY <3>2 DEF Ok
    <3>5. t = q  BY <1>1, <2>1, <3>1, <3>4
    <3>6. Q(q)  BY <3>2, <3>3, <3>4 DEF Q
    <3> QED  BY <3>5, <3>6 DEF Q, t
  <2>7. CASE SlotsOf(a, name) = {} /\ ~(~(mode.write /\ mode.creat) \/ SlotsOf(a, NoName) = {})
    <3> DEFINE k == Min(SlotsOf(a, NoName))
               n == Made(a, k, name)
    <3>1. u = w  BY <2>7
    <3>2. k \in 1..Slots /\ a.data[k].name = NoName  BY <2>3, <2>7
    <3>3. \A i \in 1..Slots : a.data[i].name # name  BY <2>7 DEF SlotsOf
    <3>4. m = n  OBVIOUS
    <3> HIDE DEF k, m
    <3>5. /\ Good(n) /\ Sound(n, g, o) /\ n.f = a.f /\ n.got = a.got /\ n.data = DirOf(n)
          /\ n.data[k].name = name
      BY <1>4, <2>1, <3>2, <3>3, Making
    <3> HIDE DEF n
    <3>6. /\ Sane(w) /\ Rest(m, w) /\ SameView(m, w)
          /\ w.block = m.block /\ w.data = m.data
          /\ Live(m) => Ok(w) /\ ~w.dirty
      BY <3>4, <3>5, Flush DEF Good
    <3> HIDE DEF u, w
    <3>7. Good(w)  BY <3>4, <3>5, <3>6 DEF Good, Live
    <3>8. Sound(w, g, o) /\ ~w.f.open /\ w.got = s.got  BY <1>4, <3>4, <3>5, <3>6, SoundSame DEF Rest
    <3>9. w.data = DirOf(w)
      <4>1. DirOf(w) = DirOf(m)  BY <3>6, SameFat
      <4> QED  BY <3>4, <3>5, <3>6, <4>1
    <3>10. SlotsOf(w, name) # {}  BY <3>2, <3>4, <3>5, <3>6 DEF SlotsOf
    <3>11. t = openCachedEntry(w, Min(SlotsOf(w, name)), mode)  BY <1>1, <2>1, <3>1, <3>7 DEF Good
    <3>12. Q(t)  BY <2>4, <3>7, <3>8, <3>9, <3>10, <3>11
    <3> QED  BY <3>12 DEF Q, t
  <2> QED  BY <2>5, <2>6, <2>7
<1> QED  BY <1>5, <1>6
-----------------------------------------------------------------------------
(***** remove *****)

\* Leaving the other files alone is transitive.
LEMMA OthersTrans ==
  ASSUME NEW g, NEW h, NEW k, NEW n, Others(g, h, n), Others(h, k, n)
  PROVE  Others(g, k, n)
BY DEF Others

\* A file without clusters is no burden.
LEMMA Forgotten ==
  ASSUME NEW s, NEW g \in Ghost, Disjoint(g), Linked(s, g), Held(s, g), NEW n \in Name
  PROVE  LET h == Shorter(g, n, 0, 0)
         IN  /\ h \in Ghost /\ Disjoint(h) /\ Linked(s, h) /\ Held(s, h) /\ Others(g, h, n)
             /\ h.len[n] = 0 /\ h.size[n] = 0
<1> DEFINE h == Shorter(g, n, 0, 0)
<1>1. /\ h \in Ghost /\ h.ch = g.ch /\ h.len[n] = 0 /\ h.size[n] = 0
      /\ \A m \in Name \ {n} : h.len[m] = g.len[m] /\ h.size[m] = g.size[m]
  <2>1. /\ h.ch = g.ch /\ h.len = [g.len EXCEPT ![n] = 0] /\ h.size = [g.size EXCEPT ![n] = 0]
        /\ h \in Ghost
    BY DEF Ghost, Shorter
  <2> HIDE DEF h
  <2>2. DOMAIN g.len = Name /\ DOMAIN g.size = Name  BY DEF Ghost
  <2> QED  BY <2>1, <2>2
<1> HIDE DEF h
<1>2. \A i \in 0..(h.len[n] - 1) : FALSE  BY <1>1
<1>3. Disjoint(h)
  <2> SUFFICES ASSUME NEW a \in Name, NEW b \in Name, NEW x \in 0..(h.len[a] - 1), NEW y \in 0..(h.len[b] - 1),
                      h.ch[a][x] = h.ch[b][y]
               PROVE  a = b /\ x = y
    BY DEF Disjoint
  <2>1. a # n /\ b # n  BY <1>2
  <2> QED  BY <1>1, <2>1 DEF Disjoint
<1>4. Linked(s, h)
  <2> SUFFICES ASSUME NEW m \in Name, NEW i \in 0..(h.len[m] - 1)
               PROVE  FatOf(s, g.ch[m][i]) = IF i + 1 < h.len[m] THEN g.ch[m][i + 1] ELSE EOC
    BY <1>1 DEF Linked
  <2>1. m # n  BY <1>2
  <2> QED  BY <1>1, <2>1 DEF Linked
<1>5. Held(s, h)
  <2> SUFFICES ASSUME NEW m \in Name
               PROVE  /\ h.size[m] <= ClusterLen * h.len[m]
                      /\ \A p \in 0..(h.size[m] - 1) : CellOf(s, h, m, p) = <<m, p>>
    BY DEF Held
  <2>1. CASE m = n
    <3>1. ClusterLen * 0 = 0 /\ \A p \in 0..(h.size[n] - 1) : FALSE  BY <1>1, Lengths0
    <3> QED  BY <1>1, <2>1, <3>1
  <2>2. CASE m # n
    <3>1. \A p : CellOf(s, h, m, p) = CellOf(s, g, m, p)  BY <1>1 DEF CellOf, BlockAt
    <3> QED  BY <1>1, <2>2, <3>1 DEF Held
  <2> QED  BY <2>1, <2>2
<1> QED  BY <1>1, <1>3, <1>4, <1>5 DEF h, Others

\* The entry of the file taken out of the directory.
Dropped(u) == [u EXCEPT !.data[u.f.index].name = NoName, !.f = Closed]

\* An entry without clusters may be taken out of the directory.
LEMMA Dropping ==
  ASSUME NEW u, Good(u), u.block = rootDirStart, u.dirty, NEW g, NEW o, Sound(u, g, o), u.f.open,
         NEW n, n = u.f.name
  PROVE  LET v == Dropped(u)
             h == Shorter(g, n, 0, 0)
         IN  Good(v) /\ Sound(v, h, o) /\ v.f = Closed /\ v.got = u.got /\ Others(g, h, n)
<1> DEFINE v == Dropped(u)
           h == Shorter(g, n, 0, 0)
           d == u.data
           k == u.f.index
           e == v.data
<1>1. /\ Shape(v) /\ v.left = u.left /\ v.card = u.card /\ v.block = u.block /\ v.dirty = u.dirty
      /\ v.mirror = u.mirror /\ v.err = u.err /\ v.start = u.start /\ v.got = u.got /\ v.f = Closed
      /\ e = [d EXCEPT ![k].name = NoName]
  BY DEF Dropped, Closed, Good, Sane, Shape
<1>2. d = DirOf(u)  BY DEF DirOf, ViewOf
<1>3. k \in 1..Slots /\ d[k].name = n /\ n \in Name /\ g \in Ghost  BY <1>2 DEF Sound, Opened
<1>4. DirFormed(u) /\ Disjoint(g) /\ Linked(u, g) /\ Held(u, g) /\ FatFormed(u) /\ DataFormed(u)
  BY DEF Sound, Volume, Formed
<1>5. /\ DOMAIN d = 1..Slots
      /\ \A i \in 1..Slots : DOMAIN d[i] = {"name", "first", "size"} /\ d[i].name \in Name \cup {NoName}
      /\ \A i, j \in 1..Slots : d[i].name = d[j].name /\ i # j => d[i].name = NoName
  BY <1>2, <1>4 DEF DirFormed
<1>6. /\ DOMAIN e = 1..Slots /\ e[k].name = NoName /\ DOMAIN e[k] = {"name", "first", "size"}
      /\ \A i \in 1..Slots : i # k => e[i] = d[i]
  <2>1. e = [d EXCEPT ![k].name = NoName]  BY <1>1
  <2> HIDE DEF e, d, k
  <2> QED  BY <1>3, <1>5, <2>1
<1>7. v.dirty = TRUE
  <2>1. u.dirty = TRUE  BY DEF Good, Sane
  <2> QED  BY <1>1, <2>1
<1> HIDE DEF v, d, e
<1>8. Good(v) /\ SameButDir(u, v) /\ DirOf(v) = e  BY <1>1, <1>7, DirWritten DEF e
<1>9. /\ h \in Ghost /\ Disjoint(h) /\ Linked(u, h) /\ Held(u, h) /\ Others(g, h, n)
      /\ h.len[n] = 0 /\ h.size[n] = 0
  BY <1>3, <1>4, Forgotten
<1> HIDE DEF h, k
<1>10. DirFormed(v)
  <2>1. \A i \in 1..Slots : DOMAIN e[i] = {"name", "first", "size"} /\ e[i].name \in Name \cup {NoName}
    BY <1>5, <1>6
  <2>2. \A i, j \in 1..Slots : e[i].name = e[j].name /\ i # j => e[i].name = NoName
    BY <1>5, <1>6
  <2> QED  BY <1>6, <1>8, <2>1, <2>2 DEF DirFormed
<1>11. Volume(v, h)  BY <1>4, <1>8, <1>9, <1>10, ButDir DEF Volume, Formed
<1>12. Listed(u, g, {n, o.name}) /\ Opened(u, g, o) /\ (o.open => o.name # n)  BY DEF Sound
<1>13. \A m \in Name \ {n} : h.len[m] = g.len[m] /\ h.size[m] = g.size[m] /\ FirstOf(h, m) = FirstOf(g, m)
  BY <1>9 DEF Others, FirstOf
<1>14. NoName \notin Name  BY NameAssumption
<1>15. v.f.name = NoName /\ ~v.f.open  BY <1>1 DEF Closed
<1>16. Listed(v, h, {v.f.name, o.name})
  <2>1. ASSUME NEW i \in 1..Slots, e[i].name \in Name \ {v.f.name, o.name}
        PROVE  e[i].first = FirstOf(h, e[i].name) /\ e[i].size = h.size[e[i].name]
    <3>1. i # k  BY <1>6, <1>14, <2>1
    <3>2. e[i] = d[i] /\ d[i].name # n /\ d[i].name \in Name \ {n, o.name}
      BY <1>3, <1>5, <1>6, <1>14, <2>1, <3>1
    <3>3. d[i].first = FirstOf(g, d[i].name) /\ d[i].size = g.size[d[i].name]  BY <1>2, <1>12, <3>2 DEF Listed
    <3> QED  BY <1>13, <3>2, <3>3
  <2>2. ASSUME NEW m \in Name, \A i \in 1..Slots : e[i].name # m PROVE h.len[m] = 0
    <3>1. CASE m = n  BY <1>9, <3>1
    <3>2. CASE m # n
      <4>1. \A i \in 1..Slots : d[i].name # m
        <5> TAKE i \in 1..Slots
        <5>1. CASE i = k  BY <1>3, <3>2, <5>1
        <5>2. CASE i # k  BY <1>6, <2>2, <5>2
        <5> QED  BY <5>1, <5>2
      <4> QED  BY <1>2, <1>12, <1>13, <3>2, <4>1 DEF Listed
    <3> QED  BY <3>1, <3>2
  <2> QED  BY <1>8, <2>1, <2>2 DEF Listed
<1>17. Opened(v, h, o)
  <2>1. o.open => o.index \in 1..Slots /\ d[o.index].name = o.name /\ o.name \in Name \ {n}  BY <1>2, <1>12 DEF Opened
  <2>2. o.open => o.index # k  BY <1>3, <2>1
  <2>3. o.open => e[o.index] = d[o.index]  BY <1>6, <2>1, <2>2
  <2> QED  BY <1>2, <1>8, <1>12, <1>13, <2>1, <2>3 DEF Opened
<1>18. Opened(v, h, v.f)  BY <1>1, <1>15 DEF Opened
<1>19. v.start \in 2..(LastCluster + 1)  BY <1>1 DEF Sound
<1>20. Sound(v, h, o)  BY <1>9, <1>11, <1>15, <1>16, <1>17, <1>18, <1>19 DEF Sound
<1> QED  BY <1>1, <1>8, <1>9, <1>20 DEF v, h

\* remove() takes the file off the directory.
LEMMA RemoveDone ==
  ASSUME NEW s, Good(s), NEW g, NEW o, Sound(s, g, o), s.f.open, s.f.write, At(g, s.f), s.f.pos <= s.f.size,
         NEW n, n = s.f.name
  PROVE  LET t == remove(s)
         IN  Good(t) /\ t.f = Closed /\ t.got = s.got /\ \E h : Sound(t, h, o) /\ Others(g, h, n)
<1> DEFINE a == truncate(s, 0)
           b == cacheDirEntry(a)
           c == Dropped(b)
           d == cacheFlush(c)
           t == remove(s)
<1>1. t = IF Ok(a) THEN IF Ok(b) THEN d ELSE b ELSE a  BY Zenon DEF remove, Then, Dropped
<1>2. Sane(s) /\ Ok(s) /\ Live(s)  BY DEF Good
<1>3. 0 <= s.f.size
  <2>1. g \in Ghost /\ n \in Name /\ s.f.size = g.size[n]  BY DEF Sound, Opened
  <2> QED  BY <2>1, GhostTypes
<1>4. Result(s, a, g, o) /\ a.got = s.got /\ Ok(a) /\ Live(a)
  <2> DEFINE r == truncate(s, 0)
  <2>1. /\ Result(s, r, g, o) /\ r.got = s.got /\ (Live(s) => Live(r))
        /\ Live(s) /\ s.f.write /\ 0 <= s.f.size => Ok(r)
    BY <1>2, Truncated
  <2> HIDE DEF r
  <2>2. a = r  BY DEF r
  <2> HIDE DEF a
  <2> QED  BY <1>2, <1>3, <2>1, <2>2
<1> HIDE DEF a, t
<1>5. Sane(a) /\ SameOpen(s.f, a.f)  BY <1>4 DEF Result
<1>6. PICK h : Sound(a, h, o) /\ Others(g, h, n)  BY <1>4 DEF Result
<1>7. Rest(a, b) /\ SameView(a, b) /\ Good(b) /\ b.block = rootDirStart /\ b.dirty
  <2> DEFINE e == cacheRawBlock(a, rootDirStart, TRUE)
  <2>1. /\ Rest(a, e) /\ SameView(a, e)
        /\ Live(a) => Good(e) /\ e.block = rootDirStart /\ e.dirty
    BY <1>4, <1>5, DirCached
  <2>2. b = e  BY DEF cacheDirEntry
  <2> HIDE DEF b, e
  <2> QED  BY <1>4, <2>1, <2>2
<1> HIDE DEF b
<1>8. Sound(b, h, o) /\ b.f.open /\ n = b.f.name /\ b.got = s.got
  BY <1>4, <1>5, <1>6, <1>7, SoundSame DEF Rest, SameOpen
<1> DEFINE k == Shorter(h, n, 0, 0)
<1>9. Good(c) /\ Sound(c, k, o) /\ c.f = Closed /\ c.got = b.got /\ Others(h, k, n)
  BY <1>7, <1>8, Dropping
<1> HIDE DEF c, k
<1>10. /\ Sane(d) /\ Rest(c, d) /\ SameView(c, d)
       /\ Live(c) => Ok(d) /\ ~d.dirty
  BY <1>9, Flush DEF Good
<1> HIDE DEF d
<1>11. Good(d) /\ Sound(d, k, o) /\ d.f = Closed /\ d.got = s.got
  BY <1>8, <1>9, <1>10, SoundSame DEF Good, Live, Rest
<1>12. Others(g, k, n)  BY <1>6, <1>9, OthersTrans
<1>13. t = d  BY <1>1, <1>4, <1>7 DEF Good
<1> QED  BY <1>11, <1>12, <1>13 DEF t
-----------------------------------------------------------------------------
(***** a file gets a cluster more *****)

\* The ghost with cluster c at the end of n.
Longer(g, n, c) == [g EXCEPT !.ch[n] = [@ EXCEPT ![g.len[n]] = c], !.len[n] = g.len[n] + 1]

\* The same files, but that n may have more clusters.
Extends(g, h, n) ==
    /\ h \in Ghost /\ Others(g, h, n) /\ g.len[n] <= h.len[n] /\ h.size[n] = g.size[n]
    /\ \A i \in 0..(g.len[n] - 1) : h.ch[n][i] = g.ch[n][i]

\* The open file is n, and c is linked to its end.
GrownBy(s, t, g, n, c) ==
    /\ s.f.open /\ n = s.f.name /\ t.start \in 2..(LastCluster + 1)
    /\ FatFormed(t) /\ SameButFat(s, t) /\ FatOf(s, c) = 0
    /\ \A d \in 0..LastCluster :
          FatOf(t, d) = IF g.len[n] > 0 /\ d = g.ch[n][g.len[n] - 1] THEN c
                        ELSE IF d = c THEN EOC ELSE FatOf(s, d)
    /\ SameOpen(s.f, t.f) /\ t.f.first = (IF g.len[n] = 0 THEN c ELSE s.f.first) /\ t.f.size = s.f.size
    /\ g.len[n] = 0 => t.f.dirty = TRUE
    /\ g.len[n] # 0 => t.f.dirty = s.f.dirty

\* Linking a free cluster to the end of a chain keeps the volume sound.
LEMMA Grown ==
  ASSUME NEW s, NEW g, NEW o, Sound(s, g, o), NEW n, NEW t, NEW c \in Clusters, GrownBy(s, t, g, n, c)
  PROVE  LET h == Longer(g, n, c)
         IN  /\ Sound(t, h, o) /\ Extends(g, h, n)
             /\ h.len[n] = g.len[n] + 1 /\ h.ch[n][g.len[n]] = c
<1> DEFINE h == Longer(g, n, c)
           L == g.len[n]
<1>1. /\ s.f.open /\ n = s.f.name /\ t.start \in 2..(LastCluster + 1)
      /\ FatFormed(t) /\ SameButFat(s, t) /\ FatOf(s, c) = 0
      /\ \A d \in 0..LastCluster :
            FatOf(t, d) = IF L > 0 /\ d = g.ch[n][L - 1] THEN c ELSE IF d = c THEN EOC ELSE FatOf(s, d)
      /\ SameOpen(s.f, t.f) /\ t.f.first = (IF L = 0 THEN c ELSE s.f.first) /\ t.f.size = s.f.size
      /\ L = 0 => t.f.dirty = TRUE
      /\ L # 0 => t.f.dirty = s.f.dirty
  BY DEF GrownBy
<1>2. g \in Ghost /\ n \in Name /\ Volume(s, g) /\ Listed(s, g, {n, o.name}) /\ Opened(s, g, s.f) /\ Opened(s, g, o)
      /\ (o.open => o.name # n)
  BY <1>1 DEF Sound, Opened
<1>3. L \in Nat /\ \A m \in Name : g.len[m] \in Nat /\ g.size[m] \in Nat  BY <1>2, GhostTypes
<1>4. /\ h \in Ghost /\ h.size = g.size /\ h.len[n] = L + 1 /\ h.ch[n][L] = c
      /\ \A i \in Nat : i # L => h.ch[n][i] = g.ch[n][i]
      /\ \A m \in Name \ {n} : h.len[m] = g.len[m] /\ h.ch[m] = g.ch[m]
  <2> DEFINE f == [g.ch[n] EXCEPT ![L] = c]
  <2>1. /\ g.ch \in [Name -> [Nat -> Clusters]] /\ g.len \in [Name -> Nat] /\ g.size \in [Name -> Nat]
        /\ DOMAIN g = {"ch", "len", "size"}
    BY <1>2 DEF Ghost
  <2>2. f \in [Nat -> Clusters] /\ f[L] = c /\ \A i \in Nat : i # L => f[i] = g.ch[n][i]
    BY <1>2, <1>3, <2>1
  <2>3. h = [g EXCEPT !.ch = [g.ch EXCEPT ![n] = f], !.len = [g.len EXCEPT ![n] = L + 1]]
    BY <1>2, <2>1 DEF Longer
  <2> HIDE DEF f, h, L
  <2>4. h.ch = [g.ch EXCEPT ![n] = f] /\ h.len = [g.len EXCEPT ![n] = L + 1] /\ h.size = g.size
    BY <2>1, <2>3
  <2>5. h.ch \in [Name -> [Nat -> Clusters]] /\ h.len \in [Name -> Nat] /\ h.size \in [Name -> Nat]
    BY <1>2, <1>3, <2>1, <2>2, <2>4
  <2>6. h = [ch |-> h.ch, len |-> h.len, size |-> h.size]
    BY <2>1, <2>3
  <2>7. h \in Ghost  BY <2>5, <2>6 DEF Ghost
  <2>8. h.ch[n] = f /\ h.len[n] = L + 1  BY <1>2, <2>1, <2>4
  <2>9. \A m \in Name \ {n} : h.len[m] = g.len[m] /\ h.ch[m] = g.ch[m]  BY <2>1, <2>4
  <2> QED  BY <2>2, <2>4, <2>7, <2>8, <2>9
<1> HIDE DEF h, L
<1>5. Extends(g, h, n)
  <2>1. \A i \in 0..(L - 1) : i \in Nat /\ i # L  BY <1>3
  <2> QED  BY <1>2, <1>3, <1>4, <2>1 DEF Extends, Others, L
<1>6. ASSUME NEW m \in Name, NEW i \in 0..(g.len[m] - 1) PROVE g.ch[m][i] # c
  <2>1. Linked(s, g)  BY <1>2 DEF Volume
  <2>2. FatOf(s, g.ch[m][i]) = IF i + 1 < g.len[m] THEN g.ch[m][i + 1] ELSE EOC  BY <2>1 DEF Linked
  <2>3. i + 1 \in Nat  BY <1>3
  <2>4. g.ch[m][i + 1] \in Clusters  BY <1>2, <2>3, GhostTypes
  <2>5. 0 \notin Clusters /\ EOC # 0  BY Lengths0 DEF Clusters, EOC
  <2> QED  BY <1>1, <2>2, <2>4, <2>5
\* A place in a chain is an old one or the new one.
<1>7. ASSUME NEW m \in Name, NEW i \in 0..(h.len[m] - 1)
      PROVE  \/ m = n /\ i = L /\ h.ch[m][i] = c
             \/ i \in 0..(g.len[m] - 1) /\ h.ch[m][i] = g.ch[m][i]
  <2>1. CASE m = n /\ i = L  BY <1>4, <2>1
  <2>2. CASE m = n /\ i # L
    <3>1. i \in 0..(L - 1) /\ i \in Nat  BY <1>3, <1>4, <2>2
    <3> QED  BY <1>4, <2>2, <3>1 DEF L
  <2>3. CASE m # n  BY <1>4, <2>3
  <2> QED  BY <2>1, <2>2, <2>3
<1>8. Disjoint(h)
  <2>0. Disjoint(g)  BY <1>2 DEF Volume
  <2> SUFFICES ASSUME NEW a \in Name, NEW b \in Name, NEW x \in 0..(h.len[a] - 1), NEW y \in 0..(h.len[b] - 1),
                      h.ch[a][x] = h.ch[b][y]
               PROVE  a = b /\ x = y
    BY DEF Disjoint
  <2>1. \/ a = n /\ x = L /\ h.ch[a][x] = c
        \/ x \in 0..(g.len[a] - 1) /\ h.ch[a][x] = g.ch[a][x]
    BY <1>7
  <2>2. \/ b = n /\ y = L /\ h.ch[b][y] = c
        \/ y \in 0..(g.len[b] - 1) /\ h.ch[b][y] = g.ch[b][y]
    BY <1>7
  <2> QED  BY <1>6, <2>0, <2>1, <2>2 DEF Disjoint
<1>9. Linked(t, h)
  <2>0. Disjoint(g) /\ Linked(s, g)  BY <1>2 DEF Volume
  <2> SUFFICES ASSUME NEW m \in Name, NEW i \in 0..(h.len[m] - 1)
               PROVE  FatOf(t, h.ch[m][i]) = IF i + 1 < h.len[m] THEN h.ch[m][i + 1] ELSE EOC
    BY DEF Linked
  <2>1. L > 0 => L - 1 \in 0..(L - 1) /\ L - 1 \in Nat  BY <1>3
  <2>2. c \in 0..LastCluster  BY Lengths0 DEF Clusters
  <2>3. CASE m = n /\ i = L /\ h.ch[m][i] = c
    <3>1. ~(L > 0 /\ c = g.ch[n][L - 1])  BY <1>2, <1>6, <2>1 DEF L
    <3>2. FatOf(t, c) = EOC  BY <1>1, <2>2, <3>1
    <3> QED  BY <1>3, <1>4, <2>3, <3>2
  <2>4. CASE i \in 0..(g.len[m] - 1) /\ h.ch[m][i] = g.ch[m][i]
    <3>1. g.ch[m][i] # c /\ i \in Nat /\ i + 1 \in Nat  BY <1>3, <1>6, <2>4
    <3>2. g.ch[m][i] \in 0..LastCluster  BY <1>2, <3>1, GhostTypes
    <3>3. FatOf(s, g.ch[m][i]) = IF i + 1 < g.len[m] THEN g.ch[m][i + 1] ELSE EOC  BY <2>0, <2>4 DEF Linked
    <3>4. CASE m = n /\ i = L - 1
      <4>1. L > 0  BY <1>3, <2>4, <3>4
      <4>2. FatOf(t, g.ch[m][i]) = c  BY <1>1, <3>2, <3>4, <4>1
      <4>3. i + 1 = L /\ i + 1 < h.len[m]  BY <1>3, <1>4, <3>4
      <4> QED  BY <1>4, <2>4, <3>4, <4>2, <4>3
    <3>5. CASE m # n \/ i # L - 1
      <4>1. ~(L > 0 /\ g.ch[m][i] = g.ch[n][L - 1])
        <5>1. ASSUME L > 0 PROVE g.ch[m][i] # g.ch[n][L - 1]
          <6>1. L - 1 \in 0..(g.len[n] - 1)  BY <2>1, <5>1 DEF L
          <6> QED  BY <1>2, <2>0, <2>4, <3>5, <6>1 DEF Disjoint
        <5> QED  BY <5>1
      <4>2. FatOf(t, g.ch[m][i]) = FatOf(s, g.ch[m][i])  BY <1>1, <3>1, <3>2, <4>1
      <4>3. CASE m # n  BY <1>4, <2>4, <3>3, <4>2, <4>3
      <4>4. CASE m = n
        <5>1. i + 1 < L /\ i + 1 < h.len[m] /\ i + 1 # L  BY <1>3, <1>4, <2>4, <3>5, <4>4 DEF L
        <5> QED  BY <1>4, <2>4, <3>1, <3>3, <4>2, <4>4, <5>1 DEF L
      <4> QED  BY <4>3, <4>4
    <3> QED  BY <3>4, <3>5
  <2> QED  BY <1>7, <2>3, <2>4
<1>10. Held(t, h)
  <2>1. Held(s, g)  BY <1>2 DEF Volume
  <2> SUFFICES ASSUME NEW m \in Name
               PROVE  /\ h.size[m] <= ClusterLen * h.len[m]
                      /\ \A p \in 0..(h.size[m] - 1) : CellOf(t, h, m, p) = <<m, p>>
    BY DEF Held
  <2>2. g.size[m] <= ClusterLen * g.len[m] /\ g.len[m] \in Nat /\ g.size[m] \in Nat  BY <1>3, <2>1 DEF Held
  <2>3. h.size[m] <= ClusterLen * h.len[m]
    <3>1. CASE m # n  BY <1>4, <2>2, <3>1
    <3>2. CASE m = n
      <4>1. \A x, y \in Nat : x * y <= x * (y + 1) /\ x * y \in Int /\ x * (y + 1) \in Int  OBVIOUS
      <4>2. ClusterLen * L <= ClusterLen * (L + 1) /\ ClusterLen * L \in Int /\ ClusterLen * (L + 1) \in Int
        BY <1>3, <4>1, Lengths0
      <4> QED  BY <1>4, <2>2, <3>2, <4>2 DEF L
    <3> QED  BY <3>1, <3>2
  <2>4. ASSUME NEW p \in 0..(h.size[m] - 1) PROVE CellOf(t, h, m, p) = <<m, p>>
    <3> DEFINE i == p \div ClusterLen
    <3>1. p \in Nat /\ p \in 0..(g.size[m] - 1)  BY <1>4, <2>2, <2>4
    <3>2. p < ClusterLen * g.len[m] /\ i \in Nat
      <4>1. ClusterLen * g.len[m] \in Nat  BY <1>2, GhostTypes
      <4>2. i \in Nat  BY <3>1, Position
      <4>3. p < ClusterLen * g.len[m]  BY <2>2, <3>1, <4>1
      <4> QED  BY <4>2, <4>3
    <3>3. i < g.len[m]  BY <2>2, <3>1, <3>2, ClusterOf
    <3>4. h.ch[m][i] = g.ch[m][i]
      <4> HIDE DEF i
      <4>1. CASE m = n
        <5>1. i # L  BY <3>2, <3>3, <4>1 DEF L
        <5> QED  BY <1>4, <3>2, <4>1, <5>1
      <4>2. CASE m # n  BY <1>4, <4>2
      <4> QED  BY <4>1, <4>2
    <3>5. CellOf(t, h, m, p) = CellOf(t, g, m, p)  BY <3>4 DEF CellOf, BlockAt
    <3>6. CellOf(t, g, m, p) = CellOf(s, g, m, p)  BY <1>1, <1>2, <3>1, ButFat
    <3> QED  BY <2>1, <3>1, <3>5, <3>6 DEF Held
  <2> QED  BY <2>3, <2>4
<1>11. DirOf(t) = DirOf(s) /\ DataFormed(t) /\ DirFormed(t)  BY <1>1, <1>2, ButFat DEF Volume, Formed
<1>12. Volume(t, h)  BY <1>1, <1>8, <1>9, <1>10, <1>11 DEF Volume, Formed
<1>13. \A m \in Name \ {n} : FirstOf(h, m) = FirstOf(g, m) /\ h.len[m] = g.len[m] /\ h.size[m] = g.size[m]
  BY <1>4 DEF FirstOf
<1>14. t.f.name = n /\ t.f.open /\ t.f.index = s.f.index  BY <1>1 DEF SameOpen
<1>15. s.f.index \in 1..Slots /\ DirOf(s)[s.f.index].name = n /\ s.f.first = FirstOf(g, n)  BY <1>1, <1>2 DEF Opened
<1>16. Listed(t, h, {t.f.name, o.name})
  <2>1. ASSUME NEW i \in 1..Slots, DirOf(t)[i].name \in Name \ {n, o.name}
        PROVE  DirOf(t)[i].first = FirstOf(h, DirOf(t)[i].name) /\ DirOf(t)[i].size = h.size[DirOf(t)[i].name]
    BY <1>2, <1>11, <1>13, <2>1 DEF Listed
  <2>2. ASSUME NEW m \in Name, \A i \in 1..Slots : DirOf(t)[i].name # m PROVE h.len[m] = 0
    <3>1. m # n  BY <1>11, <1>15, <2>2
    <3> QED  BY <1>2, <1>11, <1>13, <2>2, <3>1 DEF Listed
  <2> QED  BY <1>14, <2>1, <2>2 DEF Listed
<1>17. Opened(t, h, t.f)
  <2>1. t.f.first = FirstOf(h, n)
    <3>1. h.len[n] # 0  BY <1>3, <1>4
    <3>2. CASE L = 0  BY <1>1, <1>4, <3>1, <3>2 DEF FirstOf
    <3>3. CASE L # 0
      <4>1. h.ch[n][0] = g.ch[n][0]  BY <1>4, <3>3
      <4> QED  BY <1>1, <1>15, <3>1, <3>3, <4>1 DEF FirstOf, L
    <3> QED  BY <3>2, <3>3
  <2>2. ASSUME ~t.f.dirty PROVE DirOf(t)[t.f.index].first = t.f.first /\ DirOf(t)[t.f.index].size = t.f.size
    <3>1. L # 0 /\ ~s.f.dirty  BY <1>1, <2>2
    <3>2. t.f.first = s.f.first  BY <1>1, <3>1
    <3> QED  BY <1>1, <1>2, <1>11, <1>14, <3>1, <3>2 DEF Opened
  <2>3. t.f.size = h.size[n]  BY <1>1, <1>2, <1>4 DEF Opened
  <2> QED  BY <1>2, <1>11, <1>14, <1>15, <2>1, <2>2, <2>3 DEF Opened
<1>18. Opened(t, h, o)  BY <1>2, <1>11, <1>13 DEF Opened
<1>19. Sound(t, h, o)  BY <1>1, <1>2, <1>4, <1>12, <1>14, <1>16, <1>17, <1>18 DEF Sound
<1> QED  BY <1>4, <1>5, <1>19 DEF h, L

\* A use of the card that has changed nothing and failed.
Without(s, t) ==
    /\ Sane(t) /\ SameView(s, t) /\ t.f = s.f /\ t.start = s.start /\ t.got = s.got
    /\ t.err \in {"address", "full"}
    /\ t.err = "full" => \A c \in Clusters : FatOf(t, c) # 0

\* File n has a cluster more, and it is the current one.
Joined(s, t, g, o, n) ==
    /\ Good(t) /\ SameButFat(s, t) /\ SameOpen(s.f, t.f) /\ t.f.size = s.f.size /\ t.f.pos = s.f.pos
    /\ t.got = s.got
    /\ \E h : /\ Sound(t, h, o) /\ Extends(g, h, n) /\ g.len[n] < h.len[n]
              /\ t.f.cur = h.ch[n][g.len[n]]

\* The first cluster of a file, noted in the file.
AddFirst(t) == [t EXCEPT !.f.first = t.f.cur, !.f.dirty = TRUE]

\* It leaves the card alone.
LEMMA FirstAdded ==
  ASSUME NEW s, Good(s)
  PROVE  LET t == AddFirst(s)
         IN  /\ Good(t) /\ SameView(s, t)
             /\ SameOpen(s.f, t.f) /\ t.f.first = s.f.cur /\ t.f.size = s.f.size /\ t.f.cur = s.f.cur
             /\ t.f.pos = s.f.pos /\ t.f.dirty = TRUE
             /\ t.start = s.start /\ t.got = s.got
<1> DEFINE t == AddFirst(s)
<1>1. /\ Shape(t) /\ t.left = s.left /\ t.card = s.card /\ t.block = s.block /\ t.data = s.data
      /\ t.dirty = s.dirty /\ t.mirror = s.mirror /\ t.err = s.err
      /\ SameOpen(s.f, t.f) /\ t.f.first = s.f.cur /\ t.f.size = s.f.size /\ t.f.cur = s.f.cur
      /\ t.f.pos = s.f.pos /\ t.f.dirty = TRUE
      /\ t.start = s.start /\ t.got = s.got
  BY DEF Good, Sane, Shape, AddFirst, SameOpen
<1> HIDE DEF t
<1> QED  BY <1>1, GoodAlike DEF t

\* What addCluster() does.
LEMMA ClusterAdded ==
  ASSUME NEW s, Sane(s), Ok(s), NEW g, NEW o, Sound(s, g, o), s.f.open, NEW n, n = s.f.name,
         s.f.cur = IF g.len[n] = 0 THEN 0 ELSE g.ch[n][g.len[n] - 1]
  PROVE  LET t == addCluster(s)
         IN  Joined(s, t, g, o, n) \/ Without(s, t)
<1> DEFINE cur == s.f.cur
           L == g.len[n]
           start == IF cur # 0 THEN cur + 1 ELSE s.start
           r == Search(s, start)
           k == Link(r.s, cur, r.c)
           full == Fail(r.s, "full")
           a == IF r.found THEN k ELSE IF Ok(r.s) THEN full ELSE r.s
           b == AddFirst(a)
           t == addCluster(s)
<1>1. t = IF Ok(a) THEN IF a.f.first # 0 THEN a ELSE b ELSE a
  BY Zenon DEF addCluster, allocContiguous, Allocate, Then, AddFirst
<1>2. g \in Ghost /\ n \in Name /\ FatFormed(s) /\ s.start \in 2..(LastCluster + 1) /\ s.f.first = FirstOf(g, n)
  BY DEF Sound, Opened, Volume, Formed
<1>3. L \in Nat /\ cur \in Clusters \cup {0} /\ (cur = 0 <=> L = 0)
  <2>1. L \in Nat  BY <1>2, GhostTypes
  <2>2. L # 0 => L - 1 \in Nat  BY <2>1
  <2>3. L # 0 => g.ch[n][L - 1] \in Clusters  BY <1>2, <2>2, GhostTypes
  <2>4. 0 \notin Clusters  BY DEF Clusters
  <2> QED  BY <2>1, <2>3, <2>4
<1>0. \A x \in Clusters : x + 1 \in 2..(LastCluster + 1)  BY Lengths0 DEF Clusters
<1>4. start \in 2..(LastCluster + 1)
  <2> HIDE DEF cur
  <2>1. cur # 0 => cur \in Clusters  BY <1>3
  <2> QED  BY <1>0, <1>2, <2>1
<1>5. /\ Live(s) => /\ Good(r.s) /\ Rest(s, r.s) /\ SameView(s, r.s)
                    /\ r.found => r.c \in Clusters /\ FatOf(s, r.c) = 0
                    /\ ~r.found => \A c \in Clusters : FatOf(s, c) # 0
      /\ ~Live(s) => ~r.found /\ Refused(s, r.s)
  <2> HIDE DEF start
  <2> DEFINE q == Search(s, start)
  <2>1. /\ Live(s) => /\ Good(q.s) /\ Rest(s, q.s) /\ SameView(s, q.s)
                      /\ q.found => q.c \in Clusters /\ FatOf(s, q.c) = 0
                      /\ ~q.found => \A c \in Clusters : FatOf(s, c) # 0
        /\ ~Live(s) => ~q.found /\ Refused(s, q.s)
    BY <1>4, Searched
  <2> HIDE DEF q
  <2>2. r = q  BY DEF q
  <2> HIDE DEF r
  <2> QED  BY <2>1, <2>2
<1> HIDE DEF r, start, t
<1>6. CASE ~Live(s)
  <2>1. a = r.s /\ ~Ok(r.s)  BY <1>5, <1>6 DEF Refused, Ok
  <2>2. t = r.s  BY <1>1, <2>1
  <2>3. Without(s, r.s)  BY <1>5, <1>6 DEF Refused, Without, Rest
  <2> QED  BY <2>2, <2>3 DEF t
<1>7. CASE Live(s) /\ ~r.found
  <2>1. a = full  BY <1>5, <1>7 DEF Good
  <2>2. Sane(full) /\ SameView(r.s, full) /\ Rest(r.s, full) /\ full.err = "full"
    BY <1>5, <1>7, FailKeeps DEF Good
  <2> HIDE DEF full
  <2>3. ~Ok(full)  BY <2>2 DEF Ok
  <2>4. t = full  BY <1>1, <2>1, <2>3
  <2>5. SameView(s, full)  BY <1>5, <1>7, <2>2, SameViewTrans
  <2>6. \A c \in Clusters : FatOf(full, c) # 0
    <3>1. Clusters \subseteq 0..LastCluster  BY Lengths0 DEF Clusters
    <3> QED  BY <1>5, <1>7, <2>5, <3>1, SameFat
  <2>7. Without(s, full)  BY <1>5, <1>7, <2>2, <2>5, <2>6 DEF Without, Rest
  <2> QED  BY <2>4, <2>7 DEF t
<1>8. CASE Live(s) /\ r.found
  <2> DEFINE c == r.c
             u == r.s
  <2>1. Good(u) /\ Rest(s, u) /\ SameView(s, u) /\ c \in Clusters /\ FatOf(s, c) = 0  BY <1>5, <1>8
  <2>2. /\ FatFormed(u) /\ SameButFat(s, u) /\ \A d \in 0..LastCluster : FatOf(u, d) = FatOf(s, d)
    BY <1>2, <2>1, SameFat
  <2>3. a = k /\ k = Link(u, cur, c)  BY <1>8
  <2> HIDE DEF c, u
  <2>4. /\ Good(k) /\ FatFormed(k) /\ SameButFat(u, k)
        /\ k.f = [u.f EXCEPT !.cur = c] /\ k.next = u.next /\ k.got = u.got
        /\ k.start = (IF cur = 0 THEN c + 1 ELSE u.start)
        /\ \A d \in 0..LastCluster :
              FatOf(k, d) = IF d = cur /\ cur # 0 THEN c ELSE IF d = c THEN EOC ELSE FatOf(u, d)
    <3> HIDE DEF cur
    <3> DEFINE q == Link(u, cur, c)
    <3>1. /\ Good(q) /\ FatFormed(q) /\ SameButFat(u, q)
          /\ q.f = [u.f EXCEPT !.cur = c] /\ q.next = u.next /\ q.got = u.got
          /\ q.start = (IF cur = 0 THEN c + 1 ELSE u.start)
          /\ \A d \in 0..LastCluster :
                FatOf(q, d) = IF d = cur /\ cur # 0 THEN c ELSE IF d = c THEN EOC ELSE FatOf(u, d)
      BY <1>3, <2>1, <2>2, Linking
    <3> HIDE DEF q
    <3>2. k = q  BY <2>3 DEF q
    <3> HIDE DEF k
    <3> QED  BY <3>1, <3>2
  <2> HIDE DEF k
  <2>5. /\ SameOpen(s.f, k.f) /\ k.f.cur = c /\ k.f.first = s.f.first /\ k.f.size = s.f.size /\ k.f.pos = s.f.pos
        /\ k.f.dirty = s.f.dirty /\ k.got = s.got
    <3>1. u.f = s.f /\ u.got = s.got /\ Shape(s)  BY <2>1 DEF Rest, Sane
    <3> DEFINE f == s.f
               e == [f EXCEPT !.cur = c]
    <3>2. DOMAIN f = {"open", "name", "index", "write", "sync", "append", "first", "size", "cur", "pos", "dirty"}
      BY <3>1 DEF Shape
    <3> HIDE DEF f
    <3>3. /\ SameOpen(f, e) /\ e.cur = c /\ e.first = f.first /\ e.size = f.size /\ e.pos = f.pos
          /\ e.dirty = f.dirty
      BY <3>2 DEF SameOpen
    <3>4. k.f = e /\ k.got = s.got  BY <2>4, <3>1 DEF f
    <3> HIDE DEF e
    <3> QED  BY <3>3, <3>4 DEF f
  <2>6. k.start \in 2..(LastCluster + 1)
    <3>1. u.start = s.start  BY <2>1 DEF Rest
    <3>2. k.start = c + 1 \/ k.start = s.start  BY <2>4, <3>1
    <3> QED  BY <1>0, <1>2, <2>1, <3>2
  <2>7. SameButFat(s, k)  BY <2>2, <2>4 DEF SameButFat
  <2>8. \A d \in 0..LastCluster :
           FatOf(k, d) = IF L > 0 /\ d = g.ch[n][L - 1] THEN c ELSE IF d = c THEN EOC ELSE FatOf(s, d)
    <3>1. L > 0 <=> cur # 0  BY <1>3
    <3>2. cur # 0 => cur = g.ch[n][L - 1]  BY <1>3
    <3> HIDE DEF cur, L
    <3> QED  BY <2>2, <2>4, <3>1, <3>2
  <2>9. /\ Good(t) /\ FatFormed(t) /\ SameButFat(s, t) /\ SameOpen(s.f, t.f) /\ t.f.cur = c
        /\ t.f.first = (IF L = 0 THEN c ELSE s.f.first) /\ t.f.size = s.f.size /\ t.f.pos = s.f.pos
        /\ t.f.dirty = (IF L = 0 THEN TRUE ELSE s.f.dirty) /\ t.got = s.got /\ t.start \in 2..(LastCluster + 1)
        /\ \A d \in 0..LastCluster : FatOf(t, d) = FatOf(k, d)
    <3>1. s.f.first = 0 <=> L = 0  BY <1>2, GhostTypes
    <3>2. Ok(k)  BY <2>4 DEF Good
    <3>3. CASE L # 0
      <4>1. t = k  BY <1>1, <2>3, <2>5, <3>1, <3>2, <3>3
      <4> QED  BY <2>4, <2>5, <2>6, <2>7, <3>3, <4>1
    <3>4. CASE L = 0
      <4> DEFINE z == AddFirst(k)
      <4>1. t = z  BY <1>1, <2>3, <2>5, <3>1, <3>2, <3>4
      <4>2. /\ Good(z) /\ SameView(k, z)
            /\ SameOpen(k.f, z.f) /\ z.f.first = k.f.cur /\ z.f.size = k.f.size /\ z.f.cur = k.f.cur
            /\ z.f.pos = k.f.pos /\ z.f.dirty = TRUE
            /\ z.start = k.start /\ z.got = k.got
        BY <2>4, FirstAdded
      <4> HIDE DEF z
      <4>3. FatFormed(z) /\ SameButFat(k, z) /\ \A d \in 0..LastCluster : FatOf(z, d) = FatOf(k, d)
        <5>1. FatFormed(k) /\ SameView(k, z)  BY <2>4, <4>2
        <5> QED  BY <5>1, SameFat
      <4>4. SameButFat(s, z)  BY <2>7, <4>3 DEF SameButFat
      <4>5. SameOpen(s.f, z.f)  BY <2>5, <4>2 DEF SameOpen
      <4> QED  BY <2>5, <2>6, <3>4, <4>1, <4>2, <4>3, <4>4, <4>5
    <3> QED  BY <3>3, <3>4
  <2>10. GrownBy(s, t, g, n, c)  BY <2>1, <2>8, <2>9 DEF GrownBy, L
  <2> DEFINE h == Longer(g, n, c)
  <2>11. Sound(t, h, o) /\ Extends(g, h, n) /\ h.len[n] = L + 1 /\ h.ch[n][L] = c
    BY <2>1, <2>10, Grown
  <2> HIDE DEF h
  <2>12. \E x : /\ Sound(t, x, o) /\ Extends(g, x, n) /\ g.len[n] < x.len[n]
                /\ t.f.cur = x.ch[n][g.len[n]]
    <3>1. g.len[n] < h.len[n] /\ t.f.cur = h.ch[n][g.len[n]]  BY <1>3, <2>9, <2>11
    <3> QED  BY <2>11, <3>1
  <2>13. Joined(s, t, g, o, n)  BY <2>9, <2>12 DEF Joined
  <2> QED  BY <2>13 DEF t
<1> QED  BY <1>6, <1>7, <1>8

\* The current cluster is the one of the position.
InPlace(s, t, g, o, n) ==
    /\ Sane(t) /\ Ok(t) /\ SameButFat(s, t) /\ SameOpen(s.f, t.f) /\ t.f.size = s.f.size /\ t.f.pos = s.f.pos
    /\ t.got = s.got
    /\ \E h : /\ Sound(t, h, o) /\ Extends(g, h, n) /\ t.f.pos \div ClusterLen < h.len[n]
              /\ t.f.cur = h.ch[n][t.f.pos \div ClusterLen]

\* A ghost extends itself.
LEMMA SameGhost ==
  ASSUME NEW g \in Ghost, NEW n \in Name
  PROVE  Extends(g, g, n)
BY GhostTypes DEF Extends, Others

\* It is the same cluster, or a step along the chain.
LEMMA StillIn ==
  ASSUME NEW s, NEW t, NEW g, NEW o, Sound(s, g, o), s.f.open, NEW n, n = s.f.name,
         Sane(t), Ok(t), Moved(s, t), t.f.pos = s.f.pos,
         s.f.pos \div ClusterLen < g.len[n], t.f.cur = g.ch[n][s.f.pos \div ClusterLen]
  PROVE  InPlace(s, t, g, o, n)
<1>1. Sound(t, g, o)  BY SoundSame DEF Moved
<1>2. g \in Ghost /\ n \in Name  BY DEF Sound, Opened
<1>3. Extends(g, g, n)  BY <1>2, SameGhost
<1>4. SameButFat(s, t)
  <2>1. SameView(s, t)  BY DEF Moved
  <2> QED  BY <2>1, SameFat
<1>5. SameOpen(s.f, t.f) /\ t.f.size = s.f.size /\ t.got = s.got  BY DEF Moved, SameFile, SameOpen
<1> DEFINE q == t.f.pos \div ClusterLen
<1>6. q < g.len[n] /\ t.f.cur = g.ch[n][q]  OBVIOUS
<1> HIDE DEF q
<1>7. \E h : Sound(t, h, o) /\ Extends(g, h, n) /\ q < h.len[n] /\ t.f.cur = h.ch[n][q]
  BY <1>1, <1>3, <1>6
<1> QED  BY <1>4, <1>5, <1>7 DEF InPlace, q

\* What write() does at the start of a cluster.
LEMMA ClusterEntered ==
  ASSUME NEW s, Sane(s), Ok(s), NEW g, NEW o, Sound(s, g, o), s.f.open, NEW n, n = s.f.name, At(g, s.f)
  PROVE  LET t == EnterCluster(s)
         IN  InPlace(s, t, g, o, n) \/ Without(s, t)
<1> DEFINE C == ClusterLen
           pos == s.f.pos
           L == g.len[n]
           i == (pos - 1) \div C
           k == pos \div C
           u == IF s.f.cur = 0 THEN s ELSE fatGet(s, s.f.cur)
           x == PutCur(s, s.f.first)
           y == addCluster(u)
           z == PutCur(u, Entry(u, u.f.cur))
           t == EnterCluster(s)
<1>1. t = IF pos % C # 0 THEN s
          ELSE IF s.f.cur = 0 /\ s.f.first # 0 THEN x
          ELSE IF Ok(u) THEN IF u.f.cur = 0 \/ isEOC(Entry(u, u.f.cur)) THEN y ELSE z ELSE u
  BY Zenon DEF EnterCluster, Then, PutCur
<1>2. g \in Ghost /\ n \in Name /\ s.f.first = FirstOf(g, n) /\ Linked(s, g)
  BY DEF Sound, Opened, Volume
<1>3. L \in Nat /\ pos \in Nat /\ C \in Nat \ {0} /\ C * L \in Nat /\ pos <= C * L
  BY <1>2, GhostTypes, Lengths0 DEF At
<1>4. pos # 0 => /\ i \in Nat /\ i < L
                 /\ pos % C # 0 => k = i
                 /\ pos % C = 0 => k = i + 1
  <2> SUFFICES ASSUME pos # 0
               PROVE  /\ i \in Nat /\ i < L
                      /\ pos % C # 0 => k = i
                      /\ pos % C = 0 => k = i + 1
    OBVIOUS
  <2>1. pos \in Nat \ {0} /\ pos - 1 \in Nat /\ pos - 1 < C * L  BY <1>3
  <2>2. i < L  BY <1>3, <2>1, ClusterOf
  <2> QED  BY <2>1, <2>2, PreviousCluster
<1>5. pos = 0 => k = 0 /\ pos % C = 0  BY <1>3
<1>6. /\ pos # 0 => s.f.cur = g.ch[n][i] /\ s.f.cur \in Clusters /\ s.f.cur # 0 /\ s.f.cur \in 0..LastCluster
      /\ pos = 0 => s.f.cur = 0
  <2>1. /\ pos # 0 => s.f.cur = g.ch[n][i]
        /\ pos = 0 => s.f.cur = 0
    BY DEF At
  <2>2. pos # 0 => g.ch[n][i] \in Clusters /\ g.ch[n][i] \in 0..LastCluster  BY <1>2, <1>4, GhostTypes
  <2>3. 0 \notin Clusters  BY DEF Clusters
  <2> QED  BY <2>1, <2>2, <2>3
<1> HIDE DEF i, t
<1>7. CASE pos % C # 0
  <2>1. t = s /\ pos # 0  BY <1>1, <1>5, <1>7
  <2>2. Moved(s, s)  BY DEF Moved, SameView, SameFile
  <2>3. k < L /\ s.f.cur = g.ch[n][k]  BY <1>4, <1>6, <1>7, <2>1
  <2>4. InPlace(s, s, g, o, n)  BY <2>2, <2>3, StillIn
  <2> QED  BY <2>1, <2>4 DEF t
<1>8. CASE pos % C = 0 /\ s.f.cur = 0 /\ s.f.first # 0
  <2>1. t = x /\ pos = 0 /\ k = 0 /\ L # 0 /\ s.f.first = g.ch[n][0]  BY <1>1, <1>2, <1>5, <1>6, <1>8 DEF FirstOf
  <2>2. /\ Sane(x) /\ Moved(s, x) /\ x.f.cur = s.f.first /\ x.f.pos = s.f.pos
        /\ x.err = s.err /\ (Live(x) <=> Live(s))
    BY PlacedCur
  <2> HIDE DEF x
  <2>3. Ok(x)  BY <2>2 DEF Ok
  <2>4. k < L /\ x.f.cur = g.ch[n][k]  BY <1>3, <2>1, <2>2
  <2>5. InPlace(s, x, g, o, n)  BY <2>2, <2>3, <2>4, StillIn
  <2> QED  BY <2>1, <2>5 DEF t
<1>9. CASE pos % C = 0 /\ s.f.cur = 0 /\ s.f.first = 0
  <2>1. pos = 0 /\ k = 0 /\ u = s /\ L = 0  BY <1>2, <1>5, <1>6, <1>9, GhostTypes
  <2>2. t = addCluster(s)  BY <1>1, <1>9, <2>1
  <2> DEFINE w == addCluster(s)
  <2>3. Joined(s, w, g, o, n) \/ Without(s, w)
    <3>1. s.f.cur = IF g.len[n] = 0 THEN 0 ELSE g.ch[n][g.len[n] - 1]  BY <1>9, <2>1
    <3> HIDE DEF w
    <3> QED  BY <3>1, ClusterAdded DEF w
  <2>4. t = w  BY <2>2
  <2> HIDE DEF w
  <2>5. ASSUME Joined(s, w, g, o, n) PROVE InPlace(s, w, g, o, n)
    <3>1. PICK h : Sound(w, h, o) /\ Extends(g, h, n) /\ g.len[n] < h.len[n] /\ w.f.cur = h.ch[n][g.len[n]]
      BY <2>5 DEF Joined
    <3>2. w.f.pos \div C = L  BY <2>1, <2>5 DEF Joined
    <3> HIDE DEF L
    <3>3. \E a : Sound(w, a, o) /\ Extends(g, a, n) /\ w.f.pos \div C < a.len[n] /\ w.f.cur = a.ch[n][w.f.pos \div C]
      BY <3>1, <3>2 DEF L
    <3> QED  BY <2>5, <3>3 DEF Joined, InPlace, Good
  <2> QED  BY <2>3, <2>4, <2>5 DEF t
<1>10. CASE pos % C = 0 /\ s.f.cur # 0 /\ ~Live(s)
  <2>1. pos # 0 /\ u = fatGet(s, s.f.cur)  BY <1>6, <1>10
  <2>2. Refused(s, u)  BY <1>6, <1>10, <2>1, FatGet
  <2> HIDE DEF u
  <2>3. t = u  BY <1>1, <1>10, <2>2 DEF Refused, Ok
  <2>4. Without(s, u)  BY <2>2 DEF Refused, Without, Rest
  <2> QED  BY <2>3, <2>4 DEF t
<1>11. CASE pos % C = 0 /\ s.f.cur # 0 /\ Live(s)
  <2>1. pos # 0 /\ u = fatGet(s, s.f.cur) /\ k = i + 1  BY <1>4, <1>6, <1>11
  <2>2. Rest(s, u) /\ SameView(s, u) /\ Good(u) /\ Entry(u, s.f.cur) = FatOf(s, s.f.cur)
    BY <1>6, <1>11, <2>1, FatGet
  <2> HIDE DEF u
  <2>3. u.f = s.f /\ Ok(u) /\ Sane(u)  BY <2>2 DEF Rest, Good
  <2>4. Entry(u, u.f.cur) = IF i + 1 < L THEN g.ch[n][i + 1] ELSE EOC
    <3>1. i \in 0..(L - 1)  BY <1>3, <1>4, <2>1
    <3>2. FatOf(s, g.ch[n][i]) = IF i + 1 < L THEN g.ch[n][i + 1] ELSE EOC  BY <1>2, <3>1 DEF Linked
    <3> QED  BY <1>6, <2>1, <2>2, <2>3, <3>2
  <2>5. Moved(s, u)  BY <2>2, MovedRest
  <2>6. CASE i + 1 < L
    <3>1. Entry(u, u.f.cur) = g.ch[n][k] /\ k < L  BY <2>1, <2>4, <2>6
    <3>2. g.ch[n][k] \in Clusters
      <4>1. k \in Nat  BY <1>4, <2>1
      <4> QED  BY <1>2, <4>1, GhostTypes
    <3>3. ~isEOC(Entry(u, u.f.cur))  BY <3>1, <3>2, Lengths0, EOCAssumption DEF isEOC, EOC, Clusters
    <3>4. t = z  BY <1>1, <1>11, <2>3, <3>3
    <3>5. /\ Sane(z) /\ Moved(u, z) /\ z.f.cur = Entry(u, u.f.cur) /\ z.f.pos = u.f.pos
          /\ z.err = u.err
      BY <2>3, PlacedCur
    <3> HIDE DEF z
    <3>6. Moved(s, z) /\ Ok(z) /\ z.f.pos = s.f.pos  BY <2>3, <2>5, <3>5, MovedTrans DEF Ok
    <3>7. InPlace(s, z, g, o, n)  BY <3>1, <3>5, <3>6, StillIn
    <3> QED  BY <3>4, <3>7 DEF t
  <2>7. CASE ~(i + 1 < L)
    <3>1. L = k /\ L # 0 /\ i = L - 1  BY <1>3, <1>4, <2>1, <2>7
    <3>2. isEOC(Entry(u, u.f.cur))  BY <2>4, <2>7 DEF isEOC
    <3>3. t = y  BY <1>1, <1>11, <2>3, <3>2
    <3>4. Sound(u, g, o) /\ u.f.open /\ n = u.f.name  BY <2>2, <2>3, SoundSame DEF Rest
    <3>5. Joined(u, y, g, o, n) \/ Without(u, y)
      <4>1. u.f.cur = IF g.len[n] = 0 THEN 0 ELSE g.ch[n][g.len[n] - 1]  BY <1>6, <2>1, <2>3, <3>1
      <4> HIDE DEF y
      <4> QED  BY <2>3, <3>4, <4>1, ClusterAdded DEF y
    <3> HIDE DEF y
    <3>6. ASSUME Joined(u, y, g, o, n) PROVE InPlace(s, y, g, o, n)
      <4>1. PICK h : Sound(y, h, o) /\ Extends(g, h, n) /\ g.len[n] < h.len[n] /\ y.f.cur = h.ch[n][g.len[n]]
        BY <3>6 DEF Joined
      <4>2. y.f.pos \div C = L  BY <2>3, <3>1, <3>6 DEF Joined
      <4> HIDE DEF L
      <4>3. \E a : Sound(y, a, o) /\ Extends(g, a, n) /\ y.f.pos \div C < a.len[n] /\ y.f.cur = a.ch[n][y.f.pos \div C]
        BY <4>1, <4>2 DEF L
      <4>4. SameButFat(s, y)
        <5>1. SameButFat(s, u) /\ SameButFat(u, y)  BY <2>2, <3>6, SameFat DEF Joined
        <5> QED  BY <5>1 DEF SameButFat
      <4>5. y.got = s.got  BY <2>2, <3>6 DEF Joined, Rest
      <4> QED  BY <2>3, <3>6, <4>3, <4>4, <4>5 DEF Joined, InPlace, Good
    <3>7. ASSUME Without(u, y) PROVE Without(s, y)
      <4>1. SameView(s, y)  BY <2>2, <3>7, SameViewTrans DEF Without
      <4> QED  BY <2>2, <3>7, <4>1 DEF Without, Rest
    <3> QED  BY <3>3, <3>5, <3>6, <3>7 DEF t
  <2> QED  BY <2>6, <2>7
<1> QED  BY <1>7, <1>8, <1>9, <1>10, <1>11
-----------------------------------------------------------------------------
(***** cells are written *****)

\* k cells from position p on, all in one block, are all in one cluster.
LEMMA SameBlock ==
  ASSUME NEW p \in Nat, NEW q \in Nat, p \div BlockLen = q \div BlockLen
  PROVE  /\ p \div ClusterLen = q \div ClusterLen
         /\ blockOfCluster(p) = blockOfCluster(q)
         /\ q - p = (q % BlockLen) - (p % BlockLen)
<1> DEFINE x == p \div BlockLen
           y == q \div BlockLen
           M == blocksPerCluster
           i == p \div ClusterLen
           j == q \div ClusterLen
           a == blockOfCluster(p)
           b == blockOfCluster(q)
           u == p % BlockLen
           v == q % BlockLen
<1>1. /\ p = BlockLen * x + u /\ x \in Nat /\ u \in 0..(BlockLen - 1) /\ x = M * i + a /\ i \in Nat /\ a \in 0..(M - 1)
      /\ q = BlockLen * y + v /\ y \in Nat /\ v \in 0..(BlockLen - 1) /\ y = M * j + b /\ j \in Nat /\ b \in 0..(M - 1)
  BY Position
<1>2. x = y /\ a = b  BY DEF blockOfCluster
<1>3. M \in Nat \ {0} /\ BlockLen \in Nat \ {0}  BY GeometryAssumption
<1> HIDE DEF x, y, M, i, j, a, b, u, v
<1>4. M * i = M * j
  <2>1. \A e, f \in Nat : e * f \in Int  OBVIOUS
  <2>2. M * i \in Int /\ M * j \in Int  BY <1>1, <1>3, <2>1
  <2> QED  BY <1>1, <1>2, <2>2
<1>5. i = j
  <2>1. \A e \in Nat \ {0}, f, g \in Nat : e * f = e * g => f = g  OBVIOUS
  <2> QED  BY <1>1, <1>3, <1>4, <2>1
<1>6. q - p = v - u
  <2>1. \A e, f \in Nat : e * f \in Int  OBVIOUS
  <2>2. BlockLen * x \in Int  BY <1>1, <1>3, <2>1
  <2> QED  BY <1>1, <1>2, <1>3, <2>2
<1> QED  BY <1>2, <1>5, <1>6 DEF i, j, a, b, u, v

\* Positions that follow each other in a block.
LEMMA NextInBlock ==
  ASSUME NEW p \in Nat, NEW k \in 0..(BlockLen - 1 - (p % BlockLen))
  PROVE  (p + k) \div BlockLen = p \div BlockLen /\ (p + k) % BlockLen = (p % BlockLen) + k
<1> DEFINE x == p \div BlockLen
           u == p % BlockLen
           q == p + k
           y == q \div BlockLen
           v == q % BlockLen
<1>1. BlockLen \in Nat \ {0}  BY GeometryAssumption
<1>2. p = BlockLen * x + u /\ x \in Nat /\ u \in 0..(BlockLen - 1)  BY Position
<1>3. q \in Nat /\ k \in Nat /\ q = p + k
  <2> HIDE DEF u
  <2> QED  BY <1>1, <1>2
<1>4. q = BlockLen * y + v /\ y \in Nat /\ v \in 0..(BlockLen - 1)  BY <1>3, Position
<1>5. u + k \in 0..(BlockLen - 1)
  <2>1. k \in 0..(BlockLen - 1 - u)  OBVIOUS
  <2> HIDE DEF u
  <2> QED  BY <1>1, <1>2, <2>1
<1> HIDE DEF x, u, q, y, v
<1>6. y = x
  <2>1. \A L \in Nat \ {0}, e, f \in Nat : \A r, t \in 0..(L - 1) : L * e + r = L * f + t => e = f
    <3> TAKE L \in Nat \ {0}, e, f \in Nat
    <3> TAKE r, t \in 0..(L - 1)
    <3>1. L * e \in Int /\ L * f \in Int  OBVIOUS
    <3>2. CASE e < f
      <4>1. L * (e + 1) <= L * f /\ L * (e + 1) = L * e + L  BY <3>2
      <4> QED  BY <3>1, <3>2, <4>1
    <3>3. CASE f < e
      <4>1. L * (f + 1) <= L * e /\ L * (f + 1) = L * f + L  BY <3>3
      <4> QED  BY <3>1, <3>3, <4>1
    <3> QED  BY <3>2, <3>3
  <2> DEFINE w == u + k
  <2>2. \A e, f \in Nat : e * f \in Int  OBVIOUS
  <2>3. BlockLen * x \in Int /\ BlockLen * y \in Int  BY <1>1, <1>2, <1>4, <2>2
  <2>4. BlockLen * y + v = BlockLen * x + w /\ w \in 0..(BlockLen - 1)  BY <1>1, <1>2, <1>3, <1>4, <1>5, <2>3
  <2> HIDE DEF w
  <2> QED  BY <1>1, <1>2, <1>4, <2>1, <2>4
<1>7. v = u + k
  <2>1. \A e, f \in Nat : e * f \in Int  OBVIOUS
  <2>2. BlockLen * x \in Int  BY <1>1, <1>2, <2>1
  <2> QED  BY <1>1, <1>2, <1>3, <1>4, <1>6, <2>2
<1> QED  BY <1>6, <1>7 DEF x, y, u, v, q

\* The k cells of file f from its position on.
LEMMA Filling ==
  ASSUME NEW cells \in [1..BlockLen -> Cell], NEW f, f.name \in Name, f.pos \in Nat, NEW k \in Nat
  PROVE  LET d  == Filled(cells, f, k)
             at == f.pos % BlockLen
         IN  /\ d \in [1..BlockLen -> Cell]
             /\ \A i \in 1..BlockLen :
                   d[i] = IF i \in (at + 1)..(at + k) THEN <<f.name, f.pos + i - at - 1>> ELSE cells[i]
<1> DEFINE at == f.pos % BlockLen
           d == Filled(cells, f, k)
<1> DEFINE p == f.pos
<1>0. p \in Nat  OBVIOUS
<1>1. at \in Nat
  <2> HIDE DEF p
  <2>1. p % BlockLen \in 0..(BlockLen - 1)  BY <1>0, Position
  <2> DEFINE a == p % BlockLen
  <2>2. a \in 0..(BlockLen - 1) /\ BlockLen \in Nat  BY <2>1, GeometryAssumption
  <2> HIDE DEF a
  <2>3. a \in Nat  BY <2>2
  <2> QED  BY <2>3 DEF a, p
<1>2. d = [i \in 1..BlockLen |-> IF i \in (at + 1)..(at + k) THEN <<f.name, f.pos + i - at - 1>> ELSE cells[i]]
  BY DEF Filled
<1> HIDE DEF at, d, p
<1>3. ASSUME NEW i \in 1..BlockLen
      PROVE  (IF i \in (at + 1)..(at + k) THEN <<f.name, f.pos + i - at - 1>> ELSE cells[i]) \in Cell
  <2>1. CASE i \in (at + 1)..(at + k)
    <3>1. f.pos + i - at - 1 \in Nat  BY <1>1, <2>1
    <3> QED  BY <2>1, <3>1 DEF Cell
  <2>2. CASE i \notin (at + 1)..(at + k)  BY <2>2
  <2> QED  BY <2>1, <2>2
<1>4. d \in [1..BlockLen -> Cell]  BY <1>2, <1>3
<1>5. \A i \in 1..BlockLen :
         d[i] = IF i \in (at + 1)..(at + k) THEN <<f.name, f.pos + i - at - 1>> ELSE cells[i]
  BY <1>2
<1> QED  BY <1>4, <1>5 DEF at, d

\* A whole block of them.
LEMMA FillingBlock ==
  ASSUME NEW cells \in [1..BlockLen -> Cell], NEW f, f.name \in Name, f.pos \in Nat, f.pos % BlockLen = 0
  PROVE  LET d == Filled(cells, f, BlockLen)
         IN  /\ d \in [1..BlockLen -> Cell]
             /\ \A i \in 1..BlockLen : d[i] = <<f.name, f.pos + i - 1>>
<1> DEFINE at == f.pos % BlockLen
           p == f.pos
           d == Filled(cells, f, BlockLen)
<1>1. at = 0 /\ BlockLen \in Nat /\ p \in Nat  BY GeometryAssumption
<1>2. d = [i \in 1..BlockLen |-> IF i \in (at + 1)..(at + BlockLen) THEN <<f.name, p + i - at - 1>> ELSE cells[i]]
  BY DEF Filled
<1> HIDE DEF at, d, p
<1>3. d = [i \in 1..BlockLen |-> <<f.name, p + i - 1>>]  BY <1>1, <1>2
<1>4. ASSUME NEW i \in 1..BlockLen PROVE <<f.name, p + i - 1>> \in Cell
  <2>1. p + i - 1 \in Nat  BY <1>1
  <2> QED  BY <2>1 DEF Cell
<1> QED  BY <1>3, <1>4 DEF d, p

\* Block b is as it was but for k cells at the position; what is beyond the end of the file
\* may have been lost.
BlockWritten(s, t, b, k) ==
    LET at == s.f.pos % BlockLen
    IN  /\ \A x \in Known : x # b => ViewOf(t, x) = ViewOf(s, x)
        /\ ViewOf(t, b) \in [1..BlockLen -> Cell]
        /\ \A i \in 1..BlockLen :
              IF i \in (at + 1)..(at + k) THEN ViewOf(t, b)[i] = <<s.f.name, s.f.pos + i - at - 1>>
              ELSE at # 0 \/ s.f.pos < s.f.size => ViewOf(t, b)[i] = ViewOf(s, b)[i]

\* A block written whole, past the cache.
LEMMA FullWritten ==
  ASSUME NEW s, Sane(s), Ok(s), NEW b \in Data, s.f.name \in Name, s.f.pos \in Nat, s.f.pos % BlockLen = 0
  PROVE  LET t == WriteFull(s, b)
         IN  Sane(t) /\ Ok(t) /\ Rest(s, t) /\ BlockWritten(s, t, b, BlockLen)
<1> DEFINE r == [s EXCEPT !.block = IF @ = b THEN NoBlock ELSE @]
           d == Filled(Empty, s.f, BlockLen)
           t == writeBlock(r, b, d)
<1>1. /\ Shape(r) /\ r.left = s.left /\ r.card = s.card /\ r.data = s.data /\ r.dirty = s.dirty
      /\ r.mirror = s.mirror /\ r.err = s.err /\ Rest(s, r)
      /\ r.block = IF s.block = b THEN NoBlock ELSE s.block
  BY DEF Sane, Shape, Rest
<1>2. b \in Blocks /\ b \in Known /\ b # NoBlock /\ b \notin FirstFat /\ NoBlock \notin Known /\ NoBlock \notin FirstFat
  BY Regions DEF Known
<1>3. /\ d \in [1..BlockLen -> Cell]
      /\ \A i \in 1..BlockLen : d[i] = <<s.f.name, s.f.pos + i - 1>>
  <2>1. Empty \in [1..BlockLen -> Cell]  BY DEF Empty, Cell
  <2>2. BlockLen \in Nat  BY GeometryAssumption
  <2> DEFINE f == s.f
             e == Filled(Empty, f, BlockLen)
  <2>3. f.name \in Name /\ f.pos \in Nat /\ f.pos % BlockLen = 0 /\ e = d  OBVIOUS
  <2> HIDE DEF f, d
  <2>4. /\ e \in [1..BlockLen -> Cell]
        /\ \A i \in 1..BlockLen : e[i] = <<f.name, f.pos + i - 1>>
    BY <2>1, <2>3, FillingBlock
  <2> HIDE DEF e
  <2> QED  BY <2>3, <2>4 DEF f
<1> HIDE DEF r, d
<1>4. /\ Shape(t) /\ Rest(r, t) /\ t.left \in Int /\ t.left < 0
      /\ t.block = r.block /\ t.data = r.data /\ t.dirty = r.dirty /\ t.mirror = r.mirror
      /\ \A c \in Blocks : t.card[c] = IF c = b THEN d ELSE r.card[c]
      /\ Ok(t)
  BY <1>1, <1>2, WriteBlock DEF Ok, Sane
<1>5. WriteFull(s, b) = t  BY DEF WriteFull, r, d
<1> HIDE DEF t
<1>6. Sane(t)
  <2>1. /\ s.dirty \in BOOLEAN /\ s.block \in Known \cup {NoBlock}
        /\ ~s.dirty /\ s.block # NoBlock => s.data = s.card[s.block]
        /\ s.mirror = (IF s.dirty /\ fatCount = 2 /\ s.block \in FirstFat THEN s.block + blocksPerFat ELSE 0)
        /\ fatCount = 2 => \A c \in FirstFat : s.card[c + blocksPerFat] = s.card[c]
    BY DEF Sane
  <2>2. Known \subseteq Blocks  BY Regions
  <2>3. ~t.dirty /\ t.block # NoBlock => t.data = t.card[t.block]
    <3>1. t.block # NoBlock => t.block = s.block /\ t.block # b  BY <1>1, <1>4
    <3> QED  BY <1>1, <1>4, <2>1, <2>2, <3>1
  <2>4. t.mirror = IF t.dirty /\ fatCount = 2 /\ t.block \in FirstFat THEN t.block + blocksPerFat ELSE 0
    BY <1>1, <1>2, <1>4, <2>1
  <2>5. ASSUME fatCount = 2, NEW c \in FirstFat PROVE t.card[c + blocksPerFat] = t.card[c]
    <3>1. c + blocksPerFat \in SecondFat
      <4>1. blocksPerFat \in Nat  BY Regions
      <4> QED  BY <2>5, <4>1 DEF FirstFat, SecondFat
    <3>2. c + blocksPerFat \in Blocks /\ c \in Blocks /\ c + blocksPerFat # b /\ c # b
      BY <1>2, <3>1, Regions DEF Known
    <3> QED  BY <1>1, <1>4, <2>1, <2>5, <3>2
  <2> QED  BY <1>1, <1>4, <2>1, <2>3, <2>4, <2>5 DEF Sane
<1>7. \A x \in Known : ViewOf(t, x) = IF x = b THEN d ELSE ViewOf(s, x)
  <2>1. Known \subseteq Blocks  BY Regions
  <2> QED  BY <1>1, <1>2, <1>4, <2>1 DEF ViewOf
<1>8. BlockWritten(s, t, b, BlockLen)
  <2>1. (s.f.pos % BlockLen) = 0 /\ BlockLen \in Nat  BY GeometryAssumption
  <2> DEFINE at == s.f.pos % BlockLen
  <2>2. at = 0  BY <2>1
  <2> HIDE DEF at
  <2>3. (at + 1)..(at + BlockLen) = 1..BlockLen  BY <2>1, <2>2
  <2>4. \A x \in Known : x # b => ViewOf(t, x) = ViewOf(s, x)  BY <1>7
  <2>5. ViewOf(t, b) = d  BY <1>2, <1>7
  <2>6. \A i \in 1..BlockLen :
           IF i \in (at + 1)..(at + BlockLen) THEN ViewOf(t, b)[i] = <<s.f.name, s.f.pos + i - at - 1>>
           ELSE at # 0 \/ s.f.pos < s.f.size => ViewOf(t, b)[i] = ViewOf(s, b)[i]
    <3> DEFINE p == s.f.pos
    <3>1. p \in Nat  OBVIOUS
    <3> SUFFICES ASSUME NEW i \in 1..BlockLen
                 PROVE  i \in (at + 1)..(at + BlockLen) /\ ViewOf(t, b)[i] = <<s.f.name, p + i - at - 1>>
      OBVIOUS
    <3>2. d[i] = <<s.f.name, p + i - 1>>  BY <1>3
    <3> HIDE DEF p
    <3>3. p + i - at - 1 = p + i - 1  BY <2>1, <2>2, <3>1
    <3> QED  BY <2>3, <2>5, <3>2, <3>3
  <2> QED  BY <1>3, <2>4, <2>5, <2>6 DEF BlockWritten, at
<1>9. Rest(s, t)  BY <1>1, <1>4 DEF Rest
<1> QED  BY <1>4, <1>5, <1>6, <1>8, <1>9

\* d is "cells" with k cells of file f put in at its position.
FilledAs(d, cells, f, k) ==
    LET at == f.pos % BlockLen
    IN  /\ d \in [1..BlockLen -> Cell]
        /\ \A i \in 1..BlockLen :
              d[i] = IF i \in (at + 1)..(at + k) THEN <<f.name, f.pos + i - at - 1>> ELSE cells[i]

\* A block filled from the position on.
LEMMA FilledRight ==
  ASSUME NEW cells \in [1..BlockLen -> Cell], NEW f, f.name \in Name, f.pos \in Nat, NEW k \in Nat
  PROVE  FilledAs(Filled(cells, f, k), cells, f, k)
BY Zenon, Filling DEF FilledAs

\* The block the cache gets at the end of a file, or one it has, is filled.
LEMMA PartWritten ==
  ASSUME NEW s, Sane(s), Ok(s), DataFormed(s), NEW b \in Data, s.f.name \in Name, s.f.pos \in Nat, s.f.size \in Nat, NEW k \in Nat
  PROVE  LET t == WritePart(s, b, k)
         IN  /\ Live(s) => Good(t) /\ Rest(s, t) /\ BlockWritten(s, t, b, k)
             /\ ~Live(s) => Refused(s, t)
<1> DEFINE new == Offset(s) = 0 /\ s.f.pos >= s.f.size
           a == cacheFlush(s)
           x == [a EXCEPT !.block = b, !.dirty = TRUE, !.data = Filled(Empty, a.f, k)]
           c == cacheRawBlock(s, b, TRUE)
           y == [c EXCEPT !.data = Filled(@, c.f, k)]
           t == WritePart(s, b, k)
<1>1. t = IF new THEN IF Ok(a) THEN x ELSE a ELSE IF Ok(c) THEN y ELSE c
  BY Zenon DEF WritePart, Then
<1>2. b \in Blocks /\ b \in Known /\ b # NoBlock /\ b \notin FirstFat /\ NoBlock \notin Known
  BY Regions DEF Known
<1>3. (s.f.pos % BlockLen # 0 \/ s.f.pos < s.f.size) => ~new
  <2>1. new => ~(s.f.pos < s.f.size)
    <3> DEFINE p == s.f.pos
               z == s.f.size
    <3>1. p \in Nat /\ z \in Nat  OBVIOUS
    <3>2. new => p >= z  OBVIOUS
    <3> HIDE DEF p, z, new
    <3>3. new => ~(p < z)  BY <3>1, <3>2
    <3> QED  BY <3>3 DEF p, z
  <2> QED  BY <2>1 DEF Offset
<1> HIDE DEF t, new
<1>4. CASE new
  <2>1. /\ Sane(a) /\ Rest(s, a) /\ SameView(s, a)
        /\ a.block = s.block /\ a.data = s.data
        /\ Live(s) => Ok(a) /\ ~a.dirty
        /\ ~Live(s) => a.err = "address"
    BY Flush
  <2> HIDE DEF a
  <2>2. CASE ~Live(s)
    <3>1. Refused(s, a)  BY <2>1, <2>2 DEF Refused
    <3>2. t = a  BY <1>1, <1>4, <2>1, <2>2 DEF Ok
    <3> QED  BY <2>2, <3>1, <3>2 DEF t
  <2>3. CASE Live(s)
    <3> DEFINE d == Filled(Empty, a.f, k)
    <3>1. a.f = s.f  BY <2>1 DEF Rest
    <3>2. FilledAs(d, Empty, s.f, k)
      <4>1. Empty \in [1..BlockLen -> Cell]  BY DEF Empty, Cell
      <4> QED  BY <3>1, <4>1, FilledRight
    <3> HIDE DEF d
    <3>3. /\ Shape(x) /\ x.left = a.left /\ x.card = a.card /\ x.block = b /\ x.dirty = TRUE /\ x.data = d
          /\ x.mirror = a.mirror /\ x.err = a.err /\ Rest(a, x)
      BY <2>1 DEF Sane, Shape, Rest, d
    <3>4. t = x  BY <1>1, <1>4, <2>1, <2>3
    <3> HIDE DEF x
    <3>5. a.mirror = 0 /\ ~a.dirty /\ Ok(a)  BY <2>1, <2>3 DEF Sane
    <3>6. Sane(x)
      <4>1. /\ x.left \in Int /\ x.left < 0
            /\ fatCount = 2 => \A j \in FirstFat : x.card[j + blocksPerFat] = x.card[j]
        BY <2>1, <3>3 DEF Sane
      <4>2. x.dirty = TRUE /\ x.mirror = 0 /\ x.block \in Known /\ x.block \notin FirstFat  BY <1>2, <3>3, <3>5
      <4> QED  BY <3>3, <4>1, <4>2 DEF Sane
    <3>7. Good(x)  BY <1>2, <3>3, <3>5, <3>6 DEF Good, Ok, Live
    <3>8. \A i \in Known : ViewOf(x, i) = IF i = b THEN d ELSE ViewOf(s, i)
      <4> SUFFICES ASSUME NEW i \in Known PROVE ViewOf(x, i) = IF i = b THEN d ELSE ViewOf(s, i)  OBVIOUS
      <4>1. ViewOf(a, i) = ViewOf(s, i)  BY <2>1 DEF SameView
      <4>2. ViewOf(a, i) = a.card[i]  BY <1>2, <2>1, <3>5 DEF Sane, ViewOf
      <4> QED  BY <3>3, <4>1, <4>2 DEF ViewOf
    <3>9. BlockWritten(s, x, b, k)
      <4>1. ViewOf(x, b) = d  BY <1>2, <3>8
      <4>2. s.f.pos % BlockLen = 0 /\ ~(s.f.pos < s.f.size)  BY <1>3, <1>4
      <4>3. \A i \in Known : i # b => ViewOf(x, i) = ViewOf(s, i)  BY <3>8
      <4> QED  BY <3>2, <4>1, <4>2, <4>3 DEF BlockWritten, FilledAs
    <3>10. Rest(s, x)  BY <2>1, <3>3 DEF Rest
    <3> QED  BY <2>3, <3>4, <3>7, <3>9, <3>10 DEF t
  <2> QED  BY <2>2, <2>3
<1>5. CASE ~new
  <2>1. /\ Sane(c) /\ Rest(s, c) /\ SameView(s, c)
        /\ Live(s) => Ok(c) /\ Live(c) /\ c.block = b /\ c.dirty
        /\ ~Live(s) => c.err = "address"
    BY <1>2, RawBlock
  <2> HIDE DEF c
  <2>2. CASE ~Live(s)
    <3>1. Refused(s, c)  BY <2>1, <2>2 DEF Refused
    <3>2. t = c  BY <1>1, <1>5, <2>1, <2>2 DEF Ok
    <3> QED  BY <2>2, <3>1, <3>2 DEF t
  <2>3. CASE Live(s)
    <3> DEFINE d == Filled(c.data, c.f, k)
    <3>1. c.f = s.f  BY <2>1 DEF Rest
    <3>2. c.data = ViewOf(s, b)
      <4>1. ViewOf(c, b) = ViewOf(s, b)  BY <1>2, <2>1 DEF SameView
      <4> QED  BY <2>1, <2>3, <4>1 DEF ViewOf
    <3>3. FilledAs(d, ViewOf(s, b), s.f, k)
      <4>1. ViewOf(s, b) \in [1..BlockLen -> Cell]  BY DEF DataFormed
      <4> QED  BY <3>1, <3>2, <4>1, FilledRight
    <3> HIDE DEF d
    <3>4. /\ Shape(y) /\ y.left = c.left /\ y.card = c.card /\ y.block = b /\ y.dirty = c.dirty /\ y.data = d
          /\ y.mirror = c.mirror /\ y.err = c.err /\ Rest(c, y)
      BY <2>1, <2>3 DEF Sane, Shape, Rest, d
    <3>5. t = y  BY <1>1, <1>5, <2>1, <2>3
    <3> HIDE DEF y
    <3>6. c.dirty = TRUE  BY <2>1, <2>3 DEF Sane
    <3>7. Sane(y)  BY <1>2, <2>1, <2>3, <3>4, <3>6 DEF Sane
    <3>8. Good(y)  BY <1>2, <2>1, <2>3, <3>4, <3>7 DEF Good, Ok, Live
    <3>9. \A i \in Known : ViewOf(y, i) = IF i = b THEN d ELSE ViewOf(s, i)
      <4> SUFFICES ASSUME NEW i \in Known PROVE ViewOf(y, i) = IF i = b THEN d ELSE ViewOf(s, i)  OBVIOUS
      <4>1. ViewOf(c, i) = ViewOf(s, i)  BY <2>1 DEF SameView
      <4> QED  BY <2>1, <2>3, <3>4, <4>1 DEF ViewOf
    <3>10. BlockWritten(s, y, b, k)
      <4>1. ViewOf(y, b) = d  BY <1>2, <3>9
      <4>3. \A i \in Known : i # b => ViewOf(y, i) = ViewOf(s, i)  BY <3>9
      <4> QED  BY <3>3, <4>1, <4>3 DEF BlockWritten, FilledAs
    <3>11. Rest(s, y)  BY <2>1, <3>4 DEF Rest
    <3> QED  BY <2>3, <3>5, <3>8, <3>10, <3>11 DEF t
  <2> QED  BY <2>2, <2>3
<1> QED  BY <1>4, <1>5
-----------------------------------------------------------------------------
(***** writing a part of a block *****)

\* The first p cells of file n are what they should be.
Correct(s, g, n, p) == \A q \in 0..(p - 1) : CellOf(s, g, n, q) = <<n, q>>

\* k cells of file n are written from its position on, all in one block.
OverwrittenBy(s, t, g, n, k) ==
    /\ s.f.open /\ n = s.f.name /\ s.f.pos \in Nat /\ k \in Nat /\ k <= BlockLen - (s.f.pos % BlockLen)
    /\ s.f.pos < ClusterLen * g.len[n]
    /\ BlockWritten(s, t, BlockAt(g, n, s.f.pos), k)

\* A cell is one of those, or was there and still is.
LEMMA CellWritten ==
  ASSUME NEW s, NEW t, NEW g \in Ghost, Disjoint(g), NEW n \in Name, NEW k, OverwrittenBy(s, t, g, n, k),
         g.size[n] = s.f.size,
         NEW m \in Name, NEW q \in Nat, q < ClusterLen * g.len[m],
         m = n => q < g.size[n] \/ q < s.f.pos + k,
         CellOf(s, g, m, q) = <<m, q>> \/ (m = n /\ s.f.pos <= q /\ q < s.f.pos + k)
  PROVE  CellOf(t, g, m, q) = <<m, q>>
<1> DEFINE p == s.f.pos
           at == p % BlockLen
           j == q % BlockLen
           b == BlockAt(g, n, p)
           c == BlockAt(g, m, q)
<1>1. /\ p \in Nat /\ k \in Nat /\ k <= BlockLen - at /\ p < ClusterLen * g.len[n]
      /\ BlockWritten(s, t, b, k) /\ n = s.f.name
  BY DEF OverwrittenBy
<1>2. b \in Known /\ c \in Known  BY <1>1, GhostTypes
<1>3. j \in 0..(BlockLen - 1) /\ at \in 0..(BlockLen - 1) /\ BlockLen \in Nat \ {0}
  BY <1>1, Position, GeometryAssumption
<1> HIDE DEF p, at, j
<1>4. CellOf(t, g, m, q) = ViewOf(t, c)[j + 1] /\ CellOf(s, g, m, q) = ViewOf(s, c)[j + 1]  BY DEF CellOf, j
<1>5. /\ \A x \in Known : x # b => ViewOf(t, x) = ViewOf(s, x)
      /\ \A i \in 1..BlockLen :
            IF i \in (at + 1)..(at + k) THEN ViewOf(t, b)[i] = <<n, p + i - at - 1>>
            ELSE at # 0 \/ p < s.f.size => ViewOf(t, b)[i] = ViewOf(s, b)[i]
  BY <1>1 DEF BlockWritten, at, p
<1>6. m = n /\ p <= q /\ q < p + k => c = b /\ q - p = j - at
  <2> SUFFICES ASSUME m = n, p <= q, q < p + k PROVE c = b /\ q - p = j - at  OBVIOUS
  <2> DEFINE e == q - p
  <2>1. e \in 0..(BlockLen - 1 - at) /\ q = p + e  BY <1>1, <1>3
  <2> HIDE DEF e
  <2>2. p \div BlockLen = q \div BlockLen  BY <1>1, <2>1, NextInBlock DEF at
  <2>3. /\ p \div ClusterLen = q \div ClusterLen
        /\ blockOfCluster(p) = blockOfCluster(q)
        /\ q - p = (q % BlockLen) - (p % BlockLen)
    BY <1>1, <2>2, SameBlock
  <2> QED  BY <2>3 DEF BlockAt, at, j
<1>7. CASE c # b  BY <1>2, <1>4, <1>5, <1>6, <1>7 DEF p
<1>8. CASE c = b
  <2>1. m = n /\ p \div BlockLen = q \div BlockLen
    <3> HIDE DEF b, c
    <3>1. p \in Nat /\ p < ClusterLen * g.len[n] /\ BlockAt(g, m, q) = BlockAt(g, n, p)  BY <1>1, <1>8 DEF b, c
    <3> QED  BY <3>1, BlocksApart
  <2>2. q - p = j - at  BY <1>1, <2>1, SameBlock DEF at, j
  <2> DEFINE i == j + 1
  <2>3. i \in 1..BlockLen  BY <1>3
  <2>4. CASE p <= q /\ q < p + k
    <3>1. i \in (at + 1)..(at + k) /\ p + i - at - 1 = q  BY <1>1, <1>3, <2>2, <2>4
    <3>2. ViewOf(t, b)[i] = <<n, p + i - at - 1>>  BY <1>5, <2>3, <3>1
    <3> QED  BY <1>4, <1>8, <2>1, <3>1, <3>2
  <2>5. CASE ~(p <= q /\ q < p + k)
    <3>1. i \notin (at + 1)..(at + k)  BY <1>1, <1>3, <2>2, <2>5
    <3>2. at # 0 \/ p < s.f.size
      <4> SUFFICES ASSUME at = 0 PROVE p < s.f.size  OBVIOUS
      <4>1. p <= q  BY <1>1, <1>3, <2>2
      <4>2. ~(q < p + k)  BY <2>5, <4>1
      <4>3. q < g.size[n] /\ g.size[n] \in Nat  BY <2>1, <4>2, GhostTypes DEF p
      <4> QED  BY <1>1, <4>1, <4>3
    <3>3. ViewOf(t, b)[i] = ViewOf(s, b)[i]  BY <1>5, <2>3, <3>1, <3>2
    <3>4. CellOf(s, g, m, q) = <<m, q>>  BY <2>5 DEF p
    <3> QED  BY <1>4, <1>8, <3>3, <3>4
  <2> QED  BY <2>4, <2>5
<1> QED  BY <1>7, <1>8

\* Writing cells of a file where they belong keeps the volume sound.
LEMMA Overwritten ==
  ASSUME NEW s, NEW t, NEW g, NEW o, Sound(s, g, o), Rest(s, t), NEW n, NEW k, OverwrittenBy(s, t, g, n, k),
         Correct(s, g, n, s.f.pos)
  PROVE  /\ Sound(t, g, o) /\ Correct(t, g, n, s.f.pos + k)
         /\ \A c \in 0..LastCluster : FatOf(t, c) = FatOf(s, c)
<1> DEFINE p == s.f.pos
           b == BlockAt(g, n, p)
<1>1. /\ p \in Nat /\ k \in Nat /\ n = s.f.name /\ s.f.open /\ k <= BlockLen - (p % BlockLen)
      /\ p < ClusterLen * g.len[n] /\ BlockWritten(s, t, b, k)
  BY DEF OverwrittenBy
<1>2. /\ g \in Ghost /\ n \in Name /\ g.size[n] = s.f.size
      /\ FatFormed(s) /\ DataFormed(s) /\ DirFormed(s) /\ Disjoint(g) /\ Linked(s, g) /\ Held(s, g)
  BY <1>1 DEF Sound, Opened, Volume, Formed
<1>3. b \in Data /\ b \notin FirstFat /\ b # rootDirStart  BY <1>1, <1>2, GhostTypes, Regions
<1>4. \A x \in Known : x # b => ViewOf(t, x) = ViewOf(s, x)  BY <1>1 DEF BlockWritten
<1>5. ViewOf(t, b) \in [1..BlockLen -> Cell]  BY <1>1 DEF BlockWritten
<1> HIDE DEF b
<1>6. \A x \in FirstFat \cup {rootDirStart} : ViewOf(t, x) = ViewOf(s, x)  BY <1>3, <1>4 DEF Known
<1>7. DirOf(t) = DirOf(s)  BY <1>6 DEF DirOf
<1>8. \A c \in 0..LastCluster : FatOf(t, c) = FatOf(s, c)
  <2> SUFFICES ASSUME NEW c \in 0..LastCluster PROVE FatOf(t, c) = FatOf(s, c)  OBVIOUS
  <2>1. FatBlock(c) \in FirstFat  BY FatBlocks
  <2> QED  BY <1>6, <2>1 DEF FatOf
<1>9. FatFormed(t) /\ DirFormed(t)  BY <1>2, <1>6, <1>7 DEF FatFormed, DirFormed
<1>10. DataFormed(t)
  <2> SUFFICES ASSUME NEW x \in Data PROVE ViewOf(t, x) \in [1..BlockLen -> Cell]  BY DEF DataFormed
  <2>1. CASE x = b  BY <1>5, <2>1
  <2>2. CASE x # b
    <3>1. x \in Known  BY DEF Known
    <3> QED  BY <1>2, <1>4, <2>2, <3>1 DEF DataFormed
  <2> QED  BY <2>1, <2>2
<1>11. Linked(t, g)  BY <1>2, <1>8, OfFat
<1>12. Held(t, g)
  <2> SUFFICES ASSUME NEW m \in Name
               PROVE  /\ g.size[m] <= ClusterLen * g.len[m]
                      /\ \A q \in 0..(g.size[m] - 1) : CellOf(t, g, m, q) = <<m, q>>
    BY DEF Held
  <2>1. g.size[m] <= ClusterLen * g.len[m]  BY <1>2 DEF Held
  <2>2. ASSUME NEW q \in 0..(g.size[m] - 1) PROVE CellOf(t, g, m, q) = <<m, q>>
    <3>1. g.size[m] \in Nat /\ ClusterLen * g.len[m] \in Nat  BY <1>2, GhostTypes
    <3> DEFINE L == ClusterLen * g.len[m]
    <3>2. L \in Nat /\ g.size[m] <= L  BY <2>1, <3>1
    <3> HIDE DEF L
    <3>3. q \in Nat /\ q < g.size[m] /\ q < L  BY <2>2, <3>1, <3>2
    <3>4. CellOf(s, g, m, q) = <<m, q>>  BY <1>2, <2>2 DEF Held
    <3>5. q < ClusterLen * g.len[m] /\ (m = n => q < g.size[n])  BY <3>3 DEF L
    <3> QED  BY <1>2, <3>3, <3>4, <3>5, CellWritten
  <2> QED  BY <2>1, <2>2
<1>13. ASSUME NEW q \in Nat, q < p + k PROVE CellOf(t, g, n, q) = <<n, q>>
  <2> DEFINE L == ClusterLen * g.len[n]
  <2>1. L \in Nat /\ p < L  BY <1>1, <1>2, GhostTypes
  <2>2. q \in Nat /\ q < p + k  BY <1>13
  <2>3. q < L
    <3> DEFINE CL == ClusterLen
               l == g.len[n]
    <3>1. CASE q < p
      <4> HIDE DEF L, p
      <4> QED  BY <1>1, <2>1, <2>2, <3>1
    <3>2. CASE p <= q
      <4> DEFINE e == q - p
      <4>1. e \in 0..(BlockLen - 1 - (p % BlockLen)) /\ q = p + e
        <5> DEFINE at == p % BlockLen
        <5>1. at \in 0..(BlockLen - 1) /\ BlockLen \in Nat \ {0} /\ k <= BlockLen - at  BY <1>1, Position, GeometryAssumption
        <5> HIDE DEF at, p
        <5>2. e \in 0..(BlockLen - 1 - at) /\ q = p + e  BY <1>1, <2>2, <3>2, <5>1
        <5> QED  BY <5>2 DEF at
      <4> HIDE DEF e
      <4>2. p \div BlockLen = q \div BlockLen  BY <1>1, <4>1, NextInBlock
      <4>3. p \div ClusterLen = q \div ClusterLen  BY <1>1, <2>2, <4>2, SameBlock
      <4>4. p \div ClusterLen < g.len[n] /\ g.len[n] \in Nat  BY <1>1, <1>2, ClusterOf, GhostTypes
      <4> QED  BY <2>2, <4>3, <4>4, ClusterOf
    <3>3. p \in Nat /\ q \in Nat  BY <1>1, <2>2
    <3> HIDE DEF p, L
    <3> QED  BY <3>1, <3>2, <3>3
  <2>4. CellOf(s, g, n, q) = <<n, q>> \/ (n = n /\ p <= q /\ q < p + k)
    <3>1. CASE q < p
      <4>1. q \in 0..(p - 1)
        <5> HIDE DEF p
        <5> QED  BY <1>1, <2>2, <3>1
      <4> QED  BY <4>1 DEF Correct
    <3>2. CASE p <= q  BY <2>2, <3>2
    <3>3. p \in Nat /\ q \in Nat  BY <1>1, <2>2
    <3> HIDE DEF p
    <3> QED  BY <3>1, <3>2, <3>3
  <2> QED  BY <1>2, <2>2, <2>3, <2>4, CellWritten DEF p, L
<1>18. Correct(t, g, n, p + k)
  <2> DEFINE e == p + k
  <2>1. \A q \in 0..(e - 1) : CellOf(t, g, n, q) = <<n, q>>
    <3> SUFFICES ASSUME NEW q \in 0..(e - 1) PROVE CellOf(t, g, n, q) = <<n, q>>  OBVIOUS
    <3> HIDE DEF p
    <3>1. q \in Nat /\ q < p + k  BY <1>1
    <3> QED  BY <1>13, <3>1
  <2> HIDE DEF e
  <2>2. Correct(t, g, n, e)  BY <2>1 DEF Correct
  <2> QED  BY <2>2 DEF e
<1>14. t.f = s.f /\ t.start = s.start  BY DEF Rest
<1>15. /\ Listed(t, g, {t.f.name, o.name}) /\ Opened(t, g, t.f) /\ Opened(t, g, o)
  BY <1>7, <1>14 DEF Sound, Listed, Opened
<1>16. Volume(t, g)  BY <1>2, <1>9, <1>10, <1>11, <1>12 DEF Volume, Formed
<1>17. Sound(t, g, o)  BY <1>14, <1>15, <1>16 DEF Sound
<1> QED  BY <1>8, <1>17, <1>18

\* Cells written before stay right when the file gets a cluster.
LEMMA StillCorrect ==
  ASSUME NEW s, NEW t, NEW g \in Ghost, NEW h, NEW n \in Name, NEW p \in Nat, SameButFat(s, t), Extends(g, h, n),
         p <= ClusterLen * g.len[n], Correct(s, g, n, p)
  PROVE  Correct(t, h, n, p)
<1>1. ASSUME NEW q \in 0..(p - 1) PROVE CellOf(t, h, n, q) = <<n, q>>
  <2>1. CellOf(s, g, n, q) = <<n, q>>  BY <1>1 DEF Correct
  <2> DEFINE L == ClusterLen * g.len[n]
             i == q \div ClusterLen
  <2>2. q \in Nat /\ L \in Nat /\ p <= L  BY GhostTypes
  <2> HIDE DEF L
  <2>3. q < L  BY <2>2
  <2>4. i < g.len[n] /\ i \in Nat /\ g.len[n] \in Nat
    <3>1. q < ClusterLen * g.len[n] /\ g.len[n] \in Nat  BY <2>3, GhostTypes DEF L
    <3> QED  BY <2>2, <3>1, ClusterOf, Position
  <2> HIDE DEF i
  <2>5. h.ch[n][i] = g.ch[n][i]
    <3>1. i \in 0..(g.len[n] - 1)  BY <2>4
    <3> QED  BY <3>1 DEF Extends
  <2>6. BlockAt(h, n, q) = BlockAt(g, n, q)  BY <2>5 DEF BlockAt, i
  <2>7. CellOf(t, g, n, q) = CellOf(s, g, n, q)
    <3>1. \A m \in Name, r \in Nat : CellOf(t, g, m, r) = CellOf(s, g, m, r)  BY ButFat
    <3> QED  BY <2>2, <3>1
  <2> QED  BY <2>1, <2>6, <2>7 DEF CellOf
<1> QED  BY <1>1 DEF Correct

\* What a turn of write's loop leads to.
Advanced(s, t, g, o, n, todo) ==
    /\ Sane(t) /\ SameOpen(s.f, t.f) /\ t.f.size = s.f.size /\ t.got = s.got
    /\ \E h : /\ Sound(t, h, o) /\ Extends(g, h, n) /\ Astray(h, t.f)
              /\ Ok(t) => At(h, t.f) /\ Correct(t, h, n, t.f.pos)
    /\ Ok(t) => t.f.pos \in (s.f.pos + 1)..(s.f.pos + todo)
    /\ ~Ok(t) => t.f.pos = s.f.pos /\ t.err \in {"address", "full"}
    /\ t.err = "full" => \A c \in Clusters : FatOf(t, c) # 0

\* The block of the position, and what goes to it.
LEMMA PartOf ==
  ASSUME NEW f, f.pos \in Nat, NEW todo \in Nat \ {0}
  PROVE  LET k == Min({BlockLen - (f.pos % BlockLen), todo})
         IN  /\ k \in Nat \ {0} /\ k <= todo /\ k <= BlockLen - (f.pos % BlockLen)
             /\ k = BlockLen => f.pos % BlockLen = 0
<1> DEFINE p == f.pos
<1>1. p \in Nat  OBVIOUS
<1> HIDE DEF p
<1> DEFINE at == p % BlockLen
           r == BlockLen - at
<1>2. at \in 0..(BlockLen - 1) /\ BlockLen \in Nat \ {0}  BY <1>1, Position, GeometryAssumption
<1> HIDE DEF at
<1>3. r \in Nat \ {0}  BY <1>2
<1>4. Min({r, todo}) = IF r <= todo THEN r ELSE todo
  <2> HIDE DEF r
  <2> QED  BY <1>3, MinOfTwo
<1>5. /\ Min({r, todo}) \in Nat \ {0} /\ Min({r, todo}) <= todo /\ Min({r, todo}) <= r
      /\ Min({r, todo}) = BlockLen => at = 0
  BY <1>2, <1>3, <1>4
<1> QED  BY <1>5 DEF at, p

\* A part of a block is written where the position is.
PartPut(s, b, k) == IF k = BlockLen THEN WriteFull(s, b) ELSE WritePart(s, b, k)

\* What write() does with the part of one block.
LEMMA PartPutDone ==
  ASSUME NEW s, Sane(s), Ok(s), NEW g, NEW o, Sound(s, g, o), s.f.open, s.f.pos \in Nat, NEW b \in Data,
         NEW k \in Nat, k = BlockLen => s.f.pos % BlockLen = 0
  PROVE  LET t == PartPut(s, b, k)
         IN  \/ Sane(t) /\ Ok(t) /\ Rest(s, t) /\ BlockWritten(s, t, b, k)
             \/ Refused(s, t)
<1> DEFINE t == PartPut(s, b, k)
<1>1. s.f.name \in Name /\ s.f.size \in Nat /\ DataFormed(s)
  <2>1. g \in Ghost /\ s.f.name \in Name /\ s.f.size = g.size[s.f.name]  BY DEF Sound, Opened
  <2> QED  BY <2>1, GhostTypes DEF Sound, Volume, Formed
<1>2. CASE k = BlockLen
  <2> DEFINE u == WriteFull(s, b)
  <2>1. Sane(u) /\ Ok(u) /\ Rest(s, u) /\ BlockWritten(s, u, b, BlockLen)  BY <1>1, <1>2, FullWritten
  <2>2. t = u  BY <1>2 DEF PartPut
  <2> HIDE DEF u, t
  <2> QED  BY <1>2, <2>1, <2>2 DEF t
<1>3. CASE k # BlockLen
  <2> DEFINE u == WritePart(s, b, k)
  <2>1. /\ Live(s) => Good(u) /\ Rest(s, u) /\ BlockWritten(s, u, b, k)
        /\ ~Live(s) => Refused(s, u)
    BY <1>1, PartWritten
  <2>2. t = u  BY <1>3 DEF PartPut
  <2> HIDE DEF u, t
  <2> QED  BY <2>1, <2>2 DEF t, Good
<1> QED  BY <1>2, <1>3

\* What one turn of write()'s loop does.
LEMMA WrittenPart ==
  ASSUME NEW s, Sane(s), Ok(s), NEW g, NEW o, Sound(s, g, o), s.f.open, NEW n, n = s.f.name,
         At(g, s.f), Correct(s, g, n, s.f.pos), NEW todo \in Nat \ {0}
  PROVE  Advanced(s, WriteBlockPart(s, todo), g, o, n, todo)
<1> DEFINE u == EnterCluster(s)
           b == PositionBlock(u)
           k == Part(u, todo)
           w == PartPut(u, b, k)
           y == PutPos(w, w.f.pos + Part(w, todo))
           t == WriteBlockPart(s, todo)
           p == s.f.pos
<1>1. t = IF Ok(u) THEN IF Ok(w) THEN y ELSE w ELSE u
  BY Zenon DEF WriteBlockPart, Then, PartPut, PutPos
<1>2. g \in Ghost /\ n \in Name /\ p \in Nat /\ p <= ClusterLen * g.len[n] /\ Astray(g, s.f)
  <2>1. g \in Ghost /\ n \in Name  BY DEF Sound, Opened
  <2> DEFINE L == ClusterLen * g.len[n]
  <2>2. p \in 0..L /\ L \in Nat  BY <2>1, GhostTypes DEF At
  <2>3. Astray(g, s.f)  BY <2>1, AtAstray
  <2> HIDE DEF L, p
  <2>4. p \in Nat /\ p <= L  BY <2>2
  <2> QED  BY <2>1, <2>3, <2>4 DEF L
<1>3. InPlace(s, u, g, o, n) \/ Without(s, u)  BY ClusterEntered
<1> HIDE DEF u, t
<1>4. ASSUME Without(s, u) PROVE Advanced(s, t, g, o, n, todo)
  <2>1. /\ Sane(u) /\ SameView(s, u) /\ u.f = s.f /\ u.start = s.start /\ u.got = s.got
        /\ u.err \in {"address", "full"} /\ (u.err = "full" => \A c \in Clusters : FatOf(u, c) # 0)
    BY <1>4 DEF Without
  <2>2. t = u /\ ~Ok(u)  BY <1>1, <2>1 DEF Ok
  <2>3. Sound(u, g, o)  BY <2>1, SoundSame
  <2>4. Extends(g, g, n)  BY <1>2, SameGhost
  <2>5. SameOpen(s.f, u.f)  BY <2>1 DEF SameOpen
  <2>6. Astray(g, u.f)  BY <1>2, <2>1
  <2>7. \E h : /\ Sound(u, h, o) /\ Extends(g, h, n) /\ Astray(h, u.f)
               /\ Ok(u) => At(h, u.f) /\ Correct(u, h, n, u.f.pos)
    BY <2>2, <2>3, <2>4, <2>6
  <2>8. Advanced(s, u, g, o, n, todo)  BY <2>1, <2>2, <2>5, <2>7 DEF Advanced
  <2> QED  BY <2>2, <2>8
<1>5. ASSUME InPlace(s, u, g, o, n) PROVE Advanced(s, t, g, o, n, todo)
  <2>1. /\ Sane(u) /\ Ok(u) /\ SameButFat(s, u) /\ SameOpen(s.f, u.f) /\ u.f.size = s.f.size
        /\ u.f.pos = p /\ u.got = s.got
    BY <1>5 DEF InPlace
  <2>2. PICK h : /\ Sound(u, h, o) /\ Extends(g, h, n) /\ u.f.pos \div ClusterLen < h.len[n]
                 /\ u.f.cur = h.ch[n][u.f.pos \div ClusterLen]
    BY <1>5 DEF InPlace
  <2>3. h \in Ghost /\ u.f.open /\ u.f.name = n  BY <2>1, <2>2 DEF Sound, SameOpen
  <2>4. Correct(u, h, n, p)  BY <1>2, <2>1, <2>2, StillCorrect
  <2> DEFINE i == p \div ClusterLen
             at == p % BlockLen
             L == ClusterLen * h.len[n]
             e == p + k
  <2>5. i \in Nat /\ i < h.len[n] /\ h.len[n] \in Nat /\ u.f.cur = h.ch[n][i] /\ u.f.cur \in Clusters
    <3>1. i \in Nat  BY <1>2, Position
    <3>2. i < h.len[n] /\ u.f.cur = h.ch[n][i]  BY <2>1, <2>2
    <3> HIDE DEF i
    <3>3. h.len[n] \in Nat /\ h.ch[n][i] \in Clusters  BY <1>2, <2>3, <3>1, GhostTypes
    <3> QED  BY <3>1, <3>2, <3>3
  <2>6. b = BlockAt(h, n, p) /\ b \in Data
    <3>1. b = BlockAt(h, n, p)  BY <2>1, <2>2 DEF PositionBlock, BlockAt
    <3> HIDE DEF b
    <3>2. b \in Data  BY <1>2, <2>3, <3>1, GhostTypes
    <3> QED  BY <3>1, <3>2
  <2>7. k \in Nat \ {0} /\ k <= todo /\ k <= BlockLen - (u.f.pos % BlockLen) /\ (k = BlockLen => u.f.pos % BlockLen = 0)
    <3>1. u.f.pos \in Nat  BY <1>2, <2>1
    <3> QED  BY <3>1, PartOf DEF Part, Offset
  <2>8. p < L
    <3> HIDE DEF p
    <3> QED  BY <1>2, <2>5, ClusterOf DEF i
  <2> HIDE DEF b, k
  <2>9. \/ Sane(w) /\ Ok(w) /\ Rest(u, w) /\ BlockWritten(u, w, b, k)
        \/ Refused(u, w)
    <3>1. u.f.pos \in Nat /\ k \in Nat /\ (k = BlockLen => u.f.pos % BlockLen = 0)  BY <1>2, <2>1, <2>7
    <3> HIDE DEF w
    <3> QED  BY <2>1, <2>2, <2>3, <2>6, <3>1, PartPutDone DEF w
  <2> HIDE DEF w
  <2>10. ASSUME Refused(u, w) PROVE Advanced(s, t, g, o, n, todo)
    <3>1. /\ Sane(w) /\ SameView(u, w) /\ w.f = u.f /\ w.start = u.start /\ w.got = u.got /\ w.err = "address"
      BY <2>10 DEF Refused, Rest
    <3>2. t = w /\ ~Ok(w)  BY <1>1, <2>1, <3>1 DEF Ok
    <3>3. Sound(w, h, o)  BY <2>2, <3>1, SoundSame
    <3>4. SameOpen(s.f, w.f)  BY <2>1, <3>1
    <3>5. Astray(h, w.f)
      <4>1. p \in 0..L  BY <1>2, <2>5, <2>8, GhostTypes, <2>3
      <4>2. w.f.pos = p /\ w.f.cur \in Clusters /\ w.f.name = n  BY <2>1, <2>3, <2>5, <3>1
      <4> QED  BY <4>1, <4>2 DEF Astray
    <3>6. \E a : /\ Sound(w, a, o) /\ Extends(g, a, n) /\ Astray(a, w.f)
                 /\ Ok(w) => At(a, w.f) /\ Correct(w, a, n, w.f.pos)
      BY <2>2, <3>2, <3>3, <3>5
    <3>7. w.f.size = s.f.size /\ w.got = s.got /\ w.f.pos = s.f.pos  BY <2>1, <3>1
    <3>8. Advanced(s, w, g, o, n, todo)  BY <3>1, <3>2, <3>4, <3>6, <3>7 DEF Advanced
    <3> QED  BY <3>2, <3>8
  <2>11. ASSUME Sane(w), Ok(w), Rest(u, w), BlockWritten(u, w, b, k) PROVE Advanced(s, t, g, o, n, todo)
    <3>1. w.f = u.f /\ w.start = u.start /\ w.got = u.got  BY <2>11 DEF Rest
    <3>2. Part(w, todo) = k  BY <3>1 DEF Part, Offset, k
    <3>3. OverwrittenBy(u, w, h, n, k)
      <4>1. u.f.pos \in Nat /\ k \in Nat /\ k <= BlockLen - (u.f.pos % BlockLen)  BY <1>2, <2>1, <2>7
      <4> QED  BY <2>1, <2>3, <2>6, <2>8, <2>11, <4>1 DEF OverwrittenBy
    <3>4. Sound(w, h, o) /\ Correct(w, h, n, p + k)
      <4>1. Correct(u, h, n, u.f.pos)  BY <2>1, <2>4
      <4>2. Sound(w, h, o) /\ Correct(w, h, n, u.f.pos + k)  BY <2>2, <2>11, <3>3, <4>1, Overwritten
      <4> QED  BY <2>1, <4>2
    <3>5. t = PutPos(w, e)  BY <1>1, <2>1, <2>11, <3>1, <3>2
    <3> DEFINE z == PutPos(w, e)
    <3>6. /\ Sane(z) /\ Moved(w, z) /\ z.f.cur = w.f.cur /\ z.f.pos = e
          /\ z.err = w.err
      BY <2>11, PlacedPos
    <3> HIDE DEF z
    <3>7. Sound(z, h, o)
      <4>1. w.f.open  BY <2>3, <3>1
      <4>2. SameView(w, z) /\ z.start = w.start /\ SameFile(w.f, z.f)  BY <3>6 DEF Moved
      <4> QED  BY <3>4, <4>1, <4>2, SoundSame
    <3>8. p \in Nat /\ k \in Nat \ {0} /\ e \in Nat \ {0} /\ e - 1 \in Nat /\ k \in Int /\ todo \in Nat
          /\ e \in (p + 1)..(p + todo)
      <4> HIDE DEF p
      <4> QED  BY <1>2, <2>7
    <3>9. (e - 1) \div ClusterLen = i
      <4> DEFINE d == k - 1
      <4>1. d \in 0..(BlockLen - 1 - (p % BlockLen)) /\ e - 1 = p + d
        <5>1. at \in 0..(BlockLen - 1) /\ BlockLen \in Nat \ {0} /\ k <= BlockLen - at
          BY <1>2, <2>1, <2>7, Position, GeometryAssumption
        <5> HIDE DEF at, p
        <5>2. d \in 0..(BlockLen - 1 - at) /\ e - 1 = p + d  BY <3>8, <5>1
        <5> QED  BY <5>2 DEF at
      <4> HIDE DEF d, e
      <4> DEFINE q == p + d
      <4>2. p \div BlockLen = q \div BlockLen  BY <1>2, <4>1, NextInBlock
      <4>3. q \in Nat /\ q = e - 1  BY <3>8, <4>1
      <4> HIDE DEF q
      <4>4. p \div ClusterLen = q \div ClusterLen  BY <1>2, <4>2, <4>3, SameBlock
      <4> QED  BY <4>3, <4>4
    <3>10. e \in 0..L /\ L \in Nat
      <4> DEFINE q == e - 1
      <4>1. q \div ClusterLen < h.len[n] /\ q \in Nat  BY <2>5, <3>8, <3>9
      <4> HIDE DEF q
      <4>2. q < L  BY <2>5, <4>1, ClusterOf
      <4>3. L \in Nat  BY <1>2, <2>3, GhostTypes
      <4> HIDE DEF L, e
      <4>4. e \in Nat \ {0} /\ q = e - 1  BY <3>8 DEF q
      <4> QED  BY <4>2, <4>3, <4>4
    <3>11. z.f.name = n  BY <2>3, <3>1, <3>6 DEF Moved, SameFile
    <3>12. z.f.cur = h.ch[n][(e - 1) \div ClusterLen] /\ z.f.cur \in Clusters  BY <2>5, <3>1, <3>6, <3>9
    <3> HIDE DEF e
    <3>13. At(h, z.f) /\ Astray(h, z.f)
      <4>1. e # 0  BY <3>8
      <4> QED  BY <3>6, <3>10, <3>11, <3>12, <4>1 DEF At, Astray
    <3>14. Correct(z, h, n, z.f.pos)
      <4>1. SameView(w, z)  BY <3>6 DEF Moved
      <4>2. SameButFat(w, z)  BY <4>1, SameFat
      <4>3. \A r \in Nat : CellOf(z, h, n, r) = CellOf(w, h, n, r)
        <5>1. \A m \in Name, r \in Nat : CellOf(z, h, m, r) = CellOf(w, h, m, r)  BY <2>3, <4>2, ButFat
        <5> QED  BY <1>2, <5>1
      <4>4. Correct(w, h, n, e)  BY <3>4 DEF e
      <4>5. Correct(z, h, n, e)  BY <4>3, <4>4 DEF Correct
      <4> QED  BY <3>6, <4>5
    <3>15. \E a : /\ Sound(z, a, o) /\ Extends(g, a, n) /\ Astray(a, z.f)
                  /\ Ok(z) => At(a, z.f) /\ Correct(z, a, n, z.f.pos)
      BY <2>2, <3>7, <3>13, <3>14
    <3>16. z.f.size = s.f.size /\ z.got = s.got /\ SameOpen(s.f, z.f)
      BY <2>1, <3>1, <3>6 DEF Moved, SameFile, SameOpen
    <3>17. Ok(z) /\ z.err # "full"  BY <2>11, <3>6 DEF Ok
    <3>18. z.f.pos \in (s.f.pos + 1)..(s.f.pos + todo)  BY <3>6, <3>8
    <3>19. Advanced(s, z, g, o, n, todo)  BY <3>6, <3>15, <3>16, <3>17, <3>18 DEF Advanced
    <3> QED  BY <3>5, <3>19 DEF z, e
  <2> QED  BY <2>9, <2>10, <2>11
<1> QED  BY <1>3, <1>4, <1>5 DEF t
-----------------------------------------------------------------------------
(***** the loop of write *****)

\* The loop of write().
Wrote(s, todo) == Transfer(WriteBlockPart, s, todo)

\* The states it goes through, until the position is "end".
WriteStates(f, s, todo, end) ==
    /\ f[0] = s
    /\ \A i \in 1..todo :
          f[i] = IF Ok(f[i - 1])
                 THEN IF f[i - 1].f.pos >= end THEN f[i - 1]
                      ELSE WriteBlockPart(f[i - 1], end - f[i - 1].f.pos)
                 ELSE f[i - 1]

\* The states of write()'s loop.
LEMMA WriteTurns ==
  ASSUME NEW s, NEW todo \in Nat
  PROVE  \E f : Wrote(s, todo) = f[todo] /\ WriteStates(f, s, todo, s.f.pos + todo)
<1> DEFINE end == s.f.pos + todo
           Fits(f) == f = [i \in 0..todo |-> IF i = 0 THEN s ELSE
                             IF Ok(f[i - 1])
                             THEN IF f[i - 1].f.pos >= end THEN f[i - 1]
                                  ELSE WriteBlockPart(f[i - 1], end - f[i - 1].f.pos)
                             ELSE f[i - 1]]
           after == CHOOSE f : Fits(f)
<1>1. Wrote(s, todo) = after[todo]  BY DEF Wrote, Transfer, Repeat, Then
<1> HIDE DEF end
<1>2. PICK g : Turning("write", end, s, todo, g)  BY Turns
<1>3. Fits(g)  BY <1>2 DEF Turning, Turn
<1> HIDE DEF Fits
<1>4. Fits(after)  BY <1>3
<1> HIDE DEF after
<1>5. WriteStates(after, s, todo, end)
  <2>1. after[0] = s  BY <1>4 DEF Fits
  <2>2. \A i \in 1..todo :
            after[i] = IF Ok(after[i - 1])
                       THEN IF after[i - 1].f.pos >= end THEN after[i - 1]
                            ELSE WriteBlockPart(after[i - 1], end - after[i - 1].f.pos)
                       ELSE after[i - 1]
    <3> SUFFICES ASSUME NEW i \in 1..todo
                 PROVE  after[i] = IF Ok(after[i - 1])
                                   THEN IF after[i - 1].f.pos >= end THEN after[i - 1]
                                        ELSE WriteBlockPart(after[i - 1], end - after[i - 1].f.pos)
                                   ELSE after[i - 1]
      OBVIOUS
    <3>1. i \in 0..todo /\ i # 0  OBVIOUS
    <3> QED  BY Zenon, <1>4, <3>1 DEF Fits
  <2> QED  BY Zenon, <2>1, <2>2 DEF WriteStates
<1> QED  BY <1>1, <1>5 DEF end

\* Extending a ghost is transitive.
LEMMA ExtendsTrans ==
  ASSUME NEW g \in Ghost, NEW h, NEW k, NEW n \in Name, Extends(g, h, n), Extends(h, k, n)
  PROVE  Extends(g, k, n)
<1>1. Others(g, k, n)  BY OthersTrans DEF Extends
<1>2. h \in Ghost /\ k \in Ghost  BY DEF Extends
<1> DEFINE a == g.len[n]
           b == h.len[n]
           c == k.len[n]
<1>3. a \in Nat /\ b \in Nat /\ c \in Nat /\ a <= b /\ b <= c /\ k.size[n] = g.size[n]
  BY <1>2, GhostTypes DEF Extends
<1>4. /\ \A i \in 0..(a - 1) : h.ch[n][i] = g.ch[n][i]
      /\ \A i \in 0..(b - 1) : k.ch[n][i] = h.ch[n][i]
  BY DEF Extends
<1> HIDE DEF a, b, c
<1>5. a <= c /\ \A i \in 0..(a - 1) : k.ch[n][i] = g.ch[n][i]
  <2>1. a <= c  BY <1>3
  <2>2. ASSUME NEW i \in 0..(a - 1) PROVE k.ch[n][i] = g.ch[n][i]
    <3>1. i \in 0..(b - 1)  BY <1>3
    <3> QED  BY <1>4, <3>1
  <2> QED  BY <2>1, <2>2
<1> QED  BY <1>1, <1>2, <1>3, <1>5 DEF Extends, a, c

\* Where the loop is after some turns.
Writing(s, t, g, o, n, end) ==
    /\ Sane(t) /\ SameOpen(s.f, t.f) /\ t.f.size = s.f.size /\ t.got = s.got
    /\ \E h : /\ Sound(t, h, o) /\ Extends(g, h, n) /\ Astray(h, t.f)
              /\ Ok(t) => At(h, t.f) /\ Correct(t, h, n, t.f.pos)
    /\ t.f.pos \in Nat /\ t.f.pos <= end
    /\ t.err \in {"none", "address", "full"}
    /\ t.err = "full" => \A c \in Clusters : FatOf(t, c) # 0

\* A turn of write()'s loop keeps what the loop has done.
LEMMA WritingOn ==
  ASSUME NEW s, NEW t, NEW g, NEW o, NEW n, NEW end \in Nat, Sound(s, g, o), s.f.open, n = s.f.name,
         Writing(s, t, g, o, n, end), Ok(t), t.f.pos < end
  PROVE  Writing(s, WriteBlockPart(t, end - t.f.pos), g, o, n, end)
<1> DEFINE p == t.f.pos
           todo == end - p
           u == WriteBlockPart(t, todo)
<1>1. /\ Sane(t) /\ SameOpen(s.f, t.f) /\ t.f.size = s.f.size /\ t.got = s.got
      /\ p \in Nat /\ p <= end
  BY DEF Writing
<1>2. PICK h : /\ Sound(t, h, o) /\ Extends(g, h, n) /\ Astray(h, t.f)
               /\ At(h, t.f) /\ Correct(t, h, n, t.f.pos)
  BY DEF Writing
<1>3. g \in Ghost /\ n \in Name /\ t.f.open /\ n = t.f.name  BY <1>1 DEF Sound, Opened, SameOpen
<1>4. todo \in Nat \ {0}
  <2>1. p < end  OBVIOUS
  <2> HIDE DEF p
  <2> QED  BY <1>1, <2>1
<1> HIDE DEF todo
<1>5. Advanced(t, u, h, o, n, todo)  BY <1>1, <1>2, <1>3, <1>4, WrittenPart
<1> HIDE DEF u
<1>6. /\ Sane(u) /\ SameOpen(t.f, u.f) /\ u.f.size = t.f.size /\ u.got = t.got
      /\ Ok(u) => u.f.pos \in (p + 1)..(p + todo)
      /\ ~Ok(u) => u.f.pos = p /\ u.err \in {"address", "full"}
      /\ u.err = "full" => \A c \in Clusters : FatOf(u, c) # 0
  BY <1>5 DEF Advanced
<1>7. PICK k : /\ Sound(u, k, o) /\ Extends(h, k, n) /\ Astray(k, u.f)
               /\ Ok(u) => At(k, u.f) /\ Correct(u, k, n, u.f.pos)
  BY <1>5 DEF Advanced
<1>8. Extends(g, k, n)  BY <1>2, <1>3, <1>7, ExtendsTrans
<1>9. SameOpen(s.f, u.f)  BY <1>1, <1>6 DEF SameOpen
<1>10. u.f.pos \in Nat /\ u.f.pos <= end
  <2>1. CASE Ok(u)
    <3>1. u.f.pos \in (p + 1)..(p + todo)  BY <1>6, <2>1
    <3> DEFINE q == u.f.pos
    <3>2. q \in (p + 1)..(p + todo)  BY <3>1
    <3> HIDE DEF p, q
    <3>3. q \in Nat /\ q <= end  BY <1>1, <3>2 DEF todo
    <3> QED  BY <3>3 DEF q
  <2>2. CASE ~Ok(u)  BY <1>1, <1>6, <2>2
  <2> QED  BY <2>1, <2>2
<1>11. u.err \in {"none", "address", "full"}  BY <1>6 DEF Ok
<1>12. \E a : /\ Sound(u, a, o) /\ Extends(g, a, n) /\ Astray(a, u.f)
              /\ Ok(u) => At(a, u.f) /\ Correct(u, a, n, u.f.pos)
  BY <1>7, <1>8
<1>13. Writing(s, u, g, o, n, end)  BY <1>1, <1>6, <1>9, <1>10, <1>11, <1>12 DEF Writing
<1> QED  BY <1>13 DEF u, todo

\* What write()'s loop does.
LEMMA WroteParts ==
  ASSUME NEW s, Sane(s), Ok(s), NEW g, NEW o, Sound(s, g, o), s.f.open, NEW n, n = s.f.name,
         At(g, s.f), Correct(s, g, n, s.f.pos), NEW todo \in Nat
  PROVE  Writing(s, Wrote(s, todo), g, o, n, s.f.pos + todo)
<1> DEFINE end == s.f.pos + todo
<1>1. g \in Ghost /\ n \in Name /\ s.f.pos \in Nat /\ end \in Nat /\ s.f.pos <= end
  <2>1. g \in Ghost /\ n \in Name  BY DEF Sound, Opened
  <2> DEFINE L == ClusterLen * g.len[n]
             p == s.f.pos
  <2>2. p \in 0..L /\ L \in Nat  BY <2>1, GhostTypes DEF At
  <2> HIDE DEF L, p
  <2>3. p \in Nat /\ p + todo \in Nat /\ p <= p + todo  BY <2>2
  <2> QED  BY <2>1, <2>3 DEF p
<1>2. PICK f : Wrote(s, todo) = f[todo] /\ WriteStates(f, s, todo, end)
  BY WriteTurns
<1> HIDE DEF end
<1> DEFINE B == {i \in 0..todo : Writing(s, f[i], g, o, n, end)}
<1>3. 0 \in B
  <2>1. Extends(g, g, n)  BY <1>1, SameGhost
  <2>2. Astray(g, s.f)  BY <1>1, AtAstray
  <2>3. SameOpen(s.f, s.f)  BY DEF SameOpen
  <2>4. \E h : /\ Sound(s, h, o) /\ Extends(g, h, n) /\ Astray(h, s.f)
               /\ Ok(s) => At(h, s.f) /\ Correct(s, h, n, s.f.pos)
    BY <2>1, <2>2
  <2>5. s.err = "none"  BY DEF Ok
  <2>6. Writing(s, s, g, o, n, end)  BY <1>1, <2>3, <2>4, <2>5 DEF Writing
  <2>7. f[0] = s  BY <1>2 DEF WriteStates
  <2> QED  BY <2>6, <2>7
<1>4. ASSUME NEW i \in 1..todo, i - 1 \in B PROVE i \in B
  <2> DEFINE t == f[i - 1]
  <2>1. Writing(s, t, g, o, n, end)  BY <1>4
  <2>2. f[i] = IF Ok(t) THEN IF t.f.pos >= end THEN t ELSE WriteBlockPart(t, end - t.f.pos) ELSE t
    BY <1>2 DEF WriteStates
  <2> HIDE DEF t
  <2>3. CASE Ok(t) /\ t.f.pos < end
    <3>1. Writing(s, WriteBlockPart(t, end - t.f.pos), g, o, n, end)  BY <1>1, <2>1, <2>3, WritingOn
    <3>2. ~(t.f.pos >= end)
      <4> DEFINE q == t.f.pos
      <4>1. q \in Nat /\ q < end  BY <2>1, <2>3 DEF Writing
      <4> HIDE DEF q
      <4>2. ~(q >= end)  BY <1>1, <4>1
      <4> QED  BY <4>2 DEF q
    <3> QED  BY <2>2, <2>3, <3>1, <3>2
  <2>4. CASE ~(Ok(t) /\ t.f.pos < end)
    <3>1. Ok(t) => t.f.pos >= end
      <4> DEFINE q == t.f.pos
      <4>1. q \in Nat /\ (Ok(t) => ~(q < end))  BY <2>1, <2>4 DEF Writing
      <4> HIDE DEF q
      <4>2. Ok(t) => q >= end  BY <1>1, <4>1
      <4> QED  BY <4>2 DEF q
    <3>2. f[i] = t  BY <2>2, <3>1
    <3> QED  BY <2>1, <3>2
  <2> QED  BY <2>3, <2>4
<1>5. \A i \in 0..todo : i \in B
  <2> HIDE DEF B
  <2> QED  BY <1>3, <1>4, Induct
<1>6. Writing(s, f[todo], g, o, n, end)  BY <1>5
<1> QED  BY <1>2, <1>6 DEF end

\* File n, p cells long.
Sized(g, n, p) == [g EXCEPT !.size[n] = p]

\* The size of the open file becomes the position.
GrownTo(s, t, g, n, p) ==
    /\ s.f.open /\ n = s.f.name /\ p \in Nat /\ p <= ClusterLen * g.len[n] /\ Correct(s, g, n, p)
    /\ SameView(s, t) /\ t.start = s.start
    /\ SameOpen(s.f, t.f) /\ t.f.first = s.f.first /\ t.f.size = p /\ t.f.dirty = TRUE

\* A size that covers what is written keeps the volume sound.
LEMMA SizeGrown ==
  ASSUME NEW s, NEW t, NEW g, NEW o, Sound(s, g, o), NEW n, NEW p, GrownTo(s, t, g, n, p)
  PROVE  LET h == Sized(g, n, p)
         IN  /\ Sound(t, h, o) /\ Others(g, h, n) /\ h.ch = g.ch /\ h.len = g.len /\ h.size[n] = p
<1> DEFINE h == Sized(g, n, p)
<1>1. /\ s.f.open /\ n = s.f.name /\ p \in Nat /\ p <= ClusterLen * g.len[n] /\ Correct(s, g, n, p)
      /\ SameView(s, t) /\ t.start = s.start
      /\ SameOpen(s.f, t.f) /\ t.f.first = s.f.first /\ t.f.size = p /\ t.f.dirty = TRUE
  BY DEF GrownTo
<1>2. g \in Ghost /\ n \in Name /\ Volume(s, g) /\ s.start \in 2..(LastCluster + 1)  BY <1>1 DEF Sound, Opened
<1>3. /\ h \in Ghost /\ h.ch = g.ch /\ h.len = g.len /\ h.size[n] = p
      /\ \A m \in Name \ {n} : h.size[m] = g.size[m]
  <2>1. /\ h.ch = g.ch /\ h.len = g.len /\ h.size = [g.size EXCEPT ![n] = p]
        /\ h \in Ghost
    BY <1>1, <1>2 DEF Ghost, Sized
  <2> HIDE DEF h
  <2>2. DOMAIN g.size = Name  BY <1>2 DEF Ghost
  <2> QED  BY <1>2, <2>1, <2>2
<1> HIDE DEF h
<1>4. Others(g, h, n)  BY <1>3 DEF Others
<1>5. /\ Volume(t, g) /\ DirOf(t) = DirOf(s)  BY <1>1, <1>2, VolumeSame
<1>6. /\ \A m \in Name : FirstOf(h, m) = FirstOf(g, m)
      /\ \A m \in Name, q \in Nat : CellOf(t, h, m, q) = CellOf(t, g, m, q)
  BY <1>3 DEF FirstOf, CellOf, BlockAt
<1>7. Disjoint(h) /\ Linked(t, h)
  <2>1. Disjoint(g) /\ Linked(t, g)  BY <1>5 DEF Volume
  <2> QED  BY <1>3, <2>1 DEF Disjoint, Linked
<1>8. Held(t, h)
  <2> SUFFICES ASSUME NEW m \in Name
               PROVE  /\ h.size[m] <= ClusterLen * h.len[m]
                      /\ \A q \in 0..(h.size[m] - 1) : CellOf(t, h, m, q) = <<m, q>>
    BY DEF Held
  <2>1. CASE m # n
    <3>1. Held(t, g)  BY <1>5 DEF Volume
    <3>2. h.size[m] = g.size[m] /\ h.len[m] = g.len[m] /\ g.size[m] \in Nat  BY <1>2, <1>3, <2>1, GhostTypes
    <3>3. ASSUME NEW q \in 0..(h.size[m] - 1) PROVE CellOf(t, h, m, q) = <<m, q>>
      <4>1. q \in Nat /\ q \in 0..(g.size[m] - 1)  BY <3>2
      <4> QED  BY <1>6, <3>1, <4>1 DEF Held
    <3> QED  BY <3>1, <3>2, <3>3 DEF Held
  <2>2. CASE m = n
    <3>1. h.size[m] = p /\ h.len[m] = g.len[m]  BY <1>3, <2>2
    <3>2. SameButFat(s, t)  BY <1>1, SameFat
    <3>3. \A r \in Name, q \in Nat : CellOf(t, g, r, q) = CellOf(s, g, r, q)  BY <1>2, <3>2, ButFat
    <3>4. ASSUME NEW q \in 0..(p - 1) PROVE CellOf(t, h, n, q) = <<n, q>>
      <4>1. q \in Nat  BY <1>1
      <4>2. CellOf(s, g, n, q) = <<n, q>>  BY <1>1 DEF Correct
      <4> QED  BY <1>2, <1>6, <3>3, <4>1, <4>2
    <3>5. p <= ClusterLen * g.len[n]  BY <1>1
    <3> QED  BY <2>2, <3>1, <3>4, <3>5
  <2> QED  BY <2>1, <2>2
<1>9. Volume(t, h)  BY <1>5, <1>7, <1>8 DEF Volume
<1>11. t.f.name = n /\ t.f.open /\ t.f.index = s.f.index  BY <1>1 DEF SameOpen
<1>12. Listed(t, h, {t.f.name, o.name})
  <2>1. Listed(s, g, {n, o.name})  BY <1>1 DEF Sound
  <2>2. ASSUME NEW i \in 1..Slots, DirOf(t)[i].name \in Name \ {n, o.name}
        PROVE  /\ DirOf(t)[i].first = FirstOf(h, DirOf(t)[i].name)
               /\ DirOf(t)[i].size = h.size[DirOf(t)[i].name]
    <3> DEFINE m == DirOf(t)[i].name
    <3>1. m \in Name \ {n}  BY <2>2
    <3>2. DirOf(t)[i].first = FirstOf(g, m) /\ DirOf(t)[i].size = g.size[m]  BY <1>5, <2>1, <2>2 DEF Listed
    <3> HIDE DEF m
    <3>3. DirOf(t)[i].first = FirstOf(h, m) /\ DirOf(t)[i].size = h.size[m]  BY <1>3, <1>6, <3>1, <3>2
    <3> QED  BY <3>3 DEF m
  <2>3. ASSUME NEW m \in Name, \A i \in 1..Slots : DirOf(t)[i].name # m PROVE h.len[m] = 0
    <3>1. g.len[m] = 0  BY <1>5, <2>1, <2>3 DEF Listed
    <3> QED  BY <1>3, <3>1
  <2> QED  BY <1>11, <2>2, <2>3 DEF Listed
<1>13. Opened(t, h, t.f)
  <2>1. s.f.index \in 1..Slots /\ DirOf(s)[s.f.index].name = n /\ s.f.first = FirstOf(g, n)
    BY <1>1 DEF Sound, Opened
  <2> QED  BY <1>1, <1>2, <1>3, <1>5, <1>6, <1>11, <2>1 DEF Opened
<1>14. Opened(t, h, o)
  <2>1. Opened(s, g, o) /\ (o.open => o.name # n)  BY <1>1 DEF Sound
  <2> QED  BY <1>3, <1>5, <1>6, <2>1 DEF Opened
<1>15. Sound(t, h, o)
  <2>1. t.f.open /\ o.open => t.f.name # o.name  BY <1>1, <1>11 DEF Sound
  <2> QED  BY <1>1, <1>2, <1>3, <1>9, <1>12, <1>13, <1>14, <2>1 DEF Sound
<1> QED  BY <1>3, <1>4, <1>15 DEF h

\* A state of the open file between calls is the result of a call that does nothing.
LEMMA NoChange ==
  ASSUME NEW s, NEW t, NEW g, NEW o, Sane(t), SameOpen(s.f, t.f), s.f.open, Sound(t, g, o), Astray(g, t.f),
         Ok(t) => At(g, t.f) /\ t.f.pos <= t.f.size
  PROVE  Result(s, t, g, o)
<1>1. Others(g, g, s.f.name)  BY DEF Others
<1>2. \E h : /\ Sound(t, h, o) /\ Others(g, h, s.f.name) /\ Astray(h, t.f)
             /\ Ok(t) => At(h, t.f) /\ t.f.pos <= t.f.size
  BY <1>1
<1> QED  BY <1>2 DEF Result

\* All of a file's cells are right.
LEMMA AllCorrect ==
  ASSUME NEW s, NEW g, NEW o, Sound(s, g, o), s.f.open, NEW n, n = s.f.name, NEW p \in Nat, p <= s.f.size
  PROVE  Correct(s, g, n, p)
<1>1. g \in Ghost /\ n \in Name /\ s.f.size = g.size[n] /\ Held(s, g)  BY DEF Sound, Opened, Volume
<1>2. ASSUME NEW q \in 0..(p - 1) PROVE CellOf(s, g, n, q) = <<n, q>>
  <2> DEFINE z == g.size[n]
  <2>1. z \in Nat /\ p <= z  BY <1>1, GhostTypes
  <2> HIDE DEF z
  <2>2. q \in 0..(z - 1)  BY <2>1
  <2> QED  BY <1>1, <2>2 DEF Held, z
<1> QED  BY <1>2 DEF Correct

\* The end of write: the new size, and a sync if the mode asks for it.
Lengthened(s) == IF s.f.pos <= s.f.size THEN s ELSE Shrunk(s, s.f.pos)

\* The size write() gives the file it has made longer.
LEMMA LengthenedDone ==
  ASSUME NEW s, Sane(s), Ok(s), NEW g, NEW o, Sound(s, g, o), s.f.open, NEW n, n = s.f.name,
         At(g, s.f), Correct(s, g, n, s.f.pos)
  PROVE  LET t == Lengthened(s)
         IN  /\ Sane(t) /\ Ok(t) /\ SameOpen(s.f, t.f) /\ t.got = s.got
             /\ \E h : Sound(t, h, o) /\ Others(g, h, n) /\ At(h, t.f)
             /\ t.f.pos <= t.f.size
<1> DEFINE t == Lengthened(s)
           p == s.f.pos
<1>1. g \in Ghost /\ n \in Name /\ p \in Nat /\ p <= ClusterLen * g.len[n] /\ s.f.size \in Nat
  <2>1. g \in Ghost /\ n \in Name /\ s.f.size = g.size[n]  BY DEF Sound, Opened
  <2> DEFINE L == ClusterLen * g.len[n]
  <2>2. p \in 0..L /\ L \in Nat  BY <2>1, GhostTypes DEF At
  <2>3. s.f.size \in Nat  BY <2>1, GhostTypes
  <2> HIDE DEF L, p
  <2>4. p \in Nat /\ p <= L  BY <2>2
  <2> QED  BY <2>1, <2>3, <2>4 DEF L
<1>2. CASE p <= s.f.size
  <2>1. t = s  BY <1>2 DEF Lengthened
  <2>2. SameOpen(s.f, s.f) /\ Others(g, g, n)  BY DEF SameOpen, Others
  <2> HIDE DEF t
  <2> QED  BY <1>2, <2>1, <2>2 DEF t
<1>3. CASE ~(p <= s.f.size)
  <2> DEFINE u == Shrunk(s, p)
             h == Sized(g, n, p)
  <2>1. t = u  BY <1>3 DEF Lengthened
  <2>2. /\ Sane(u) /\ SameView(s, u) /\ u.err = s.err
        /\ SameOpen(s.f, u.f) /\ u.f.first = s.f.first /\ u.f.size = p /\ u.f.cur = s.f.cur
        /\ u.f.pos = s.f.pos /\ u.f.dirty = TRUE
        /\ u.start = s.start /\ u.got = s.got /\ u.next = s.next
    <3>1. Resized(s, u, p)  BY SizeSet
    <3> HIDE DEF p, t, u
    <3> QED  BY <3>1 DEF Resized
  <2> HIDE DEF u, t
  <2>3. GrownTo(s, u, g, n, p)  BY <1>1, <2>2 DEF GrownTo
  <2>4. Sound(u, h, o) /\ Others(g, h, n) /\ h.ch = g.ch /\ h.len = g.len  BY <2>3, SizeGrown
  <2> HIDE DEF h
  <2>5. u.f.name = s.f.name  BY <2>2 DEF SameOpen
  <2>6. At(h, u.f)  BY <2>2, <2>4, <2>5 DEF At
  <2>7. Ok(u) /\ u.f.pos <= u.f.size
    <3>1. u.f.pos = p /\ u.f.size = p  BY <2>2
    <3> HIDE DEF p, t
    <3> QED  BY <1>1, <2>2, <3>1 DEF Ok
  <2> QED  BY <2>1, <2>2, <2>4, <2>6, <2>7 DEF t
<1> QED  BY <1>2, <1>3

\* What write() does: it is a full card only when no entry of the FAT is 0.
LEMMA WriteDone ==
  ASSUME NEW s, Sane(s), Ok(s), NEW g, NEW o, Sound(s, g, o), s.f.open, At(g, s.f), s.f.pos <= s.f.size,
         NEW k \in Nat
  PROVE  LET t == write(s, k)
         IN  /\ Result(s, t, g, o) /\ t.got = s.got
             /\ t.err \in {"none", "refused", "position", "address", "full"}
             /\ t.err = "full" => \A c \in Clusters : FatOf(t, c) # 0
<1> DEFINE Q(t) == /\ Result(s, t, g, o) /\ t.got = s.got
                   /\ t.err \in {"none", "refused", "position", "address", "full"}
                   /\ t.err = "full" => \A c \in Clusters : FatOf(t, c) # 0
           a == IF s.f.append /\ s.f.pos # s.f.size THEN seekSet(s, s.f.size) ELSE s
           b == Wrote(a, k)
           c == Lengthened(b)
           d == sync(c)
           t == write(s, k)
           n == s.f.name
<1>1. t = IF ~s.f.open \/ ~s.f.write THEN Fail(s, "refused")
          ELSE IF Ok(a) THEN IF Ok(b) THEN IF Ok(c) THEN IF c.f.sync THEN d ELSE c ELSE c ELSE b ELSE a
  BY Zenon DEF write, Then, Wrote, Lengthened, Shrunk
<1>2. g \in Ghost /\ n \in Name /\ s.f.size \in Nat /\ Astray(g, s.f)
  <2>1. g \in Ghost /\ n \in Name /\ s.f.size = g.size[n]  BY DEF Sound, Opened
  <2> QED  BY <2>1, GhostTypes, AtAstray
<1> HIDE DEF t
<1>3. CASE ~s.f.write
  <2> DEFINE u == Fail(s, "refused")
  <2>1. t = u  BY <1>1, <1>3
  <2>2. Sane(u) /\ SameView(s, u) /\ Rest(s, u) /\ u.err = "refused"  BY FailKeeps
  <2> HIDE DEF u
  <2>3. u.f = s.f /\ u.start = s.start /\ u.got = s.got /\ ~Ok(u)  BY <2>2 DEF Rest, Ok
  <2>4. Sound(u, g, o) /\ Astray(g, u.f) /\ SameOpen(s.f, u.f)  BY <1>2, <2>2, <2>3, SoundSame DEF SameOpen
  <2>5. Result(s, u, g, o)  BY <2>2, <2>3, <2>4, NoChange
  <2>6. Q(u)  BY <2>2, <2>3, <2>5
  <2> QED  BY <2>1, <2>6 DEF t
<1>4. CASE s.f.write
  <2>1. t = IF Ok(a) THEN IF Ok(b) THEN IF Ok(c) THEN IF c.f.sync THEN d ELSE c ELSE c ELSE b ELSE a
    BY <1>1, <1>4
  <2>2. /\ Sane(a) /\ Moved(s, a) /\ Sound(a, g, o) /\ Astray(g, a.f)
        /\ Ok(a) => At(g, a.f) /\ a.f.pos <= a.f.size
        /\ a.err \in {"none", "position", "address"}
    <3>1. CASE s.f.append /\ s.f.pos # s.f.size
      <4> DEFINE u == seekSet(s, s.f.size)
                 pos == s.f.size
      <4>1. a = u  BY <3>1
      <4>2. /\ Sane(u) /\ Moved(s, u) /\ Sound(u, g, o) /\ Astray(g, u.f)
            /\ Ok(u) => At(g, u.f) /\ u.f.pos = pos
            /\ ~Ok(u) => u.err \in {"position", "address"}
        BY <1>2, Sought
      <4> HIDE DEF u
      <4>3. u.f.size = s.f.size  BY <4>2 DEF Moved, SameFile
      <4>4. Ok(u) => u.f.pos <= u.f.size
        <5>1. Ok(u) => u.f.pos = u.f.size  BY <4>2, <4>3
        <5>2. u.f.size \in Nat  BY <1>2, <4>3
        <5> QED  BY <5>1, <5>2
      <4>5. u.err \in {"none", "position", "address"}  BY <4>2 DEF Ok
      <4> QED  BY <4>1, <4>2, <4>4, <4>5
    <3>2. CASE ~(s.f.append /\ s.f.pos # s.f.size)
      <4>1. a = s  BY <3>2
      <4>2. Moved(s, s) /\ s.err = "none"  BY DEF Moved, SameView, SameFile, Ok
      <4> HIDE DEF a
      <4> QED  BY <1>2, <4>1, <4>2
    <3> QED  BY <3>1, <3>2
  <2> HIDE DEF a
  <2>3. SameOpen(s.f, a.f) /\ a.got = s.got /\ a.f.open /\ a.f.name = n  BY <2>2 DEF Moved, SameFile, SameOpen
  <2>4. CASE ~Ok(a)
    <3>1. Result(s, a, g, o)  BY <2>2, <2>3, <2>4, NoChange
    <3>2. Q(a)  BY <2>2, <2>3, <3>1
    <3> QED  BY <2>1, <2>4, <3>2 DEF t
  <2>5. CASE Ok(a)
    <3>1. Writing(a, b, g, o, n, a.f.pos + k)
      <4>1. Correct(a, g, n, a.f.pos)
        <5>1. a.f.pos \in Nat
          <6> DEFINE L == ClusterLen * g.len[n]
                     q == a.f.pos
          <6>1. q \in 0..L /\ L \in Nat  BY <1>2, <2>2, <2>3, <2>5, GhostTypes DEF At
          <6> HIDE DEF L, q
          <6>2. q \in Nat  BY <6>1
          <6> QED  BY <6>2 DEF q
        <5> QED  BY <2>2, <2>3, <2>5, <5>1, AllCorrect
      <4> QED  BY <2>2, <2>3, <2>5, <4>1, WroteParts
    <3> HIDE DEF b
    <3>2. /\ Sane(b) /\ SameOpen(a.f, b.f) /\ b.got = a.got
          /\ b.err \in {"none", "address", "full"}
          /\ b.err = "full" => \A x \in Clusters : FatOf(b, x) # 0
      BY <3>1 DEF Writing
    <3>3. PICK h : /\ Sound(b, h, o) /\ Extends(g, h, n) /\ Astray(h, b.f)
                   /\ Ok(b) => At(h, b.f) /\ Correct(b, h, n, b.f.pos)
      BY <3>1 DEF Writing
    <3>4. SameOpen(s.f, b.f) /\ b.got = s.got /\ b.f.open /\ b.f.name = n /\ Others(g, h, n)
      BY <2>3, <3>2, <3>3 DEF SameOpen, Extends
    <3>5. CASE ~Ok(b)
      <4>1. \E x : /\ Sound(b, x, o) /\ Others(g, x, n) /\ Astray(x, b.f)
                   /\ Ok(b) => At(x, b.f) /\ b.f.pos <= b.f.size
        BY <3>3, <3>4, <3>5
      <4>2. Result(s, b, g, o)  BY <3>2, <3>4, <4>1 DEF Result
      <4>3. Q(b)  BY <3>2, <3>4, <4>2
      <4> QED  BY <2>1, <2>5, <3>5, <4>3 DEF t
    <3>6. CASE Ok(b)
      <4>1. /\ Sane(c) /\ Ok(c) /\ SameOpen(b.f, c.f) /\ c.got = b.got
            /\ \E x : Sound(c, x, o) /\ Others(h, x, n) /\ At(x, c.f)
            /\ c.f.pos <= c.f.size
        BY <3>2, <3>3, <3>4, <3>6, LengthenedDone
      <4> HIDE DEF c
      <4>2. PICK x : Sound(c, x, o) /\ Others(h, x, n) /\ At(x, c.f)  BY <4>1
      <4>3. /\ Others(g, x, n) /\ SameOpen(s.f, c.f) /\ c.f.open /\ c.f.name = n /\ c.got = s.got
        BY <3>4, <4>1, <4>2, OthersTrans DEF SameOpen
      <4>4. x \in Ghost /\ Astray(x, c.f)
        <5>1. x \in Ghost  BY <4>2 DEF Sound
        <5> QED  BY <1>2, <4>2, <4>3, <5>1, AtAstray
      <4>5. CASE ~c.f.sync
        <5>1. \E y : /\ Sound(c, y, o) /\ Others(g, y, n) /\ Astray(y, c.f)
                     /\ Ok(c) => At(y, c.f) /\ c.f.pos <= c.f.size
          BY <4>1, <4>2, <4>3, <4>4
        <5>2. Result(s, c, g, o)  BY <4>1, <4>3, <5>1 DEF Result
        <5>3. c.err = "none"  BY <4>1 DEF Ok
        <5>4. Q(c)  BY <4>3, <5>2, <5>3
        <5> QED  BY <2>1, <2>5, <3>6, <4>1, <4>5, <5>4 DEF t
      <4>6. CASE c.f.sync
        <5>1. /\ Sane(d) /\ Sound(d, x, o) /\ SameButDirty(c.f, d.f) /\ d.got = c.got
              /\ Live(c) => Good(d)
              /\ ~Live(c) => d.err = "address"
          BY <4>1, <4>2, <4>3, Synced
        <5> HIDE DEF d
        <5>2. SameOpen(s.f, d.f) /\ d.f.pos = c.f.pos /\ d.f.size = c.f.size /\ d.f.cur = c.f.cur /\ d.f.name = c.f.name
          BY <4>3, <5>1 DEF SameButDirty, SameOpen
        <5>3. At(x, d.f) /\ Astray(x, d.f) /\ d.f.pos <= d.f.size  BY <4>1, <4>2, <4>4, <5>2 DEF At, Astray
        <5>4. d.err \in {"none", "address"}  BY <5>1 DEF Good, Ok
        <5>5. \E y : /\ Sound(d, y, o) /\ Others(g, y, n) /\ Astray(y, d.f)
                     /\ Ok(d) => At(y, d.f) /\ d.f.pos <= d.f.size
          BY <4>3, <5>1, <5>3
        <5>6. Result(s, d, g, o)  BY <5>1, <5>2, <5>5 DEF Result
        <5>7. Q(d)  BY <4>3, <5>1, <5>4, <5>6
        <5> QED  BY <2>1, <2>5, <3>6, <4>1, <4>6, <5>7 DEF t
      <4> QED  BY <4>5, <4>6
    <3> QED  BY <3>5, <3>6
  <2> QED  BY <2>4, <2>5
<1> QED  BY <1>3, <1>4
-----------------------------------------------------------------------------
(***** cells are read *****)

\* m cells of file n from position p on.
Run(n, p, m) == [i \in 1..m |-> <<n, p + i - 1>>]

\* b after a.
After(a, b) == a \o b

\* One run after the other is a longer run.
RunsOn(n, p, m, k) == After(Run(n, p, m), Run(n, p + m, k)) = Run(n, p, m + k)

\* A run of cells continued.
LEMMA RunOn ==
  ASSUME NEW n, NEW p \in Nat, NEW m \in Nat, NEW k \in Nat
  PROVE  RunsOn(n, p, m, k)
<1> DEFINE a == Run(n, p, m)
           b == Run(n, p + m, k)
           c == Run(n, p, m + k)
<1>1. /\ a \in Seq({n} \X Int) /\ Len(a) = m /\ \A i \in 1..m : a[i] = <<n, p + i - 1>>
  BY DEF Run
<1>2. /\ b \in Seq({n} \X Int) /\ Len(b) = k /\ \A i \in 1..k : b[i] = <<n, p + m + i - 1>>
  BY DEF Run
<1>3. /\ c \in Seq({n} \X Int) /\ Len(c) = m + k /\ \A i \in 1..(m + k) : c[i] = <<n, p + i - 1>>
  BY DEF Run
<1> HIDE DEF a, b, c
<1> DEFINE d == a \o b
<1>4. /\ d \in Seq({n} \X Int) /\ Len(d) = m + k
      /\ \A i \in 1..(m + k) : d[i] = IF i <= m THEN a[i] ELSE b[i - m]
  BY <1>1, <1>2, ConcatProperties
<1> HIDE DEF d
<1>5. ASSUME NEW i \in 1..(m + k) PROVE d[i] = c[i]
  <2>1. CASE i <= m
    <3>1. i \in 1..m  BY <2>1
    <3> QED  BY <1>1, <1>3, <1>4, <2>1, <3>1
  <2>2. CASE ~(i <= m)
    <3>1. i - m \in 1..k  BY <2>2
    <3>2. b[i - m] = <<n, p + m + (i - m) - 1>>  BY <1>2, <3>1
    <3>3. p + m + (i - m) - 1 = p + i - 1  OBVIOUS
    <3> QED  BY <1>3, <1>4, <2>2, <3>2, <3>3
  <2> QED  BY <2>1, <2>2
<1>6. d = c  BY <1>3, <1>4, <1>5
<1>7. After(a, b) = c  BY <1>6 DEF After, d
<1> QED  BY <1>7 DEF a, b, c, RunsOn

\* The k cells of a block from cell "at" on.
Taken(cells, at, k) == [i \in 1..k |-> cells[at + i]]

\* The cells of a block as a sequence of their own.
LEMMA Taking ==
  ASSUME NEW cells \in [1..BlockLen -> Cell], NEW at \in Nat, NEW k \in Nat, at + k <= BlockLen
  PROVE  SubSeq(cells, at + 1, at + k) = Taken(cells, at, k)
<1>1. cells \in Seq(Cell) /\ Len(cells) = BlockLen /\ BlockLen \in Nat  BY GeometryAssumption
<1> DEFINE a == SubSeq(cells, at + 1, at + k)
           b == Taken(cells, at, k)
<1>2. /\ a \in Seq(Cell) /\ Len(a) = k /\ \A i \in 1..k : a[i] = cells[at + i]
  BY <1>1
<1>3. b \in Seq(Cell) /\ Len(b) = k /\ \A i \in 1..k : b[i] = cells[at + i]
  BY <1>1 DEF Taken
<1> HIDE DEF a, b
<1>4. a = b  BY <1>2, <1>3
<1> QED  BY <1>4 DEF a, b

\* What read() does with the part of one block.
LEMMA PartRead ==
  ASSUME NEW s, Sane(s), Ok(s), NEW b \in Data, ViewOf(s, b) \in [1..BlockLen -> Cell],
         NEW k \in Nat, NEW at \in Nat, at = Offset(s), at + k <= BlockLen
  PROVE  LET t == ReadPart(s, b, k)
         IN  /\ Sane(t) /\ SameView(s, t) /\ t.f = s.f /\ t.start = s.start /\ t.next = s.next
             /\ Ok(t) => t.got = After(s.got, Taken(ViewOf(s, b), at, k))
             /\ ~Ok(t) => t.err = "address"
<1> DEFINE a == Access(s, b)
           x == [a EXCEPT !.got = @ \o a.card[b]]
           c == cacheRawBlock(s, b, FALSE)
           y == [c EXCEPT !.got = @ \o SubSeq(c.data, Offset(c) + 1, Offset(c) + k)]
           t == ReadPart(s, b, k)
           d == ViewOf(s, b)
<1>1. t = IF k = BlockLen /\ b # s.block THEN IF Ok(a) THEN x ELSE a ELSE IF Ok(c) THEN y ELSE c
  BY Zenon DEF ReadPart, Then
<1>2. b \in Blocks /\ b \in Known /\ d \in [1..BlockLen -> Cell] /\ BlockLen \in Nat
  BY Regions, GeometryAssumption DEF Known
<1> HIDE DEF t
<1>3. CASE k = BlockLen /\ b # s.block
  <2>1. /\ Shape(a) /\ Rest(s, a) /\ a.card = s.card /\ a.block = s.block /\ a.data = s.data
        /\ a.dirty = s.dirty /\ a.mirror = s.mirror /\ a.left = s.left - 1 /\ Ok(a)
    BY <1>2 DEF Sane, Shape, Rest, Access, Ok
  <2> HIDE DEF a
  <2>2. Sane(a)
    <3>1. a.left \in Int /\ a.left < 0  BY <2>1 DEF Sane
    <3> QED  BY <2>1, <3>1 DEF Sane
  <2>3. /\ Shape(x) /\ x.card = a.card /\ x.block = a.block /\ x.data = a.data
        /\ x.dirty = a.dirty /\ x.mirror = a.mirror /\ x.left = a.left /\ x.err = a.err
        /\ x.f = a.f /\ x.start = a.start /\ x.next = a.next /\ x.got = a.got \o a.card[b]
    BY <2>1 DEF Shape
  <2> HIDE DEF x
  <2>4. Sane(x)  BY <2>2, <2>3, Alike
  <2>5. SameView(s, x)  BY <2>1, <2>3 DEF SameView, ViewOf
  <2>6. a.card[b] = d  BY <1>3, <2>1 DEF ViewOf
  <2> HIDE DEF d
  <2>7. d = Taken(d, at, k)
    <3>1. at = 0  BY <1>2, <1>3
    <3>2. d = [i \in 1..BlockLen |-> d[i]]  BY <1>2
    <3>3. \A i \in 1..k : at + i = i  BY <3>1
    <3> QED  BY <1>3, <3>1, <3>2, <3>3 DEF Taken
  <2>8. x.got = After(s.got, Taken(d, at, k))  BY <2>1, <2>3, <2>6, <2>7 DEF Rest, After
  <2>9. t = x  BY <1>1, <1>3, <2>1
  <2> QED  BY <2>1, <2>3, <2>4, <2>5, <2>8, <2>9 DEF Rest, Ok, t, d
<1>4. CASE ~(k = BlockLen /\ b # s.block)
  <2>1. /\ Sane(c) /\ Rest(s, c) /\ SameView(s, c)
        /\ Live(s) => Ok(c) /\ Live(c) /\ c.block = b
        /\ ~Live(s) => c.err = "address"
    BY <1>2, RawBlock
  <2> HIDE DEF c
  <2>2. CASE ~Ok(c)
    <3>1. t = c  BY <1>1, <1>4, <2>2
    <3> QED  BY <2>1, <2>2, <3>1 DEF Rest, t
  <2>3. CASE Ok(c)
    <3>1. Live(s) /\ c.block = b  BY <2>1, <2>3 DEF Ok
    <3>2. c.data = d
      <4>1. ViewOf(c, b) = ViewOf(s, b)  BY <1>2, <2>1 DEF SameView
      <4> QED  BY <3>1, <4>1 DEF ViewOf
    <3>3. Offset(c) = at  BY <2>1 DEF Offset, Rest
    <3>4. /\ Shape(y) /\ y.card = c.card /\ y.block = c.block /\ y.data = c.data
          /\ y.dirty = c.dirty /\ y.mirror = c.mirror /\ y.left = c.left /\ y.err = c.err
          /\ y.f = c.f /\ y.start = c.start /\ y.next = c.next
          /\ y.got = c.got \o SubSeq(c.data, Offset(c) + 1, Offset(c) + k)
      BY <2>1 DEF Sane, Shape
    <3> HIDE DEF y, d
    <3>5. Sane(y) /\ SameView(c, y)  BY <2>1, <3>4, Alike
    <3>6. SameView(s, y)  BY <2>1, <3>5, SameViewTrans
    <3>7. SubSeq(d, at + 1, at + k) = Taken(d, at, k)  BY <1>2, Taking
    <3>8. y.got = After(s.got, Taken(d, at, k))  BY <2>1, <3>2, <3>3, <3>4, <3>7 DEF Rest, After
    <3>9. t = y  BY <1>1, <1>4, <2>3
    <3> QED  BY <2>1, <2>3, <3>4, <3>5, <3>6, <3>8, <3>9 DEF Rest, Ok, t, d
  <2> QED  BY <2>2, <2>3
<1> QED  BY <1>3, <1>4

\* The cluster a part is read from.
ReadCluster(s) == IF s.f.pos % ClusterLen # 0 THEN s
                  ELSE IF s.f.pos = 0 THEN PutCur(s, s.f.first) ELSE NextCluster(s)

\* It is the one of the position.
ReadIn(s, t, g, n) ==
    /\ Sane(t) /\ Moved(s, t) /\ t.f.pos = s.f.pos /\ t.f.cur \in Clusters \cup {0}
    /\ Ok(t) => t.f.cur = g.ch[n][s.f.pos \div ClusterLen]
    /\ ~Ok(t) => t.err = "address"

\* What read() does at the start of a cluster.
LEMMA ReadEntered ==
  ASSUME NEW s, Sane(s), Ok(s), NEW g, NEW o, Sound(s, g, o), s.f.open, NEW n, n = s.f.name,
         At(g, s.f), s.f.pos < s.f.size
  PROVE  /\ ReadIn(s, ReadCluster(s), g, n)
         /\ s.f.pos \div ClusterLen < g.len[n] /\ s.f.pos \in Nat /\ s.f.pos < ClusterLen * g.len[n]
<1> DEFINE C == ClusterLen
           pos == s.f.pos
           L == g.len[n]
           i == (pos - 1) \div C
           k == pos \div C
           x == PutCur(s, s.f.first)
           y == NextCluster(s)
           t == ReadCluster(s)
<1>1. g \in Ghost /\ n \in Name /\ s.f.first = FirstOf(g, n) /\ Linked(s, g) /\ Held(s, g) /\ s.f.size = g.size[n]
  BY DEF Sound, Opened, Volume
<1>2. L \in Nat /\ pos \in Nat /\ C \in Nat \ {0} /\ C * L \in Nat /\ pos < C * L
  <2> DEFINE M == C * L
             z == g.size[n]
  <2>1. pos \in 0..M /\ M \in Nat /\ L \in Nat /\ C \in Nat \ {0} /\ z \in Nat /\ z <= M
    BY <1>1, GhostTypes, Lengths0 DEF At, Held
  <2>2. pos < z  BY <1>1
  <2> HIDE DEF M, z, pos
  <2>3. pos \in Nat /\ pos < M  BY <2>1, <2>2
  <2> QED  BY <2>1, <2>3 DEF M
<1>3. k \in Nat /\ k < L
  <2> HIDE DEF pos, L
  <2> QED  BY <1>2, ClusterOf, Position
<1>4. pos # 0 => /\ i \in Nat
                 /\ pos % C # 0 => k = i
                 /\ pos % C = 0 => k = i + 1
  <2> SUFFICES ASSUME pos # 0
               PROVE  /\ i \in Nat
                      /\ pos % C # 0 => k = i
                      /\ pos % C = 0 => k = i + 1
    OBVIOUS
  <2>1. pos \in Nat \ {0}  BY <1>2
  <2> QED  BY <2>1, PreviousCluster
<1>5. pos = 0 => k = 0 /\ pos % C = 0  BY <1>2
<1>6. /\ pos # 0 => s.f.cur = g.ch[n][i] /\ s.f.cur \in Clusters
      /\ pos = 0 => s.f.cur = 0
  <2>1. /\ pos # 0 => s.f.cur = g.ch[n][i]
        /\ pos = 0 => s.f.cur = 0
    BY DEF At
  <2>2. pos # 0 => g.ch[n][i] \in Clusters  BY <1>1, <1>4, GhostTypes
  <2> QED  BY <2>1, <2>2
<1>7. g.ch[n][k] \in Clusters  BY <1>1, <1>3, GhostTypes
<1>8. t = IF pos % C # 0 THEN s ELSE IF pos = 0 THEN x ELSE y  BY DEF ReadCluster
<1> HIDE DEF i, t, k
<1>9. CASE pos % C # 0
  <2>1. t = s /\ pos # 0 /\ k = i  BY <1>4, <1>5, <1>8, <1>9
  <2>2. Moved(s, s)  BY DEF Moved, SameView, SameFile
  <2>3. ReadIn(s, s, g, n)  BY <1>6, <2>1, <2>2 DEF ReadIn, k
  <2> QED  BY <1>2, <1>3, <2>1, <2>3 DEF t, k
<1>10. CASE pos = 0
  <2>1. t = x /\ k = 0  BY <1>5, <1>8, <1>10
  <2>2. Sane(x) /\ Moved(s, x) /\ x.f.cur = s.f.first /\ x.f.pos = s.f.pos /\ x.err = s.err
    BY PlacedCur
  <2> HIDE DEF x
  <2>3. s.f.first = g.ch[n][k]  BY <1>1, <1>2, <1>3, <2>1 DEF FirstOf
  <2>4. ReadIn(s, x, g, n)  BY <1>7, <2>2, <2>3 DEF ReadIn, Ok, k
  <2> QED  BY <1>2, <1>3, <2>1, <2>4 DEF t, k
<1>11. CASE pos % C = 0 /\ pos # 0
  <2>1. t = y /\ k = i + 1 /\ i \in Nat  BY <1>4, <1>8, <1>11
  <2>2. /\ Sane(y) /\ Moved(s, y) /\ y.f.pos = s.f.pos
        /\ Live(s) => Good(y) /\ y.f.cur = g.ch[n][i + 1]
        /\ ~Live(s) => y.err = "address" /\ y.f.cur = s.f.cur
    <3>1. i + 1 < g.len[n]  BY <1>3, <2>1
    <3> HIDE DEF y
    <3> QED  BY <1>1, <1>6, <1>11, <2>1, <3>1, OneNext DEF y
  <2> HIDE DEF y
  <2>3. ReadIn(s, y, g, n)  BY <1>6, <1>7, <1>11, <2>1, <2>2 DEF ReadIn, k, Good, Ok
  <2> QED  BY <1>2, <1>3, <2>1, <2>3 DEF t, k
<1> QED  BY <1>9, <1>10, <1>11

\* Where read's loop is after some turns; it has got the cells from position p on.
Reading(s, t, g, n, p, end) ==
    /\ Sane(t) /\ SameView(s, t) /\ t.start = s.start /\ t.next = s.next /\ SameFile(s.f, t.f)
    /\ Astray(g, t.f) /\ t.err \in {"none", "address"}
    /\ Ok(t) => At(g, t.f) /\ t.f.pos \in p..end /\ t.got = Run(n, p, t.f.pos - p)

\* The cells of a block, from that of the position on.
LEMMA CellsThere ==
  ASSUME NEW s, NEW g \in Ghost, Held(s, g), NEW n \in Name, NEW p \in Nat, NEW k \in Nat,
         k <= BlockLen - (p % BlockLen), p + k <= g.size[n]
  PROVE  Taken(ViewOf(s, BlockAt(g, n, p)), p % BlockLen, k) = Run(n, p, k)
<1> DEFINE at == p % BlockLen
           d == ViewOf(s, BlockAt(g, n, p))
<1>1. at \in 0..(BlockLen - 1) /\ BlockLen \in Nat /\ g.size[n] \in Nat  BY Position, GeometryAssumption, GhostTypes
<1>2. k <= BlockLen - at  OBVIOUS
<1> HIDE DEF at
<1>3. ASSUME NEW i \in 1..k PROVE d[at + i] = <<n, p + i - 1>>
  <2> DEFINE e == i - 1
             q == p + e
  <2>1. e \in 0..(BlockLen - 1 - at) /\ q \in Nat /\ q \in 0..(g.size[n] - 1) /\ q = p + i - 1
    BY <1>1, <1>2
  <2> HIDE DEF e
  <2>2. p \div BlockLen = q \div BlockLen /\ q % BlockLen = at + e  BY <2>1, NextInBlock DEF at
  <2> HIDE DEF q
  <2>3. p \div ClusterLen = q \div ClusterLen /\ blockOfCluster(p) = blockOfCluster(q)
    BY <2>1, <2>2, SameBlock
  <2>4. BlockAt(g, n, q) = BlockAt(g, n, p)  BY <2>3 DEF BlockAt
  <2>5. CellOf(s, g, n, q) = <<n, q>>  BY <2>1 DEF Held
  <2>6. d[(q % BlockLen) + 1] = <<n, q>>  BY <2>4, <2>5 DEF CellOf
  <2>7. (q % BlockLen) + 1 = at + i
    <3> DEFINE r == q % BlockLen
    <3>1. r = at + e  BY <2>2
    <3> HIDE DEF r
    <3>2. r + 1 = at + i  BY <1>1, <3>1 DEF e
    <3> QED  BY <3>2 DEF r
  <2> QED  BY <2>1, <2>6, <2>7
<1> HIDE DEF d
<1>4. Taken(d, at, k) = Run(n, p, k)  BY <1>3 DEF Taken, Run
<1> QED  BY <1>4 DEF at, d

\* A turn of read()'s loop keeps what the loop has done.
LEMMA ReadingOn ==
  ASSUME NEW s, NEW t, NEW g, NEW o, Sound(s, g, o), s.f.open, NEW n, n = s.f.name, NEW p \in Nat, NEW end \in Nat,
         Reading(s, t, g, n, p, end), Ok(t), t.f.pos < end, end <= s.f.size
  PROVE  Reading(s, ReadBlockPart(t, end - t.f.pos), g, n, p, end)
<1> DEFINE pos == t.f.pos
           todo == end - pos
           a == ReadCluster(t)
           b == PositionBlock(a)
           k == Part(a, todo)
           r == ReadPart(a, b, k)
           y == PutPos(r, r.f.pos + Part(r, todo))
           u == ReadBlockPart(t, todo)
           at == pos % BlockLen
           e == pos + k
<1>1. u = IF Ok(a) THEN IF Ok(r) THEN y ELSE r ELSE a
  BY Zenon DEF ReadBlockPart, Then, ReadCluster, PutCur, PutPos
<1>2. /\ Sane(t) /\ SameView(s, t) /\ t.start = s.start /\ t.next = s.next /\ SameFile(s.f, t.f)
      /\ Astray(g, t.f) /\ At(g, t.f) /\ pos \in p..end /\ t.got = Run(n, p, pos - p)
  BY DEF Reading
<1>3. Sound(t, g, o) /\ t.f.open /\ n = t.f.name /\ t.f.size = s.f.size  BY <1>2, SoundSame DEF SameFile
<1>4. g \in Ghost /\ n \in Name /\ Held(t, g) /\ g.size[n] = s.f.size /\ g.size[n] \in Nat
      /\ Formed(t)
  BY <1>3, GhostTypes DEF Sound, Opened, Volume
<1>5. pos \in Nat /\ todo \in Nat \ {0} /\ pos < s.f.size /\ pos < end /\ p <= pos
  <2>1. pos < end /\ pos \in p..end  BY <1>2
  <2> HIDE DEF pos
  <2> QED  BY <1>4, <2>1
<1>6. /\ ReadIn(t, a, g, n)
      /\ pos \div ClusterLen < g.len[n] /\ pos < ClusterLen * g.len[n]
  <2>1. t.f.pos < t.f.size  BY <1>3, <1>5
  <2> HIDE DEF a
  <2> QED  BY <1>2, <1>3, <2>1, ReadEntered DEF a
<1>7. /\ Sane(a) /\ Moved(t, a) /\ a.f.pos = pos /\ a.f.cur \in Clusters \cup {0}
      /\ Ok(a) => a.f.cur = g.ch[n][pos \div ClusterLen]
      /\ ~Ok(a) => a.err = "address"
  BY <1>6 DEF ReadIn
<1> HIDE DEF a, u
<1>8. /\ SameView(s, a) /\ a.start = s.start /\ a.next = s.next /\ SameFile(s.f, a.f) /\ a.got = t.got
      /\ a.f.name = n
  <2>1. SameView(t, a) /\ SameFile(t.f, a.f)  BY <1>7 DEF Moved
  <2>2. SameView(s, a)  BY <1>2, <2>1, SameViewTrans
  <2>3. SameFile(s.f, a.f)  BY <1>2, <2>1 DEF SameFile
  <2> QED  BY <1>2, <1>7, <2>2, <2>3 DEF Moved, SameFile
<1>9. Astray(g, a.f)
  <2>1. pos \in 0..(ClusterLen * g.len[n])
    <3> DEFINE L == ClusterLen * g.len[n]
    <3>1. L \in Nat /\ pos < L  BY <1>4, <1>6, GhostTypes
    <3> HIDE DEF L, pos
    <3>2. pos \in 0..L  BY <1>5, <3>1
    <3> QED  BY <3>2 DEF L
  <2> QED  BY <1>7, <1>8, <2>1 DEF Astray
<1>10. CASE ~Ok(a)
  <2>1. u = a /\ a.err = "address"  BY <1>1, <1>7, <1>10
  <2>2. Reading(s, a, g, n, p, end)  BY <1>7, <1>8, <1>9, <1>10, <2>1 DEF Reading
  <2> QED  BY <2>1, <2>2 DEF u
<1>11. CASE Ok(a)
  <2>1. b = BlockAt(g, n, pos) /\ b \in Data
    <3>1. b = BlockAt(g, n, pos)  BY <1>7, <1>11 DEF PositionBlock, BlockAt
    <3> HIDE DEF b
    <3>2. b \in Data  BY <1>4, <1>5, <3>1, GhostTypes
    <3> QED  BY <3>1, <3>2
  <2>2. k \in Nat \ {0} /\ k <= todo /\ k <= BlockLen - at
    <3>1. a.f.pos \in Nat  BY <1>5, <1>7
    <3>2. k \in Nat \ {0} /\ k <= todo /\ k <= BlockLen - (a.f.pos % BlockLen)
      <4> HIDE DEF todo
      <4> QED  BY <1>5, <3>1, PartOf DEF Part, Offset
    <3> HIDE DEF k
    <3> QED  BY <1>7, <3>2
  <2>3. at \in Nat /\ at + k <= BlockLen /\ at = a.f.pos % BlockLen
    <3>1. at \in 0..(BlockLen - 1) /\ BlockLen \in Nat /\ at = a.f.pos % BlockLen
      BY <1>5, <1>7, Position, GeometryAssumption
    <3> HIDE DEF at, k
    <3>2. at \in Nat /\ at + k <= BlockLen  BY <2>2, <3>1
    <3> QED  BY <3>1, <3>2
  <2> HIDE DEF b, k, at
  <2>4. ViewOf(a, b) = ViewOf(t, b) /\ ViewOf(a, b) \in [1..BlockLen -> Cell]
    <3>1. b \in Known  BY <2>1 DEF Known
    <3>2. ViewOf(a, b) = ViewOf(t, b)  BY <1>7, <3>1 DEF Moved, SameView
    <3> QED  BY <1>4, <2>1, <3>2 DEF Formed, DataFormed
  <2>5. /\ Sane(r) /\ SameView(a, r) /\ r.f = a.f /\ r.start = a.start /\ r.next = a.next
        /\ Ok(r) => r.got = After(a.got, Taken(ViewOf(a, b), at, k))
        /\ ~Ok(r) => r.err = "address"
    <3> HIDE DEF r
    <3>1. k \in Nat /\ at = Offset(a)  BY <2>2, <2>3 DEF Offset
    <3> QED  BY <1>7, <1>11, <2>1, <2>3, <2>4, <3>1, PartRead DEF r
  <2> HIDE DEF r
  <2>6. SameView(s, r) /\ r.start = s.start /\ r.next = s.next /\ SameFile(s.f, r.f) /\ Astray(g, r.f)
    BY <1>8, <1>9, <2>5, SameViewTrans
  <2>7. CASE ~Ok(r)
    <3>1. u = r  BY <1>1, <1>11, <2>7
    <3>2. Reading(s, r, g, n, p, end)  BY <2>5, <2>6, <2>7 DEF Reading
    <3> QED  BY <3>1, <3>2 DEF u
  <2>8. CASE Ok(r)
    <3>1. Part(r, todo) = k /\ r.f.pos = pos  BY <1>7, <2>5 DEF Part, Offset, k
    <3>2. u = PutPos(r, e)  BY <1>1, <1>11, <2>8, <3>1
    <3> DEFINE z == PutPos(r, e)
    <3>3. Sane(z) /\ Moved(r, z) /\ z.f.cur = r.f.cur /\ z.f.pos = e /\ z.err = r.err  BY <2>5, PlacedPos
    <3> HIDE DEF z
    <3>4. pos \in Nat /\ k \in Nat \ {0} /\ k <= end - pos /\ e \in p..end /\ e \in Nat \ {0} /\ e - 1 \in Nat
          /\ e <= s.f.size
      <4>1. k <= todo  BY <2>2
      <4> HIDE DEF pos
      <4>2. k <= end - pos /\ s.f.size \in Nat  BY <1>4, <4>1
      <4> HIDE DEF todo
      <4> QED  BY <1>4, <1>5, <2>2, <4>2
    <3>5. Taken(ViewOf(a, b), at, k) = Run(n, pos, k)
      <4>1. pos + k <= g.size[n]  BY <1>4, <3>4
      <4>2. k <= BlockLen - (pos % BlockLen)  BY <2>2 DEF at
      <4>3. Taken(ViewOf(t, BlockAt(g, n, pos)), pos % BlockLen, k) = Run(n, pos, k)
        <5> HIDE DEF pos
        <5> QED  BY <1>4, <2>2, <3>4, <4>1, <4>2, CellsThere
      <4> QED  BY <2>1, <2>4, <4>3 DEF at
    <3>6. r.got = Run(n, p, e - p)
      <4> DEFINE m == pos - p
      <4>1. m \in Nat /\ p + m = pos /\ m + k = e - p
        <5> HIDE DEF pos
        <5> QED  BY <1>5, <2>2
      <4>2. r.got = After(Run(n, p, m), Run(n, pos, k))  BY <1>2, <1>8, <2>5, <2>8, <3>5
      <4> HIDE DEF m, e, pos
      <4>3. After(Run(n, p, m), Run(n, p + m, k)) = Run(n, p, m + k)
        <5>1. m \in Nat /\ k \in Nat  BY <2>2, <4>1
        <5>2. RunsOn(n, p, m, k)  BY <5>1, RunOn
        <5> QED  BY Zenon, <5>2 DEF RunsOn
      <4> QED  BY <4>1, <4>2, <4>3
    <3>7. (e - 1) \div ClusterLen = pos \div ClusterLen
      <4> DEFINE d == k - 1
      <4>1. d \in 0..(BlockLen - 1 - (pos % BlockLen)) /\ e - 1 = pos + d
        <5>1. at \in 0..(BlockLen - 1) /\ BlockLen \in Nat \ {0} /\ k <= BlockLen - at
          BY <1>5, <2>2, Position, GeometryAssumption DEF at
        <5> HIDE DEF pos
        <5>2. d \in 0..(BlockLen - 1 - at) /\ e - 1 = pos + d  BY <1>5, <2>2, <5>1
        <5> QED  BY <5>2 DEF at
      <4> HIDE DEF d, e
      <4> DEFINE q == pos + d
      <4>2. pos \div BlockLen = q \div BlockLen  BY <1>5, <4>1, NextInBlock
      <4>3. q \in Nat /\ q = e - 1  BY <3>4, <4>1
      <4> HIDE DEF q
      <4>4. pos \div ClusterLen = q \div ClusterLen  BY <1>5, <4>2, <4>3, SameBlock
      <4> QED  BY <4>3, <4>4
    <3>8. e \in 0..(ClusterLen * g.len[n])
      <4> DEFINE L == ClusterLen * g.len[n]
      <4>1. g.size[n] <= L /\ L \in Nat  BY <1>4, GhostTypes DEF Held
      <4> HIDE DEF L, e
      <4>2. e \in 0..L  BY <1>4, <3>4, <4>1
      <4> QED  BY <4>2 DEF L
    <3>9. z.f.name = n /\ SameFile(s.f, z.f)  BY <1>8, <2>5, <3>3 DEF Moved, SameFile
    <3> HIDE DEF e
    <3>10. z.f.cur = g.ch[n][(e - 1) \div ClusterLen] /\ z.f.cur \in Clusters \cup {0}
      BY <1>7, <1>11, <2>5, <3>3, <3>7
    <3>11. At(g, z.f) /\ Astray(g, z.f)
      <4>1. e # 0  BY <3>4
      <4> QED  BY <3>3, <3>8, <3>9, <3>10, <4>1 DEF At, Astray
    <3>12. SameView(s, z) /\ z.start = s.start /\ z.next = s.next /\ z.got = r.got
      BY <2>6, <3>3, SameViewTrans DEF Moved
    <3>13. z.err = "none"  BY <2>8, <3>3 DEF Ok
    <3>14. z.f.pos \in p..end /\ z.got = Run(n, p, z.f.pos - p)  BY <3>3, <3>4, <3>6, <3>12
    <3>15. Reading(s, z, g, n, p, end)  BY <3>3, <3>9, <3>11, <3>12, <3>13, <3>14 DEF Reading
    <3> QED  BY <3>2, <3>15 DEF z, e, u
  <2> QED  BY <2>7, <2>8
<1> QED  BY <1>10, <1>11

(***** the loop of read *****)

\* The loop of read().
ReadAll(s, todo) == Transfer(ReadBlockPart, s, todo)

\* The states it goes through, until the position is "end".
ReadStates(f, s, todo, end) ==
    /\ f[0] = s
    /\ \A i \in 1..todo :
          f[i] = IF Ok(f[i - 1])
                 THEN IF f[i - 1].f.pos >= end THEN f[i - 1]
                      ELSE ReadBlockPart(f[i - 1], end - f[i - 1].f.pos)
                 ELSE f[i - 1]

\* The states of read()'s loop.
LEMMA ReadTurns ==
  ASSUME NEW s, NEW todo \in Nat
  PROVE  \E f : ReadAll(s, todo) = f[todo] /\ ReadStates(f, s, todo, s.f.pos + todo)
<1> DEFINE end == s.f.pos + todo
           Fits(f) == f = [i \in 0..todo |-> IF i = 0 THEN s ELSE
                             IF Ok(f[i - 1])
                             THEN IF f[i - 1].f.pos >= end THEN f[i - 1]
                                  ELSE ReadBlockPart(f[i - 1], end - f[i - 1].f.pos)
                             ELSE f[i - 1]]
           after == CHOOSE f : Fits(f)
<1>1. ReadAll(s, todo) = after[todo]  BY DEF ReadAll, Transfer, Repeat, Then
<1> HIDE DEF end
<1>2. PICK g : Turning("read", end, s, todo, g)  BY Turns
<1>3. Fits(g)  BY <1>2 DEF Turning, Turn
<1> HIDE DEF Fits
<1>4. Fits(after)  BY <1>3
<1> HIDE DEF after
<1>5. ReadStates(after, s, todo, end)
  <2>1. after[0] = s  BY <1>4 DEF Fits
  <2>2. \A i \in 1..todo :
            after[i] = IF Ok(after[i - 1])
                       THEN IF after[i - 1].f.pos >= end THEN after[i - 1]
                            ELSE ReadBlockPart(after[i - 1], end - after[i - 1].f.pos)
                       ELSE after[i - 1]
    <3> SUFFICES ASSUME NEW i \in 1..todo
                 PROVE  after[i] = IF Ok(after[i - 1])
                                   THEN IF after[i - 1].f.pos >= end THEN after[i - 1]
                                        ELSE ReadBlockPart(after[i - 1], end - after[i - 1].f.pos)
                                   ELSE after[i - 1]
      OBVIOUS
    <3>1. i \in 0..todo /\ i # 0  OBVIOUS
    <3> QED  BY Zenon, <1>4, <3>1 DEF Fits
  <2> QED  BY Zenon, <2>1, <2>2 DEF ReadStates
<1> QED  BY <1>1, <1>5 DEF end

\* What read()'s loop does.
LEMMA AllRead ==
  ASSUME NEW s, Sane(s), Ok(s), NEW g, NEW o, Sound(s, g, o), s.f.open, NEW n, n = s.f.name,
         At(g, s.f), s.got = <<>>, NEW todo \in Nat, s.f.pos + todo <= s.f.size
  PROVE  Reading(s, ReadAll(s, todo), g, n, s.f.pos, s.f.pos + todo)
<1> DEFINE p == s.f.pos
           end == s.f.pos + todo
<1>1. g \in Ghost /\ n \in Name /\ p \in Nat /\ end \in Nat /\ p \in p..end
  <2>1. g \in Ghost /\ n \in Name  BY DEF Sound, Opened
  <2> DEFINE L == ClusterLen * g.len[n]
  <2>2. p \in 0..L /\ L \in Nat  BY <2>1, GhostTypes DEF At
  <2> HIDE DEF L, p
  <2>3. p \in Nat /\ p + todo \in Nat /\ p \in p..(p + todo)  BY <2>2
  <2> QED  BY <2>1, <2>3 DEF p
<1>2. PICK f : ReadAll(s, todo) = f[todo] /\ ReadStates(f, s, todo, end)
  BY ReadTurns
<1>3. end <= s.f.size  OBVIOUS
<1>4. s.got = Run(n, p, p - p)
  <2>1. p - p = 0  BY <1>1
  <2>2. Run(n, p, 0) = <<>>  BY DEF Run
  <2> QED  BY <2>1, <2>2
<1> HIDE DEF end
<1> DEFINE B == {i \in 0..todo : Reading(s, f[i], g, n, p, end)}
<1>5. 0 \in B
  <2>1. Astray(g, s.f)  BY <1>1, AtAstray
  <2>2. SameFile(s.f, s.f) /\ SameView(s, s)  BY DEF SameFile, SameView
  <2>3. s.err = "none"  BY DEF Ok
  <2>4. Reading(s, s, g, n, p, end)  BY <1>1, <1>4, <2>1, <2>2, <2>3 DEF Reading
  <2>5. f[0] = s  BY <1>2 DEF ReadStates
  <2> QED  BY <2>4, <2>5
<1> HIDE DEF p
<1>6. ASSUME NEW i \in 1..todo, i - 1 \in B PROVE i \in B
  <2> DEFINE t == f[i - 1]
  <2>1. Reading(s, t, g, n, p, end)  BY <1>6
  <2>2. f[i] = IF Ok(t) THEN IF t.f.pos >= end THEN t ELSE ReadBlockPart(t, end - t.f.pos) ELSE t
    BY <1>2 DEF ReadStates
  <2> HIDE DEF t
  <2>3. Ok(t) => t.f.pos \in p..end  BY <2>1 DEF Reading
  <2>4. CASE Ok(t) /\ t.f.pos < end
    <3>1. Reading(s, ReadBlockPart(t, end - t.f.pos), g, n, p, end)
      BY <1>1, <1>3, <2>1, <2>4, ReadingOn
    <3>2. ~(t.f.pos >= end)
      <4> DEFINE q == t.f.pos
      <4>1. q \in p..end /\ q < end  BY <2>3, <2>4
      <4> HIDE DEF q
      <4>2. ~(q >= end)  BY <1>1, <4>1
      <4> QED  BY <4>2 DEF q
    <3> QED  BY <2>2, <2>4, <3>1, <3>2
  <2>5. CASE ~(Ok(t) /\ t.f.pos < end)
    <3>1. Ok(t) => t.f.pos >= end
      <4> DEFINE q == t.f.pos
      <4>1. Ok(t) => q \in p..end /\ ~(q < end)  BY <2>3, <2>5
      <4> HIDE DEF q
      <4>2. Ok(t) => q >= end  BY <1>1, <4>1
      <4> QED  BY <4>2 DEF q
    <3>2. f[i] = t  BY <2>2, <3>1
    <3> QED  BY <2>1, <3>2
  <2> QED  BY <2>4, <2>5
<1>7. \A i \in 0..todo : i \in B
  <2> HIDE DEF B
  <2> QED  BY <1>5, <1>6, Induct
<1>8. Reading(s, f[todo], g, n, p, end)  BY <1>7
<1> QED  BY <1>2, <1>8 DEF p, end

\* read() gets the cells from the old position to the new one.
LEMMA ReadDone ==
  ASSUME NEW s, Sane(s), Ok(s), NEW g, NEW o, Sound(s, g, o), s.f.open, At(g, s.f), s.f.pos <= s.f.size,
         s.got = <<>>, NEW k \in Nat
  PROVE  LET t == read(s, k)
         IN  /\ Result(s, t, g, o) /\ t.err \in {"none", "address"}
             /\ Ok(t) => /\ t.f.pos \in Nat /\ s.f.pos \in Nat /\ s.f.pos <= t.f.pos
                         /\ t.got = Run(s.f.name, s.f.pos, t.f.pos - s.f.pos)
<1> DEFINE n == s.f.name
           p == s.f.pos
           z == s.f.size
           todo == Min({k, z - p})
           end == p + todo
           t == read(s, k)
<1>1. g \in Ghost /\ n \in Name /\ p \in Nat /\ z \in Nat
  <2>1. g \in Ghost /\ n \in Name /\ s.f.size = g.size[n]  BY DEF Sound, Opened
  <2> DEFINE L == ClusterLen * g.len[n]
  <2>2. p \in 0..L /\ L \in Nat  BY <2>1, GhostTypes DEF At
  <2>3. z \in Nat  BY <2>1, GhostTypes
  <2> HIDE DEF L, p, z
  <2> QED  BY <2>1, <2>2, <2>3
<1>2. p <= z  OBVIOUS
<1>3. t = ReadAll(s, todo)
  <2>1. ~(p > z)
    <3> HIDE DEF p, z
    <3> QED  BY <1>1, <1>2
  <2> QED  BY <2>1 DEF read, ReadAll
<1>4. todo \in Nat /\ end \in Nat /\ p <= end /\ end <= z
  <2> HIDE DEF p, z
  <2>1. z - p \in Nat  BY <1>1, <1>2
  <2>2. todo = IF k <= z - p THEN k ELSE z - p  BY <2>1, MinOfTwo
  <2> HIDE DEF todo
  <2> QED  BY <1>1, <2>1, <2>2
<1> HIDE DEF todo
<1>5. Reading(s, ReadAll(s, todo), g, n, p, end)  BY <1>4, AllRead
<1> HIDE DEF t
<1>6. /\ Sane(t) /\ SameView(s, t) /\ t.start = s.start /\ t.next = s.next /\ SameFile(s.f, t.f)
      /\ Astray(g, t.f) /\ t.err \in {"none", "address"}
      /\ Ok(t) => At(g, t.f) /\ t.f.pos \in p..end /\ t.got = Run(n, p, t.f.pos - p)
  BY <1>3, <1>5 DEF Reading
<1>7. Sound(t, g, o) /\ SameOpen(s.f, t.f) /\ t.f.size = z  BY <1>6, SoundSame DEF SameFile, SameOpen
<1>8. Ok(t) => t.f.pos \in Nat /\ p <= t.f.pos /\ t.f.pos <= z
  <2> DEFINE q == t.f.pos
  <2>1. Ok(t) => q \in p..end  BY <1>6
  <2> HIDE DEF p, q, z, end
  <2>2. end \in Nat /\ end <= z  BY <1>4
  <2>3. Ok(t) => q \in Nat /\ p <= q /\ q <= z  BY <1>1, <2>1, <2>2
  <2> QED  BY <2>3 DEF q
<1>9. Result(s, t, g, o)  BY <1>6, <1>7, <1>8, NoChange
<1> QED  BY <1>1, <1>6, <1>8, <1>9 DEF t
-----------------------------------------------------------------------------
(***** between the calls *****)

\* What Ends leaves of the state a call has ended in.
Rested(s) == [s EXCEPT !.err = "none", !.left = 0, !.lands = FALSE, !.next = 0, !.got = <<>>]

\* r is s ready for another call.
AsReady(s, r) ==
    /\ Sane(r) /\ SameView(s, r) /\ r.f = s.f /\ r.start = s.start
    /\ r.err = "none" /\ r.got = <<>>

\* A state left at rest and taken up again is the same but for its results.
LEMMA RestedReady ==
  ASSUME NEW s, Sane(s)
  PROVE  AsReady(s, Ready(Rested(s)))
<1> DEFINE r == Ready(Rested(s))
<1>1. /\ Shape(r) /\ r.card = s.card /\ r.block = s.block /\ r.data = s.data
      /\ r.dirty = s.dirty /\ r.mirror = s.mirror /\ r.f = s.f /\ r.start = s.start
      /\ r.left = -1 /\ r.err = "none" /\ r.got = <<>>
  BY DEF Sane, Shape, Rested, Ready, Plenty
<1> HIDE DEF r
<1>2. Sane(r)  BY <1>1 DEF Sane
<1>3. SameView(s, r)  BY <1>1 DEF SameView, ViewOf
<1>4. AsReady(s, r)  BY <1>1, <1>2, <1>3 DEF AsReady
<1> QED  BY <1>4 DEF r

\* What a state keeps at rest.
LEMMA RestedFields ==
  ASSUME NEW s, Shape(s)
  PROVE  LET r == Rested(s)
         IN  /\ r.card = s.card /\ r.block = s.block /\ r.data = s.data /\ r.dirty = s.dirty
             /\ r.mirror = s.mirror /\ r.f = s.f /\ r.start = s.start
             /\ r.err = "none" /\ r.got = <<>>
BY DEF Shape, Rested

\* After any use of the open file the volume is settled.
LEMMA UseSettles ==
  ASSUME NEW s, NEW t, NEW g, s.f.open, Result(s, t, g, Closed), NEW fail, ~fail => Ok(t)
  PROVE  \E h : Settled(Ready(Rested(t)), h, fail)
<1> DEFINE r == Ready(Rested(t))
<1>1. Sane(t) /\ t.f.open  BY DEF Result, SameOpen
<1>2. AsReady(t, r)  BY <1>1, RestedReady
<1> HIDE DEF r
<1>3. PICK h : /\ Sound(t, h, Closed) /\ Astray(h, t.f)
               /\ Ok(t) => At(h, t.f) /\ t.f.pos <= t.f.size
  BY DEF Result
<1>4. Sound(r, h, Closed)  BY <1>2, <1>3, SoundSame DEF AsReady
<1>5. Settled(r, h, fail)  BY <1>2, <1>3, <1>4 DEF Settled, AsReady
<1> QED  BY <1>5 DEF r

\* A sync, which says less when the position is astray.
LEMMA SyncSettles ==
  ASSUME NEW s, NEW g, NEW fail, Settled(s, g, fail), Ok(s), s.f.open
  PROVE  LET t == sync(s)
         IN  /\ Settled(Ready(Rested(t)), g, fail) /\ t.err \in {"none", "address"} /\ t.got = s.got
             /\ Sane(t) /\ t.f.size = s.f.size
             /\ Sound(t, g, Closed) /\ (Ok(t) => ~t.f.dirty) /\ t.f.open /\ t.f.name = s.f.name
<1> DEFINE t == sync(s)
           r == Ready(Rested(t))
<1>1. Sane(s) /\ Sound(s, g, Closed) /\ Astray(g, s.f) /\ (~fail => At(g, s.f) /\ s.f.pos <= s.f.size)
  BY DEF Settled
<1>2. /\ Sane(t) /\ Sound(t, g, Closed) /\ SameButDirty(s.f, t.f) /\ t.got = s.got
      /\ Live(s) => Good(t) /\ ~t.dirty /\ ~t.f.dirty
      /\ ~Live(s) => t.err = "address"
  BY <1>1, Synced
<1> HIDE DEF t
<1>3. AsReady(t, r)  BY <1>2, RestedReady
<1> HIDE DEF r
<1>4. Sound(r, g, Closed)  BY <1>2, <1>3, SoundSame DEF AsReady
<1>5. /\ t.f.open /\ t.f.name = s.f.name /\ t.f.size = s.f.size /\ t.f.pos = s.f.pos /\ t.f.cur = s.f.cur
  BY <1>2 DEF SameButDirty
<1>6. Astray(g, t.f) /\ (~fail => At(g, t.f) /\ t.f.pos <= t.f.size)  BY <1>1, <1>5 DEF Astray, At
<1>7. Settled(r, g, fail)  BY <1>3, <1>4, <1>6 DEF Settled, AsReady
<1>8. t.err \in {"none", "address"} /\ (Ok(t) => ~t.f.dirty)  BY <1>2 DEF Good, Ok
<1> QED  BY <1>2, <1>5, <1>7, <1>8 DEF t, r

\* The file is closed, or another one is in use instead.
WithFile(s, f) == [s EXCEPT !.f = f]

\* Another open file leaves the card alone.
LEMMA FileSet ==
  ASSUME NEW s, Sane(s), NEW f, DOMAIN f = DOMAIN Closed
  PROVE  LET t == WithFile(s, f)
         IN  /\ Sane(t) /\ SameView(s, t) /\ t.f = f /\ t.start = s.start /\ t.err = s.err
             /\ t.got = s.got /\ (Live(s) => Live(t))
<1> DEFINE t == WithFile(s, f)
<1>1. /\ Shape(t) /\ t.card = s.card /\ t.block = s.block /\ t.data = s.data
      /\ t.dirty = s.dirty /\ t.mirror = s.mirror /\ t.left = s.left
      /\ t.f = f /\ t.start = s.start /\ t.err = s.err /\ t.got = s.got
  BY DEF Sane, Shape, WithFile, Closed
<1> HIDE DEF t
<1>2. Sane(t) /\ SameView(s, t) /\ (Live(s) => Live(t))  BY <1>1, Alike
<1> QED  BY <1>1, <1>2 DEF t

\* The open file takes the place of none, and the other way round.
LEMMA Swapped ==
  ASSUME NEW s, NEW t, NEW g, NEW f, NEW h, Sound(s, g, h), s.f = f, f = Closed \/ h = Closed,
         SameView(s, t), t.f = h, t.start = s.start
  PROVE  Sound(t, g, f)
<1>1. /\ g \in Ghost /\ s.start \in 2..(LastCluster + 1)
      /\ Volume(s, g) /\ Listed(s, g, {f.name, h.name})
      /\ Opened(s, g, f) /\ Opened(s, g, h)
      /\ f.open /\ h.open => f.name # h.name
  BY DEF Sound
<1>2. /\ Volume(t, g) /\ Listed(t, g, {f.name, h.name}) /\ Opened(t, g, f) /\ Opened(t, g, h)
  BY <1>1, VolumeSame
<1>3. {f.name, h.name} = {h.name, f.name}  OBVIOUS
<1>4. Listed(t, g, {h.name, f.name})
  <2> DEFINE x == {f.name, h.name}
             y == {h.name, f.name}
  <2>1. x = y /\ Listed(t, g, x)  BY <1>2, <1>3
  <2> HIDE DEF x, y
  <2>2. Listed(t, g, y)  BY <2>1
  <2> QED  BY <2>2 DEF y
<1> QED  BY <1>1, <1>2, <1>4 DEF Sound

\* A clean file that is closed is as its entry says.
LEMMA ClosedSound ==
  ASSUME NEW s, NEW t, NEW g, Sound(s, g, Closed), s.f.open, ~s.f.dirty, SameView(s, t), t.f = Closed, t.start = s.start
  PROVE  Sound(t, g, Closed)
<1>1. /\ g \in Ghost /\ s.start \in 2..(LastCluster + 1)
      /\ Volume(s, g) /\ Listed(s, g, {s.f.name, Closed.name})
      /\ Opened(s, g, s.f) /\ Opened(s, g, Closed)
  BY DEF Sound
<1>2. /\ Volume(t, g) /\ DirOf(t) = DirOf(s) /\ Listed(t, g, {s.f.name, Closed.name}) /\ Opened(t, g, Closed)
  BY <1>1, VolumeSame
<1>3. Listed(t, g, {Closed.name, Closed.name})
  <2>1. /\ s.f.name \in Name /\ s.f.index \in 1..Slots /\ DirOf(t)[s.f.index].name = s.f.name
        /\ DirOf(t)[s.f.index].first = FirstOf(g, s.f.name)
        /\ DirOf(t)[s.f.index].size = g.size[s.f.name]
    BY <1>1, <1>2 DEF Opened
  <2>2. DirFormed(t)  BY <1>2 DEF Volume, Formed
  <2>3. ASSUME NEW i \in 1..Slots, DirOf(t)[i].name \in Name, DirOf(t)[i].name = s.f.name
        PROVE  i = s.f.index
    <3>1. DirOf(t)[i].name # NoName  BY <2>3, NameAssumption
    <3> QED  BY <2>1, <2>2, <2>3, <3>1 DEF DirFormed
  <2> QED  BY <1>2, <2>1, <2>3 DEF Listed
<1>4. ~Closed.open  BY DEF Closed
<1> QED  BY <1>1, <1>2, <1>3, <1>4 DEF Sound
=============================================================================
