------------------------------ MODULE SdProofs ------------------------------
(***************************************************************************)
(* Files of the SD library on a card that does not fail: the inductive     *)
(* invariant, each operation keeps it, and what follows of it.             *)
(***************************************************************************)
EXTENDS SdCallProofs, TLAPS

-----------------------------------------------------------------------------
(***** the chains of the properties *****)

\* A file has no more clusters than there are.
LEMMA ShortEnough ==
  ASSUME NEW g \in Ghost, Disjoint(g), NEW n \in Name
  PROVE  g.len[n] <= clusterCount
<1> DEFINE m == g.len[n]
           c == g.ch[n]
           S == 0..(m - 1)
           f == [i \in S |-> c[i]]
<1>1. m \in Nat /\ c \in [Nat -> Clusters] /\ clusterCount \in Nat \ {0}  BY GhostTypes, Lengths0
<1>2. \A i, j \in S : c[i] = c[j] => i = j  BY DEF Disjoint
<1> HIDE DEF m, c
<1>3. f \in Injection(S, Clusters)
  <2>1. S \subseteq Nat  OBVIOUS
  <2>2. f \in [S -> Clusters]  BY <1>1, <2>1
  <2>3. \A i, j \in S : f[i] = f[j] => i = j  BY <1>2
  <2> QED  BY <2>2, <2>3 DEF Injection, IsInjective
<1>4. IsFiniteSet(Clusters) /\ Cardinality(Clusters) = clusterCount
  <2>1. Clusters = 2..(clusterCount + 1)  BY Lengths0 DEF Clusters
  <2>2. /\ IsFiniteSet(2..(clusterCount + 1))
        /\ Cardinality(2..(clusterCount + 1)) =
              IF 2 > clusterCount + 1 THEN 0 ELSE (clusterCount + 1) - 2 + 1
    BY <1>1, FS_Interval
  <2>3. Cardinality(2..(clusterCount + 1)) = clusterCount  BY <1>1, <2>2
  <2> QED  BY <2>1, <2>2, <2>3
<1>5. IsFiniteSet(S) /\ Cardinality(S) = m
  <2>1. /\ IsFiniteSet(0..(m - 1))
        /\ Cardinality(0..(m - 1)) = IF 0 > m - 1 THEN 0 ELSE (m - 1) - 0 + 1
    BY <1>1, FS_Interval
  <2>2. (IF 0 > m - 1 THEN 0 ELSE (m - 1) - 0 + 1) = m  BY <1>1
  <2> QED  BY <2>1, <2>2
<1> HIDE DEF S, f
<1>6. Cardinality(S) <= Cardinality(Clusters)  BY <1>3, <1>4, FS_Injection
<1> QED  BY <1>4, <1>5, <1>6 DEF m

\* So its size is bounded too.
LEMMA SizesKept ==
  ASSUME NEW g \in Ghost, NEW s, Volume(s, g), NEW n \in Name
  PROVE  /\ g.size[n] \in Sizes
         /\ 0..(ClusterLen * g.len[n]) \subseteq Sizes
<1> DEFINE m == g.len[n]
           z == g.size[n]
           C == ClusterLen
           N == clusterCount
<1>1. m <= N  BY ShortEnough DEF Volume
<1>2. z <= C * m  BY DEF Volume, Held
<1>3. m \in Nat /\ z \in Nat /\ C \in Nat \ {0} /\ N \in Nat \ {0}  BY GhostTypes, Lengths0
<1> HIDE DEF m, z, C, N
<1>4. C * m <= N * C /\ C * m \in Nat /\ N * C \in Nat
  <2>1. N - m \in Nat  BY <1>1, <1>3
  <2>2. \A u, v \in Nat : u * v \in Nat  OBVIOUS
  <2>3. C * (N - m) \in Nat /\ C * m \in Nat /\ N * C \in Nat  BY <1>3, <2>1, <2>2
  <2>4. C * (N - m) = N * C - C * m  BY <1>3
  <2> DEFINE x == C * m
             y == N * C
             w == C * (N - m)
  <2>5. w = y - x /\ w \in Nat /\ x \in Nat /\ y \in Nat  BY <2>3, <2>4
  <2> HIDE DEF w, x, y
  <2>6. x <= y  BY <2>5
  <2> QED  BY <2>3, <2>6 DEF x, y
<1> DEFINE x == C * m
           y == N * C
<1>5. x \in Nat /\ y \in Nat /\ x <= y /\ z <= x  BY <1>2, <1>4
<1> HIDE DEF x, y
<1>6. z \in 0..y /\ 0..x \subseteq 0..y  BY <1>3, <1>5
<1>7. Sizes = 0..y  BY DEF Sizes, y, N, C
<1> QED  BY <1>6, <1>7 DEF z, x, m, C

\* The first i clusters of a chain.
ChainStart(ch, i) == [j \in 1..i |-> ch[j - 1]]

\* The first i clusters of a chain as a sequence.
LEMMA ChainStarts ==
  ASSUME NEW ch \in [Nat -> Clusters], NEW i \in Nat
  PROVE  /\ ChainStart(ch, i) \in Seq(Clusters) /\ Len(ChainStart(ch, i)) = i
         /\ i > 0 => Last(ChainStart(ch, i)) = ch[i - 1]
         /\ Append(ChainStart(ch, i), ch[i]) = ChainStart(ch, i + 1)
         /\ \A c : Contains(ChainStart(ch, i), c) <=> \E j \in 0..(i - 1) : ch[j] = c
<1> DEFINE p == ChainStart(ch, i)
           q == ChainStart(ch, i + 1)
           a == Append(p, ch[i])
<1>1. p \in Seq(Clusters) /\ Len(p) = i /\ \A j \in 1..i : p[j] = ch[j - 1]  BY DEF ChainStart
<1>2. q \in Seq(Clusters) /\ Len(q) = i + 1 /\ \A j \in 1..(i + 1) : q[j] = ch[j - 1]  BY DEF ChainStart
<1> HIDE DEF p, q
<1>3. /\ a \in Seq(Clusters) /\ Len(a) = i + 1
      /\ \A j \in 1..(i + 1) : a[j] = IF j <= i THEN p[j] ELSE ch[i]
  <2>1. ch[i] \in Clusters  OBVIOUS
  <2> QED  BY <1>1, <2>1, AppendProperties
<1> HIDE DEF a
<1>4. a = q
  <2>1. ASSUME NEW j \in 1..(i + 1) PROVE a[j] = q[j]
    <3>1. CASE j <= i
      <4>1. j \in 1..i  BY <3>1
      <4> QED  BY <1>1, <1>2, <1>3, <3>1, <4>1
    <3>2. CASE ~(j <= i)
      <4>1. j - 1 = i  BY <3>2
      <4> QED  BY <1>2, <1>3, <3>2, <4>1
    <3> QED  BY <3>1, <3>2
  <2> QED  BY <1>2, <1>3, <2>1
<1>5. i > 0 => Last(p) = ch[i - 1]
  <2> SUFFICES ASSUME i > 0 PROVE Last(p) = ch[i - 1]  OBVIOUS
  <2>1. i \in 1..i  OBVIOUS
  <2> QED  BY <1>1, <2>1 DEF Last
<1>6. ASSUME NEW c PROVE Contains(p, c) <=> \E j \in 0..(i - 1) : ch[j] = c
  <2>1. Contains(p, c) <=> \E j \in 1..i : p[j] = c  BY <1>1 DEF Contains
  <2>2. ASSUME NEW j \in 1..i, p[j] = c PROVE \E k \in 0..(i - 1) : ch[k] = c
    <3>1. j - 1 \in 0..(i - 1) /\ ch[j - 1] = c  BY <1>1, <2>2
    <3> QED  BY <3>1
  <2>3. ASSUME NEW k \in 0..(i - 1), ch[k] = c PROVE \E j \in 1..i : p[j] = c
    <3>1. k + 1 \in 1..i /\ (k + 1) - 1 = k  OBVIOUS
    <3>2. p[k + 1] = c  BY <1>1, <2>3, <3>1
    <3> QED  BY <3>1, <3>2
  <2> QED  BY <2>1, <2>2, <2>3
<1> QED  BY <1>1, <1>4, <1>5, <1>6 DEF p, q, a

\* It holds these clusters and no others.
StartHolds(ch, i, c) == Contains(ChainStart(ch, i), c) <=> \E j \in 0..(i - 1) : ch[j] = c

\* Which clusters the first i are.
LEMMA StartMembers ==
  ASSUME NEW ch \in [Nat -> Clusters], NEW i \in Nat, NEW c
  PROVE  StartHolds(ch, i, c)
BY ChainStarts DEF StartHolds

\* The steps by which a chain is followed.
LEMMA FollowTurns ==
  ASSUME NEW file, file.first \in Clusters
  PROVE  \E f : /\ ChainOf(file) = f[clusterCount]
                /\ f[1] = <<file.first>>
                /\ \A i \in 2..clusterCount : f[i] = Extend(sd, f[i - 1])
<1> DEFINE first == file.first
           N == clusterCount
           c(x) == Fat(Last(x))
           Fits(f) == f = [i \in 1..N |-> IF i = 1 THEN <<first>> ELSE
                             IF c(f[i - 1]) \in Clusters /\ ~Contains(f[i - 1], c(f[i - 1]))
                             THEN Append(f[i - 1], c(f[i - 1])) ELSE f[i - 1]]
           upTo == CHOOSE f : Fits(f)
<1>1. N \in Nat \ {0}  BY Lengths0
<1>2. ChainOf(file) = upTo[N]  BY DEF ChainOf, Chain
<1>3. \A x : c(x) = FatOf(sd, Last(x))  BY DEF Fat, View, FatOf, ViewOf
<1> HIDE DEF first, N
<1>4. PICK f : Turning("follow", sd, <<first>>, N - 1, f)
  <2>1. N - 1 \in Nat  BY <1>1
  <2> QED  BY <2>1, Turns
<1>5. \A i \in 1..(N - 1) : f[i] = Extend(sd, f[i - 1])
  <2>1. f = [i \in 0..(N - 1) |-> IF i = 0 THEN <<first>> ELSE Extend(sd, f[i - 1])]
    BY <1>4 DEF Turning, Turn
  <2> SUFFICES ASSUME NEW i \in 1..(N - 1) PROVE f[i] = Extend(sd, f[i - 1])  OBVIOUS
  <2>2. i \in 0..(N - 1) /\ i # 0  OBVIOUS
  <2> QED  BY Zenon, <2>1, <2>2
<1>6. f[0] = <<first>>  BY <1>1, <1>4 DEF Turning
<1> DEFINE h == [i \in 1..N |-> f[i - 1]]
<1>7. Fits(h)
  <2>1. ASSUME NEW i \in 1..N
        PROVE  h[i] = IF i = 1 THEN <<first>> ELSE
                        IF c(h[i - 1]) \in Clusters /\ ~Contains(h[i - 1], c(h[i - 1]))
                        THEN Append(h[i - 1], c(h[i - 1])) ELSE h[i - 1]
    <3>1. CASE i = 1  BY <1>6, <3>1
    <3>2. CASE i # 1
      <4>1. i - 1 \in 1..(N - 1) /\ i - 1 \in 1..N  BY <1>1, <3>2
      <4>2. h[i] = f[i - 1] /\ h[i - 1] = f[(i - 1) - 1]  BY <4>1
      <4>3. f[i - 1] = Extend(sd, f[(i - 1) - 1])  BY <1>5, <4>1
      <4> HIDE DEF h
      <4>4. h[i] = Extend(sd, h[i - 1])  BY <4>2, <4>3
      <4> DEFINE x == h[i - 1]
                 d == c(x)
      <4>5. d = FatOf(sd, Last(x))  BY <1>3
      <4> HIDE DEF c, d, x
      <4>6. h[i] = IF d \in Clusters /\ ~Contains(x, d) THEN Append(x, d) ELSE x
        BY <4>4, <4>5 DEF Extend, x
      <4> QED  BY <3>2, <4>6 DEF d, x
    <3> QED  BY <3>1, <3>2
  <2> HIDE DEF c
  <2> QED  BY <2>1
<1> HIDE DEF Fits, h
<1>8. Fits(upTo)  BY <1>7
<1> HIDE DEF upTo
<1>9. upTo[1] = <<first>>  BY <1>1, <1>8 DEF Fits
<1>10. ASSUME NEW i \in 2..N PROVE upTo[i] = Extend(sd, upTo[i - 1])
  <2> DEFINE x == upTo[i - 1]
             d == c(x)
  <2>1. d = FatOf(sd, Last(x))  BY <1>3
  <2>2. i \in 1..N /\ i # 1  OBVIOUS
  <2>3. upTo[i] = IF c(upTo[i - 1]) \in Clusters /\ ~Contains(upTo[i - 1], c(upTo[i - 1]))
                  THEN Append(upTo[i - 1], c(upTo[i - 1])) ELSE upTo[i - 1]
    <3> HIDE DEF c
    <3> QED  BY Zenon, <1>8, <2>2 DEF Fits
  <2>4. upTo[i] = IF d \in Clusters /\ ~Contains(x, d) THEN Append(x, d) ELSE x  BY <2>3
  <2> HIDE DEF c, d, x
  <2>5. upTo[i] = Extend(sd, x)  BY <2>1, <2>4 DEF Extend
  <2> QED  BY <2>5 DEF x
<1> QED  BY <1>2, <1>9, <1>10 DEF first, N

\* The chain of a file is its clusters.
LEMMA ChainFound ==
  ASSUME NEW g \in Ghost, Disjoint(g), Linked(sd, g), NEW n \in Name, NEW file, file.first = FirstOf(g, n)
  PROVE  ChainOf(file) = ChainStart(g.ch[n], g.len[n])
<1> DEFINE ch == g.ch[n]
           m == g.len[n]
           N == clusterCount
<1>1. ch \in [Nat -> Clusters] /\ m \in Nat /\ m <= N /\ N \in Nat \ {0}  BY GhostTypes, ShortEnough, Lengths0
<1>2. CASE m = 0
  <2>1. file.first = 0  BY <1>2 DEF FirstOf
  <2>2. 0 \notin Clusters  BY DEF Clusters
  <2>3. ChainOf(file) = <<>>  BY <2>1, <2>2 DEF ChainOf, Chain
  <2>4. ChainStart(ch, 0) = <<>>  BY DEF ChainStart
  <2> QED  BY <1>2, <2>3, <2>4
<1>3. CASE m # 0
  <2>1. file.first = ch[0] /\ file.first \in Clusters  BY <1>1, <1>3 DEF FirstOf
  <2>2. PICK f : /\ ChainOf(file) = f[N] /\ f[1] = <<file.first>>
                 /\ \A i \in 2..N : f[i] = Extend(sd, f[i - 1])
    BY <2>1, FollowTurns
  <2>3. \A i, j \in 0..(m - 1) : ch[i] = ch[j] => i = j  BY DEF Disjoint
  <2>4. \A i \in 0..(m - 1) : FatOf(sd, ch[i]) = IF i + 1 < m THEN ch[i + 1] ELSE EOC  BY DEF Linked
  <2> HIDE DEF ch, m, N
  <2> DEFINE k(i) == IF i <= m THEN i ELSE m
             B == {i \in 0..(N - 1) : f[i + 1] = ChainStart(ch, k(i + 1))}
  <2>5. 0 \in B
    <3>1. k(0 + 1) = 1  BY <1>1, <1>3
    <3>2. ChainStart(ch, 1) = <<ch[0]>>
      <4>1. \A j \in 1..1 : j - 1 = 0  OBVIOUS
      <4>2. ChainStart(ch, 1) = [j \in 1..1 |-> ch[0]]  BY <4>1 DEF ChainStart
      <4>3. [j \in 1..1 |-> ch[0]] = <<ch[0]>>  OBVIOUS
      <4> QED  BY <4>2, <4>3
    <3>3. f[0 + 1] = <<ch[0]>>  BY <2>1, <2>2
    <3> HIDE DEF k
    <3>4. f[0 + 1] = ChainStart(ch, k(0 + 1))  BY <3>1, <3>2, <3>3
    <3> QED  BY <1>1, <3>4
  <2>6. ASSUME NEW i \in 1..(N - 1), i - 1 \in B PROVE i \in B
    <3>1. f[i] = ChainStart(ch, k(i))
      <4>1. (i - 1) + 1 = i  OBVIOUS
      <4> HIDE DEF k
      <4> QED  BY <2>6, <4>1
    <3>2. f[i + 1] = Extend(sd, f[i])
      <4>1. i + 1 \in 2..N /\ (i + 1) - 1 = i  BY <1>1
      <4> QED  BY <2>2, <4>1
    <3>3. CASE i < m
      <4>1. k(i) = i /\ k(i + 1) = i + 1 /\ i \in Nat /\ i > 0 /\ i - 1 \in 0..(m - 1) /\ (i - 1) + 1 = i
            /\ i \in 0..(m - 1)
        BY <1>1, <3>3
      <4> DEFINE p == ChainStart(ch, i)
                 c == FatOf(sd, Last(p))
      <4>2. Last(p) = ch[i - 1]  BY <1>1, <4>1, ChainStarts
      <4> HIDE DEF k
      <4>3. c = ch[i]  BY <2>4, <3>3, <4>1, <4>2
      <4>4. ch[i] \in Clusters  BY <1>1, <4>1
      <4>5. ~Contains(p, ch[i])
        <5>1. \A j \in 0..(i - 1) : ch[j] # ch[i]
          <6> SUFFICES ASSUME NEW j \in 0..(i - 1), ch[j] = ch[i] PROVE FALSE  OBVIOUS
          <6>1. j \in 0..(m - 1) /\ j # i  BY <1>1, <4>1
          <6> QED  BY <2>3, <4>1, <6>1
        <5>2. StartHolds(ch, i, ch[i])  BY <1>1, <4>1, StartMembers
        <5> QED  BY <5>1, <5>2 DEF StartHolds
      <4>6. Append(p, ch[i]) = ChainStart(ch, i + 1)  BY <1>1, <4>1, ChainStarts
      <4> HIDE DEF p, c
      <4>7. Extend(sd, p) = Append(p, ch[i])  BY <4>3, <4>4, <4>5 DEF Extend, c
      <4>8. f[i + 1] = ChainStart(ch, k(i + 1))  BY <3>1, <3>2, <4>1, <4>6, <4>7 DEF p
      <4> QED  BY <4>8
    <3>4. CASE i >= m
      <4>1. k(i) = m /\ k(i + 1) = m /\ m - 1 \in 0..(m - 1) /\ ~((m - 1) + 1 < m) /\ m > 0
        BY <1>1, <1>3, <3>4
      <4> DEFINE p == ChainStart(ch, m)
                 c == FatOf(sd, Last(p))
      <4>2. Last(p) = ch[m - 1]  BY <1>1, <4>1, ChainStarts
      <4> HIDE DEF k
      <4>3. c = EOC  BY <2>4, <4>1, <4>2
      <4>4. EOC \notin Clusters  BY EOCAssumption, Lengths0 DEF Clusters, EOC
      <4> HIDE DEF p, c
      <4>5. Extend(sd, p) = p  BY <4>3, <4>4 DEF Extend, c
      <4>6. f[i + 1] = ChainStart(ch, k(i + 1))  BY <3>1, <3>2, <4>1, <4>5 DEF p
      <4> QED  BY <4>6
    <3> QED  BY <1>1, <3>3, <3>4
  <2>7. \A i \in 0..(N - 1) : i \in B
    <3>1. N - 1 \in Nat  BY <1>1
    <3> HIDE DEF B
    <3> QED  BY <2>5, <2>6, <3>1, Induct
  <2>8. N - 1 \in B /\ (N - 1) + 1 = N  BY <1>1, <2>7
  <2>9. k(N) = m  BY <1>1
  <2> HIDE DEF k
  <2>10. f[N] = ChainStart(ch, m)  BY <2>8, <2>9
  <2> QED  BY <2>2, <2>10 DEF ch, m
<1> QED  BY <1>2, <1>3

\* A file of the directory is as the chains and the sizes say.
LEMMA FileKnown ==
  ASSUME NEW g, NEW s, Sound(s, g, Closed), s.f = sd.f, SameView(s, sd), NEW file \in Files
  PROVE  /\ file.name \in Name /\ file.first = FirstOf(g, file.name) /\ file.size = g.size[file.name]
         /\ \E i \in Stored : file.name = Dir[i].name
<1>1. /\ g \in Ghost /\ Volume(s, g) /\ Listed(s, g, {s.f.name, Closed.name})
      /\ Opened(s, g, s.f)
  BY DEF Sound
<1>2. Volume(sd, g) /\ Listed(sd, g, {s.f.name, Closed.name}) /\ Opened(sd, g, sd.f)
  BY <1>1, VolumeSame
<1>3. Dir = DirOf(sd)  BY DEF Dir, View, DirOf, ViewOf
<1>4. PICK i \in Stored :
        file = IF sd.f.open /\ sd.f.name = Dir[i].name
               THEN [name |-> Dir[i].name, first |-> sd.f.first, size |-> sd.f.size]
               ELSE Dir[i]
  BY DEF Files
<1>5. i \in 1..Slots /\ Dir[i].name # NoName  BY DEF Stored
<1>6. Dir[i].name \in Name  BY <1>2, <1>3, <1>5 DEF Volume, Formed, DirFormed
<1>7. CASE sd.f.open /\ sd.f.name = Dir[i].name
  <2>1. file.name = Dir[i].name /\ file.first = sd.f.first /\ file.size = sd.f.size  BY <1>4, <1>7
  <2> QED  BY <1>2, <1>6, <1>7, <2>1 DEF Opened
<1>8. CASE ~(sd.f.open /\ sd.f.name = Dir[i].name)
  <2>1. file = Dir[i]  BY <1>4, <1>8
  <2>2. Dir[i].name \notin {s.f.name, Closed.name}
    <3>1. Closed.name = NoName /\ ~Closed.open  BY DEF Closed
    <3>2. ~sd.f.open => sd.f.name = NoName  BY <1>2, <3>1 DEF Opened
    <3> QED  BY <1>5, <1>8, <3>1, <3>2
  <2>3. Dir[i].first = FirstOf(g, Dir[i].name) /\ Dir[i].size = g.size[Dir[i].name]
    BY <1>2, <1>3, <1>5, <1>6, <2>2 DEF Listed
  <2> QED  BY <1>6, <2>1, <2>3
<1> QED  BY <1>7, <1>8

\* Two files have two names.
LEMMA NamesApart ==
  ASSUME DirFormed(sd), NEW a \in Files, NEW b \in Files, a.name \in Name, a.name = b.name
  PROVE  a = b
<1>1. Dir = DirOf(sd)  BY DEF Dir, View, DirOf, ViewOf
<1> DEFINE F(i) == IF sd.f.open /\ sd.f.name = Dir[i].name
                   THEN [name |-> Dir[i].name, first |-> sd.f.first, size |-> sd.f.size]
                   ELSE Dir[i]
<1>2. PICK i \in Stored : a = F(i)  BY DEF Files
<1>3. PICK j \in Stored : b = F(j)  BY DEF Files
<1>4. \A k : F(k).name = Dir[k].name  OBVIOUS
<1> HIDE DEF F
<1>5. i \in 1..Slots /\ j \in 1..Slots  BY DEF Stored
<1>6. Dir[i].name = Dir[j].name /\ Dir[i].name # NoName
  BY <1>2, <1>3, <1>4, NameAssumption
<1>7. i = j  BY <1>1, <1>5, <1>6 DEF DirFormed
<1> QED  BY <1>2, <1>3, <1>7
-----------------------------------------------------------------------------
(***** the inductive invariant, and what follows from it *****)

\* The inductive invariant: there is a ghost the volume is that of, and the last
\* answers were right.
SdInv ==
    /\ \E g : Settled(Ready(sd), g, failed)
    /\ sd.err = "none" /\ sd.got = <<>>
    /\ ReadsRight /\ FullMeansFull
    /\ durable \in [Name -> Sizes] /\ faults = 0 /\ crashes = 0

\* What a call finds of the state it begins in.
LEMMA ReadyFields ==
  ASSUME Sane(Ready(sd))
  PROVE  LET r == Ready(sd)
         IN  /\ sd.card = r.card /\ sd.block = r.block /\ sd.data = r.data /\ sd.dirty = r.dirty
             /\ sd.mirror = r.mirror /\ sd.f = r.f /\ sd.start = r.start /\ sd.err = r.err /\ sd.got = r.got
             /\ SameView(r, sd) /\ SameView(sd, r)
<1> DEFINE r == Ready(sd)
<1>1. /\ sd.card = r.card /\ sd.block = r.block /\ sd.data = r.data /\ sd.dirty = r.dirty
      /\ sd.mirror = r.mirror /\ sd.f = r.f /\ sd.start = r.start /\ sd.err = r.err /\ sd.got = r.got
  BY DEF Ready
<1> HIDE DEF r
<1>2. SameView(r, sd) /\ SameView(sd, r)  BY <1>1 DEF SameView, ViewOf
<1> QED  BY <1>1, <1>2 DEF r

\* The invariant gives each of the properties: the types,
LEMMA InvTypes ==
  ASSUME SdInv
  PROVE  TypeOK
<1> DEFINE r == Ready(sd)
<1>1. PICK g : Settled(r, g, failed)  BY DEF SdInv
<1> HIDE DEF r
<1>2. Sane(r) /\ Sound(r, g, Closed) /\ (r.f.open => Astray(g, r.f))  BY <1>1 DEF Settled
<1>3. /\ sd.card = r.card /\ sd.block = r.block /\ sd.mirror = r.mirror /\ sd.f = r.f /\ sd.start = r.start
  BY <1>2, ReadyFields DEF r
<1>4. /\ DOMAIN sd.card = Blocks
      /\ sd.block \in Blocks \cup {NoBlock}
  <2>1. Known \subseteq Blocks  BY Regions
  <2> QED  BY <1>2, <1>3, <2>1 DEF Sane, Shape
<1>5. sd.mirror \in {0} \cup (rootDirStart - blocksPerFat)..(rootDirStart - 1)
  <2>1. sd.mirror = IF r.dirty /\ fatCount = 2 /\ r.block \in FirstFat THEN r.block + blocksPerFat ELSE 0
    BY <1>2, <1>3 DEF Sane
  <2>2. CASE r.dirty /\ fatCount = 2 /\ r.block \in FirstFat
    <3>1. rootDirStart = 2 * blocksPerFat + 1 /\ blocksPerFat \in Nat \ {0}  BY <2>2, Regions
    <3>2. r.block \in 1..blocksPerFat  BY <2>2 DEF FirstFat
    <3> DEFINE b == r.block
    <3>3. b + blocksPerFat \in (rootDirStart - blocksPerFat)..(rootDirStart - 1)
      <4> HIDE DEF b
      <4> QED  BY <3>1, <3>2 DEF b
    <3> QED  BY <2>1, <2>2, <3>3
  <2> QED  BY <2>1, <2>2
<1>6. sd.start \in 2..(LastCluster + 1)  BY <1>2, <1>3 DEF Sound
<1>7. 0 \in Sizes
  <2>1. clusterCount * ClusterLen \in Nat
    <3>1. \A u, v \in Nat : u * v \in Nat  OBVIOUS
    <3> QED  BY <3>1, Lengths0
  <2> QED  BY <2>1 DEF Sizes
<1>8. /\ sd.f.size \in Sizes /\ sd.f.pos \in Sizes
      /\ sd.f.first \in Clusters \cup {0} /\ sd.f.cur \in Clusters \cup {0}
  <2>1. g \in Ghost /\ Volume(r, g) /\ Opened(r, g, r.f)  BY <1>2 DEF Sound
  <2>2. CASE r.f.open
    <3>1. r.f.name \in Name /\ r.f.first = FirstOf(g, r.f.name) /\ r.f.size = g.size[r.f.name]
          /\ r.f.pos \in 0..(ClusterLen * g.len[r.f.name]) /\ r.f.cur \in Clusters \cup {0}
      BY <1>2, <2>1, <2>2 DEF Opened, Astray
    <3>2. g.size[r.f.name] \in Sizes /\ 0..(ClusterLen * g.len[r.f.name]) \subseteq Sizes
      BY <2>1, <3>1, SizesKept
    <3>3. FirstOf(g, r.f.name) \in Clusters \cup {0}  BY <2>1, <3>1, GhostTypes
    <3> QED  BY <1>3, <3>1, <3>2, <3>3
  <2>3. CASE ~r.f.open
    <3>1. sd.f = Closed  BY <1>3, <2>1, <2>3 DEF Opened
    <3> QED  BY <1>7, <3>1 DEF Closed
  <2> QED  BY <2>2, <2>3
<1>9. durable \in [Name -> Sizes] /\ faults \in 0..MaxFaults /\ crashes \in 0..MaxCrashes
  BY SketchAssumption DEF SdInv
<1> QED  BY <1>4, <1>5, <1>6, <1>8, <1>9 DEF TypeOK

\* the second FAT,
LEMMA InvMirror ==
  ASSUME SdInv
  PROVE  MirrorAgrees
<1> DEFINE r == Ready(sd)
<1>1. PICK g : Settled(r, g, failed)  BY DEF SdInv
<1>2. Sane(r)  BY <1>1 DEF Settled
<1>3. sd.card = r.card  BY <1>2, ReadyFields
<1> HIDE DEF r
<1>4. fatCount = 2 => \A b \in FirstFat : sd.card[b + blocksPerFat] = sd.card[b]
  BY <1>2, <1>3 DEF Sane
<1>5. \A b \in FatBlock(0)..FatBlock(LastCluster) : b \in FirstFat
  <2>1. 0 \in 0..LastCluster /\ LastCluster \in 0..LastCluster  BY Lengths0
  <2>2. FatBlock(0) \in FirstFat /\ FatBlock(LastCluster) \in FirstFat  BY <2>1, FatBlocks
  <2>3. blocksPerFat \in Nat  BY Regions
  <2> QED  BY <2>2, <2>3 DEF FirstFat
<1>6. fatCount > 1 => fatCount = 2  BY GeometryAssumption
<1> QED  BY <1>4, <1>5, <1>6 DEF MirrorAgrees

\* What every file is, in the state between two calls.
Charted(g) ==
    /\ g \in Ghost /\ Disjoint(g) /\ Linked(sd, g) /\ Held(sd, g) /\ DirFormed(sd)
    /\ \A file \in Files : /\ file.name \in Name /\ file.size = g.size[file.name]
                           /\ file.first = FirstOf(g, file.name)
                           /\ ChainOf(file) = ChainStart(g.ch[file.name], g.len[file.name])

\* (the chains a ghost has are those the properties walk)
LEMMA InvCharted ==
  ASSUME SdInv
  PROVE  \E g : Charted(g)
<1> DEFINE r == Ready(sd)
<1>1. PICK g : Settled(r, g, failed)  BY DEF SdInv
<1>2. Sane(r) /\ Sound(r, g, Closed)  BY <1>1 DEF Settled
<1>3. r.f = sd.f /\ SameView(r, sd)  BY <1>2, ReadyFields
<1> HIDE DEF r
<1>4. g \in Ghost /\ Volume(sd, g)
  <2>1. g \in Ghost /\ Volume(r, g)  BY <1>2 DEF Sound
  <2> QED  BY <1>3, <2>1, VolumeSame
<1>5. Disjoint(g) /\ Linked(sd, g) /\ Held(sd, g) /\ DirFormed(sd)  BY <1>4 DEF Volume, Formed
<1>6. ASSUME NEW file \in Files
      PROVE  /\ file.name \in Name /\ file.size = g.size[file.name] /\ file.first = FirstOf(g, file.name)
             /\ ChainOf(file) = ChainStart(g.ch[file.name], g.len[file.name])
  <2>1. file.name \in Name /\ file.size = g.size[file.name] /\ file.first = FirstOf(g, file.name)
    BY <1>2, <1>3, FileKnown
  <2> QED  BY <1>4, <1>5, <2>1, ChainFound
<1> QED  BY <1>4, <1>5, <1>6 DEF Charted

\* the chains,
LEMMA InvChains ==
  ASSUME SdInv
  PROVE  ChainsSound
<1>1. PICK g : Charted(g)  BY InvCharted
<1>2. g \in Ghost /\ Disjoint(g) /\ Linked(sd, g) /\ Held(sd, g) /\ DirFormed(sd)  BY <1>1 DEF Charted
<1>3. \A c : Fat(c) = FatOf(sd, c)  BY DEF Fat, View, FatOf, ViewOf
<1>4. ASSUME NEW file \in Files
      PROVE  LET chain == ChainOf(file)
             IN  /\ IF chain = <<>> THEN file.first = 0 ELSE isEOC(Fat(Last(chain)))
                 /\ file.size <= ClusterLen * Len(chain)
  <2> DEFINE n == file.name
             ch == g.ch[n]
             m == g.len[n]
             chain == ChainOf(file)
  <2>1. n \in Name /\ file.size = g.size[n] /\ file.first = FirstOf(g, n) /\ chain = ChainStart(ch, m)
    BY <1>1 DEF Charted
  <2>2. ch \in [Nat -> Clusters] /\ m \in Nat  BY <1>2, <2>1, GhostTypes
  <2>3. file.size <= ClusterLen * m  BY <1>2, <2>1 DEF Held
  <2>4. \A i \in 0..(m - 1) : FatOf(sd, ch[i]) = IF i + 1 < m THEN ch[i + 1] ELSE EOC
    BY <1>2, <2>1 DEF Linked
  <2>5. m = 0 => file.first = 0  BY <2>1 DEF FirstOf
  <2> HIDE DEF ch, m, chain, n
  <2>6. Len(chain) = m /\ (m > 0 => Last(chain) = ch[m - 1])  BY <2>1, <2>2, ChainStarts
  <2>7. IF chain = <<>> THEN file.first = 0 ELSE isEOC(Fat(Last(chain)))
    <3>1. CASE m = 0
      <4>1. chain = <<>>  BY <2>1, <3>1 DEF ChainStart
      <4> QED  BY <2>5, <3>1, <4>1
    <3>2. CASE m # 0
      <4>1. m - 1 \in 0..(m - 1) /\ ~((m - 1) + 1 < m) /\ m > 0  BY <2>2, <3>2
      <4>2. FatOf(sd, ch[m - 1]) = EOC  BY <2>4, <4>1
      <4>3. chain # <<>>  BY <2>6, <3>2
      <4> QED  BY <1>3, <2>6, <4>1, <4>2, <4>3 DEF isEOC
    <3> QED  BY <3>1, <3>2
  <2>8. file.size <= ClusterLen * Len(chain)  BY <2>3, <2>6
  <2> QED  BY <2>7, <2>8 DEF chain
<1>5. ASSUME NEW a \in Files, NEW b \in Files, a # b
      PROVE  ToSet(ChainOf(a)) \cap ToSet(ChainOf(b)) = {}
  <2> DEFINE x == ChainOf(a)
             y == ChainOf(b)
             k == a.name
             n == b.name
  <2>1. k \in Name /\ x = ChainStart(g.ch[k], g.len[k])
    BY <1>1 DEF Charted
  <2>2. n \in Name /\ y = ChainStart(g.ch[n], g.len[n])
    BY <1>1 DEF Charted
  <2>3. k # n  BY <1>2, <1>5, <2>1, NamesApart
  <2> HIDE DEF k, n, x, y
  <2>4. g.ch[k] \in [Nat -> Clusters] /\ g.len[k] \in Nat /\ g.ch[n] \in [Nat -> Clusters] /\ g.len[n] \in Nat
    BY <1>2, <2>1, <2>2, GhostTypes
  <2>5. Len(x) = g.len[k] /\ Len(y) = g.len[n]  BY <2>1, <2>2, <2>4, ChainStarts
  <2> SUFFICES ASSUME NEW c \in ToSet(x), c \in ToSet(y) PROVE FALSE  BY DEF x, y
  <2>6. PICK i \in 1..g.len[k] : c = g.ch[k][i - 1]
    <3>1. DOMAIN x = 1..g.len[k]  BY <2>1 DEF ChainStart
    <3>2. PICK i \in DOMAIN x : c = x[i]  BY DEF ToSet
    <3> QED  BY <2>1, <3>1, <3>2 DEF ChainStart
  <2>7. PICK j \in 1..g.len[n] : c = g.ch[n][j - 1]
    <3>1. DOMAIN y = 1..g.len[n]  BY <2>2 DEF ChainStart
    <3>2. PICK j \in DOMAIN y : c = y[j]  BY DEF ToSet
    <3> QED  BY <2>2, <3>1, <3>2 DEF ChainStart
  <2>8. i - 1 \in 0..(g.len[k] - 1) /\ j - 1 \in 0..(g.len[n] - 1)  BY <2>4
  <2> DEFINE u == i - 1
             v == j - 1
  <2>9. u \in 0..(g.len[k] - 1) /\ v \in 0..(g.len[n] - 1) /\ g.ch[k][u] = g.ch[n][v]
    BY <2>6, <2>7, <2>8
  <2> HIDE DEF u, v
  <2>10. k = n  BY <1>2, <2>1, <2>2, <2>9 DEF Disjoint
  <2> QED  BY <2>3, <2>10
<1> QED  BY <1>4, <1>5, Zenon DEF ChainsSound

\* and the contents.
LEMMA InvContents ==
  ASSUME SdInv
  PROVE  ContentsKept
<1>1. PICK g : Charted(g)  BY InvCharted
<1>2. g \in Ghost /\ Held(sd, g)  BY <1>1 DEF Charted
<1>3. \A b : View(b) = ViewOf(sd, b)  BY DEF View, ViewOf
<1>4. ASSUME NEW file \in Files, NEW p \in 0..(file.size - 1)
      PROVE  /\ p < ClusterLen * Len(ChainOf(file))
             /\ CellAt(View, ChainOf(file), p) = <<file.name, p>>
  <2> DEFINE n == file.name
             ch == g.ch[n]
             m == g.len[n]
             chain == ChainOf(file)
             z == g.size[n]
             M == ClusterLen * m
             i == p \div ClusterLen
  <2>1. n \in Name /\ file.size = z /\ chain = ChainStart(ch, m)  BY <1>1 DEF Charted
  <2>2. ch \in [Nat -> Clusters] /\ m \in Nat /\ z \in Nat /\ M \in Nat  BY <1>2, <2>1, GhostTypes
  <2>3. z <= M /\ \A q \in 0..(z - 1) : CellOf(sd, g, n, q) = <<n, q>>  BY <1>2, <2>1 DEF Held
  <2>4. p \in Nat /\ p \in 0..(z - 1) /\ p < M
    <3>1. p \in 0..(z - 1)  BY <2>1
    <3> HIDE DEF z, M
    <3> QED  BY <2>2, <2>3, <3>1
  <2>5. i \in Nat /\ i < m  BY <2>2, <2>4, ClusterOf, Position
  <2>6. CellOf(sd, g, n, p) = <<n, p>>  BY <2>3, <2>4
  <2> HIDE DEF m, chain, z, M, i
  <2>7. Len(chain) = m  BY <2>1, <2>2, ChainStarts
  <2>8. chain[i + 1] = ch[i]
    <3>1. i + 1 \in 1..m /\ (i + 1) - 1 = i  BY <2>2, <2>5
    <3> QED  BY <2>1, <3>1 DEF ChainStart
  <2>9. CellAt(View, chain, p) = ViewOf(sd, BlockAt(g, n, p))[(p % BlockLen) + 1]
    BY <1>3, <2>8 DEF CellAt, BlockAt, i
  <2>10. CellAt(View, chain, p) = <<n, p>>  BY <2>6, <2>9 DEF CellOf
  <2> QED  BY <2>4, <2>7, <2>10 DEF chain, M
<1> QED  BY <1>4 DEF ContentsKept
-----------------------------------------------------------------------------
(***** the steps *****)

\* The card never fails, the power stays, and the sketch gives a file up once a
\* call on it has failed.
Clean == MaxFaults = 0 /\ MaxCrashes = 0 /\ ~Retries

\* A state a call ends in, at rest.
LEMMA SettlesIn ==
  ASSUME NEW t, Sane(t), NEW h, Sound(t, h, Closed), NEW fail,
         t.f.open => Astray(h, t.f) /\ (~fail => At(h, t.f) /\ t.f.pos <= t.f.size)
  PROVE  Settled(Ready(Rested(t)), h, fail)
<1> DEFINE r == Ready(Rested(t))
<1>1. AsReady(t, r)  BY RestedReady
<1> HIDE DEF r
<1>2. Sound(r, h, Closed)  BY <1>1, SoundSame DEF AsReady
<1>3. Settled(r, h, fail)  BY <1>1, <1>2 DEF Settled, AsReady
<1> QED  BY <1>3 DEF r

\* What a read has got is what precedes the position.
Answers(t) == t.got = <<>> \/ \E p \in Nat : /\ t.f.pos \in Nat /\ p <= t.f.pos
                                             /\ t.got = Run(t.f.name, p, t.f.pos - p)

\* A run is as long as it says.
LEMMA RunLength ==
  ASSUME NEW n, NEW p \in Nat, NEW m \in Nat
  PROVE  Len(Run(n, p, m)) = m /\ \A i \in 1..m : Run(n, p, m)[i] = <<n, p + i - 1>>
BY DEF Run

\* A call that ends in a settled state with the right answers keeps the invariant.
LEMMA EndsWell ==
  ASSUME SdInv, NEW op, NEW t, Ends(op, t), Sane(t), t.err # "io",
         \E g : Settled(Ready(Rested(t)), g, failed'), durable' \in [Name -> Sizes],
         t.err = "full" => \A c \in Clusters : FatOf(t, c) # 0,
         ~failed' => Answers(t)
  PROVE  SdInv'
<1>1. /\ sd' = Rested(t)
      /\ ret' = [op |-> IF Ok(t) THEN "none" ELSE op, err |-> t.err, got |-> t.got]
      /\ faults' = faults /\ crashes' = crashes
  BY DEF Ends, Rested
<1>2. /\ sd'.block = t.block /\ sd'.data = t.data /\ sd'.card = t.card /\ sd'.f = t.f
      /\ sd'.err = "none" /\ sd'.got = <<>>
  BY <1>1, RestedFields DEF Sane
<1>3. \E g : Settled(Ready(sd'), g, failed')  BY <1>1
<1>4. ret'.err = t.err /\ ret'.got = t.got  BY <1>1
<1>5. FullMeansFull'
  <2>1. \A c \in Clusters : Fat(c)' = FatOf(t, c)  BY <1>2 DEF Fat, View, FatOf, ViewOf
  <2> QED  BY <1>4, <2>1 DEF FullMeansFull
<1>6. ReadsRight'
  <2> DEFINE got == t.got
  <2> SUFFICES ASSUME ~failed', NEW i \in 1..Len(got)
               PROVE  got[i] = <<t.f.name, t.f.pos - Len(got) + i - 1>>
    BY <1>2, <1>4 DEF ReadsRight
  <2>1. CASE got = <<>>
    <3>1. Len(got) = 0  BY <2>1
    <3> QED  BY <3>1
  <2>2. CASE got # <<>>
    <3>1. PICK p \in Nat : t.f.pos \in Nat /\ p <= t.f.pos /\ got = Run(t.f.name, p, t.f.pos - p)
      BY <2>2 DEF Answers
    <3> DEFINE q == t.f.pos
               m == q - p
    <3>2. q \in Nat /\ m \in Nat /\ got = Run(t.f.name, p, m)  BY <3>1
    <3> HIDE DEF got, q
    <3>3. Len(got) = m /\ \A j \in 1..m : got[j] = <<t.f.name, p + j - 1>>
      <4> HIDE DEF m
      <4> QED  BY <3>2, RunLength
    <3>4. p + i - 1 = q - Len(got) + i - 1  BY <3>2, <3>3
    <3> QED  BY <3>3, <3>4 DEF q
  <2> QED  BY <2>1, <2>2
<1> QED  BY <1>1, <1>2, <1>3, <1>5, <1>6 DEF SdInv

\* A call starts from what the last one has left.
LEMMA Starting ==
  ASSUME SdInv, Clean, NEW s \in Calls
  PROVE  /\ s = Ready(sd) /\ s.f = sd.f /\ Ok(s) /\ s.got = <<>>
         /\ \E g : Settled(s, g, failed)
<1>1. s = Ready(sd)
  <2>1. ~(faults < MaxFaults)  BY DEF SdInv, Clean
  <2>2. s \in {[sd EXCEPT !.left = Plenty]}  BY <2>1 DEF Calls
  <2> QED  BY <2>2 DEF Ready
<1>2. PICK g : Settled(Ready(sd), g, failed)  BY DEF SdInv
<1>3. Sane(Ready(sd))  BY <1>2 DEF Settled
<1>4. s.f = sd.f /\ s.err = sd.err /\ s.got = sd.got
  <2> DEFINE r == Ready(sd)
  <2>1. sd.f = r.f /\ sd.err = r.err /\ sd.got = r.got  BY <1>3, ReadyFields
  <2> HIDE DEF r
  <2> QED  BY <1>1, <2>1 DEF r
<1> QED  BY <1>1, <1>2, <1>4 DEF SdInv, Ok

\* A call on an open file that is in order.
LEMMA StartingUse ==
  ASSUME SdInv, Clean, Usable, NEW s \in Calls
  PROVE  /\ s.f = sd.f /\ Ok(s) /\ s.got = <<>> /\ s.f.open /\ Sane(s) /\ ~failed /\ sd.f.name \in Name
         /\ \E g : Sound(s, g, Closed) /\ At(g, s.f) /\ s.f.pos <= s.f.size
<1>1. s.f = sd.f /\ Ok(s) /\ s.got = <<>> /\ \E g : Settled(s, g, failed)  BY Starting
<1>2. sd.f.open /\ ~failed  BY DEF Usable, Clean
<1>3. PICK g : Settled(s, g, failed)  BY <1>1
<1>4. Sane(s) /\ Sound(s, g, Closed) /\ At(g, s.f) /\ s.f.pos <= s.f.size  BY <1>1, <1>2, <1>3 DEF Settled
<1>5. sd.f.name \in Name  BY <1>1, <1>2, <1>4 DEF Sound, Opened
<1> QED  BY <1>1, <1>2, <1>4, <1>5

\* A size is in the bounds of the model.
LEMMA ResultSize ==
  ASSUME NEW s, NEW t, NEW g, s.f.open, Result(s, t, g, Closed)
  PROVE  t.f.size \in Sizes
<1>1. t.f.open  BY DEF Result, SameOpen
<1>2. PICK h : Sound(t, h, Closed)  BY DEF Result
<1>3. h \in Ghost /\ Volume(t, h) /\ t.f.name \in Name /\ t.f.size = h.size[t.f.name]
  BY <1>1, <1>2 DEF Sound, Opened
<1> QED  BY <1>3, SizesKept

\* What is durable stays a size.
LEMMA Sized0 ==
  ASSUME durable \in [Name -> Sizes], NEW n \in Name, NEW z \in Sizes
  PROVE  [durable EXCEPT ![n] = z] \in [Name -> Sizes]
OBVIOUS

\* Sizes are downward closed.
LEMMA SizesNat == 0 \in Sizes /\ Sizes \subseteq Nat /\ \A z \in Sizes, k \in Nat : k <= z => k \in Sizes
<1> DEFINE M == clusterCount * ClusterLen
<1>1. M \in Nat
  <2>1. \A u, v \in Nat : u * v \in Nat  OBVIOUS
  <2> QED  BY <2>1, Lengths0
<1>2. Sizes = 0..M  BY DEF Sizes
<1> HIDE DEF M
<1> QED  BY <1>1, <1>2

\* A formatted card.
LEMMA InitSd ==
  ASSUME Init
  PROVE  SdInv
<1> DEFINE r == Ready(sd)
           g == [ch |-> [n \in Name |-> [i \in Nat |-> 2]], len |-> [n \in Name |-> 0], size |-> [n \in Name |-> 0]]
<1>1. /\ Shape(r) /\ r.card = Formatted /\ r.block = NoBlock /\ r.dirty = FALSE /\ r.mirror = 0
      /\ r.start = 2 /\ r.f = Closed /\ r.left = -1
  BY DEF Init, Started, Ready, Plenty, Shape, Formatted, Closed
<1> HIDE DEF r
<1>2. ASSUME NEW b \in Blocks
      PROVE  Formatted[b] = IF b < rootDirStart
                            THEN [e \in 0..(EntriesPerBlock - 1) |->
                                     IF b \in {FatBlock(0), FatBlock(0) + blocksPerFat} /\ e < 2 THEN EOC ELSE 0]
                            ELSE IF b = rootDirStart
                            THEN [i \in 1..Slots |-> [name |-> NoName, first |-> 0, size |-> 0]]
                            ELSE [i \in 1..BlockLen |-> Junk]
  BY DEF Formatted
<1>3. FatBlock(0) = 1
  <2>1. 0 \div EntriesPerBlock = 0  BY GeometryAssumption
  <2> QED  BY <2>1 DEF FatBlock, fatStartBlock
<1>4. Sane(r)
  <2>1. ASSUME fatCount = 2, NEW b \in FirstFat PROVE Formatted[b + blocksPerFat] = Formatted[b]
    <3>1. /\ b \in Nat /\ b >= 1 /\ b <= blocksPerFat /\ blocksPerFat \in Nat /\ rootDirStart = 2 * blocksPerFat + 1
          /\ b \in Blocks /\ b + blocksPerFat \in Blocks
      BY <2>1, Regions DEF FirstFat, SecondFat, Known
    <3>2. b < rootDirStart /\ b + blocksPerFat < rootDirStart /\ (b \in {1, 1 + blocksPerFat} <=> b + blocksPerFat \in {1, 1 + blocksPerFat})
      BY <3>1
    <3> DEFINE d == b + blocksPerFat
    <3>3. d \in Blocks /\ d < rootDirStart /\ (b \in {1, 1 + blocksPerFat} <=> d \in {1, 1 + blocksPerFat})  BY <3>1, <3>2
    <3> HIDE DEF d
    <3>4. Formatted[d] = Formatted[b]  BY <1>2, <1>3, <3>1, <3>2, <3>3
    <3> QED  BY <3>4 DEF d
  <2>2. fatCount = 2 => \A b \in FirstFat : r.card[b + blocksPerFat] = r.card[b]  BY <1>1, <2>1
  <2>3. r.dirty \in BOOLEAN /\ r.left \in Int /\ r.left < 0 /\ r.block \in Known \cup {NoBlock}
    <3>1. r.left = -1 /\ r.dirty = FALSE /\ r.block = NoBlock  BY <1>1
    <3>2. r.left \in Int /\ r.left < 0  BY <3>1
    <3>3. r.dirty \in BOOLEAN  BY <3>1
    <3>4. r.block \in Known \cup {NoBlock}  BY <3>1
    <3> QED  BY <3>2, <3>3, <3>4
  <2>4. r.mirror = IF r.dirty /\ fatCount = 2 /\ r.block \in FirstFat THEN r.block + blocksPerFat ELSE 0
    BY <1>1
  <2>5. ~r.dirty /\ r.block # NoBlock => r.data = r.card[r.block]  BY <1>1
  <2> QED  BY <1>1, <2>2, <2>3, <2>4, <2>5 DEF Sane
<1>5. \A b \in Known : ViewOf(r, b) = Formatted[b]  BY <1>1, Regions DEF ViewOf
<1>6. Formed(r)
  <2>1. FatFormed(r)
    <3> SUFFICES ASSUME NEW b \in FirstFat PROVE DOMAIN ViewOf(r, b) = 0..(EntriesPerBlock - 1)  BY DEF FatFormed
    <3>1. b \in Known /\ b \in Blocks /\ b < rootDirStart  BY Regions DEF Known, FirstFat
    <3> QED  BY <1>2, <1>5, <3>1
  <2>2. DataFormed(r)
    <3> SUFFICES ASSUME NEW b \in Data PROVE ViewOf(r, b) \in [1..BlockLen -> Cell]  BY DEF DataFormed
    <3>1. b \in Known /\ b \in Blocks  BY Regions DEF Known
    <3>2. ~(b < rootDirStart) /\ b # rootDirStart  BY Regions DEF Data
    <3>3. Junk \in Cell  BY DEF Cell
    <3> QED  BY <1>2, <1>5, <3>1, <3>2, <3>3
  <2>3. rootDirStart \in Known /\ rootDirStart \in Blocks /\ ~(rootDirStart < rootDirStart)  BY Regions DEF Known
  <2>4. DirOf(r) = [i \in 1..Slots |-> [name |-> NoName, first |-> 0, size |-> 0]]
    BY <1>2, <1>5, <2>3 DEF DirOf
  <2>5. DirFormed(r)  BY <2>4 DEF DirFormed
  <2> QED  BY <2>1, <2>2, <2>5 DEF Formed
<1>7. \A i \in 1..Slots : DirOf(r)[i].name = NoName
  <2>1. rootDirStart \in Known /\ rootDirStart \in Blocks /\ ~(rootDirStart < rootDirStart)  BY Regions DEF Known
  <2>2. DirOf(r) = [i \in 1..Slots |-> [name |-> NoName, first |-> 0, size |-> 0]]
    BY <1>2, <1>5, <2>1 DEF DirOf
  <2> QED  BY <2>2
<1>8. g \in Ghost
  <2>1. 2 \in Clusters  BY Lengths0 DEF Clusters
  <2> QED  BY <2>1 DEF Ghost
<1>9. \A n \in Name : g.len[n] = 0 /\ g.size[n] = 0  OBVIOUS
<1> HIDE DEF g
<1>10. Volume(r, g)
  <2>1. \A n \in Name : g.size[n] <= ClusterLen * g.len[n] /\ 0..(g.size[n] - 1) = {} /\ 0..(g.len[n] - 1) = {}
    <3>1. ClusterLen * 0 = 0  BY Lengths0
    <3>2. 0..(0 - 1) = {}  OBVIOUS
    <3> QED  BY <1>9, <3>1, <3>2
  <2> QED  BY <1>6, <2>1 DEF Volume, Disjoint, Linked, Held
<1>11. Listed(r, g, {Closed.name, Closed.name})  BY <1>7, <1>9, NameAssumption DEF Listed
<1>12. Opened(r, g, Closed) /\ ~Closed.open  BY DEF Opened, Closed
<1>13. Sound(r, g, Closed)
  <2>1. 2 \in 2..(LastCluster + 1)  BY Lengths0
  <2> QED  BY <1>1, <1>8, <1>10, <1>11, <1>12, <2>1 DEF Sound
<1>14. Settled(r, g, failed)  BY <1>1, <1>4, <1>12, <1>13 DEF Settled
<1>15. \E h : Settled(Ready(sd), h, failed)  BY <1>14 DEF r
<1>16. sd.err = "none" /\ sd.got = <<>> /\ faults = 0 /\ crashes = 0  BY DEF Init, Started
<1>17. ret.err = "none" /\ ret.got = <<>>  BY DEF Init
<1>18. FullMeansFull  BY <1>17 DEF FullMeansFull
<1>19. ReadsRight
  <2>1. Len(ret.got) = 0  BY <1>17
  <2>2. 1..Len(ret.got) = {}  BY <2>1
  <2> QED  BY <2>2 DEF ReadsRight
<1>20. durable \in [Name -> Sizes]  BY SizesNat DEF Init
<1> QED  BY <1>15, <1>16, <1>18, <1>19, <1>20 DEF SdInv

\* Each operation keeps the invariant: SdFile::write(),
LEMMA WriteKeeps ==
  ASSUME SdInv, Clean, NEW k \in Amounts, Write(k)
  PROVE  SdInv'
<1>1. PICK s \in Calls :
        LET t == write(s, k)
        IN  /\ Ends("write", t) /\ Fails(t)
            /\ IF Ok(t) /\ t.f.sync THEN Keeps(t, t.f.size) ELSE UNCHANGED durable
  BY Zenon DEF Write
<1>2. /\ s.f = sd.f /\ Ok(s) /\ s.got = <<>> /\ s.f.open /\ Sane(s) /\ ~failed /\ sd.f.name \in Name
      /\ \E g : Sound(s, g, Closed) /\ At(g, s.f) /\ s.f.pos <= s.f.size
  BY StartingUse DEF Write
<1>3. PICK g : Sound(s, g, Closed) /\ At(g, s.f) /\ s.f.pos <= s.f.size  BY <1>2
<1> DEFINE t == write(s, k)
<1>4. k \in Nat  BY SketchAssumption
<1>5. /\ Result(s, t, g, Closed) /\ t.got = s.got
      /\ t.err \in {"none", "refused", "position", "address", "full"}
      /\ t.err = "full" => \A c \in Clusters : FatOf(t, c) # 0
  BY <1>2, <1>3, <1>4, WriteDone
<1>6. /\ Ends("write", t) /\ Fails(t)
      /\ IF Ok(t) /\ t.f.sync THEN Keeps(t, t.f.size) ELSE UNCHANGED durable
  BY <1>1
<1> HIDE DEF t
<1>7. Sane(t) /\ t.f.size \in Sizes  BY <1>2, <1>5, ResultSize DEF Result
<1>8. ~failed' => Ok(t)  BY <1>6 DEF Fails
<1>9. \E h : Settled(Ready(Rested(t)), h, failed')  BY <1>2, <1>5, <1>8, UseSettles
<1>10. durable' \in [Name -> Sizes]
  <2>1. durable \in [Name -> Sizes]  BY DEF SdInv
  <2>2. [durable EXCEPT ![sd.f.name] = t.f.size] \in [Name -> Sizes]  BY <1>2, <1>7, <2>1, Sized0
  <2> QED  BY <1>6, <2>1, <2>2 DEF Keeps
<1>11. Answers(t)  BY <1>2, <1>5 DEF Answers
<1>12. t.err # "io"  BY <1>5
<1> QED  BY <1>5, <1>6, <1>7, <1>9, <1>10, <1>11, <1>12, EndsWell

\* SdFile::read(),
LEMMA ReadKeeps ==
  ASSUME SdInv, Clean, NEW k \in Amounts, Read(k)
  PROVE  SdInv'
<1>1. PICK s \in Calls : LET t == read(s, k) IN Ends("read", t) /\ Fails(t)
  BY Zenon DEF Read
<1>2. /\ s.f = sd.f /\ Ok(s) /\ s.got = <<>> /\ s.f.open /\ Sane(s) /\ ~failed /\ sd.f.name \in Name
      /\ \E g : Sound(s, g, Closed) /\ At(g, s.f) /\ s.f.pos <= s.f.size
  BY StartingUse DEF Read
<1>3. PICK g : Sound(s, g, Closed) /\ At(g, s.f) /\ s.f.pos <= s.f.size  BY <1>2
<1> DEFINE t == read(s, k)
<1>4. k \in Nat  BY SketchAssumption
<1>5. /\ Result(s, t, g, Closed) /\ t.err \in {"none", "address"}
      /\ Ok(t) => /\ t.f.pos \in Nat /\ s.f.pos \in Nat /\ s.f.pos <= t.f.pos
                  /\ t.got = Run(s.f.name, s.f.pos, t.f.pos - s.f.pos)
  BY <1>2, <1>3, <1>4, ReadDone
<1>6. Ends("read", t) /\ Fails(t)  BY <1>1
<1> HIDE DEF t
<1>7. Sane(t) /\ t.f.name = s.f.name  BY <1>5 DEF Result, SameOpen
<1>8. ~failed' => Ok(t)  BY <1>6 DEF Fails
<1>9. \E h : Settled(Ready(Rested(t)), h, failed')  BY <1>2, <1>5, <1>8, UseSettles
<1>10. durable' \in [Name -> Sizes]  BY DEF SdInv, Read
<1>11. ~failed' => Answers(t)  BY <1>5, <1>7, <1>8 DEF Answers
<1>12. t.err # "io" /\ t.err # "full"  BY <1>5
<1> QED  BY <1>6, <1>7, <1>9, <1>10, <1>11, <1>12, EndsWell

\* SdFile::seekSet(),
LEMMA SeekKeeps ==
  ASSUME SdInv, Clean, NEW pos \in Seeks, Seek(pos)
  PROVE  SdInv'
<1>1. PICK s \in Calls : LET t == seekSet(s, pos) IN Ends("seek", t) /\ Fails(t)
  BY Zenon DEF Seek
<1>2. /\ s.f = sd.f /\ Ok(s) /\ s.got = <<>> /\ s.f.open /\ Sane(s) /\ ~failed /\ sd.f.name \in Name
      /\ \E g : Sound(s, g, Closed) /\ At(g, s.f) /\ s.f.pos <= s.f.size
  BY StartingUse DEF Seek
<1>3. PICK g : Sound(s, g, Closed) /\ At(g, s.f) /\ s.f.pos <= s.f.size  BY <1>2
<1> DEFINE t == seekSet(s, pos)
<1>4. pos \in Nat  BY SketchAssumption
<1>5. /\ Sane(t) /\ Moved(s, t) /\ Sound(t, g, Closed) /\ Astray(g, t.f)
      /\ Ok(t) => At(g, t.f) /\ t.f.pos = pos /\ pos <= s.f.size
      /\ ~Ok(t) => t.err \in {"position", "address"}
  BY <1>2, <1>3, <1>4, Sought
<1>6. Ends("seek", t) /\ Fails(t)  BY <1>1
<1> HIDE DEF t
<1>7. t.f.size = s.f.size /\ t.got = <<>>  BY <1>2, <1>5 DEF Moved, SameFile
<1>8. ~failed' => Ok(t)  BY <1>6 DEF Fails
<1>9. t.f.open => Astray(g, t.f) /\ (~failed' => At(g, t.f) /\ t.f.pos <= t.f.size)  BY <1>5, <1>7, <1>8
<1>10. Settled(Ready(Rested(t)), g, failed')  BY <1>5, <1>9, SettlesIn
<1>11. durable' \in [Name -> Sizes]  BY DEF SdInv, Seek
<1>12. Answers(t)  BY <1>7 DEF Answers
<1>13. t.err # "io" /\ t.err # "full"  BY <1>5 DEF Ok
<1> QED  BY <1>5, <1>6, <1>10, <1>11, <1>12, <1>13, EndsWell

\* SdFile::truncate(),
LEMMA TruncateKeeps ==
  ASSUME SdInv, Clean, NEW length \in Lengths, Truncate(length)
  PROVE  SdInv'
<1>1. PICK s \in Calls :
        LET t == truncate(s, length)
        IN  Ends("truncate", t) /\ Fails(t) /\ Keeps(t, Min({durable[sd.f.name], length}))
  BY Zenon DEF Truncate
<1>2. /\ s.f = sd.f /\ Ok(s) /\ s.got = <<>> /\ s.f.open /\ Sane(s) /\ ~failed /\ sd.f.name \in Name
      /\ \E g : Sound(s, g, Closed) /\ At(g, s.f) /\ s.f.pos <= s.f.size
  BY StartingUse DEF Truncate
<1>3. PICK g : Sound(s, g, Closed) /\ At(g, s.f) /\ s.f.pos <= s.f.size  BY <1>2
<1> DEFINE t == truncate(s, length)
           z == Min({durable[sd.f.name], length})
<1>4. length \in Nat  BY SketchAssumption
<1>5. /\ Result(s, t, g, Closed) /\ t.got = s.got
      /\ t.err \in {"none", "refused", "position", "address"}
  BY <1>2, <1>3, <1>4, Truncated
<1>6. Ends("truncate", t) /\ Fails(t) /\ Keeps(t, z)  BY <1>1
<1> HIDE DEF t
<1>7. Sane(t)  BY <1>5 DEF Result
<1>8. ~failed' => Ok(t)  BY <1>6 DEF Fails
<1>9. \E h : Settled(Ready(Rested(t)), h, failed')  BY <1>2, <1>5, <1>8, UseSettles
<1>10. durable' \in [Name -> Sizes]
  <2>1. durable \in [Name -> Sizes]  BY DEF SdInv
  <2>2. z \in Sizes
    <3> DEFINE d == durable[sd.f.name]
    <3>1. d \in Sizes /\ d \in Nat  BY <1>2, <2>1, SizesNat
    <3> HIDE DEF d
    <3>2. Min({d, length}) = IF d <= length THEN d ELSE length  BY <1>4, <3>1, MinOfTwo
    <3>3. ~(d <= length) => length <= d  BY <1>4, <3>1
    <3>4. Min({d, length}) \in Sizes  BY <1>4, <3>1, <3>2, <3>3, SizesNat
    <3> QED  BY <3>4 DEF d
  <2> HIDE DEF z
  <2>3. [durable EXCEPT ![sd.f.name] = z] \in [Name -> Sizes]  BY <1>2, <2>1, <2>2, Sized0
  <2> QED  BY <1>6, <2>3 DEF Keeps
<1>11. Answers(t)  BY <1>2, <1>5 DEF Answers
<1>12. t.err # "io" /\ t.err # "full"  BY <1>5
<1> QED  BY <1>6, <1>7, <1>9, <1>10, <1>11, <1>12, EndsWell

\* A sync of the open file is settled, and its size is one.
LEMMA StartingSync ==
  ASSUME SdInv, Clean, sd.f.open, NEW s \in Calls
  PROVE  LET t == sync(s)
         IN  /\ Sane(t) /\ t.err \in {"none", "address"} /\ t.got = <<>> /\ t.f.size \in Sizes /\ sd.f.name \in Name
             /\ (Ok(t) => ~t.f.dirty) /\ t.f.open
             /\ \E g : Settled(Ready(Rested(t)), g, failed) /\ Sound(t, g, Closed)
<1> DEFINE t == sync(s)
<1>1. s.f = sd.f /\ Ok(s) /\ s.got = <<>> /\ \E g : Settled(s, g, failed)  BY Starting
<1>2. PICK g : Settled(s, g, failed)  BY <1>1
<1>3. /\ Settled(Ready(Rested(t)), g, failed) /\ t.err \in {"none", "address"} /\ t.got = s.got
      /\ Sane(t) /\ t.f.size = s.f.size
      /\ Sound(t, g, Closed) /\ (Ok(t) => ~t.f.dirty) /\ t.f.open /\ t.f.name = s.f.name
  BY <1>1, <1>2, SyncSettles
<1> HIDE DEF t
<1>4. t.f.name \in Name /\ t.f.size = g.size[t.f.name] /\ g \in Ghost /\ Volume(t, g)
  BY <1>3 DEF Sound, Opened
<1>5. t.f.size \in Sizes  BY <1>4, SizesKept
<1> QED  BY <1>1, <1>3, <1>4, <1>5 DEF t

\* SdFile::sync(),
LEMMA SyncKeeps ==
  ASSUME SdInv, Clean, Sync
  PROVE  SdInv'
<1>1. PICK s \in Calls :
        LET t == sync(s)
        IN  /\ Ends("sync", t) /\ Fails(t)
            /\ IF Ok(t) THEN Keeps(t, t.f.size) ELSE UNCHANGED durable
  BY Zenon DEF Sync
<1>2. sd.f.open  BY DEF Sync
<1> DEFINE t == sync(s)
<1>3. /\ Sane(t) /\ t.err \in {"none", "address"} /\ t.got = <<>> /\ t.f.size \in Sizes /\ sd.f.name \in Name
      /\ \E g : Settled(Ready(Rested(t)), g, failed) /\ Sound(t, g, Closed)
  BY <1>2, StartingSync
<1>4. /\ Ends("sync", t) /\ Fails(t)
      /\ IF Ok(t) THEN Keeps(t, t.f.size) ELSE UNCHANGED durable
  BY <1>1
<1> HIDE DEF t
<1>5. PICK g : Settled(Ready(Rested(t)), g, failed)  BY <1>3
<1>6. Settled(Ready(Rested(t)), g, failed')
  <2> DEFINE r == Ready(Rested(t))
  <2>1. Settled(r, g, failed) /\ (~failed' => ~failed)  BY <1>4, <1>5 DEF Fails
  <2> HIDE DEF r
  <2>2. Settled(r, g, failed')  BY <2>1 DEF Settled
  <2> QED  BY <2>2 DEF r
<1>7. durable' \in [Name -> Sizes]
  <2>1. durable \in [Name -> Sizes]  BY DEF SdInv
  <2>2. [durable EXCEPT ![sd.f.name] = t.f.size] \in [Name -> Sizes]  BY <1>3, <2>1, Sized0
  <2> QED  BY <1>4, <2>1, <2>2 DEF Keeps
<1>8. Answers(t)  BY <1>3 DEF Answers
<1>9. t.err # "io" /\ t.err # "full"  BY <1>3
<1> QED  BY <1>3, <1>4, <1>6, <1>7, <1>8, <1>9, EndsWell

\* SdFile::close(),
LEMMA CloseKeeps ==
  ASSUME SdInv, Clean, Close
  PROVE  SdInv'
<1>1. PICK s \in Calls :
        LET t == sync(s)
        IN  /\ Ends("close", IF Ok(t) THEN [t EXCEPT !.f = Closed] ELSE t)
            /\ failed' = ~Ok(t)
            /\ IF Ok(t) THEN Keeps(t, t.f.size) ELSE UNCHANGED durable
  BY Zenon DEF Close
<1>2. sd.f.open  BY DEF Close
<1> DEFINE t == sync(s)
           u == WithFile(t, Closed)
<1>3. /\ Sane(t) /\ t.err \in {"none", "address"} /\ t.got = <<>> /\ t.f.size \in Sizes /\ sd.f.name \in Name
      /\ (Ok(t) => ~t.f.dirty) /\ t.f.open
      /\ \E g : Settled(Ready(Rested(t)), g, failed) /\ Sound(t, g, Closed)
  BY <1>2, StartingSync
<1>4. /\ Ends("close", IF Ok(t) THEN u ELSE t)
      /\ failed' = ~Ok(t)
      /\ IF Ok(t) THEN Keeps(t, t.f.size) ELSE UNCHANGED durable
  BY <1>1 DEF WithFile
<1> HIDE DEF t
<1>5. PICK g : Settled(Ready(Rested(t)), g, failed) /\ Sound(t, g, Closed)  BY <1>3
<1>6. durable' \in [Name -> Sizes]
  <2>1. durable \in [Name -> Sizes]  BY DEF SdInv
  <2>2. [durable EXCEPT ![sd.f.name] = t.f.size] \in [Name -> Sizes]  BY <1>3, <2>1, Sized0
  <2> QED  BY <1>4, <2>1, <2>2 DEF Keeps
<1>7. CASE Ok(t)
  <2>1. Sane(u) /\ SameView(t, u) /\ u.f = Closed /\ u.start = t.start /\ u.err = t.err /\ u.got = t.got
    BY <1>3, FileSet
  <2> HIDE DEF u
  <2>2. Sound(u, g, Closed)  BY <1>3, <1>5, <1>7, <2>1, ClosedSound
  <2>3. ~u.f.open  BY <2>1 DEF Closed
  <2>4. Settled(Ready(Rested(u)), g, failed')  BY <2>1, <2>2, <2>3, SettlesIn
  <2>5. Answers(u)  BY <1>3, <2>1 DEF Answers
  <2>6. u.err # "io" /\ u.err # "full" /\ Ends("close", u)  BY <1>3, <1>4, <1>7, <2>1
  <2> QED  BY <1>6, <2>1, <2>4, <2>5, <2>6, EndsWell
<1>8. CASE ~Ok(t)
  <2>1. Settled(Ready(Rested(t)), g, failed')
    <3> DEFINE r == Ready(Rested(t))
    <3>1. Settled(r, g, failed) /\ failed'  BY <1>4, <1>5, <1>8
    <3> HIDE DEF r
    <3>2. Settled(r, g, failed')  BY <3>1 DEF Settled
    <3> QED  BY <3>2 DEF r
  <2>2. Answers(t)  BY <1>3 DEF Answers
  <2>3. t.err # "io" /\ t.err # "full" /\ Ends("close", t)  BY <1>3, <1>4, <1>8
  <2> QED  BY <1>3, <1>6, <2>1, <2>2, <2>3, EndsWell
<1> QED  BY <1>7, <1>8

\* A call that opens a file, or has to do with one that is not open.
LEMMA OpenKeeps ==
  ASSUME SdInv, Clean, NEW name \in Name, NEW mode \in Modes, Open(name, mode)
  PROVE  SdInv'
<1>1. PICK s \in Calls :
        LET t == Then(open(s, name, mode), LAMBDA u :
                      IF IsFileWrite(mode) THEN seekSet(u, u.f.size) ELSE u)
        IN  /\ Ends("open", t)
            /\ failed' = ~Ok(t)
            /\ durable' = IF mode.trunc THEN [durable EXCEPT ![name] = 0] ELSE durable
  BY Zenon DEF Open
<1>2. s.f = sd.f /\ Ok(s) /\ s.got = <<>> /\ \E g : Settled(s, g, failed)  BY Starting
<1>3. PICK g : Settled(s, g, failed)  BY <1>2
<1>4. Sane(s) /\ Sound(s, g, Closed) /\ ~s.f.open  BY <1>2, <1>3 DEF Settled, Open
<1> DEFINE a == open(s, name, mode)
           u == seekSet(a, a.f.size)
           t == IF Ok(a) THEN IF IsFileWrite(mode) THEN u ELSE a ELSE a
<1>5. Ends("open", t) /\ failed' = ~Ok(t) /\ durable' = IF mode.trunc THEN [durable EXCEPT ![name] = 0] ELSE durable
  BY <1>1, Zenon DEF Then
<1>6. /\ a.got = s.got /\ a.err \in {"none", "refused", "position", "address"}
      /\ \/ OpenedAs(a, g, Closed, name)
         \/ Sane(a) /\ Sound(a, g, Closed) /\ ~Ok(a) /\ a.f = Closed
  <2>1. ~Closed.open  BY DEF Closed
  <2> QED  BY <1>2, <1>4, <2>1, OpenDone
<1> HIDE DEF a, u, t
<1>7. durable' \in [Name -> Sizes]
  <2>1. durable \in [Name -> Sizes]  BY DEF SdInv
  <2>2. [durable EXCEPT ![name] = 0] \in [Name -> Sizes]  BY <2>1, Sized0, SizesNat
  <2> QED  BY <1>5, <2>1, <2>2
<1>8. /\ Sane(t) /\ t.got = <<>> /\ t.err # "io" /\ t.err # "full"
      /\ \E h : Settled(Ready(Rested(t)), h, failed')
  <2>1. CASE ~Ok(a)
    <3>1. t = a /\ failed'  BY <1>5, <2>1 DEF t
    <3>2. CASE OpenedAs(a, g, Closed, name)
      <4>1. PICK h : Sound(a, h, Closed) /\ (a.f.open => Astray(h, a.f))  BY <3>2 DEF OpenedAs
      <4>2. Sane(a)  BY <3>2 DEF OpenedAs
      <4>3. Settled(Ready(Rested(a)), h, failed')  BY <3>1, <4>1, <4>2, SettlesIn
      <4> QED  BY <1>2, <1>6, <3>1, <4>2, <4>3
    <3>3. CASE Sane(a) /\ Sound(a, g, Closed) /\ a.f = Closed
      <4>1. ~a.f.open  BY <3>3 DEF Closed
      <4>2. Settled(Ready(Rested(a)), g, failed')  BY <3>3, <4>1, SettlesIn
      <4> QED  BY <1>2, <1>6, <3>1, <3>3, <4>2
    <3> QED  BY <1>6, <3>2, <3>3
  <2>2. CASE Ok(a)
    <3>1. PICK h : Sound(a, h, Closed) /\ a.f.open /\ At(h, a.f) /\ a.f.pos <= a.f.size /\ Astray(h, a.f)
      BY <1>6, <2>2 DEF OpenedAs
    <3>2. Sane(a)  BY <1>6
                   DEF OpenedAs
    <3>3. CASE ~IsFileWrite(mode)
      <4>1. t = a  BY <2>2, <3>3 DEF t
      <4>2. Settled(Ready(Rested(a)), h, failed')  BY <3>1, <3>2, SettlesIn
      <4> QED  BY <1>2, <1>6, <3>2, <4>1, <4>2
    <3>4. CASE IsFileWrite(mode)
      <4>1. t = u  BY <2>2, <3>4 DEF t
      <4>2. a.f.size \in Nat
        <5>1. h \in Ghost /\ a.f.name \in Name /\ a.f.size = h.size[a.f.name]  BY <3>1 DEF Sound, Opened
        <5> QED  BY <5>1, GhostTypes
      <4>3. /\ Sane(u) /\ Moved(a, u) /\ Sound(u, h, Closed) /\ Astray(h, u.f)
            /\ Ok(u) => At(h, u.f) /\ u.f.pos = a.f.size
            /\ ~Ok(u) => u.err \in {"position", "address"}
        BY <2>2, <3>1, <3>2, <4>2, Sought DEF u
      <4>4. u.f.size = a.f.size /\ u.got = <<>>  BY <1>2, <1>6, <4>3 DEF Moved, SameFile
      <4>5. ~failed' => Ok(u)  BY <1>5, <4>1
      <4>6. ~failed' => At(h, u.f) /\ u.f.pos <= u.f.size  BY <4>2, <4>3, <4>4, <4>5
      <4>7. Settled(Ready(Rested(u)), h, failed')  BY <4>3, <4>6, SettlesIn
      <4>8. u.err # "io" /\ u.err # "full"  BY <4>3 DEF Ok
      <4> QED  BY <4>1, <4>3, <4>4, <4>7, <4>8
    <3> QED  BY <3>3, <3>4
  <2> QED  BY <2>1, <2>2
<1>9. Answers(t)  BY <1>8 DEF Answers
<1> QED  BY <1>5, <1>7, <1>8, <1>9, EndsWell

\* A position is as right as it was, if only the other files have changed.
LEMMA SamePlace ==
  ASSUME NEW g, NEW h, NEW n, NEW f, f.name \in Name, f.name # n, Others(g, h, n)
  PROVE  (At(g, f) => At(h, f)) /\ (Astray(g, f) => Astray(h, f))
<1>1. h.ch[f.name] = g.ch[f.name] /\ h.len[f.name] = g.len[f.name]  BY DEF Others
<1> QED  BY <1>1 DEF At, Astray

\* and SdFile::remove() by name.
LEMMA RemoveKeeps ==
  ASSUME SdInv, Clean, NEW name \in Name, RemoveFile(name)
  PROVE  SdInv'
<1> DEFINE mode == [write |-> TRUE, creat |-> FALSE, sync |-> FALSE, append |-> FALSE, trunc |-> FALSE]
           f == sd.f
<1>1. /\ f.name # name /\ UNCHANGED failed
      /\ durable' = [durable EXCEPT ![name] = 0]
  BY DEF RemoveFile
<1>2. PICK s \in Calls :
        Ends("remove", [Then(open([s EXCEPT !.f = Closed], name, mode), remove) EXCEPT !.f = f])
  BY Zenon DEF RemoveFile
<1>3. s.f = f /\ Ok(s) /\ s.got = <<>> /\ \E g : Settled(s, g, failed)  BY Starting
<1>4. PICK g : Settled(s, g, failed)  BY <1>3
<1>5. Sane(s) /\ Sound(s, g, Closed)  BY <1>4 DEF Settled
<1>6. f.open => f.name \in Name /\ Astray(g, f) /\ (~failed => At(g, f) /\ f.pos <= f.size)
  BY <1>3, <1>4 DEF Settled, Sound, Opened
<1>7. DOMAIN f = DOMAIN Closed  BY <1>3, <1>5 DEF Sane, Shape, Closed
<1> DEFINE z == WithFile(s, Closed)
           a == open(z, name, mode)
           b == remove(a)
           t == IF Ok(a) THEN b ELSE a
           v == WithFile(t, f)
<1>8. Ends("remove", v)  BY <1>2, Zenon DEF Then, WithFile
<1>9. mode.write = TRUE /\ mode.trunc = FALSE  OBVIOUS
<1> HIDE DEF mode, f
<1>10. Sane(z) /\ SameView(s, z) /\ z.f = Closed /\ z.start = s.start /\ z.err = s.err /\ z.got = s.got
  BY <1>5, FileSet
<1> HIDE DEF z
<1>11. Sound(z, g, f) /\ Ok(z) /\ ~z.f.open
  <2>1. Sound(z, g, f)  BY <1>3, <1>5, <1>10, Swapped
  <2> QED  BY <1>3, <1>10, <2>1 DEF Ok, Closed
<1>12. /\ a.got = <<>> /\ a.err \in {"none", "refused", "position", "address"}
       /\ \/ OpenedAs(a, g, f, name) /\ a.f.write /\ Ok(a)
          \/ Sane(a) /\ Sound(a, g, f) /\ ~Ok(a) /\ a.f = Closed
  <2>1. /\ a.got = z.got /\ a.err \in {"none", "refused", "position", "address"}
        /\ \/ OpenedAs(a, g, f, name) /\ a.f.write = mode.write /\ (~mode.trunc => Ok(a))
           \/ Sane(a) /\ Sound(a, g, f) /\ ~Ok(a) /\ a.f = Closed
    <3> HIDE DEF a
    <3> QED  BY <1>1, <1>10, <1>11, OpenDone DEF a
  <2> HIDE DEF a
  <2> QED  BY <1>3, <1>9, <1>10, <2>1
<1> HIDE DEF a, b, t, v
<1>13. /\ Sane(t) /\ t.f = Closed /\ t.got = <<>> /\ t.err \in {"none", "refused", "position", "address"}
       /\ \E h : Sound(t, h, f) /\ Others(g, h, name)
  <2>1. CASE Ok(a)
    <3>1. OpenedAs(a, g, f, name) /\ a.f.write  BY <1>12, <2>1
    <3>2. PICK k : /\ Sound(a, k, f) /\ Others(g, k, name) /\ a.f.open /\ a.f.name = name
                   /\ At(k, a.f) /\ a.f.pos <= a.f.size
      BY <2>1, <3>1 DEF OpenedAs
    <3>3. Good(a)  BY <2>1, <3>1 DEF OpenedAs, Good
    <3>4. Good(b) /\ b.f = Closed /\ b.got = a.got /\ \E h : Sound(b, h, f) /\ Others(k, h, name)
      BY <3>1, <3>2, <3>3, RemoveDone DEF b
    <3>5. PICK h : Sound(b, h, f) /\ Others(k, h, name)  BY <3>4
    <3>6. Others(g, h, name)  BY <3>2, <3>5, OthersTrans
    <3>7. t = b /\ Sane(b) /\ b.err = "none"  BY <2>1, <3>4 DEF t, Good, Ok
    <3> QED  BY <1>12, <3>4, <3>5, <3>6, <3>7
  <2>2. CASE ~Ok(a)
    <3>1. t = a  BY <2>2 DEF t
    <3>2. Others(g, g, name)  BY DEF Others
    <3> QED  BY <1>12, <2>2, <3>1, <3>2
  <2> QED  BY <2>1, <2>2
<1>14. PICK h : Sound(t, h, f) /\ Others(g, h, name)  BY <1>13
<1>15. Sane(v) /\ SameView(t, v) /\ v.f = f /\ v.start = t.start /\ v.err = t.err /\ v.got = t.got
  BY <1>7, <1>13, FileSet DEF v
<1>16. Sound(v, h, Closed)  BY <1>13, <1>14, <1>15, Swapped
<1>17. v.f.open => Astray(h, v.f) /\ (~failed' => At(h, v.f) /\ v.f.pos <= v.f.size)
  BY <1>1, <1>6, <1>14, <1>15, SamePlace
<1>18. Settled(Ready(Rested(v)), h, failed')  BY <1>15, <1>16, <1>17, SettlesIn
<1>19. durable' \in [Name -> Sizes]
  <2>1. durable \in [Name -> Sizes]  BY DEF SdInv
  <2>2. [durable EXCEPT ![name] = 0] \in [Name -> Sizes]  BY <2>1, Sized0, SizesNat
  <2> QED  BY <1>1, <2>2
<1>20. Answers(v)  BY <1>13, <1>15 DEF Answers
<1>21. v.err # "io" /\ v.err # "full"  BY <1>13, <1>15
<1> QED  BY <1>8, <1>15, <1>18, <1>19, <1>20, <1>21, EndsWell

\* Doing nothing keeps it too,
LEMMA IdleKeeps ==
  ASSUME SdInv, UNCHANGED vars
  PROVE  SdInv'
<1>1. sd' = sd /\ ret' = ret /\ durable' = durable /\ failed' = failed /\ faults' = faults /\ crashes' = crashes
  BY DEF vars
<1>2. Ready(sd)' = Ready(sd)  BY <1>1 DEF Ready
<1>3. (\E g : Settled(Ready(sd), g, failed))'  BY <1>1, <1>2 DEF SdInv
<1>4. ReadsRight'  BY <1>1 DEF SdInv, ReadsRight
<1>5. FullMeansFull'  BY <1>1 DEF SdInv, FullMeansFull, Fat, View
<1> QED  BY <1>1, <1>3, <1>4, <1>5 DEF SdInv

\* and so does every step.
LEMMA NextKeeps ==
  ASSUME SdInv, Clean, [Next]_vars
  PROVE  SdInv'
<1>1. ASSUME NEW n \in Name, NEW mode \in Modes, Open(n, mode)  PROVE SdInv'  BY <1>1, OpenKeeps
<1>2. ASSUME NEW k \in Amounts, Write(k)  PROVE SdInv'  BY <1>2, WriteKeeps
<1>3. ASSUME NEW k \in Amounts, Read(k)  PROVE SdInv'  BY <1>3, ReadKeeps
<1>4. ASSUME NEW p \in Seeks, Seek(p)  PROVE SdInv'  BY <1>4, SeekKeeps
<1>5. ASSUME NEW p \in Lengths, Truncate(p)  PROVE SdInv'  BY <1>5, TruncateKeeps
<1>6. ASSUME Sync  PROVE SdInv'  BY <1>6, SyncKeeps
<1>7. ASSUME Close  PROVE SdInv'  BY <1>7, CloseKeeps
<1>8. ASSUME NEW n \in Name, RemoveFile(n)  PROVE SdInv'  BY <1>8, RemoveKeeps
<1>9. ~Crash  BY DEF Crash, Clean, SdInv
<1>10. ASSUME UNCHANGED vars  PROVE SdInv'  BY <1>10, IdleKeeps
<1> QED  BY <1>1, <1>2, <1>3, <1>4, <1>5, <1>6, <1>7, <1>8, <1>9, <1>10 DEF Next
-----------------------------------------------------------------------------
(***** the theorems *****)

\* The inductive invariant: while the card never fails, the files of the sketch are
\* always disjoint chains of the FAT that hold what was written to them.
THEOREM SdKept ==
  ASSUME Clean
  PROVE  Spec => []SdInv
<1>1. Init => SdInv  BY InitSd
<1>2. SdInv /\ [Next]_vars => SdInv'  BY Clean, NextKeeps
<1> QED  BY <1>1, <1>2, PTL DEF Spec

\* The cache, the allocation hint, the file's position, size and clusters stay in
\* their ranges: no call of SdFile.cpp reads or writes a block that is not there.
THEOREM SdTyped ==
  ASSUME Clean
  PROVE  Spec => []TypeOK
<1>1. SdInv => TypeOK  BY InvTypes
<1> QED  BY <1>1, SdKept, PTL

\* The clusters that writes allocate and truncations free remain chains: each ends,
\* holds the file's size, and shares no cluster with another file's.
THEOREM SdChained ==
  ASSUME Clean
  PROVE  Spec => []ChainsSound
<1>1. SdInv => ChainsSound  BY InvChains
<1> QED  BY <1>1, SdKept, PTL

\* Whatever calls follow, every file holds at each position what was written there
\* last: SdFile::write through the cache, past it, and across clusters.
THEOREM SdHolds ==
  ASSUME Clean
  PROVE  Spec => []ContentsKept
<1>1. SdInv => ContentsKept  BY InvContents
<1> QED  BY <1>1, SdKept, PTL

\* SdFile::read returns the cells at the file's position, in order.
THEOREM SdReads ==
  ASSUME Clean
  PROVE  Spec => []ReadsRight
<1>1. SdInv => ReadsRight  BY DEF SdInv
<1> QED  BY <1>1, SdKept, PTL

\* The second copy of the FAT is the first one whenever the cache is clean, although
\* only a flush of the cache writes it.
THEOREM SdMirrored ==
  ASSUME Clean
  PROVE  Spec => []MirrorAgrees
<1>1. SdInv => MirrorAgrees  BY InvMirror
<1> QED  BY <1>1, SdKept, PTL

\* A write is refused for want of space only on a full volume: allocContiguous tries
\* every cluster, wherever it starts.
THEOREM SdFull ==
  ASSUME Clean
  PROVE  Spec => []FullMeansFull
<1>1. SdInv => FullMeansFull  BY DEF SdInv
<1> QED  BY <1>1, SdKept, PTL
=============================================================================
