------------------------------ MODULE SdVolume ------------------------------
(***************************************************************************)
(* libraries/SD/utility/SdVolume.cpp: the one-block cache of the card and  *)
(* the FAT.  The code is sequential; what makes it hard is that every call *)
(* touches the card several times and may fail at any of them, leaving the *)
(* cache, the FAT and the caller's variables where they were.              *)
(*                                                                         *)
(* So a function of the code is an operator from a state to a state: a     *)
(* record of the card, the cache, the SdFile in use and "err", the reason  *)
(* for which the call is returning false.  Once err is set every operator  *)
(* is the identity, as the early returns of the code are.  "left" counts   *)
(* the card accesses that will still succeed, all of them if it is         *)
(* negative; "lands" says if the write that fails has nevertheless reached *)
(* the card (Sd2Card::writeBlock also reports timeouts that follow the     *)
(* data).                                                                  *)
(*                                                                         *)
(* A block is numbered as in the code.  A cell stands for a run of bytes:  *)
(* BlockLen cells make a block.                                            *)
(***************************************************************************)
EXTENDS Integers, SequencesExt

CONSTANTS Name,              \* file names
          Slots,             \* entries of the root directory, one block
          clusterCount,
          blocksPerCluster,
          BlockLen,          \* cells in a block
          EntriesPerBlock,   \* FAT entries in a block
          fatCount           \* copies of the FAT: 1 or 2

ASSUME GeometryAssumption ==
    /\ clusterCount \in Nat \ {0} /\ blocksPerCluster \in Nat \ {0}
    /\ BlockLen \in Nat \ {0} /\ EntriesPerBlock \in Nat \ {0}
    /\ fatCount \in {1, 2} /\ Slots \in Nat \ {0}

ClusterLen == BlockLen * blocksPerCluster

fatStartBlock   == 1
blocksPerFat    == (clusterCount + 1) \div EntriesPerBlock + 1
rootDirStart    == fatStartBlock + fatCount * blocksPerFat
dataStartBlock  == rootDirStart + 1
Blocks          == 1..(dataStartBlock + clusterCount * blocksPerCluster - 1)
NoBlock         == -1           \* 0xFFFFFFFF

LastCluster == clusterCount + 1
Clusters    == 2..LastCluster
EOC         == 1000
isEOC(c)    == c = EOC
ASSUME EOCAssumption == LastCluster < EOC

FatBlock(c)          == fatStartBlock + c \div EntriesPerBlock
clusterStartBlock(c) == dataStartBlock + (c - 2) * blocksPerCluster
blockOfCluster(pos)  == (pos \div BlockLen) % blocksPerCluster

NoName == "free"
ASSUME NameAssumption == NoName \notin Name
Junk   == <<"junk", 0>>

\* A formatted, empty card.
Formatted ==
    [b \in Blocks |->
        IF b < rootDirStart
        THEN [e \in 0..(EntriesPerBlock - 1) |->
                 IF b \in {FatBlock(0), FatBlock(0) + blocksPerFat} /\ e < 2 THEN EOC ELSE 0]
        ELSE IF b = rootDirStart
        THEN [i \in 1..Slots |-> [name |-> NoName, first |-> 0, size |-> 0]]
        ELSE [i \in 1..BlockLen |-> Junk]]
-----------------------------------------------------------------------------
(* Sequencing.                                                             *)

Ok(s) == s.err = "none"

Fail(s, why) == [s EXCEPT !.err = why]

\* "if (!s) return false;" before the rest of the function, which goes on
\* from the state s.
Then(s, Rest(_)) == IF Ok(s) THEN Rest(s) ELSE s

Repeat(Step(_), s, n) ==
    LET after[i \in 0..n] == IF i = 0 THEN s ELSE Then(after[i - 1], Step)
    IN  after[n]
-----------------------------------------------------------------------------
(* The card: Sd2Card::writeBlock and readBlock.                            *)

writeBlock(s, b, contents) ==
    IF b \notin Blocks THEN Fail(s, "address")
    ELSE IF s.left # 0 THEN [s EXCEPT !.card[b] = contents, !.left = @ - 1]
    ELSE [s EXCEPT !.card[b] = IF s.lands THEN contents ELSE @, !.err = "io"]

\* Wait for the card to answer a read of block b.
Access(s, b) == IF b \notin Blocks THEN Fail(s, "address")
                ELSE IF s.left # 0 THEN [s EXCEPT !.left = @ - 1]
                ELSE Fail(s, "io")
-----------------------------------------------------------------------------
(* The cache.                                                              *)

\* Mutants: the second FAT is forgotten; a failed write still cleans the cache.
cacheFlushMutantMirror(s) ==
    IF ~s.dirty THEN s
    ELSE Then(writeBlock(s, s.block, s.data), LAMBDA t :
              [t EXCEPT !.mirror = 0, !.dirty = FALSE])

cacheFlushMutantClean(s) ==
    IF ~s.dirty THEN s
    ELSE Then(writeBlock([s EXCEPT !.dirty = FALSE], s.block, s.data), LAMBDA t :
         Then(IF t.mirror = 0 THEN t ELSE writeBlock(t, t.mirror, t.data), LAMBDA u :
              [u EXCEPT !.mirror = 0]))

cacheFlush(s) ==
    IF ~s.dirty THEN s
    ELSE Then(writeBlock(s, s.block, s.data), LAMBDA t :
         Then(IF t.mirror = 0 THEN t ELSE writeBlock(t, t.mirror, t.data), LAMBDA u :
              [u EXCEPT !.mirror = 0, !.dirty = FALSE]))

cacheRawBlock(s, b, forWrite) ==
    Then(IF s.block = b THEN s
         ELSE Then(cacheFlush(s), LAMBDA t :
              Then(Access(t, b), LAMBDA u :
                   [u EXCEPT !.data = u.card[b], !.block = b])), LAMBDA t :
         [t EXCEPT !.dirty = @ \/ forWrite])
-----------------------------------------------------------------------------
(* The FAT.                                                                *)

\* fatGet leaves the entry's block in the cache, where Entry reads it.
fatGet(s, c) == IF c > LastCluster THEN Fail(s, "chain")
                ELSE cacheRawBlock(s, FatBlock(c), FALSE)

Entry(s, c) == s.data[c % EntriesPerBlock]

\* Mutant: the mirror is the block itself.
fatPutMutant(s, c, value) ==
    IF c \notin Clusters THEN Fail(s, "chain")
    ELSE Then(cacheRawBlock(s, FatBlock(c), FALSE), LAMBDA t :
         [t EXCEPT !.data[c % EntriesPerBlock] = value,
                   !.dirty = TRUE,
                   !.mirror = IF fatCount > 1 THEN FatBlock(c) ELSE @])

fatPut(s, c, value) ==
    IF c \notin Clusters THEN Fail(s, "chain")
    ELSE Then(cacheRawBlock(s, FatBlock(c), FALSE), LAMBDA t :
         [t EXCEPT !.data[c % EntriesPerBlock] = value,
                   !.dirty = TRUE,
                   !.mirror = IF fatCount > 1 THEN FatBlock(c) + blocksPerFat ELSE @])

\* Mutant: the search does not go back to the start of the FAT.
SearchOrderMutant(start) == [i \in 1..(LastCluster + 1 - start) |-> start + i - 1]

\* The order in which clusters are tried: from "start" up, then from 2.
SearchOrder(start) == [i \in 1..clusterCount |-> 2 + ((start - 2 + i - 1) % clusterCount)]

Tried(s, c) == [s |-> s, c |-> c, found |-> Ok(s) /\ Entry(s, c) = 0]

\* Look at one cluster after the other until one is free.
Search(s, start) ==
    LET Try(acc, c) == IF acc.found \/ ~Ok(acc.s) THEN acc
                       ELSE Tried(fatGet(acc.s, c), c)
        after[i \in 0..Len(SearchOrder(start))] ==
            IF i = 0 THEN [s |-> s, c |-> 0, found |-> FALSE]
            ELSE Try(after[i - 1], SearchOrder(start)[i])
    IN  after[Len(SearchOrder(start))]

\* allocContiguous(1, &cur): the cluster is marked as the end of the chain,
\* then linked to the last one of the file, if the file has any.
Link(s, cur, c) ==
    Then(fatPut(s, c, EOC), LAMBDA t :
    Then(IF cur = 0 THEN t ELSE fatPut(t, cur, c), LAMBDA u :
         [u EXCEPT !.f.cur = c, !.start = IF cur = 0 THEN c + 1 ELSE @]))

Allocate(tried, cur) == IF tried.found THEN Link(tried.s, cur, tried.c)
                        ELSE Then(tried.s, LAMBDA t : Fail(t, "full"))

allocContiguous(s, cur) == Allocate(Search(s, IF cur # 0 THEN cur + 1 ELSE s.start), cur)

\* Mutant: only the first cluster is freed.
freeChainMutant(s, first) == fatPut([s EXCEPT !.start = 2], first, 0)

\* freeChain clears entry after entry; clearing a reserved one fails.
freeChain(s, first) ==
    LET FreeOne(t) == IF isEOC(t.next) THEN t
                      ELSE Then(fatGet(t, t.next), LAMBDA u :
                           Then(fatPut(u, u.next, 0), LAMBDA v :
                                [v EXCEPT !.next = Entry(u, u.next)]))
    IN  Repeat(FreeOne, [s EXCEPT !.start = 2, !.next = first], clusterCount + 1)
=============================================================================
