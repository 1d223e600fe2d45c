-------------------------------- MODULE SdFile --------------------------------
(***************************************************************************)
(* libraries/SD/utility/SdFile.cpp and SD.cpp: the one file a sketch may   *)
(* have open (SD.file) in the root directory of a FAT16 card, the calls it *)
(* makes, card errors and power loss.  Each call is one action: it runs to *)
(* its end or to its first failing card access, and a power loss after a   *)
(* failed access is a power loss in the middle of the call.                *)
(*                                                                         *)
(* What a sketch writes at position p of file n is the cell <<n, p>>, so   *)
(* that a cell read back or found on the card tells where it belongs.      *)
(***************************************************************************)
EXTENDS SdVolume

CONSTANTS Modes,       \* flags the sketch opens files with
          Amounts,     \* cells in one write or read
          Seeks,       \* positions the sketch seeks to
          Lengths,     \* lengths it truncates files to
          Removes,     \* does it remove files?
          Retries,     \* does it go on with a file after a call on it failed?
          MaxFaults,   \* bound: failing card accesses
          MaxAccesses, \* bound: card accesses of a call that may fail
          MaxCrashes   \* bound: power losses

Flags == [write : BOOLEAN, creat : BOOLEAN, sync : BOOLEAN, append : BOOLEAN, trunc : BOOLEAN]

ASSUME SketchAssumption ==
    /\ Modes \subseteq Flags /\ Amounts \subseteq Nat \ {0}
    /\ Seeks \subseteq Nat /\ Lengths \subseteq Nat
    /\ Removes \in BOOLEAN /\ Retries \in BOOLEAN
    /\ MaxFaults \in Nat /\ MaxAccesses \in Nat /\ MaxCrashes \in Nat

VARIABLES sd,       \* the volume and the file: the record of SdVolume
          ret,      \* history: the cells the last call read, or its name if it
                    \* failed and why
          durable,  \* history: cells of each file that a sync has put on the card
          failed,   \* history: a call on the open file has failed
          faults, crashes

vars == <<sd, ret, durable, failed, faults, crashes>>

Closed == [open |-> FALSE, name |-> NoName, index |-> 0, write |-> FALSE, sync |-> FALSE,
           append |-> FALSE, first |-> 0, size |-> 0, cur |-> 0, pos |-> 0, dirty |-> FALSE]

\* cacheBlockNumber_ is 0xFFFFFFFF, or the boot block, of no interest here.
Empty == [i \in 1..BlockLen |-> Junk]
Started(card) == [card |-> card, block |-> NoBlock, dirty |-> FALSE, mirror |-> 0,
                  data |-> Empty, start |-> 2, f |-> Closed,
                  err |-> "none", left |-> 0, lands |-> FALSE, next |-> 0, got |-> <<>>]

Init == /\ sd = Started(Formatted)
        /\ ret = [op |-> "none", err |-> "none", got |-> <<>>]
        /\ durable = [n \in Name |-> 0]
        /\ failed = FALSE
        /\ faults = 0 /\ crashes = 0
-----------------------------------------------------------------------------
(* SdFile's functions, as operators on the state.                          *)

cacheDirEntry(s) == cacheRawBlock(s, rootDirStart, TRUE)

\* Mutant: the entry stays in the cache.
syncMutant(s) ==
    IF ~s.f.open THEN Fail(s, "closed")
    ELSE IF ~s.f.dirty THEN s
    ELSE Then(cacheDirEntry(s), LAMBDA t :
         [t EXCEPT !.data[t.f.index].size = t.f.size,
                   !.data[t.f.index].first = t.f.first,
                   !.f.dirty = FALSE])

sync(s) ==
    IF ~s.f.open THEN Fail(s, "closed")
    ELSE Then(IF ~s.f.dirty THEN s
              ELSE Then(cacheDirEntry(s), LAMBDA t :
                   [t EXCEPT !.data[t.f.index].size = t.f.size,
                             !.data[t.f.index].first = t.f.first,
                             !.f.dirty = FALSE]), cacheFlush)

NextCluster(s) == Then(fatGet(s, s.f.cur), LAMBDA t : [t EXCEPT !.f.cur = Entry(t, t.f.cur)])

\* Clusters are followed from the current position, or from the first one.
seekSet(s, pos) ==
    LET from  == (s.f.pos - 1) \div ClusterLen
        to    == (pos - 1) \div ClusterLen
        again == to < from \/ s.f.pos = 0
    IN  IF ~s.f.open \/ pos > s.f.size THEN Fail(s, "position")
        ELSE IF pos = 0 THEN [s EXCEPT !.f.cur = 0, !.f.pos = 0]
        ELSE Then(Repeat(NextCluster, [s EXCEPT !.f.cur = IF again THEN s.f.first ELSE @],
                         IF again THEN to ELSE to - from), LAMBDA t :
             [t EXCEPT !.f.pos = pos])

\* Mutant: the cluster before the cut is not made the last one.
CutMutant(s, length) ==
    IF length > 0 /\ isEOC(s.next) THEN s
    ELSE Then(freeChain(s, s.next), LAMBDA t :
         IF length = 0 THEN [t EXCEPT !.f.first = 0] ELSE t)

\* Free the chain from the cluster in "next" on, and end the file's before it.
Cut(s, length) ==
    IF length > 0 /\ isEOC(s.next) THEN s
    ELSE Then(freeChain(s, s.next), LAMBDA t :
         IF length = 0 THEN [t EXCEPT !.f.first = 0] ELSE fatPut(t, t.f.cur, EOC))

truncate(s, length) ==
    LET newPos == Min({s.f.pos, length})
    IN  IF ~s.f.open \/ ~s.f.write \/ length > s.f.size THEN Fail(s, "refused")
        ELSE IF s.f.size = 0 THEN s
        ELSE Then(seekSet(s, length), LAMBDA t :
             Then(IF length = 0 THEN [t EXCEPT !.next = t.f.first]
                  ELSE Then(fatGet(t, t.f.cur), LAMBDA u :
                       [u EXCEPT !.next = Entry(u, u.f.cur)]), LAMBDA u :
             Then(Cut(u, length), LAMBDA v :
             Then(sync([v EXCEPT !.f.size = length, !.f.dirty = TRUE]), LAMBDA w :
                  seekSet(w, newPos)))))

openCachedEntry(s, i, mode) ==
    Then([s EXCEPT !.f = [Closed EXCEPT
             !.open = TRUE, !.name = s.data[i].name, !.index = i,
             !.write = mode.write, !.sync = mode.sync, !.append = mode.append,
             !.first = s.data[i].first, !.size = s.data[i].size]], LAMBDA t :
         IF mode.trunc THEN truncate(t, 0) ELSE t)

\* Directory slots of a name, with the directory in the cache.
\* (FREE and DELETED slots are one here: no used slot follows a FREE one.)
SlotsOf(s, name) == {i \in 1..Slots : s.data[i].name = name}

\* Look the name up; create the entry if the mode allows it and a slot is free.
open(s, name, mode) ==
    IF s.f.open THEN Fail(s, "open")
    ELSE Then(cacheRawBlock(s, rootDirStart, FALSE), LAMBDA t :
         Then(IF SlotsOf(t, name) # {} THEN t
              ELSE IF ~(mode.write /\ mode.creat) \/ SlotsOf(t, NoName) = {} THEN Fail(t, "refused")
              ELSE cacheFlush([t EXCEPT
                       !.data[Min(SlotsOf(t, NoName))] =
                           [name |-> name, first |-> 0, size |-> 0],
                       !.dirty = TRUE]), LAMBDA u :
              openCachedEntry(u, Min(SlotsOf(u, name)), mode)))

remove(s) ==
    Then(truncate(s, 0), LAMBDA t :
    Then(cacheDirEntry(t), LAMBDA u :
         cacheFlush([u EXCEPT !.data[u.f.index].name = NoName, !.f = Closed])))
-----------------------------------------------------------------------------
addCluster(s) ==
    Then(allocContiguous(s, s.f.cur), LAMBDA t :
         IF t.f.first # 0 THEN t
         ELSE [t EXCEPT !.f.first = t.f.cur, !.f.dirty = TRUE])

\* At the start of a cluster: the first one, the next one, or a new one.
EnterCluster(s) ==
    IF s.f.pos % ClusterLen # 0 THEN s
    ELSE IF s.f.cur = 0 /\ s.f.first # 0 THEN [s EXCEPT !.f.cur = s.f.first]
    ELSE Then(IF s.f.cur = 0 THEN s ELSE fatGet(s, s.f.cur), LAMBDA t :
         IF t.f.cur = 0 \/ isEOC(Entry(t, t.f.cur)) THEN addCluster(t)
         ELSE [t EXCEPT !.f.cur = Entry(t, t.f.cur)])

PositionBlock(s) == clusterStartBlock(s.f.cur) + blockOfCluster(s.f.pos)
Offset(s)        == s.f.pos % BlockLen
Part(s, todo)    == Min({BlockLen - Offset(s), todo})

\* A block's cells with n cells of the file put in at its position.
Filled(cells, f, n) ==
    LET at == f.pos % BlockLen
    IN  [i \in 1..BlockLen |-> IF i \in (at + 1)..(at + n) THEN <<f.name, f.pos + i - at - 1>>
                               ELSE cells[i]]

\* Mutant: the cache forgets its block whichever it is.
WriteFullMutant(s, b) ==
    writeBlock([s EXCEPT !.block = NoBlock], b, Filled(Empty, s.f, BlockLen))

\* A full block bypasses the cache, which forgets the block if it held it.
WriteFull(s, b) == writeBlock([s EXCEPT !.block = IF @ = b THEN NoBlock ELSE @],
                              b, Filled(Empty, s.f, BlockLen))

\* Mutant: the cached block is replaced without being written first.
WritePartMutant(s, b, n) ==
    IF Offset(s) = 0 /\ s.f.pos >= s.f.size
    THEN [s EXCEPT !.block = b, !.dirty = TRUE, !.data = Filled(Empty, s.f, n)]
    ELSE Then(cacheRawBlock(s, b, TRUE), LAMBDA t :
              [t EXCEPT !.data = Filled(@, t.f, n)])

\* A block beyond the end of the file is not read: what the cache held, of no
\* interest here, stays around the new cells.
WritePart(s, b, n) ==
    IF Offset(s) = 0 /\ s.f.pos >= s.f.size
    THEN Then(cacheFlush(s), LAMBDA t :
              [t EXCEPT !.block = b, !.dirty = TRUE, !.data = Filled(Empty, t.f, n)])
    ELSE Then(cacheRawBlock(s, b, TRUE), LAMBDA t :
              [t EXCEPT !.data = Filled(@, t.f, n)])

WriteBlockPart(s, todo) ==
    Then(EnterCluster(s), LAMBDA t :
    Then(IF Part(t, todo) = BlockLen THEN WriteFull(t, PositionBlock(t))
         ELSE WritePart(t, PositionBlock(t), Part(t, todo)), LAMBDA u :
         [u EXCEPT !.f.pos = @ + Part(u, todo)]))

\* The loop of write and read: block parts until "todo" cells are done.
Transfer(Step(_, _), s, todo) ==
    LET end == s.f.pos + todo
    IN  Repeat(LAMBDA t : IF t.f.pos >= end THEN t ELSE Step(t, end - t.f.pos), s, todo)

write(s, n) ==
    IF ~s.f.open \/ ~s.f.write THEN Fail(s, "refused")
    ELSE Then(IF s.f.append /\ s.f.pos # s.f.size THEN seekSet(s, s.f.size) ELSE s, LAMBDA t :
         Then(Transfer(WriteBlockPart, t, n), LAMBDA u :
         Then(IF u.f.pos <= u.f.size THEN u
              ELSE [u EXCEPT !.f.size = u.f.pos, !.f.dirty = TRUE], LAMBDA v :
              IF v.f.sync THEN sync(v) ELSE v)))

\* A full block that is not cached is read past the cache.
ReadPart(s, b, n) ==
    IF n = BlockLen /\ b # s.block
    THEN Then(Access(s, b), LAMBDA t : [t EXCEPT !.got = @ \o t.card[b]])
    ELSE Then(cacheRawBlock(s, b, FALSE), LAMBDA t :
         [t EXCEPT !.got = @ \o SubSeq(t.data, Offset(t) + 1, Offset(t) + n)])

\* Mutant: the next cluster is not looked up.
ReadBlockPartMutant(s, todo) ==
    Then(IF s.f.pos = 0 THEN [s EXCEPT !.f.cur = s.f.first] ELSE s, LAMBDA t :
    Then(ReadPart(t, PositionBlock(t), Part(t, todo)), LAMBDA u :
         [u EXCEPT !.f.pos = @ + Part(u, todo)]))

ReadBlockPart(s, todo) ==
    Then(IF s.f.pos % ClusterLen # 0 THEN s
         ELSE IF s.f.pos = 0 THEN [s EXCEPT !.f.cur = s.f.first]
         ELSE NextCluster(s), LAMBDA t :
    Then(ReadPart(t, PositionBlock(t), Part(t, todo)), LAMBDA u :
         [u EXCEPT !.f.pos = @ + Part(u, todo)]))

\* fileSize_ - curPosition_ is unsigned: past the end it limits nothing.
read(s, n) ==
    IF ~s.f.open THEN Fail(s, "closed")
    ELSE Transfer(ReadBlockPart, s,
                  IF s.f.pos > s.f.size THEN n ELSE Min({n, s.f.size - s.f.pos}))
-----------------------------------------------------------------------------
(* The sketch.  A call starts from a state whose next card accesses         *)
(* succeed, or fail from some access on while faults are left.             *)

Plenty == -1

Calls == IF faults < MaxFaults
         THEN {[sd EXCEPT !.left = k, !.lands = b] : k \in 0..MaxAccesses, b \in BOOLEAN}
                  \cup {[sd EXCEPT !.left = Plenty]}
         ELSE {[sd EXCEPT !.left = Plenty]}

\* A call ends in state s.
Ends(op, s) ==
    /\ sd' = [s EXCEPT !.err = "none", !.left = 0, !.lands = FALSE,
                     !.next = 0, !.got = <<>>]
    /\ ret' = [op |-> IF Ok(s) THEN "none" ELSE op, err |-> s.err, got |-> s.got]
    /\ faults' = IF s.err = "io" THEN faults + 1 ELSE faults
    /\ UNCHANGED crashes

\* May the sketch use the open file?
Usable == sd.f.open /\ (Retries \/ ~failed)

Fails(s) == failed' = (failed \/ ~Ok(s))

\* What the card must hold from now on if the call has put the file on it.
Keeps(s, length) == durable' = [durable EXCEPT ![sd.f.name] = length]

IsFileWrite(mode) == mode.write /\ mode.creat /\ mode.sync /\ ~mode.append /\ ~mode.trunc

\* SD.open: FILE_WRITE goes on to the end of the file.
Open(name, mode) ==
    /\ ~sd.f.open
    /\ \E s \in Calls :
          LET t == Then(open(s, name, mode), LAMBDA u :
                        IF IsFileWrite(mode) THEN seekSet(u, u.f.size) ELSE u)
          IN  /\ Ends("open", t)
              /\ failed' = ~Ok(t)
              /\ durable' = IF mode.trunc THEN [durable EXCEPT ![name] = 0] ELSE durable

Write(n) ==
    /\ Usable
    /\ \E s \in Calls :
          LET t == write(s, n)
          IN  /\ Ends("write", t)
              /\ Fails(t)
              /\ IF Ok(t) /\ t.f.sync THEN Keeps(t, t.f.size) ELSE UNCHANGED durable

Read(n) ==
    /\ Usable
    /\ \E s \in Calls :
          LET t == read(s, n)
          IN  Ends("read", t) /\ Fails(t)
    /\ UNCHANGED durable

Seek(pos) ==
    /\ Usable
    /\ \E s \in Calls :
          LET t == seekSet(s, pos)
          IN  Ends("seek", t) /\ Fails(t)
    /\ UNCHANGED durable

Sync ==
    /\ sd.f.open
    /\ \E s \in Calls :
          LET t == sync(s)
          IN  /\ Ends("sync", t)
              /\ Fails(t)
              /\ IF Ok(t) THEN Keeps(t, t.f.size) ELSE UNCHANGED durable

Close ==
    /\ sd.f.open
    /\ \E s \in Calls :
          LET t == sync(s)
          IN  /\ Ends("close", IF Ok(t) THEN [t EXCEPT !.f = Closed] ELSE t)
              /\ failed' = ~Ok(t)
              /\ IF Ok(t) THEN Keeps(t, t.f.size) ELSE UNCHANGED durable

Truncate(length) ==
    /\ Usable
    /\ \E s \in Calls :
          LET t == truncate(s, length)
          IN  /\ Ends("truncate", t)
              /\ Fails(t)
              /\ Keeps(t, Min({durable[sd.f.name], length}))

\* SD.remove of a file that is not open: a second SdFile, dropped at the end.
RemoveFile(name) ==
    /\ Removes
    /\ sd.f.name # name
    /\ \E s \in Calls :
          LET mode == [write |-> TRUE, creat |-> FALSE, sync |-> FALSE, append |-> FALSE, trunc |-> FALSE]
              t    == Then(open([s EXCEPT !.f = Closed], name, mode), remove)
          IN  Ends("remove", [t EXCEPT !.f = sd.f])
    /\ durable' = [durable EXCEPT ![name] = 0]
    /\ UNCHANGED failed

\* Power is lost; the board restarts and SD.begin() finds the card as it is.
Crash ==
    /\ crashes < MaxCrashes
    /\ sd' = Started(sd.card)
    /\ ret' = [op |-> "none", err |-> "none", got |-> <<>>]
    /\ failed' = FALSE
    /\ crashes' = crashes + 1
    /\ UNCHANGED <<durable, faults>>

Next == \/ \E n \in Name, mode \in Modes : Open(n, mode)
        \/ \E k \in Amounts : Write(k) \/ Read(k)
        \/ \E p \in Seeks : Seek(p)
        \/ \E p \in Lengths : Truncate(p)
        \/ Sync \/ Close
        \/ \E n \in Name : RemoveFile(n)
        \/ Crash

Spec == Init /\ [][Next]_vars
-----------------------------------------------------------------------------
(* The volume as the library sees it: the card under the cache.            *)

View(b) == IF b = sd.block THEN sd.data ELSE sd.card[b]

Fat(c)  == View(FatBlock(c))[c % EntriesPerBlock]
Dir     == View(rootDirStart)
Stored  == {i \in 1..Slots : Dir[i].name # NoName}

\* Each file with its first cluster and size: the open file's are its own.
Files == {IF sd.f.open /\ sd.f.name = Dir[i].name
          THEN [name |-> Dir[i].name, first |-> sd.f.first, size |-> sd.f.size]
          ELSE Dir[i] : i \in Stored}

\* The clusters of a chain in order, as far as it goes without repeating.
Chain(fat(_), first) ==
    LET Follow(chain, c) ==
            IF c \in Clusters /\ ~Contains(chain, c) THEN Append(chain, c) ELSE chain
        upTo[i \in 1..clusterCount] ==
            IF i = 1 THEN <<first>> ELSE Follow(upTo[i - 1], fat(Last(upTo[i - 1])))
    IN  IF first \in Clusters THEN upTo[clusterCount] ELSE <<>>

ChainOf(file) == Chain(Fat, file.first)

\* The cell of a file at position p, through a view of the blocks.
CellAt(view(_), chain, p) ==
    view(clusterStartBlock(chain[(p \div ClusterLen) + 1]) + blockOfCluster(p))
        [(p % BlockLen) + 1]

Sizes == 0..(clusterCount * ClusterLen)

TypeOK == /\ DOMAIN sd.card = Blocks
          /\ sd.block \in Blocks \cup {NoBlock}
          /\ sd.mirror \in {0} \cup (rootDirStart - blocksPerFat)..(rootDirStart - 1)
          /\ sd.start \in 2..(LastCluster + 1)
          /\ sd.f.size \in Sizes /\ sd.f.pos \in Sizes
          /\ sd.f.first \in Clusters \cup {0} /\ sd.f.cur \in Clusters \cup {0}
          /\ durable \in [Name -> Sizes]
          /\ faults \in 0..MaxFaults /\ crashes \in 0..MaxCrashes

\* Every file is a chain of clusters of its own that ends and holds its size.
ChainsSound ==
    /\ \A file \in Files :
          LET chain == ChainOf(file)
          IN  /\ IF chain = <<>> THEN file.first = 0 ELSE isEOC(Fat(Last(chain)))
              /\ file.size <= ClusterLen * Len(chain)
    /\ \A a, b \in Files : a # b => ToSet(ChainOf(a)) \cap ToSet(ChainOf(b)) = {}

\* A cluster is in use only as part of a file, unless a call on the open
\* file has failed half-way.
NoLostClusters ==
    ~failed => \A c \in Clusters : Fat(c) # 0 => \E file \in Files : Contains(ChainOf(file), c)

\* Every file holds at each position what was written there.
ContentsKept ==
    \A file \in Files :
        LET chain == ChainOf(file)
        IN  \A p \in 0..(file.size - 1) : /\ p < ClusterLen * Len(chain)
                                          /\ CellAt(View, chain, p) = <<file.name, p>>

\* read() returns the next cells of the open file.
ReadsRight == ~failed =>
    \A i \in 1..Len(ret.got) : ret.got[i] = <<sd.f.name, sd.f.pos - Len(ret.got) + i - 1>>

\* Once nothing is waiting in the cache the two copies of the FAT agree.
MirrorAgrees ==
    fatCount > 1 /\ ~sd.dirty =>
        \A b \in FatBlock(0)..FatBlock(LastCluster) : sd.card[b] = sd.card[b + blocksPerFat]

\* A write fails for want of space only when no cluster is free.
FullMeansFull == ret.err = "full" => \A c \in Clusters : Fat(c) # 0

\* sync() and close() of an open file fail only if the card does.
SyncSucceeds == ret.op \in {"sync", "close"} /\ ret.err # "none" => ret.err = "io"

\* What a successful sync or close has put on the card stays on it, whole and
\* reachable, through every later call, failure and loss of power.
Durable ==
    \A n \in Name : durable[n] > 0 =>
        \E i \in 1..Slots :
            LET OnCard(b)    == sd.card[b]
                FatOnCard(c) == sd.card[FatBlock(c)][c % EntriesPerBlock]
                entry        == sd.card[rootDirStart][i]
                chain        == Chain(FatOnCard, entry.first)
            IN  /\ entry.name = n /\ entry.size >= durable[n]
                /\ Len(chain) * ClusterLen >= durable[n]
                /\ \A p \in 0..(durable[n] - 1) : CellAt(OnCard, chain, p) = <<n, p>>
=============================================================================
