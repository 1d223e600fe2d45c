-------------------------- MODULE UsbSerialProofs --------------------------
(***************************************************************************)
(* The bridge loses, repeats and reorders nothing, for every ring size:    *)
(* each direction is a pipe.  The bytes of a pipe are a stretch of its     *)
(* ring, so the proof is first about stretches: what becomes of one when a *)
(* byte is inserted after it or taken from its front.                      *)
(***************************************************************************)
EXTENDS UsbSerial, Remainders, SequenceTheorems

(***** rings *****)

\* What the proof uses of the constants.
LEMMA Constants ==
  /\ BUFFER_SIZE \in Nat \ {0} /\ COUNTS \in Nat \ {0} /\ BUFFER_SIZE < COUNTS
  /\ Byte \subseteq Nat /\ 0 \in Byte
BY RingAssumption, ByteAssumption

\* The successor of a slot is the next one around.
LEMMA SuccIsNext ==
  ASSUME NEW i \in Slots
  PROVE  Succ(i) = (i + 1) % BUFFER_SIZE /\ Succ(i) \in Slots
<1> DEFINE a == i + 1
<1>1. a \in 0..(2 * BUFFER_SIZE - 1)  BY Constants DEF Slots
<1> HIDE DEF a
<1>2. a % BUFFER_SIZE = IF a < BUFFER_SIZE THEN a ELSE a - BUFFER_SIZE
  BY <1>1, Constants, ModAround
<1> QED  BY <1>2, Constants DEF Succ, Slots, a

\* The slot n places after slot o.
LEMMA SlotCases ==
  ASSUME NEW o \in Slots, NEW n \in 0..BUFFER_SIZE
  PROVE  /\ (o + n) % BUFFER_SIZE = IF o + n < BUFFER_SIZE THEN o + n ELSE o + n - BUFFER_SIZE
         /\ (o + n) % BUFFER_SIZE \in Slots
<1> DEFINE a == o + n
<1>1. a \in 0..(2 * BUFFER_SIZE - 1)  BY Constants DEF Slots
<1> HIDE DEF a
<1>2. /\ a % BUFFER_SIZE = IF a < BUFFER_SIZE THEN a ELSE a - BUFFER_SIZE
      /\ a % BUFFER_SIZE \in 0..(BUFFER_SIZE - 1)
  BY <1>1, Constants, ModAround
<1> QED  BY <1>2, Constants DEF Slots, a

\* The fields of a ring after an insertion.
LEMMA InsertFields ==
  ASSUME NEW r \in Ring, NEW c \in Byte
  PROVE  /\ Insert(r, c) \in Ring
         /\ Insert(r, c).Buffer = [r.Buffer EXCEPT ![r.In] = c]
         /\ Insert(r, c).In = (r.In + 1) % BUFFER_SIZE
         /\ Insert(r, c).Out = r.Out
         /\ r.Count <= BUFFER_SIZE - 1 => Insert(r, c).Count = r.Count + 1
<1>1. r.In \in Slots /\ r.Out \in Slots /\ r.Count \in 0..(COUNTS - 1)
      /\ r.Buffer \in [Slots -> Byte]
  BY DEF Ring
<1>2. (r.Count + 1) % COUNTS \in 0..(COUNTS - 1)  BY <1>1, Constants
<1>3. [r.Buffer EXCEPT ![r.In] = c] \in [Slots -> Byte]  BY <1>1
<1>4. Insert(r, c) = [Buffer |-> [r.Buffer EXCEPT ![r.In] = c], In |-> Succ(r.In),
                      Out |-> r.Out, Count |-> (r.Count + 1) % COUNTS]
  <2> DEFINE w == [r EXCEPT !.Buffer[r.In] = c]
  <2>1. w = [r EXCEPT !.Buffer = [r.Buffer EXCEPT ![r.In] = c]]  BY DEF Ring
  <2>2. Insert(r, c) = [w EXCEPT !.In = Succ(r.In), !.Count = (r.Count + 1) % COUNTS]
    BY DEF Insert
  <2> QED  BY <2>1, <2>2 DEF Ring
<1>5. Insert(r, c) \in Ring  BY <1>1, <1>2, <1>3, <1>4, SuccIsNext DEF Ring
<1>6. ASSUME r.Count <= BUFFER_SIZE - 1 PROVE (r.Count + 1) % COUNTS = r.Count + 1
  <2>1. r.Count + 1 \in 0..(COUNTS - 1)  BY <1>1, <1>6, Constants
  <2> QED  BY <2>1, Constants
<1> QED  BY <1>1, <1>4, <1>5, <1>6, SuccIsNext

\* The fields of a ring after the pointer, and after the count, of a removal.
LEMMA RemoveFields ==
  ASSUME NEW r \in Ring
  PROVE  /\ Advance(r) \in Ring /\ Advance(r).Buffer = r.Buffer /\ Advance(r).In = r.In
         /\ Advance(r).Out = (r.Out + 1) % BUFFER_SIZE /\ Advance(r).Count = r.Count
         /\ Drop(r) \in Ring /\ Drop(r).Buffer = r.Buffer /\ Drop(r).In = r.In
         /\ Drop(r).Out = r.Out /\ (r.Count > 0 => Drop(r).Count = r.Count - 1)
<1>1. r.In \in Slots /\ r.Out \in Slots /\ r.Count \in 0..(COUNTS - 1)
      /\ r.Buffer \in [Slots -> Byte]
  BY DEF Ring
<1>2. Advance(r) = [Buffer |-> r.Buffer, In |-> r.In, Out |-> Succ(r.Out), Count |-> r.Count]
  BY DEF Advance, Ring
<1>3. Drop(r) = [Buffer |-> r.Buffer, In |-> r.In, Out |-> r.Out,
                 Count |-> (r.Count + COUNTS - 1) % COUNTS]
  BY DEF Drop, Ring
<1>4. (r.Count + COUNTS - 1) % COUNTS \in 0..(COUNTS - 1)  BY <1>1, Constants
<1>5. ASSUME r.Count > 0 PROVE (r.Count + COUNTS - 1) % COUNTS = r.Count - 1
  <2> DEFINE a == r.Count + COUNTS - 1
  <2>1. a \in 0..(2 * COUNTS - 1) /\ ~(a < COUNTS) /\ a - COUNTS = r.Count - 1
    BY <1>1, <1>5, Constants
  <2> HIDE DEF a
  <2>2. a % COUNTS = a - COUNTS  BY <2>1, Constants, ModAround
  <2> QED  BY <2>1, <2>2 DEF a
<1> QED  BY <1>1, <1>2, <1>3, <1>4, <1>5, SuccIsNext DEF Ring

(***** stretches *****)

\* The n bytes from slot o on are a sequence of bytes.
LEMMA BytesType ==
  ASSUME NEW r \in Ring, NEW o \in Slots, NEW n \in 0..BUFFER_SIZE
  PROVE  /\ Bytes(r, o, n) \in Seq(Byte) /\ Len(Bytes(r, o, n)) = n
         /\ \A k \in 1..n : Bytes(r, o, n)[k] = r.Buffer[(o + (k - 1)) % BUFFER_SIZE]
<1>1. n \in Nat /\ o \in Nat  BY Constants DEF Slots
<1>2. ASSUME NEW k \in 1..n
      PROVE  /\ o + k - 1 = o + (k - 1)
             /\ r.Buffer[(o + (k - 1)) % BUFFER_SIZE] \in Byte
  <2>1. k - 1 \in 0..BUFFER_SIZE  BY Constants
  <2>2. (o + (k - 1)) % BUFFER_SIZE \in Slots  BY <2>1, SlotCases
  <2> QED  BY <1>1, <2>2 DEF Ring
<1>3. Bytes(r, o, n) \in [1..n -> Byte]  BY <1>2 DEF Bytes
<1>4. Bytes(r, o, n) \in Seq(Byte)  BY <1>1, <1>3, SeqDef
<1>5. Len(Bytes(r, o, n)) = n  BY <1>1, <1>3, <1>4, LenProperties
<1> QED  BY <1>2, <1>4, <1>5 DEF Bytes

\* Without bytes there is nothing in a pipe.
LEMMA BytesNone ==
  ASSUME NEW r \in Ring, NEW o \in Slots
  PROVE  Bytes(r, o, 0) = <<>>
<1>1. 0 \in 0..BUFFER_SIZE  BY Constants
<1> QED  BY <1>1, BytesType, EmptySeq

\* Inserting in the slot after a stretch appends to it.
LEMMA BytesInsert ==
  ASSUME NEW r \in Ring, NEW c \in Byte, NEW n \in 0..(BUFFER_SIZE - 1),
         r.In = (r.Out + n) % BUFFER_SIZE
  PROVE  Bytes(Insert(r, c), r.Out, n + 1) = Append(Bytes(r, r.Out, n), c)
<1> DEFINE s == Bytes(r, r.Out, n)
           u == Bytes(Insert(r, c), r.Out, n + 1)
<1>1. n \in 0..BUFFER_SIZE /\ n + 1 \in 0..BUFFER_SIZE /\ n \in Nat  BY Constants
<1>2. r.Out \in Slots /\ r.In \in Slots /\ r.Buffer \in [Slots -> Byte]  BY DEF Ring
<1>3. Insert(r, c) \in Ring /\ Insert(r, c).Buffer = [r.Buffer EXCEPT ![r.In] = c]
  BY InsertFields
<1>4. /\ s \in Seq(Byte) /\ Len(s) = n
      /\ \A k \in 1..n : s[k] = r.Buffer[(r.Out + (k - 1)) % BUFFER_SIZE]
  BY <1>1, <1>2, BytesType
<1>5. /\ u \in Seq(Byte) /\ Len(u) = n + 1
      /\ \A k \in 1..(n + 1) :
            u[k] = [r.Buffer EXCEPT ![r.In] = c][(r.Out + (k - 1)) % BUFFER_SIZE]
  <2> DEFINE v == Insert(r, c)
             p == n + 1
  <2>1. v \in Ring /\ p \in 0..BUFFER_SIZE  BY <1>1, <1>3
  <2> HIDE DEF v, p
  <2>2. /\ Bytes(v, r.Out, p) \in Seq(Byte) /\ Len(Bytes(v, r.Out, p)) = p
        /\ \A k \in 1..p : Bytes(v, r.Out, p)[k] = v.Buffer[(r.Out + (k - 1)) % BUFFER_SIZE]
    BY <1>2, <2>1, BytesType
  <2> QED  BY <2>2, <1>3 DEF v, p
<1> HIDE DEF s, u
<1>6. /\ Append(s, c) \in Seq(Byte) /\ Len(Append(s, c)) = n + 1
      /\ \A k \in 1..n : Append(s, c)[k] = s[k]
      /\ Append(s, c)[n + 1] = c
  BY <1>1, <1>4, AppendProperties
<1>7. ASSUME NEW k \in 1..(n + 1) PROVE u[k] = Append(s, c)[k]
  <2> DEFINE i == (r.Out + (k - 1)) % BUFFER_SIZE
  <2>1. k - 1 \in 0..BUFFER_SIZE  BY <1>1, Constants
  <2>2. i \in Slots /\ i = IF r.Out + (k - 1) < BUFFER_SIZE THEN r.Out + (k - 1)
                                              ELSE r.Out + (k - 1) - BUFFER_SIZE
    BY <2>1, <1>2, SlotCases
  <2>3. r.In = IF r.Out + n < BUFFER_SIZE THEN r.Out + n ELSE r.Out + n - BUFFER_SIZE
    BY <1>1, <1>2, SlotCases
  <2> HIDE DEF i
  <2>4. CASE k = n + 1
    <3>1. i = r.In
      <4>1. k - 1 = n  BY <2>4, <1>1
      <4> QED  BY <4>1 DEF i
    <3>2. u[k] = c  BY <3>1, <1>2, <1>5 DEF i
    <3> QED  BY <3>2, <2>4, <1>6
  <2>5. CASE k # n + 1
    <3>1. k \in 1..n  BY <2>5, <1>1
    <3>2. i # r.In
      <4> DEFINE o == r.Out
      <4>1. o \in Nat /\ n \in Nat /\ BUFFER_SIZE \in Nat /\ n < BUFFER_SIZE /\ o < BUFFER_SIZE
        BY <1>1, <1>2, Constants DEF Slots
      <4> HIDE DEF o
      <4>2. i = IF o + (k - 1) < BUFFER_SIZE THEN o + (k - 1) ELSE o + (k - 1) - BUFFER_SIZE
        BY <2>2 DEF o
      <4>3. r.In = IF o + n < BUFFER_SIZE THEN o + n ELSE o + n - BUFFER_SIZE  BY <2>3 DEF o
      <4> QED  BY <3>1, <4>1, <4>2, <4>3
    <3>3. u[k] = r.Buffer[i]  BY <3>2, <2>2, <1>2, <1>5 DEF i
    <3> QED  BY <3>1, <3>3, <1>4, <1>6 DEF i
  <2> QED  BY <2>4, <2>5
<1>8. u = Append(s, c)  BY <1>1, <1>5, <1>6, <1>7, SeqEqual
<1> QED  BY <1>8 DEF s, u

\* Past its first byte, a stretch is its own tail.
LEMMA BytesTake ==
  ASSUME NEW r \in Ring, NEW n \in 1..BUFFER_SIZE
  PROVE  /\ Bytes(r, r.Out, n) # <<>>
         /\ Head(Bytes(r, r.Out, n)) = Oldest(r) /\ Oldest(r) \in Byte
         /\ Bytes(r, (r.Out + 1) % BUFFER_SIZE, n - 1) = Tail(Bytes(r, r.Out, n))
<1> DEFINE o == (r.Out + 1) % BUFFER_SIZE
           s == Bytes(r, r.Out, n)
           u == Bytes(r, o, n - 1)
<1>1. n \in 0..BUFFER_SIZE /\ n - 1 \in 0..BUFFER_SIZE /\ 1 \in 0..BUFFER_SIZE /\ n \in Nat
  BY Constants
<1>2. r.Out \in Slots /\ r.Buffer \in [Slots -> Byte]  BY DEF Ring
<1>3. o \in Slots /\ o = IF r.Out + 1 < BUFFER_SIZE THEN r.Out + 1 ELSE r.Out + 1 - BUFFER_SIZE
  BY <1>1, <1>2, SlotCases
<1> HIDE DEF o
<1>4. /\ s \in Seq(Byte) /\ Len(s) = n
      /\ \A k \in 1..n : s[k] = r.Buffer[(r.Out + (k - 1)) % BUFFER_SIZE]
  BY <1>1, <1>2, BytesType
<1>5. /\ u \in Seq(Byte) /\ Len(u) = n - 1
      /\ \A k \in 1..(n - 1) : u[k] = r.Buffer[(o + (k - 1)) % BUFFER_SIZE]
  BY <1>1, <1>3, BytesType
<1> HIDE DEF s, u
<1>6. s # <<>>  BY <1>1, <1>4, EmptySeq
<1>7. Head(s) = r.Buffer[r.Out] /\ r.Buffer[r.Out] \in Byte
  <2>1. 1 \in 1..n /\ 1 - 1 = 0 /\ r.Out + 0 = r.Out /\ 0 \in 0..BUFFER_SIZE
    BY <1>1, <1>2, Constants DEF Slots
  <2>2. (r.Out + 0) % BUFFER_SIZE = r.Out
    BY <2>1, <1>2, SlotCases, Constants DEF Slots
  <2>3. s[1] = r.Buffer[r.Out]  BY <2>1, <2>2, <1>4
  <2> QED  BY <2>3, <1>2, <1>4, <1>6
<1>8. /\ Tail(s) \in Seq(Byte) /\ Len(Tail(s)) = n - 1
      /\ \A k \in 1..(n - 1) : Tail(s)[k] = s[k + 1]
  BY <1>4, <1>6, HeadTailProperties
<1>9. ASSUME NEW k \in 1..(n - 1) PROVE u[k] = Tail(s)[k]
  <2>1. k + 1 \in 1..n /\ k - 1 \in 0..BUFFER_SIZE /\ k \in 0..BUFFER_SIZE /\ (k + 1) - 1 = k
    BY <1>1, Constants
  <2>2. s[k + 1] = r.Buffer[(r.Out + k) % BUFFER_SIZE]  BY <2>1, <1>4
  <2>3. (r.Out + k) % BUFFER_SIZE
          = IF r.Out + k < BUFFER_SIZE THEN r.Out + k ELSE r.Out + k - BUFFER_SIZE
    BY <2>1, <1>2, SlotCases
  <2>4. (o + (k - 1)) % BUFFER_SIZE
          = IF o + (k - 1) < BUFFER_SIZE THEN o + (k - 1) ELSE o + (k - 1) - BUFFER_SIZE
    BY <2>1, <1>3, SlotCases
  <2>5. (o + (k - 1)) % BUFFER_SIZE = (r.Out + k) % BUFFER_SIZE
    <3>1. CASE r.Out + 1 < BUFFER_SIZE
      <4>1. o = r.Out + 1  BY <3>1, <1>3
      <4>2. o + (k - 1) = r.Out + k  BY <4>1, <1>2, <1>1 DEF Slots
      <4> QED  BY <4>2
    <3>2. CASE ~(r.Out + 1 < BUFFER_SIZE)
      <4>1. r.Out = BUFFER_SIZE - 1 /\ o = 0  BY <3>2, <1>2, <1>3, Constants DEF Slots
      <4>2. (r.Out + k) % BUFFER_SIZE = k - 1 /\ (o + (k - 1)) % BUFFER_SIZE = k - 1
        BY <4>1, <2>1, <2>3, <2>4, <1>1, Constants
      <4> QED  BY <4>2
    <3> QED  BY <3>1, <3>2
  <2> QED  BY <2>2, <2>5, <1>5, <1>8
<1>10. u = Tail(s)  BY <1>1, <1>5, <1>8, <1>9, SeqEqual
<1> QED  BY <1>6, <1>7, <1>10 DEF s, u, o, Oldest
-----------------------------------------------------------------------------
(***** the invariant *****)

\* Every step keeps the types, the rings after an overrun included: the insert
\* index and the count wrap by themselves.
LEMMA TypeHolds ==
  /\ BridgeInit => BridgeTypeOK
  /\ BridgeTypeOK /\ [BridgeNext]_bridgeVars => BridgeTypeOK'
<1> USE DEF BridgeTypeOK
<1>1. BridgeInit => BridgeTypeOK
  <2> SUFFICES ASSUME BridgeInit PROVE BridgeTypeOK  OBVIOUS
  <2>1. 0 \in 0..(COUNTS - 1)  BY Constants
  <2> QED  BY <2>1 DEF BridgeInit
<1>2. ASSUME BridgeTypeOK, [BridgeNext]_bridgeVars PROVE BridgeTypeOK'
  <2>1. CASE UNCHANGED bridgeVars  BY <1>2, <2>1 DEF bridgeVars
  <2>2. CASE \E c \in Byte : Receive(c)
    <3>1. PICK c \in Byte : Receive(c)  BY <2>2
    <3>2. USARTtoUSB' \in Ring  BY <1>2, <3>1, InsertFields DEF Receive
    <3>3. overrun' \in BOOLEAN  BY <1>2, <3>1 DEF Receive, IsFull
    <3> QED  BY <1>2, <3>1, <3>2, <3>3 DEF Receive
  <2>3. CASE Expire \/ Usb  BY <1>2, <2>3 DEF Expire, Usb
  <2>4. CASE MainReceive  BY <1>2, <2>4, InsertFields DEF MainReceive, FromHost
  <2>5. CASE MainCount  BY <1>2, <2>5 DEF MainCount, Ring
  <2>6. CASE MainTest  BY <1>2, <2>6 DEF MainTest
  <2>7. CASE MainTake
    <3>1. Advance(USARTtoUSB) \in Ring /\ Oldest(USARTtoUSB) \in Byte
      BY <1>2, RemoveFields DEF Ring, Oldest
    <3>2. BufferCount > 0 => BufferCount - 1 \in 0..(COUNTS - 1)  BY <1>2, Constants
    <3>3. BufferCount' \in 0..(COUNTS - 1)  BY <1>2, <2>7, <3>2 DEF MainTake
    <3>4. USARTtoUSB' \in Ring /\ hand' \in Byte \cup {-1}
      BY <1>2, <2>7, <3>1 DEF MainTake
    <3> QED  BY <1>2, <2>7, <3>3, <3>4 DEF MainTake
  <2>8. CASE MainDrop
    <3>1. Drop(USARTtoUSB) \in Ring /\ toHost' \in Byte \cup {-1}  BY <1>2, <2>8, RemoveFields DEF MainDrop
    <3> QED  BY <1>2, <2>8, <3>1 DEF MainDrop
  <2>9. CASE MainLoad
    <3>1. Advance(USBtoUSART) \in Ring /\ Oldest(USBtoUSART) \in Byte
      BY <1>2, RemoveFields DEF Ring, Oldest
    <3>2. Drop(Advance(USBtoUSART)) \in Ring  BY <3>1, RemoveFields
    <3> QED  BY <1>2, <2>9, <3>1, <3>2 DEF MainLoad
  <2> QED
    BY <1>2, <2>1, <2>2, <2>3, <2>4, <2>5, <2>6, <2>7, <2>8, <2>9 DEF BridgeNext, Main
<1> QED  BY <1>1, <1>2

\* The insert index is n slots after the remove index.
Spans(r, n) == n \in 0..BUFFER_SIZE /\ r.In = (r.Out + n) % BUFFER_SIZE

\* Until an overrun the indices agree with the count, except for the byte in
\* hand, and main() counts out no more bytes than there are.  Nothing else
\* touches the ring of the other direction, which is never overrun.
BridgeInv ==
  /\ BridgeTypeOK
  /\ Spans(USBtoUSART, USBtoUSART.Count)
  /\ bridgePc = "drop" => hand \in Byte
  /\ ~overrun =>
       /\ USARTtoUSB.Count <= BUFFER_SIZE
       /\ bridgePc # "drop" => Spans(USARTtoUSB, USARTtoUSB.Count)
       /\ bridgePc = "drop" => Spans(USARTtoUSB, USARTtoUSB.Count - 1)
       /\ bridgePc \in {"test", "take"} => BufferCount <= USARTtoUSB.Count
       /\ bridgePc = "drop" => BufferCount <= USARTtoUSB.Count - 1

\* Inserting where there is room, and removing where there is a byte.
LEMMA SpansInsert ==
  ASSUME NEW r \in Ring, NEW c \in Byte, NEW n \in 0..(BUFFER_SIZE - 1), Spans(r, n)
  PROVE  Spans(Insert(r, c), n + 1)
<1> DEFINE i == (r.Out + n) % BUFFER_SIZE
           j == (r.Out + (n + 1)) % BUFFER_SIZE
<1>1. n \in 0..BUFFER_SIZE /\ n + 1 \in 0..BUFFER_SIZE /\ r.Out \in Slots /\ n \in Nat
  BY Constants DEF Ring
<1>2. i \in Slots /\ i = IF r.Out + n < BUFFER_SIZE THEN r.Out + n ELSE r.Out + n - BUFFER_SIZE
  BY <1>1, SlotCases
<1>3. j = IF r.Out + (n + 1) < BUFFER_SIZE THEN r.Out + (n + 1)
                                           ELSE r.Out + (n + 1) - BUFFER_SIZE
  BY <1>1, SlotCases
<1>4. Insert(r, c).In = (i + 1) % BUFFER_SIZE /\ Insert(r, c).Out = r.Out
  BY InsertFields DEF Spans
<1> HIDE DEF i, j
<1>5. Succ(i) = (i + 1) % BUFFER_SIZE  BY <1>2, SuccIsNext
<1>6. Succ(i) = j  BY <1>1, <1>2, <1>3, Constants DEF Succ, Slots
<1> QED  BY <1>1, <1>4, <1>5, <1>6 DEF Spans, j

\* Advancing the remove index past a byte.
LEMMA SpansAdvance ==
  ASSUME NEW r \in Ring, NEW n \in 1..BUFFER_SIZE, Spans(r, n)
  PROVE  Spans(Advance(r), n - 1)
<1> DEFINE o == Succ(r.Out)
           i == (r.Out + n) % BUFFER_SIZE
           j == (o + (n - 1)) % BUFFER_SIZE
<1>1. n \in 0..BUFFER_SIZE /\ n - 1 \in 0..BUFFER_SIZE /\ r.Out \in Slots /\ n \in Nat
  BY Constants DEF Ring
<1>2. i = IF r.Out + n < BUFFER_SIZE THEN r.Out + n ELSE r.Out + n - BUFFER_SIZE
  BY <1>1, SlotCases
<1>3. o \in Slots /\ Advance(r).Out = o /\ Advance(r).In = r.In
  BY <1>1, SuccIsNext, RemoveFields
<1>4. o = IF r.Out + 1 = BUFFER_SIZE THEN 0 ELSE r.Out + 1  BY DEF Succ
<1> HIDE DEF o
<1>5. j = IF o + (n - 1) < BUFFER_SIZE THEN o + (n - 1) ELSE o + (n - 1) - BUFFER_SIZE
  BY <1>1, <1>3, SlotCases
<1>6. r.In = i  BY DEF Spans
<1> HIDE DEF i, j
<1>7. i = j
  <2>1. CASE r.Out + 1 = BUFFER_SIZE
    BY <2>1, <1>1, <1>2, <1>4, <1>5, Constants DEF Slots
  <2>2. CASE r.Out + 1 # BUFFER_SIZE
    <3>1. o + (n - 1) = r.Out + n  BY <2>2, <1>1, <1>4 DEF Slots
    <3>2. i = (r.Out + n) % BUFFER_SIZE /\ j = (o + (n - 1)) % BUFFER_SIZE  BY DEF i, j
    <3> QED  BY <3>1, <3>2
  <2> QED  BY <2>1, <2>2
<1> QED  BY <1>1, <1>3, <1>6, <1>7 DEF Spans, j

\* An insertion that has room appends its byte to the ring's pipe.
LEMMA PutAppends ==
  ASSUME NEW r \in Ring, NEW c \in Byte, Spans(r, r.Count), ~IsFull(r)
  PROVE  /\ r.Count \in 0..(BUFFER_SIZE - 1)
         /\ Insert(r, c) \in Ring /\ Insert(r, c).Count = r.Count + 1
         /\ Spans(Insert(r, c), r.Count + 1)
         /\ Insert(r, c).Out = r.Out
         /\ Bytes(Insert(r, c), r.Out, r.Count + 1) = Append(Bytes(r, r.Out, r.Count), c)
<1>1. r.Count \in 0..(BUFFER_SIZE - 1)  BY Constants DEF Spans, IsFull
<1>2. r.In = (r.Out + r.Count) % BUFFER_SIZE  BY DEF Spans
<1>3. r.Count <= BUFFER_SIZE - 1  BY <1>1, Constants
<1>4. /\ Insert(r, c) \in Ring /\ Insert(r, c).Count = r.Count + 1
      /\ Insert(r, c).Out = r.Out
  BY <1>3, InsertFields
<1>5. Spans(Insert(r, c), r.Count + 1)  BY <1>1, SpansInsert
<1>6. Bytes(Insert(r, c), r.Out, r.Count + 1) = Append(Bytes(r, r.Out, r.Count), c)
  BY <1>1, <1>2, BytesInsert
<1> QED  BY <1>1, <1>4, <1>5, <1>6

\* A removal takes the oldest byte from the ring's pipe.
LEMMA TakeRemoves ==
  ASSUME NEW r \in Ring, NEW n \in 1..BUFFER_SIZE, Spans(r, n)
  PROVE  /\ Advance(r) \in Ring /\ Advance(r).Count = r.Count
         /\ Spans(Advance(r), n - 1)
         /\ Oldest(r) \in Byte
         /\ Bytes(r, r.Out, n) # <<>> /\ Head(Bytes(r, r.Out, n)) = Oldest(r)
         /\ Bytes(Advance(r), Advance(r).Out, n - 1) = Tail(Bytes(r, r.Out, n))
<1>1. /\ Advance(r) \in Ring /\ Advance(r).Count = r.Count /\ Advance(r).Buffer = r.Buffer
      /\ Advance(r).Out = (r.Out + 1) % BUFFER_SIZE
  BY RemoveFields
<1>2. Bytes(Advance(r), Advance(r).Out, n - 1) = Bytes(r, (r.Out + 1) % BUFFER_SIZE, n - 1)
  BY <1>1 DEF Bytes
<1> QED  BY <1>1, <1>2, SpansAdvance, BytesTake

\* The count follows without the bytes changing.
LEMMA DropCounts ==
  ASSUME NEW r \in Ring, r.Count > 0
  PROVE  /\ Drop(r) \in Ring /\ Drop(r).Count = r.Count - 1
         /\ \A n : Spans(Drop(r), n) <=> Spans(r, n)
         /\ \A n : Bytes(Drop(r), Drop(r).Out, n) = Bytes(r, r.Out, n)
BY RemoveFields DEF Spans, Bytes

\* The invariant holds at reset.
LEMMA InvStarts == ASSUME BridgeInit PROVE BridgeInv
<1>1. BridgeTypeOK  BY TypeHolds
<1>2. /\ USBtoUSART = USARTtoUSB /\ bridgePc = "receive"
      /\ USARTtoUSB.In = 0 /\ USARTtoUSB.Out = 0 /\ USARTtoUSB.Count = 0
  BY DEF BridgeInit, Empty
<1>3. 0 \in 0..BUFFER_SIZE /\ 0 \in Slots /\ 0 <= BUFFER_SIZE  BY Constants DEF Slots
<1>4. (0 + 0) % BUFFER_SIZE = 0  BY <1>3, SlotCases, Constants DEF Slots
<1>5. Spans(USARTtoUSB, 0)  BY <1>2, <1>3, <1>4 DEF Spans
<1> QED  BY <1>1, <1>2, <1>3, <1>5 DEF BridgeInv

\* Every step keeps it: the interrupt may come between the two halves of a
\* removal, and the removal was counted before it.
LEMMA InvStep == ASSUME BridgeInv, [BridgeNext]_bridgeVars PROVE BridgeInv'
<1> DEFINE up == USARTtoUSB
           down == USBtoUSART
<1>0. BridgeTypeOK /\ BridgeTypeOK'  BY TypeHolds DEF BridgeInv
<1>a. /\ up \in Ring /\ down \in Ring /\ up.Count \in Nat /\ down.Count \in Nat
      /\ BufferCount \in Nat
  BY <1>0 DEF BridgeTypeOK, Ring
<1>1. CASE UNCHANGED bridgeVars  BY <1>0, <1>1 DEF bridgeVars, BridgeInv, Spans
<1>2. ASSUME NEW c \in Byte, Receive(c) PROVE BridgeInv'
  <2>1. /\ up' = Insert(up, c) /\ overrun' = (overrun \/ IsFull(up))
        /\ UNCHANGED <<down, bridgePc, hand, BufferCount>>
    BY <1>2 DEF Receive
  <2>2. ASSUME ~overrun'
        PROVE  /\ up'.Count = up.Count + 1 /\ up'.Count <= BUFFER_SIZE
               /\ bridgePc # "drop" => Spans(up', up'.Count)
               /\ bridgePc = "drop" => Spans(up', up'.Count - 1)
    <3>1. ~overrun /\ ~IsFull(up)  BY <2>1, <2>2
    <3>2. up.Count \in 0..(BUFFER_SIZE - 1)
      BY <3>1, <1>a, Constants DEF BridgeInv, IsFull
    <3>3. up'.Count = up.Count + 1
      <4>1. up.Count <= BUFFER_SIZE - 1  BY <3>2, Constants
      <4> QED  BY <2>1, <4>1, <1>a, InsertFields
    <3>4. CASE bridgePc # "drop"
      <4>1. Spans(up, up.Count)  BY <3>1, <3>4 DEF BridgeInv
      <4>2. Spans(up', up.Count + 1)  BY <2>1, <3>2, <4>1, <1>a, SpansInsert
      <4> QED  BY <3>2, <3>3, <3>4, <4>2, Constants
    <3>5. CASE bridgePc = "drop"
      <4>1. Spans(up, up.Count - 1)  BY <3>1, <3>5 DEF BridgeInv
      <4>2. up.Count - 1 \in 0..(BUFFER_SIZE - 1)  BY <3>2, <4>1, Constants DEF Spans
      <4>3. Spans(up', (up.Count - 1) + 1)  BY <2>1, <4>1, <4>2, <1>a, SpansInsert
      <4>4. (up.Count - 1) + 1 = up'.Count - 1  BY <3>2, <3>3
      <4> QED  BY <3>2, <3>3, <3>5, <4>3, <4>4, Constants
    <3> QED  BY <3>4, <3>5
  <2>3. Spans(down', down'.Count) /\ (bridgePc' = "drop" => hand' \in Byte)
    BY <2>1 DEF BridgeInv, Spans
  <2>4. ASSUME ~overrun'
        PROVE  /\ bridgePc' \in {"test", "take"} => BufferCount' <= up'.Count
               /\ bridgePc' = "drop" => BufferCount' <= up'.Count - 1
    <3>1. up'.Count = up.Count + 1 /\ ~overrun  BY <2>1, <2>2, <2>4
    <3> QED  BY <1>a, <2>1, <3>1 DEF BridgeInv
  <2>5. bridgePc' = bridgePc  BY <2>1
  <2> QED  BY <1>0, <2>2, <2>3, <2>4, <2>5 DEF BridgeInv
<1>3. CASE Expire \/ Usb  BY <1>0, <1>3 DEF Expire, Usb, BridgeInv, Spans
<1>4. CASE MainReceive
  <2>1. Spans(down', down'.Count)
    <3>1. CASE UNCHANGED down  BY <3>1 DEF BridgeInv, Spans
    <3>2. ASSUME NEW c \in Byte, FromHost(c) PROVE Spans(down', down'.Count)
      BY <3>2, <1>a, PutAppends DEF FromHost, BridgeInv
    <3> QED  BY <1>4, <3>1, <3>2 DEF MainReceive
  <2> QED  BY <1>0, <1>4, <2>1 DEF MainReceive, BridgeInv, Spans
<1>5. CASE MainCount  BY <1>0, <1>a, <1>5 DEF MainCount, BridgeInv, Spans
<1>6. CASE MainTest  BY <1>0, <1>6 DEF MainTest, BridgeInv, Spans
<1>7. CASE MainTake
  <2>1. CASE BufferCount = 0 /\ bridgePc' = "load" /\ UNCHANGED <<up, BufferCount, hand>>
    BY <1>0, <1>7, <2>1 DEF MainTake, BridgeInv, Spans
  <2>2. CASE /\ BufferCount > 0 /\ bridgePc' = "drop" /\ BufferCount' = BufferCount - 1
             /\ hand' = Oldest(up) /\ up' = Advance(up)
    <3>1. hand' \in Byte /\ up'.Count = up.Count
      BY <2>2, <1>a, RemoveFields DEF Oldest, Ring
    <3>2. UNCHANGED <<down, overrun>> /\ bridgePc = "take"  BY <1>7 DEF MainTake
    <3>3. ASSUME ~overrun
          PROVE  Spans(up', up'.Count - 1) /\ BufferCount' <= up'.Count - 1
      <4>1. Spans(up, up.Count) /\ BufferCount <= up.Count  BY <3>2, <3>3 DEF BridgeInv
      <4>2. up.Count \in 1..BUFFER_SIZE  BY <4>1, <2>2, <1>a, Constants DEF Spans
      <4>3. Spans(up', up.Count - 1)  BY <4>1, <4>2, <2>2, <1>a, SpansAdvance
      <4> QED  BY <4>1, <4>2, <4>3, <3>1, <2>2, <1>a
    <3> QED  BY <1>0, <2>2, <3>1, <3>2, <3>3 DEF BridgeInv, Spans
  <2> QED  BY <1>7, <2>1, <2>2 DEF MainTake
<1>8. CASE MainDrop
  <2>1. /\ bridgePc = "drop" /\ bridgePc' = "take" /\ up' = Drop(up)
        /\ UNCHANGED <<down, overrun, BufferCount>>
    BY <1>8 DEF MainDrop
  <2>2. ASSUME ~overrun
        PROVE  /\ up'.Count <= BUFFER_SIZE /\ Spans(up', up'.Count)
               /\ BufferCount <= up'.Count
    <3>1. /\ Spans(up, up.Count - 1) /\ BufferCount <= up.Count - 1
          /\ up.Count <= BUFFER_SIZE
      BY <2>1, <2>2 DEF BridgeInv
    <3>2. up.Count > 0  BY <3>1, <1>a
    <3>3. up'.Count = up.Count - 1 /\ Spans(up', up.Count - 1)
      BY <2>1, <3>1, <3>2, <1>a, DropCounts
    <3> QED  BY <3>1, <3>3, <1>a, Constants
  <2> QED  BY <1>0, <2>1, <2>2 DEF BridgeInv, Spans
<1>9. CASE MainLoad
  <2>1. CASE down.Count > 0 /\ down' = Drop(Advance(down))
    <3>1. down.Count \in 1..BUFFER_SIZE /\ Spans(down, down.Count)
      BY <2>1, <1>a, Constants DEF BridgeInv, Spans
    <3>2. /\ Advance(down) \in Ring /\ Advance(down).Count = down.Count
          /\ Spans(Advance(down), down.Count - 1)
      BY <3>1, <1>a, TakeRemoves
    <3>3. down'.Count = down.Count - 1 /\ Spans(down', down.Count - 1)
      BY <2>1, <3>2, DropCounts
    <3> QED  BY <1>0, <1>9, <3>3 DEF MainLoad, BridgeInv, Spans
  <2>2. CASE UNCHANGED down
    BY <1>0, <1>9, <2>2 DEF MainLoad, BridgeInv, Spans
  <2> QED  BY <1>9, <2>1, <2>2 DEF MainLoad
<1> QED
  BY <1>1, <1>2, <1>3, <1>4, <1>5, <1>6, <1>7, <1>8, <1>9 DEF BridgeNext, Main
-----------------------------------------------------------------------------
(***** the refinement *****)

\* A byte put in front of others.
LEMMA InFront ==
  ASSUME NEW h \in Byte, NEW s \in Seq(Byte)
  PROVE  /\ <<h>> \o s \in Seq(Byte) /\ Len(<<h>> \o s) = Len(s) + 1
         /\ <<h>> \o s # <<>> /\ Head(<<h>> \o s) = h /\ Tail(<<h>> \o s) = s
         /\ \A c \in Byte : Append(<<h>> \o s, c) = <<h>> \o Append(s, c)
<1> DEFINE b == <<h>>
           q == b \o s
<1>1. b \in Seq(Byte) /\ Len(b) = 1 /\ b[1] = h  OBVIOUS
<1>2. Len(s) \in Nat  BY LenProperties
<1> HIDE DEF b
<1>3. /\ q \in Seq(Byte) /\ Len(q) = 1 + Len(s)
      /\ \A i \in 1..(1 + Len(s)) : q[i] = IF i <= 1 THEN b[i] ELSE s[i - 1]
  <2>1. /\ b \o s \in Seq(Byte) /\ Len(b \o s) = Len(b) + Len(s)
        /\ \A i \in 1..Len(b) + Len(s) :
              (b \o s)[i] = IF i <= Len(b) THEN b[i] ELSE s[i - Len(b)]
    BY <1>1, ConcatProperties
  <2> QED  BY <1>1, <1>2, <2>1
<1> HIDE DEF q
<1>4. q # <<>>  BY <1>2, <1>3, EmptySeq
<1>5. Head(q) = h
  <2>1. q[1] = b[1]  BY <1>2, <1>3
  <2> QED  BY <2>1, <1>1, <1>3, <1>4
<1>6. Tail(q) = s
  <2>1. /\ Tail(q) \in Seq(Byte) /\ Len(Tail(q)) = Len(q) - 1
        /\ \A i \in 1..Len(Tail(q)) : Tail(q)[i] = q[i + 1]
    BY <1>3, <1>4, HeadTailProperties
  <2>2. Len(Tail(q)) = Len(s)  BY <2>1, <1>2, <1>3
  <2>3. ASSUME NEW i \in 1..Len(Tail(q)) PROVE Tail(q)[i] = s[i]
    <3>1. i + 1 \in 1..(1 + Len(s)) /\ ~(i + 1 <= 1) /\ (i + 1) - 1 = i
      BY <2>2, <1>2
    <3> QED  BY <3>1, <2>1, <1>3
  <2> QED  BY <2>1, <2>2, <2>3, SeqEqual
<1>7. ASSUME NEW c \in Byte PROVE Append(q, c) = b \o Append(s, c)
  <2>1. <<c>> \in Seq(Byte)  OBVIOUS
  <2>2. Append(q, c) = q \o <<c>> /\ Append(s, c) = s \o <<c>>
    BY <1>3, AppendIsConcat
  <2>3. (b \o s) \o <<c>> = b \o (s \o <<c>>)  BY <1>1, <2>1, ConcatAssociative
  <2> QED  BY <2>2, <2>3 DEF q
<1> QED  BY <1>2, <1>3, <1>4, <1>5, <1>6, <1>7 DEF q, b

\* A sequence is its head in front of its tail.
LEMMA HeadInFront ==
  ASSUME NEW s \in Seq(Byte), s # <<>>
  PROVE  <<Head(s)>> \o Tail(s) = s
<1> DEFINE h == Head(s)
           q == <<h>> \o Tail(s)
<1>1. /\ h \in Byte /\ Tail(s) \in Seq(Byte) /\ Len(Tail(s)) = Len(s) - 1
      /\ \A i \in 1..Len(Tail(s)) : Tail(s)[i] = s[i + 1]
  BY HeadTailProperties
<1>2. Len(s) \in Nat \ {0} /\ h = s[1]  BY EmptySeq, LenProperties
<1> HIDE DEF h
<1>3. /\ q \in Seq(Byte) /\ Len(q) = Len(Tail(s)) + 1 /\ q # <<>>
      /\ Head(q) = h /\ Tail(q) = Tail(s)
  BY <1>1, InFront
<1> HIDE DEF q
<1>4. Len(q) = Len(s)  BY <1>1, <1>2, <1>3
<1>5. /\ \A i \in 1..Len(Tail(q)) : Tail(q)[i] = q[i + 1]
      /\ q[1] = h
  BY <1>3, HeadTailProperties
<1>6. ASSUME NEW i \in 1..Len(q) PROVE q[i] = s[i]
  <2>1. CASE i = 1  BY <2>1, <1>2, <1>5
  <2>2. CASE i # 1
    <3>1. i - 1 \in 1..Len(Tail(s)) /\ (i - 1) + 1 = i  BY <2>2, <1>1, <1>2, <1>4
    <3>2. Tail(s)[i - 1] = s[i] /\ Tail(s)[i - 1] = q[i]
      <4> DEFINE j == i - 1
      <4>1. j \in 1..Len(Tail(s)) /\ j + 1 = i  BY <3>1
      <4> HIDE DEF j
      <4>2. Tail(s)[j] = s[i] /\ Tail(s)[j] = q[i]  BY <4>1, <1>1, <1>3, <1>5
      <4> QED  BY <4>2 DEF j
    <3> QED  BY <3>2
  <2> QED  BY <2>1, <2>2
<1>7. q = s  BY <1>3, <1>4, <1>6, SeqEqual
<1> QED  BY <1>7 DEF q, h

\* What the board's pipe holds.
DownQueue == Bytes(USBtoUSART, USBtoUSART.Out, USBtoUSART.Count)

\* From the host to the board: main() puts a byte in the pipe when there is
\* room and takes the oldest one out, and nothing else touches it.
LEMMA DownStep ==
  ASSUME BridgeInv, [BridgeNext]_bridgeVars
  PROVE  [Down!PipeNext]_<<DownQueue, toBoard, FALSE, TRUE>>
<1> DEFINE down == USBtoUSART
<1>1. /\ down \in Ring /\ Spans(down, down.Count) /\ down.Count \in 0..BUFFER_SIZE
      /\ down.Out \in Slots
  BY DEF BridgeInv, BridgeTypeOK, Spans, Ring
<1>2. CASE UNCHANGED <<down, toBoard>>  BY <1>2 DEF DownQueue
<1>3. ASSUME NEW c \in Byte, FromHost(c), UNCHANGED toBoard
      PROVE  Down!PipeNext
  <2>1. down' = Insert(down, c) /\ ~IsFull(down)  BY <1>3 DEF FromHost
  <2>2. /\ down.Count \in 0..(BUFFER_SIZE - 1) /\ down'.Count = down.Count + 1
        /\ down'.Out = down.Out
        /\ Bytes(down', down.Out, down.Count + 1) = Append(Bytes(down, down.Out, down.Count), c)
    BY <2>1, <1>1, PutAppends
  <2>3. DownQueue' = Append(DownQueue, c)  BY <2>2 DEF DownQueue
  <2>4. Len(DownQueue) < BUFFER_SIZE  BY <1>1, <2>2, BytesType, Constants DEF DownQueue
  <2> QED  BY <1>3, <2>3, <2>4 DEF Down!PipeNext, Down!Put, DownQueue
<1>4. CASE MainLoad /\ down.Count > 0
  <2>1. toBoard' = Oldest(down) /\ down' = Drop(Advance(down))  BY <1>4 DEF MainLoad
  <2>2. down.Count \in 1..BUFFER_SIZE  BY <1>1, <1>4, Constants
  <2>3. /\ Advance(down) \in Ring /\ Advance(down).Count = down.Count
        /\ DownQueue # <<>> /\ Head(DownQueue) = Oldest(down)
        /\ Bytes(Advance(down), Advance(down).Out, down.Count - 1) = Tail(DownQueue)
    BY <1>1, <2>2, TakeRemoves DEF DownQueue
  <2>4. Advance(down).Count > 0  BY <2>2, <2>3, Constants
  <2>5. /\ down'.Count = down.Count - 1
        /\ Bytes(down', down'.Out, down.Count - 1)
             = Bytes(Advance(down), Advance(down).Out, down.Count - 1)
    BY <2>1, <2>3, <2>4, DropCounts
  <2>6. DownQueue' = Tail(DownQueue)  BY <2>3, <2>5 DEF DownQueue
  <2> QED  BY <2>1, <2>3, <2>6 DEF Down!PipeNext, Down!Get, DownQueue
<1>5. CASE UNCHANGED bridgeVars  BY <1>2, <1>5 DEF bridgeVars
<1>6. CASE (\E c \in Byte : Receive(c)) \/ Expire \/ Usb \/ MainCount \/ MainTest \/ MainTake \/ MainDrop
  BY <1>2, <1>6 DEF Receive, Expire, Usb, MainCount, MainTest, MainTake, MainDrop
<1>7. CASE MainReceive  BY <1>2, <1>3, <1>7 DEF MainReceive
<1>8. CASE MainLoad  BY <1>1, <1>2, <1>4, <1>8 DEF MainLoad
<1> QED  BY <1>5, <1>6, <1>7, <1>8 DEF BridgeNext, Main

\* From the board to the host: the interrupt puts a byte in the pipe unless
\* there is no room, which is an overrun; taking a byte in hand does not move
\* it, and passing it on takes it out.
LEMMA UpStep ==
  ASSUME BridgeInv, [BridgeNext]_bridgeVars
  PROVE  [Up!PipeNext]_<<UpQueue, toHost, overrun, reads>>
<1> DEFINE up == USARTtoUSB
<1>1. /\ up \in Ring /\ up.Out \in Slots /\ up.Count \in Nat /\ overrun \in BOOLEAN
      /\ BufferCount \in Nat
  BY DEF BridgeInv, BridgeTypeOK, Ring
<1>2. CASE overrun'
  <2>1. CASE overrun  BY <1>2, <2>1 DEF Up!PipeNext, Up!Overrun
  <2>2. CASE ~overrun
    <3>1. PICK c \in Byte : Receive(c)
      BY <1>2, <2>2 DEF BridgeNext, Main, bridgeVars, Expire, Usb, MainReceive, MainCount,
                        MainTest, MainTake, MainDrop, MainLoad
    <3>2. up.Count = BUFFER_SIZE  BY <1>2, <2>2, <3>1 DEF Receive, IsFull
    <3>3. Len(UpQueue) = BUFFER_SIZE
      <4>1. CASE bridgePc # "drop"
        <5>1. up.Count \in 0..BUFFER_SIZE  BY <3>2, Constants
        <5> QED  BY <4>1, <5>1, <3>2, <1>1, BytesType DEF UpQueue
      <4>2. CASE bridgePc = "drop"
        <5> DEFINE n == up.Count - 1
        <5>1. n \in 0..BUFFER_SIZE /\ n + 1 = BUFFER_SIZE  BY <3>2, Constants
        <5> HIDE DEF n
        <5>2. Bytes(up, up.Out, n) \in Seq(Byte) /\ Len(Bytes(up, up.Out, n)) = n
          BY <5>1, <1>1, BytesType
        <5>3. hand \in Byte  BY <4>2 DEF BridgeInv
        <5>4. Len(<<hand>> \o Bytes(up, up.Out, n)) = n + 1  BY <5>2, <5>3, InFront
        <5> QED  BY <4>2, <5>1, <5>4 DEF UpQueue, n
      <4> QED  BY <4>1, <4>2
    <3> QED  BY <1>2, <3>3 DEF Up!PipeNext, Up!Overrun
  <2> QED  BY <1>1, <2>1, <2>2
<1>3. CASE ~overrun' /\ UNCHANGED <<up, bridgePc, hand, toHost, overrun, reads>>
  BY <1>3 DEF UpQueue
<1>4. ASSUME ~overrun', NEW c \in Byte, Receive(c) PROVE Up!PipeNext
  <2>1. /\ ~overrun /\ ~IsFull(up) /\ up' = Insert(up, c)
        /\ UNCHANGED <<bridgePc, hand, toHost, reads>> /\ overrun' = overrun
    BY <1>1, <1>4 DEF Receive, IsFull
  <2>2. CASE bridgePc # "drop"
    <3>1. Spans(up, up.Count)  BY <2>1, <2>2 DEF BridgeInv
    <3>2. /\ up.Count \in 0..(BUFFER_SIZE - 1) /\ up'.Count = up.Count + 1 /\ up'.Out = up.Out
          /\ Bytes(up', up.Out, up.Count + 1) = Append(Bytes(up, up.Out, up.Count), c)
      BY <2>1, <3>1, <1>1, PutAppends
    <3>3. UpQueue' = Append(UpQueue, c)  BY <2>1, <2>2, <3>2 DEF UpQueue
    <3>4. Len(UpQueue) < BUFFER_SIZE
      <4>1. up.Count \in 0..BUFFER_SIZE /\ up.Count < BUFFER_SIZE  BY <3>2, Constants
      <4> QED  BY <2>2, <4>1, <1>1, BytesType DEF UpQueue
    <3> QED  BY <2>1, <3>3, <3>4 DEF Up!PipeNext, Up!Put
  <2>3. CASE bridgePc = "drop"
    <3> DEFINE n == up.Count - 1
               b == Bytes(up, up.Out, n)
    <3>1. Spans(up, n) /\ up.Count <= BUFFER_SIZE /\ hand \in Byte
      BY <2>1, <2>3 DEF BridgeInv
    <3>2. /\ n \in 0..(BUFFER_SIZE - 1) /\ n \in 0..BUFFER_SIZE /\ n + 1 < BUFFER_SIZE
          /\ up.Count = n + 1 /\ up.Count <= BUFFER_SIZE - 1
      BY <2>1, <3>1, <1>1, Constants DEF Spans, IsFull
    <3>3. up'.Count = up.Count + 1 /\ up'.Out = up.Out
      BY <2>1, <3>2, <1>1, InsertFields
    <3> HIDE DEF n
    <3>4. up.In = (up.Out + n) % BUFFER_SIZE  BY <3>1 DEF Spans
    <3>5. Bytes(up', up.Out, n + 1) = Append(b, c)
      BY <2>1, <3>2, <3>4, <1>1, BytesInsert
    <3>6. b \in Seq(Byte) /\ Len(b) = n  BY <3>2, <1>1, BytesType
    <3>7. UpQueue = <<hand>> \o b  BY <2>3 DEF UpQueue, n
    <3>8. up'.Count - 1 = n + 1  BY <3>2, <3>3, <1>1
    <3>9. UpQueue' = <<hand>> \o Bytes(up', up.Out, n + 1)
      BY <2>1, <2>3, <3>3, <3>8 DEF UpQueue
    <3> HIDE DEF b
    <3>10. UpQueue' = Append(UpQueue, c) /\ Len(UpQueue) = n + 1
      BY <3>1, <3>5, <3>6, <3>7, <3>9, InFront
    <3> QED  BY <2>1, <3>2, <3>10 DEF Up!PipeNext, Up!Put
  <2> QED  BY <2>2, <2>3
<1>5. CASE ~overrun' /\ MainTake
  <2>1. /\ bridgePc = "take" /\ UNCHANGED <<toHost, overrun, reads>> /\ ~overrun
    BY <1>5 DEF MainTake
  <2>2. CASE bridgePc' = "load" /\ UNCHANGED <<up, BufferCount, hand>>
    BY <2>1, <2>2 DEF UpQueue
  <2>3. CASE /\ BufferCount > 0 /\ bridgePc' = "drop"
             /\ hand' = Oldest(up) /\ up' = Advance(up)
    <3>1. Spans(up, up.Count) /\ BufferCount <= up.Count  BY <2>1 DEF BridgeInv
    <3>2. up.Count \in 1..BUFFER_SIZE /\ up.Count \in 0..BUFFER_SIZE
      BY <2>3, <3>1, <1>1, Constants DEF Spans
    <3> DEFINE s == Bytes(up, up.Out, up.Count)
    <3>3. /\ s # <<>> /\ Head(s) = Oldest(up) /\ Advance(up).Count = up.Count
          /\ Bytes(Advance(up), Advance(up).Out, up.Count - 1) = Tail(s)
      BY <3>1, <3>2, <1>1, TakeRemoves
    <3>4. s \in Seq(Byte)  BY <3>2, <1>1, BytesType
    <3>5. UpQueue = s  BY <2>1 DEF UpQueue
    <3> HIDE DEF s
    <3>6. UpQueue' = <<Head(s)>> \o Tail(s)  BY <2>3, <3>3 DEF UpQueue
    <3>7. UpQueue' = UpQueue  BY <3>3, <3>4, <3>5, <3>6, HeadInFront
    <3> QED  BY <2>1, <3>7
  <2> QED  BY <1>5, <2>2, <2>3 DEF MainTake
<1>6. CASE ~overrun' /\ MainDrop
  <2>1. /\ bridgePc = "drop" /\ bridgePc' = "take" /\ up' = Drop(up)
        /\ toHost' = IF reads THEN hand ELSE toHost
        /\ UNCHANGED <<overrun, reads>> /\ ~overrun
    BY <1>6 DEF MainDrop
  <2> DEFINE n == up.Count - 1
             b == Bytes(up, up.Out, n)
  <2>2. Spans(up, n) /\ hand \in Byte  BY <2>1 DEF BridgeInv
  <2>3. n \in 0..BUFFER_SIZE /\ up.Count > 0  BY <2>2, <1>1, Constants DEF Spans
  <2>4. b \in Seq(Byte)  BY <2>3, <1>1, BytesType
  <2>5. up'.Count = n /\ Bytes(up', up'.Out, n) = b
    BY <2>1, <2>3, <1>1, DropCounts
  <2>6. UpQueue = <<hand>> \o b  BY <2>1 DEF UpQueue
  <2> HIDE DEF n, b
  <2>7. UpQueue' = b  BY <2>1, <2>5 DEF UpQueue
  <2>8. UpQueue # <<>> /\ Head(UpQueue) = hand /\ Tail(UpQueue) = b
    BY <2>2, <2>4, <2>6, InFront
  <2> QED  BY <2>1, <2>7, <2>8 DEF Up!PipeNext, Up!Get
<1>7. CASE ~overrun' /\ (UNCHANGED bridgeVars \/ Expire \/ MainLoad)
  <2>1. UNCHANGED <<up, bridgePc, hand, toHost, overrun, reads>> \/ MainLoad
    BY <1>7 DEF bridgeVars, Expire
  <2>2. CASE MainLoad  BY <2>2 DEF MainLoad, UpQueue
  <2> QED  BY <1>3, <1>7, <2>1, <2>2
<1>8. CASE ~overrun' /\ (MainReceive \/ MainCount \/ MainTest)
  BY <1>8 DEF MainReceive, MainCount, MainTest, UpQueue
<1>9. CASE ~overrun' /\ Usb
  <2>1. UNCHANGED <<UpQueue, toHost, overrun>>  BY <1>9 DEF Usb, UpQueue
  <2> QED  BY <1>9, <2>1 DEF Usb, Up!PipeNext, Up!Turn
<1> QED
  BY <1>2, <1>4, <1>5, <1>6, <1>7, <1>8, <1>9 DEF BridgeNext, Main

\* Every variable of the bridge keeps the type of its C declaration, for every
\* ring size and width of its count, overruns included.
THEOREM BridgeTypes == BridgeSpec => []BridgeTypeOK
BY TypeHolds, PTL DEF BridgeSpec

\* The bridge loses, repeats and reorders nothing in either direction, for every ring
\* size and wherever the receive interrupt comes (arduino-usbserial.c and
\* LightweightRingBuff.h): from the board to the host until the ring overruns, but for
\* bytes that leave it while the host does not read, and from the host to the board always.
THEOREM PipesKept ==
  BridgeSpec => /\ Up!PipeInit /\ [][Up!PipeNext]_<<UpQueue, toHost, overrun, reads>>
                /\ Down!PipeInit /\ [][Down!PipeNext]_<<DownQueue, toBoard, FALSE, TRUE>>
<1>1. ASSUME BridgeInit PROVE Up!PipeInit /\ Down!PipeInit
  <2>1. /\ USBtoUSART = USARTtoUSB /\ bridgePc = "receive" /\ USARTtoUSB \in Ring
        /\ USARTtoUSB.Count = 0 /\ USARTtoUSB.Out \in Slots
        /\ toHost = -1 /\ toBoard = -1 /\ overrun = FALSE /\ reads = FALSE
    BY <1>1 DEF BridgeInit, Empty, Ring
  <2>2. Bytes(USARTtoUSB, USARTtoUSB.Out, 0) = <<>>  BY <2>1, BytesNone
  <2>3. UpQueue = <<>> /\ Bytes(USBtoUSART, USBtoUSART.Out, USBtoUSART.Count) = <<>>
    BY <2>1, <2>2 DEF UpQueue
  <2>4. reads \in BOOLEAN /\ TRUE \in BOOLEAN  BY <2>1
  <2> QED  BY <2>1, <2>3, <2>4, Zenon DEF Up!PipeInit, Down!PipeInit
<1>2. BridgeInit => BridgeInv  BY InvStarts
<1>3. BridgeInv /\ [BridgeNext]_bridgeVars => BridgeInv'  BY InvStep
<1>4. BridgeInv /\ [BridgeNext]_bridgeVars => [Up!PipeNext]_<<UpQueue, toHost, overrun, reads>>
  BY UpStep
<1>5. BridgeInv /\ [BridgeNext]_bridgeVars => [Down!PipeNext]_<<DownQueue, toBoard, FALSE, TRUE>>
  BY DownStep
<1> QED  BY <1>1, <1>2, <1>3, <1>4, <1>5, PTL DEF BridgeSpec
=============================================================================
