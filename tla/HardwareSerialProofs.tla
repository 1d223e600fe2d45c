------------------------ MODULE HardwareSerialProofs ------------------------
(***************************************************************************)
(* Proofs about HardwareSerial for every ring size, character set and list *)
(* of rates.  First its invariant: Inv is inductive, PromiseKept alone is  *)
(* not, because it needs to know, in the middle of a read(), that the ring *)
(* is still not empty and, in the middle of a flush(), that nothing is     *)
(* promised.                                                               *)
(*                                                                         *)
(* Then that HardwareSerial implements SerialPort: what the sketch and the *)
(* wire see of the ring, the registers and the interrupt is what they      *)
(* would see of two bounded queues.  The abstract receive queue is a       *)
(* stretch of the ring, so the proof is about stretches first: what        *)
(* becomes of one when its head or its tail advances.                      *)
(*                                                                         *)
(* Last, how far the rate that begin() sets is from the one asked for.     *)
(***************************************************************************)
EXTENDS HardwareSerial, SequenceTheorems, TLAPS

\* Index arithmetic below the ring's size: the remainder changes nothing.
LEMMA ModSmall == ASSUME NEW n \in Nat \ {0}, NEW a \in 0..(n - 1) PROVE a % n = a
  BY SMT

\* Index arithmetic past the ring's size, by less than once around.
LEMMA ModWrap == ASSUME NEW n \in Nat \ {0}, NEW a \in n..(2 * n - 1) PROVE a % n = a - n
  BY SMT

\* The index after i: the next one, or 0 from the last slot.
LEMMA AdvanceCases ==
  ASSUME NEW i \in Slots
  PROVE  Advance(i) = IF i = RX_BUFFER_SIZE - 1 THEN 0 ELSE i + 1
  BY SizeAssumption, ModSmall, ModWrap DEF Advance, Slots

\* What available() computes: head minus tail, once around if head is behind.
LEMMA CountCases ==
  ASSUME NEW h \in Slots, NEW t \in Slots
  PROVE  (RX_BUFFER_SIZE + h - t) % RX_BUFFER_SIZE
            = IF h >= t THEN h - t ELSE RX_BUFFER_SIZE + h - t
<1> DEFINE n == RX_BUFFER_SIZE
<1>1. n \in Nat \ {0}  BY SizeAssumption
<1>2. CASE h >= t
  <2>1. n + h - t \in n..(2 * n - 1)  BY <1>1, <1>2, SizeAssumption DEF Slots
  <2> QED  BY <2>1, <1>1, <1>2, ModWrap DEF Slots
<1>3. CASE h < t
  <2>1. n + h - t \in 0..(n - 1)  BY <1>1, <1>3, SizeAssumption DEF Slots
  <2> QED  BY <2>1, <1>1, <1>3, ModSmall DEF Slots
<1> QED  BY <1>2, <1>3 DEF Slots

\* begin() leaves a value of twelve bits in the rate register.
LEMMA DivisorRange ==
  ASSUME NEW baud \in Bauds
  PROVE  Divisor(baud) \in Divisors /\ 0 \in Divisors
<1> DEFINE half(q) == (q \div baud - 1) \div 2
<1>1. F_CPU \div 4 \in Int /\ F_CPU \div 8 \in Int
  BY BaudAssumption, SMT
<1>2. ASSUME NEW q \in Int PROVE half(q) \in Int
  <2>1. q \div baud \in Int  BY BaudAssumption, SMT
  <2> QED  BY <2>1, SMT
<1>3. BaudSetting(baud) \in Int
  <2>1. half(F_CPU \div 4) \in Int /\ half(F_CPU \div 8) \in Int
    BY <1>1, <1>2
  <2> HIDE DEF half
  <2>2. BaudSetting(baud) \in {half(F_CPU \div 4), half(F_CPU \div 8)}
    BY SMT DEF BaudSetting, half
  <2> QED  BY <2>1, <2>2
<1> HIDE DEF half
<1>4. ASSUME NEW k \in Int PROVE k % 4096 \in Divisors
  BY SMT DEF Divisors
<1>5. 0 \in Divisors
  BY SMT DEF Divisors
<1> HIDE DEF Divisors
<1> QED  BY <1>3, <1>4, <1>5 DEF Divisor

\* Init establishes the inductive invariant.
LEMMA InitInv == Init => Inv
<1> SUFFICES ASSUME Init PROVE Inv  OBVIOUS
<1>1. TypeOK
  <2>1. 0 \in Divisors  BY SMT DEF Divisors
  <2>2. 0 \in Slots /\ 0 \in Byte
    BY SizeAssumption, ByteAssumption DEF Slots
  <2>3. buffer \in [Slots -> Byte]
    BY <2>2 DEF Init
  <2> QED
    BY <2>1, <2>2, <2>3 DEF Init, TypeOK
<1>2. PromiseKept
  BY <1>1, CountCases DEF Init, PromiseKept, TypeOK, Count, Slots
<1>3. ReaderInv
  BY DEF Init, ReaderInv
<1> QED  BY <1>1, <1>2, <1>3 DEF Inv

\* Every step keeps the types.
LEMMA StepTypeOK == Inv /\ [Next]_vars => TypeOK'
<1> SUFFICES ASSUME Inv, [Next]_vars PROVE TypeOK'  OBVIOUS
<1> USE DEF Inv
<1>a. \A i \in Slots : Advance(i) \in Slots
  BY AdvanceCases, SizeAssumption DEF Slots
<1>b. Count \in Slots
  BY CountCases, SizeAssumption DEF TypeOK, Slots, Count
<1>c. 0 \in Slots /\ 0 \in Byte
  BY SizeAssumption, ByteAssumption DEF Slots
<1>d. Consumed \in Slots
  BY SizeAssumption DEF Consumed, TypeOK, Slots
<1>1. ASSUME NEW baud \in Bauds, Begin(baud) PROVE TypeOK'
  <2>1. UsesU2X(baud) \in BOOLEAN  BY DEF UsesU2X
  <2> QED
    BY <1>1, <2>1, DivisorRange DEF Begin, TypeOK, ring, wire, regs
<1>2. ASSUME End PROVE TypeOK'
  BY <1>2 DEF End, TypeOK, ring, rate, wire, regs
<1>3. ASSUME Available PROVE TypeOK'
  BY <1>3, <1>b DEF Available, TypeOK, ring, rate, wire, regs
<1>4. ASSUME ReturnNone PROVE TypeOK'
  BY <1>4 DEF ReturnNone, TypeOK, ring, rate, wire, regs
<1>5. ASSUME ReadMethod PROVE TypeOK'
  BY <1>5, <1>a, <1>c, <1>d
  DEF ReadMethod, ReadTest, ReadLoad, ReadStore, ReadStoreEarly, ReadLoadLate,
      TypeOK, ring, rate, wire, regs
<1>6. ASSUME PeekMethod PROVE TypeOK'
  BY <1>6 DEF PeekMethod, PeekTest, PeekLoad, TypeOK, ring, rate, wire, regs
<1>7. ASSUME FlushMethod PROVE TypeOK'
  BY <1>7, <1>c DEF FlushMethod, FlushLoad, FlushStore, TypeOK, ring, rate, wire, regs
<1>8. ASSUME WriteMethod PROVE TypeOK'
  BY <1>8, <1>c DEF WriteMethod, WriteCall, WriteUdr, TypeOK, ring, rate, wire, regs
<1>9. ASSUME Usart PROVE TypeOK'
  <2>1. ASSUME TxLoad PROVE TypeOK'
    BY <2>1 DEF TxLoad, TypeOK, ring, rate, wire, regs
  <2>2. ASSUME TxDone PROVE TypeOK'
    BY <2>2 DEF TxDone, TypeOK, ring, rate, wire, regs
  <2>3. ASSUME NEW b \in Byte, RxInterrupt(b) PROVE TypeOK'
    BY <2>3, <1>a DEF RxInterrupt, store_char, TypeOK, ring, rate, wire, regs
  <2> QED  BY <1>9, <2>1, <2>2, <2>3 DEF Usart
<1>10. ASSUME UNCHANGED vars PROVE TypeOK'
  BY <1>10 DEF vars, TypeOK, ring, rate, wire, regs
<1> QED
  BY <1>1, <1>2, <1>3, <1>4, <1>5, <1>6, <1>7, <1>8, <1>9, <1>10 DEF Next, Sketch

\* Every step keeps the counts that available() has returned.
LEMMA StepPromiseKept == Inv /\ [Next]_vars => PromiseKept'
<1> SUFFICES ASSUME Inv, [Next]_vars PROVE PromiseKept'  OBVIOUS
<1> USE DEF Inv
<1>t. TypeOK'  BY StepTypeOK
<1>p. promised \in Nat /\ head \in Slots /\ tail \in Slots
  BY SizeAssumption DEF TypeOK, Slots
<1>n. RX_BUFFER_SIZE \in Nat /\ RX_BUFFER_SIZE > 1  BY SizeAssumption
<1>c. Count = IF head >= tail THEN head - tail ELSE RX_BUFFER_SIZE + head - tail
  BY <1>p, CountCases DEF Count
<1>d. Count' = IF head' >= tail' THEN head' - tail' ELSE RX_BUFFER_SIZE + head' - tail'
  <2>1. head' \in Slots /\ tail' \in Slots  BY <1>t DEF TypeOK
  <2> QED  BY <2>1, CountCases DEF Count
<1>a. \A i \in Slots : Advance(i) = IF i = RX_BUFFER_SIZE - 1 THEN 0 ELSE i + 1
  BY AdvanceCases
<1> HIDE DEF Inv
<1>1. ASSUME UNCHANGED <<head, tail, promised>> PROVE PromiseKept'
  BY <1>1, <1>c, <1>d DEF PromiseKept, Inv
<1>2. ASSUME Available PROVE PromiseKept'
  BY <1>2, <1>c, <1>d, <1>p DEF Available, PromiseKept, ring, Slots
<1>3. ASSUME head # tail, tail' = Advance(tail), head' = head, promised' = Consumed
      PROVE  PromiseKept'
  BY <1>3, <1>c, <1>d, <1>a, <1>p, <1>n DEF PromiseKept, Inv, Consumed, Slots
<1>4. ASSUME ReadMethod PROVE PromiseKept'
  BY <1>4, <1>1, <1>3 DEF ReadMethod, ReadTest, ReadLoad, ReadStore, ReadStoreEarly,
                          ReadLoadLate, ring, Inv, ReaderInv
<1>5. ASSUME FlushLoad PROVE PromiseKept'
  BY <1>5, <1>c, <1>d, <1>p, <1>n DEF FlushLoad, PromiseKept, ring, Slots
<1>6. ASSUME FlushStore PROVE PromiseKept'
  BY <1>6, <1>d, <1>p, <1>n DEF FlushStore, PromiseKept, Inv, ReaderInv, ring, Slots
<1>7. ASSUME NEW b \in Byte, RxInterrupt(b) PROVE PromiseKept'
  <2>1. CASE Advance(head) = tail
    BY <2>1, <1>7, <1>1 DEF RxInterrupt, store_char
  <2>2. CASE Advance(head) # tail
    <3>1. head' = Advance(head) /\ UNCHANGED <<tail, promised>>
      BY <2>2, <1>7 DEF RxInterrupt, store_char
    <3> QED
      BY <2>2, <3>1, <1>c, <1>d, <1>a, <1>p, <1>n DEF PromiseKept, Inv, Slots
  <2> QED  BY <2>1, <2>2
<1>8. ASSUME \/ \E baud \in Bauds : Begin(baud)
             \/ End \/ ReturnNone \/ PeekMethod \/ WriteMethod \/ TxLoad \/ TxDone
             \/ UNCHANGED vars
      PROVE  PromiseKept'
  <2>1. UNCHANGED <<head, tail, promised>>
    BY <1>8 DEF Begin, End, ReturnNone, PeekMethod, PeekTest, PeekLoad, WriteMethod,
                WriteCall, WriteUdr, TxLoad, TxDone, vars, ring
  <2> QED  BY <2>1, <1>1
<1> QED
  BY <1>2, <1>4, <1>5, <1>6, <1>7, <1>8 DEF Next, Sketch, FlushMethod, Usart

\* Every step keeps what the sketch relies on inside a method.
LEMMA StepReaderInv == Inv /\ [Next]_vars => ReaderInv'
<1> SUFFICES ASSUME Inv, [Next]_vars PROVE ReaderInv'  OBVIOUS
<1>t. buffer \in [Slots -> Byte] /\ head \in Slots /\ tail \in Slots
  BY DEF Inv, TypeOK
<1>1. ASSUME UNCHANGED <<ring, pc, regs>>, UNCHANGED promised PROVE ReaderInv'
  BY <1>1 DEF Inv, ReaderInv, ring, regs, Advance
<1>2. ASSUME pc' \in {"Sketch", "WriteWait"} PROVE ReaderInv'
  BY <1>2 DEF ReaderInv
<1>3. ASSUME ReadMethod PROVE ReaderInv'
  BY <1>3 DEF ReadMethod, ReadTest, ReadLoad, ReadStore, ReadStoreEarly, ReadLoadLate,
              Inv, ReaderInv, ring, regs, Advance
<1>4. ASSUME PeekMethod PROVE ReaderInv'
  BY <1>4 DEF PeekMethod, PeekTest, PeekLoad, Inv, ReaderInv, ring, regs
<1>5. ASSUME FlushMethod PROVE ReaderInv'
  BY <1>5 DEF FlushMethod, FlushLoad, FlushStore, Inv, ReaderInv, ring, regs
<1>6. ASSUME NEW b \in Byte, RxInterrupt(b) PROVE ReaderInv'
  \* The slot the interrupt fills is not the one the sketch is reading, and the
  \* free slot it never fills keeps head from meeting tail.
  <2>1. UNCHANGED <<tail, pc, slot, c, promised>>
    BY <1>6 DEF RxInterrupt, regs
  <2>2. CASE Advance(head) = tail
    BY <2>2, <2>1, <1>6, <1>1 DEF RxInterrupt, store_char, ring, regs
  <2>3. CASE Advance(head) # tail
    <3>1. head' = Advance(head) /\ buffer' = [buffer EXCEPT ![head] = b]
      BY <2>3, <1>6 DEF RxInterrupt, store_char
    <3>2. head' # tail'
      BY <3>1, <2>1, <2>3
    <3>3. head # tail => buffer'[tail] = buffer[tail]
      BY <3>1, <1>t
    <3> QED
      BY <3>2, <3>3, <2>1 DEF Inv, ReaderInv, Advance
  <2> QED  BY <2>2, <2>3
<1>7. ASSUME Available PROVE ReaderInv'
  BY <1>7, <1>2 DEF Available
<1>8. ASSUME \/ \E baud \in Bauds : Begin(baud)
             \/ End \/ ReturnNone \/ WriteMethod
      PROVE  ReaderInv'
  <2>1. pc' \in {"Sketch", "WriteWait"}
    BY <1>8 DEF Begin, End, ReturnNone, WriteMethod, WriteCall, WriteUdr
  <2> QED  BY <2>1, <1>2
<1>9. ASSUME TxLoad \/ TxDone \/ UNCHANGED vars PROVE ReaderInv'
  BY <1>9, <1>1 DEF TxLoad, TxDone, vars
<1> QED
  BY <1>3, <1>4, <1>5, <1>6, <1>7, <1>8, <1>9 DEF Next, Sketch, Usart

\* Types, promises and what a method relies on between two accesses hold in
\* every reachable state, for every ring size.
THEOREM InvariantHolds == Spec => []Inv
<1>1. Inv /\ [Next]_vars => Inv'
  BY StepTypeOK, StepPromiseKept, StepReaderInv DEF Inv
<1> QED  BY <1>1, InitInv, PTL DEF Spec

\* The indices never leave the ring and every register holds what it is for.
THEOREM TypeCorrect == Spec => []TypeOK
<1>1. Inv => TypeOK  BY DEF Inv
<1> QED  BY <1>1, InvariantHolds, PTL

\* available() never promises more reads than will succeed.
THEOREM PromisesKept == Spec => []PromiseKept
<1>1. Inv => PromiseKept  BY DEF Inv
<1> QED  BY <1>1, InvariantHolds, PTL
-----------------------------------------------------------------------------
\* The divisor of begin() with the clock doubled (U2X).
Doubled(f, baud) == ((f \div 4) \div baud - 1) \div 2

\* What it makes of a rate: with q periods of four clocks to a bit,
\* q is rounded up to an even number.
LEMMA Rounded ==
  ASSUME NEW f \in Nat, NEW baud \in Nat \ {0}, 160 * baud <= f, f < 32768 * baud
  PROVE  LET error == f - baud * (8 * (Doubled(f, baud) + 1))
         IN  Doubled(f, baud) \in 0..4095 /\ -4 * baud <= error /\ error <= 4 * baud
<1> DEFINE a == f \div 4
           i == f % 4
           q == a \div baud
           j == a % baud
           P == q * baud
           set == (q - 1) \div 2
<1>1. a \in Nat /\ i \in 0..3 /\ f = 4 * a + i  OBVIOUS
<1> HIDE DEF a, i
<1>2. q \in Nat /\ j \in 0..(baud - 1) /\ a = P + j  BY <1>1
<1> HIDE DEF q, j
<1>3. P \in Nat  BY <1>2
<1>4. q >= 40 /\ q < 8192
  <2>1. ASSUME q <= 39 PROVE FALSE
    <3>1. P <= 39 * baud  BY <1>2, <2>1
    <3> HIDE DEF P
    <3> QED  BY <1>1, <1>2, <1>3, <3>1
  <2>2. ASSUME q >= 8192 PROVE FALSE
    <3>1. P >= 8192 * baud  BY <1>2, <2>2
    <3> HIDE DEF P
    <3> QED  BY <1>1, <1>2, <1>3, <3>1
  <2> QED  BY <1>2, <2>1, <2>2
<1>5. set \in 0..4095 /\ (q = 2 * set + 1 \/ q = 2 * set + 2)  BY <1>2, <1>4
<1> HIDE DEF set
<1> DEFINE e == f - baud * (8 * (set + 1))
           m == baud * (8 * (set + 1))
<1>6. m = 4 * P \/ m = 4 * P + 4 * baud
  <2>1. CASE q = 2 * set + 2
    <3>1. m = 4 * P  BY <1>5, <2>1
    <3> QED  BY <3>1
  <2>2. CASE q = 2 * set + 1
    <3>1. m = 4 * P + 4 * baud  BY <1>5, <2>2
    <3> QED  BY <3>1
  <2> QED  BY <1>5, <2>1, <2>2
<1> HIDE DEF m, P
<1>7. m \in Int /\ f - m <= 4 * baud /\ -4 * baud <= f - m  BY <1>1, <1>2, <1>3, <1>6
<1>8. Doubled(f, baud) = set  BY DEF Doubled, set, q, a
<1> QED  BY <1>5, <1>7, <1>8 DEF m

\* Rates whose divisor fits twelve bits and whose rounding stays in the tolerance: at 16 MHz
\* from 489 to 100000 baud, and two of reference/Serial_Begin.html by themselves.
Settable(baud) ==
  \/ UsesU2X(baud) /\ 160 * baud <= F_CPU /\ F_CPU < 32768 * baud
  \/ F_CPU = 16000000 /\ baud \in {57600, 115200}

\* The rate registers hold what begin() computes for the rate asked for.
Rated == enabled => asked \in Bauds /\ u2x = UsesU2X(asked) /\ ubrr = Divisor(asked)

\* Only begin() writes them, all of them together.
LEMMA RatedStep == ASSUME Rated, [Next]_vars PROVE Rated'
<1>1. ASSUME NEW baud \in Bauds, Begin(baud) PROVE Rated'  BY <1>1 DEF Begin, Rated
<1>2. CASE End  BY <1>2 DEF End, Rated
<1>3. CASE UNCHANGED <<enabled, u2x, ubrr, asked>>  BY <1>3 DEF Rated
<1> QED
  BY <1>1, <1>2, <1>3
  DEF Next, Sketch, Usart, vars, rate, ReadMethod, PeekMethod, FlushMethod, WriteMethod,
      Available, ReturnNone, ReadTest, ReadLoad, ReadStore, ReadStoreEarly, ReadLoadLate,
      PeekTest, PeekLoad, FlushLoad, FlushStore, WriteCall, WriteUdr, TxLoad, TxDone, RxInterrupt

\* Of a rate that can be set they make one within the tolerance.
LEMMA RatedNear ==
  ASSUME NEW baud \in Bauds, Settable(baud), u2x = UsesU2X(baud), ubrr = Divisor(baud)
  PROVE  Near(baud)
<1>1. F_CPU \in Nat /\ baud \in Nat \ {0}  BY BaudAssumption
<1>2. ActualDivisor = (IF UsesU2X(baud) THEN 8 ELSE 16) * (Divisor(baud) + 1)  BY DEF ActualDivisor
<1>3. CASE UsesU2X(baud) /\ 160 * baud <= F_CPU /\ F_CPU < 32768 * baud
  <2> DEFINE set == Doubled(F_CPU, baud)
             m == baud * (8 * (set + 1))
             error == F_CPU - m
  <2>1. set \in 0..4095 /\ -4 * baud <= error /\ error <= 4 * baud  BY <1>1, <1>3, Rounded
  <2>2. BaudSetting(baud) = set  BY <1>3 DEF BaudSetting, Doubled
  <2> HIDE DEF set
  <2>3. Divisor(baud) = set  BY <2>1, <2>2 DEF Divisor
  <2>4. ActualDivisor = 8 * (set + 1)  BY <1>2, <1>3, <2>3
  <2>5. F_CPU - baud * ActualDivisor = error  BY <2>4
  <2>6. m \in Int  BY <1>1, <2>1
  <2> HIDE DEF m
  <2>7. error \in Int  BY <1>1, <2>6
  <2> HIDE DEF error
  <2>8. 40 * (IF error < 0 THEN -error ELSE error) <= F_CPU  BY <1>1, <1>3, <2>1, <2>7
  <2> QED  BY <2>5, <2>8 DEF Near
<1>4. CASE F_CPU = 16000000 /\ baud = 57600
  <2>1. ~UsesU2X(baud)  BY SMT, <1>4 DEF UsesU2X
  <2>2. BaudSetting(baud) = 16  BY SMT, <1>4, <2>1 DEF BaudSetting
  <2>3. ActualDivisor = 272  BY SMT, <1>2, <2>1, <2>2 DEF Divisor
  <2> QED  BY SMT, <1>4, <2>3 DEF Near
<1>5. CASE F_CPU = 16000000 /\ baud = 115200
  <2>1. UsesU2X(baud)  BY SMT, <1>5 DEF UsesU2X
  <2>2. BaudSetting(baud) = 16  BY SMT, <1>5, <2>1 DEF BaudSetting
  <2>3. ActualDivisor = 136  BY SMT, <1>2, <2>1, <2>2 DEF Divisor
  <2> QED  BY SMT, <1>5, <2>3 DEF Near
<1> QED  BY SMT, <1>3, <1>4, <1>5 DEF Settable

\* Once begin() has set it, the rate on the wire is within 2.5% of the one asked for, for
\* every clock and every list of rates that clock can make: the divisor neither overflows
\* its twelve bits nor rounds too far.
THEOREM RatesAccurate ==
  ASSUME \A baud \in Bauds : Settable(baud)
  PROVE  Spec => []BaudAccurate
<1>1. Init => Rated  BY DEF Init, Rated
<1>2. Rated /\ [Next]_vars => Rated'  BY RatedStep
<1>3. Rated => BaudAccurate  BY RatedNear DEF Rated, BaudAccurate
<1> QED  BY <1>1, <1>2, <1>3, PTL DEF Spec
-----------------------------------------------------------------------------
\* The characters of ring b from slot t up to, not including, slot h.
Held(h, t) == (RX_BUFFER_SIZE + h - t) % RX_BUFFER_SIZE

Stretch(b, h, t) == [k \in 1..Held(h, t) |-> b[(t + k - 1) % RX_BUFFER_SIZE]]

\* How many characters a stretch holds, with the remainder resolved.
LEMMA HeldCases ==
  ASSUME NEW h \in Slots, NEW t \in Slots
  PROVE  /\ Held(h, t) = IF h >= t THEN h - t ELSE RX_BUFFER_SIZE + h - t
         /\ Held(h, t) \in 0..(RX_BUFFER_SIZE - 1)
<1>1. Held(h, t) = IF h >= t THEN h - t ELSE RX_BUFFER_SIZE + h - t
  BY CountCases DEF Held
<1> QED  BY <1>1, SizeAssumption DEF Slots

\* An index less than twice around, with the remainder resolved.
LEMMA AroundCases ==
  ASSUME NEW a \in 0..(2 * RX_BUFFER_SIZE - 1)
  PROVE  /\ a % RX_BUFFER_SIZE = IF a < RX_BUFFER_SIZE THEN a ELSE a - RX_BUFFER_SIZE
         /\ a % RX_BUFFER_SIZE \in Slots
<1> DEFINE n == RX_BUFFER_SIZE
<1>1. n \in Nat \ {0}  BY SizeAssumption
<1>2. CASE a < n
  <2>1. a \in 0..(n - 1)  BY <1>1, <1>2
  <2> QED  BY <2>1, <1>1, <1>2, ModSmall DEF Slots
<1>3. CASE ~(a < n)
  <2>1. a \in n..(2 * n - 1)  BY <1>1, <1>3
  <2>2. a % n = a - n  BY <2>1, <1>1, ModWrap
  <2>3. a - n \in 0..(n - 1)  BY <2>1, <1>1
  <2> QED  BY <2>2, <2>3, <1>3 DEF Slots
<1> QED  BY <1>2, <1>3

\* The slot j places after slot t.
LEMMA SlotCases ==
  ASSUME NEW t \in Slots, NEW j \in 0..(RX_BUFFER_SIZE - 1)
  PROVE  /\ (t + j) % RX_BUFFER_SIZE
               = IF t + j < RX_BUFFER_SIZE THEN t + j ELSE t + j - RX_BUFFER_SIZE
         /\ (t + j) % RX_BUFFER_SIZE \in Slots
<1> DEFINE a == t + j
<1>1. a \in 0..(2 * RX_BUFFER_SIZE - 1)  BY SizeAssumption DEF Slots
<1> HIDE DEF a
<1>2. /\ a % RX_BUFFER_SIZE = IF a < RX_BUFFER_SIZE THEN a ELSE a - RX_BUFFER_SIZE
      /\ a % RX_BUFFER_SIZE \in Slots
  BY <1>1, AroundCases
<1> QED  BY <1>1, <1>2, SizeAssumption DEF a, Slots

\* The slot of the i-th character from slot t.
LEMMA PositionCases ==
  ASSUME NEW t \in Slots, NEW i \in 1..RX_BUFFER_SIZE
  PROVE  /\ (t + i - 1) % RX_BUFFER_SIZE = IF t + i - 1 < RX_BUFFER_SIZE THEN t + i - 1
                                          ELSE t + i - 1 - RX_BUFFER_SIZE
         /\ (t + i - 1) % RX_BUFFER_SIZE \in Slots
<1> DEFINE a == t + i - 1
<1>1. a \in 0..(2 * RX_BUFFER_SIZE - 1)  BY SizeAssumption DEF Slots
<1> HIDE DEF a
<1>2. /\ a % RX_BUFFER_SIZE = IF a < RX_BUFFER_SIZE THEN a ELSE a - RX_BUFFER_SIZE
      /\ a % RX_BUFFER_SIZE \in Slots
  BY <1>1, AroundCases
<1> QED  BY <1>1, <1>2, SizeAssumption DEF a, Slots

\* A stretch is a sequence of bytes.
LEMMA StretchType ==
  ASSUME NEW b \in [Slots -> Byte], NEW h \in Slots, NEW t \in Slots
  PROVE  /\ Stretch(b, h, t) \in Seq(Byte)
         /\ Len(Stretch(b, h, t)) = Held(h, t)
         /\ \A k \in 1..Held(h, t) :
               Stretch(b, h, t)[k] = b[(t + k - 1) % RX_BUFFER_SIZE]
<1>1. Held(h, t) \in Nat  BY HeldCases, SizeAssumption
<1>2. ASSUME NEW k \in 1..Held(h, t)
      PROVE  b[(t + k - 1) % RX_BUFFER_SIZE] \in Byte
  <2>1. k \in 1..RX_BUFFER_SIZE  BY HeldCases, SizeAssumption
  <2>2. (t + k - 1) % RX_BUFFER_SIZE \in Slots  BY <2>1, PositionCases
  <2> QED  BY <2>2
<1>3. Stretch(b, h, t) \in [1..Held(h, t) -> Byte]
  BY <1>2 DEF Stretch
<1>4. Stretch(b, h, t) \in Seq(Byte)
  BY <1>1, <1>3, SeqDef
<1>5. Len(Stretch(b, h, t)) = Held(h, t)
  BY <1>1, <1>3, <1>4, LenProperties
<1> QED  BY <1>4, <1>5 DEF Stretch

\* Nothing lies between a slot and itself.
LEMMA StretchEmpty ==
  ASSUME NEW b \in [Slots -> Byte], NEW t \in Slots
  PROVE  Stretch(b, t, t) = <<>>
<1>1. Held(t, t) = 0  BY HeldCases DEF Slots
<1> QED  BY <1>1, StretchType, EmptySeq

\* Reading: the tail advances past the first character.
LEMMA StretchRead ==
  ASSUME NEW b \in [Slots -> Byte], NEW h \in Slots, NEW t \in Slots, h # t
  PROVE  /\ Stretch(b, h, t) # <<>>
         /\ Head(Stretch(b, h, t)) = b[t]
         /\ Stretch(b, h, Advance(t)) = Tail(Stretch(b, h, t))
<1> DEFINE s == Stretch(b, h, t)
           u == Stretch(b, h, Advance(t))
<1>1. Advance(t) \in Slots  BY AdvanceCases, SizeAssumption DEF Slots
<1>2. Held(h, t) \in 1..(RX_BUFFER_SIZE - 1) /\ Held(h, Advance(t)) = Held(h, t) - 1
  <2>1. Held(h, t) = IF h >= t THEN h - t ELSE RX_BUFFER_SIZE + h - t
    BY HeldCases
  <2>2. Held(h, Advance(t)) = IF h >= Advance(t) THEN h - Advance(t)
                              ELSE RX_BUFFER_SIZE + h - Advance(t)
    BY <1>1, HeldCases
  <2>3. Held(h, t) \in 1..(RX_BUFFER_SIZE - 1)
    BY <2>1, SizeAssumption DEF Slots
  <2>4. CASE t = RX_BUFFER_SIZE - 1
    <3>1. Advance(t) = 0  BY <2>4, AdvanceCases
    <3> QED  BY <2>1, <2>2, <2>3, <2>4, <3>1, SizeAssumption DEF Slots
  <2>5. CASE t # RX_BUFFER_SIZE - 1
    <3>1. Advance(t) = t + 1  BY <2>5, AdvanceCases
    <3> QED  BY <2>1, <2>2, <2>3, <2>5, <3>1, SizeAssumption DEF Slots
  <2> QED  BY <2>3, <2>4, <2>5
<1>3. s \in Seq(Byte) /\ Len(s) = Held(h, t) /\ u \in Seq(Byte) /\ Len(u) = Held(h, t) - 1
  BY <1>1, <1>2, StretchType
<1>4. s # <<>>  BY <1>2, <1>3, EmptySeq
<1>5. Head(s) = b[t]
  <2>1. s[1] = b[(t + 1 - 1) % RX_BUFFER_SIZE]  BY <1>2, StretchType
  <2>2. t + 1 - 1 = t /\ t % RX_BUFFER_SIZE = t
    BY ModSmall, SizeAssumption DEF Slots
  <2>3. Head(s) = s[1]  BY <1>3, <1>4
  <2> QED  BY <2>1, <2>2, <2>3
<1>6. Tail(s) \in Seq(Byte) /\ Len(Tail(s)) = Len(s) - 1
      /\ \A i \in 1..Len(Tail(s)) : Tail(s)[i] = s[i + 1]
  BY <1>3, <1>4, HeadTailProperties
<1>7. ASSUME NEW i \in 1..Len(u) PROVE u[i] = Tail(s)[i]
  <2>1. i \in 1..(Held(h, t) - 1)  BY <1>3, <1>7
  <2>2. i \in 1..Held(h, Advance(t)) /\ i + 1 \in 1..Held(h, t)
    BY <2>1, <1>2
  <2>3. u[i] = b[(Advance(t) + i - 1) % RX_BUFFER_SIZE]
    BY <1>1, <2>2, StretchType
  <2>4. s[i + 1] = b[(t + (i + 1) - 1) % RX_BUFFER_SIZE]
    BY <2>2, StretchType
  <2>5. (Advance(t) + (i - 1)) % RX_BUFFER_SIZE = (t + i) % RX_BUFFER_SIZE
    <3>1. i - 1 \in 0..(RX_BUFFER_SIZE - 1) /\ i \in 0..(RX_BUFFER_SIZE - 1)
      BY <2>1, <1>2, SizeAssumption
    <3>2. (t + i) % RX_BUFFER_SIZE
             = IF t + i < RX_BUFFER_SIZE THEN t + i ELSE t + i - RX_BUFFER_SIZE
      BY <3>1, SlotCases
    <3>3. CASE t = RX_BUFFER_SIZE - 1
      <4>1. Advance(t) = 0  BY <3>3, AdvanceCases
      <4>2. (0 + (i - 1)) % RX_BUFFER_SIZE = i - 1
        BY <3>1, ModSmall, SizeAssumption
      <4>3. (t + i) % RX_BUFFER_SIZE = i - 1
        BY <3>1, <3>2, <3>3, SizeAssumption
      <4> QED  BY <4>1, <4>2, <4>3
    <3>4. CASE t # RX_BUFFER_SIZE - 1
      <4>1. Advance(t) = t + 1  BY <3>4, AdvanceCases
      <4>2. (t + 1) + (i - 1) = t + i  BY <3>1, SizeAssumption DEF Slots
      <4> QED  BY <4>1, <4>2
    <3> QED  BY <3>3, <3>4
  <2>6. Advance(t) + i - 1 = Advance(t) + (i - 1) /\ t + (i + 1) - 1 = t + i
    BY <2>1, <1>1, <1>2, SizeAssumption DEF Slots
  <2>7. Tail(s)[i] = s[i + 1]  BY <1>3, <1>6
  <2> QED  BY <2>3, <2>4, <2>5, <2>6, <2>7
<1>8. u = Tail(s)  BY <1>3, <1>6, <1>7, SeqEqual
<1> QED  BY <1>4, <1>5, <1>8

\* Receiving: the head advances past a new last character, when it may.
LEMMA StretchAppend ==
  ASSUME NEW b \in [Slots -> Byte], NEW h \in Slots, NEW t \in Slots,
         NEW e \in Byte, Advance(h) # t
  PROVE  /\ Len(Stretch(b, h, t)) < RX_BUFFER_SIZE - 1
         /\ Stretch([b EXCEPT ![h] = e], Advance(h), t) = Append(Stretch(b, h, t), e)
<1> DEFINE d == [b EXCEPT ![h] = e]
           s == Stretch(b, h, t)
           u == Stretch(d, Advance(h), t)
<1>1. Advance(h) \in Slots  BY AdvanceCases, SizeAssumption DEF Slots
<1>2. Held(h, t) \in 0..(RX_BUFFER_SIZE - 2) /\ Held(Advance(h), t) = Held(h, t) + 1
  <2>1. Held(h, t) = IF h >= t THEN h - t ELSE RX_BUFFER_SIZE + h - t
    BY HeldCases
  <2>2. Held(Advance(h), t) = IF Advance(h) >= t THEN Advance(h) - t
                              ELSE RX_BUFFER_SIZE + Advance(h) - t
    BY <1>1, HeldCases
  <2>3. CASE h = RX_BUFFER_SIZE - 1
    <3>1. Advance(h) = 0  BY <2>3, AdvanceCases
    <3> QED  BY <2>1, <2>2, <2>3, <3>1, SizeAssumption DEF Slots
  <2>4. CASE h # RX_BUFFER_SIZE - 1
    <3>1. Advance(h) = h + 1  BY <2>4, AdvanceCases
    <3> QED  BY <2>1, <2>2, <2>4, <3>1, SizeAssumption DEF Slots
  <2> QED  BY <2>3, <2>4
<1>3. d \in [Slots -> Byte]  OBVIOUS
<1>4. \A k \in Slots : d[k] = IF k = h THEN e ELSE b[k]  OBVIOUS
<1> HIDE DEF d
<1>5. s \in Seq(Byte) /\ Len(s) = Held(h, t)
  BY StretchType
<1>6. /\ u \in Seq(Byte) /\ Len(u) = Held(Advance(h), t)
      /\ \A k \in 1..Held(Advance(h), t) : u[k] = d[(t + k - 1) % RX_BUFFER_SIZE]
  BY <1>1, <1>3, StretchType
<1> DEFINE v == Append(s, e)
<1>7. /\ v \in Seq(Byte) /\ Len(v) = Held(h, t) + 1
      /\ \A i \in 1..Held(h, t) : v[i] = s[i]
      /\ v[Held(h, t) + 1] = e
  BY <1>5, AppendProperties
<1>8. ASSUME NEW i \in 1..Len(u) PROVE u[i] = v[i]
  <2>1. i \in 1..(Held(h, t) + 1) /\ i \in 1..RX_BUFFER_SIZE
    BY <1>2, <1>6, <1>8, SizeAssumption
  <2>2. u[i] = d[(t + i - 1) % RX_BUFFER_SIZE]
    BY <1>6, <1>8
  <2>3. /\ (t + i - 1) % RX_BUFFER_SIZE = IF t + i - 1 < RX_BUFFER_SIZE THEN t + i - 1
                                          ELSE t + i - 1 - RX_BUFFER_SIZE
        /\ (t + i - 1) % RX_BUFFER_SIZE \in Slots
    BY <2>1, PositionCases
  <2>4. Held(h, t) = IF h >= t THEN h - t ELSE RX_BUFFER_SIZE + h - t
    BY HeldCases
  <2>5. CASE i = Held(h, t) + 1
    <3>1. (t + i - 1) % RX_BUFFER_SIZE = h
      BY <2>3, <2>4, <2>5, SizeAssumption DEF Slots
    <3>2. u[i] = e  BY <1>4, <2>2, <3>1
    <3> QED  BY <1>7, <2>5, <3>2
  <2>6. CASE i # Held(h, t) + 1
    <3>1. i \in 1..Held(h, t)  BY <1>2, <2>1, <2>6
    <3>2. (t + i - 1) % RX_BUFFER_SIZE # h
      BY <2>3, <2>4, <3>1, SizeAssumption DEF Slots
    <3>3. u[i] = b[(t + i - 1) % RX_BUFFER_SIZE]  BY <1>4, <2>2, <2>3, <3>2
    <3>4. s[i] = b[(t + i - 1) % RX_BUFFER_SIZE]  BY <3>1, StretchType
    <3>5. v[i] = s[i]  BY <1>7, <3>1
    <3> QED  BY <3>3, <3>4, <3>5
  <2> QED  BY <2>5, <2>6
<1>9. Len(u) = Len(v)  BY <1>2, <1>6, <1>7
<1>10. Len(s) < RX_BUFFER_SIZE - 1
  BY <1>2, <1>5, SizeAssumption
<1> HIDE DEF s, u, v
<1>11. u = v  BY <1>6, <1>7, <1>8, <1>9, SeqEqual
<1> QED  BY <1>10, <1>11 DEF s, u, v, d

\* A ring whose head may not advance holds all it can.
LEMMA StretchFull ==
  ASSUME NEW b \in [Slots -> Byte], NEW h \in Slots, NEW t \in Slots, Advance(h) = t
  PROVE  Len(Stretch(b, h, t)) = RX_BUFFER_SIZE - 1
<1>1. Held(h, t) = IF h >= t THEN h - t ELSE RX_BUFFER_SIZE + h - t
  BY HeldCases
<1>2. t = IF h = RX_BUFFER_SIZE - 1 THEN 0 ELSE h + 1
  BY AdvanceCases
<1>3. Held(h, t) = RX_BUFFER_SIZE - 1
  BY <1>1, <1>2, SizeAssumption DEF Slots
<1> QED  BY <1>3, StretchType
-----------------------------------------------------------------------------
(* Each step of the code is a step of the port, or none.                   *)

\* The unread characters are the stretch from the tail to the head.
LEMMA UnreadStretch == Unread = Stretch(buffer, head, tail)
BY DEF Unread, Stretch, Held, Count

\* At power-on both queues are empty and nothing has been read.
LEMMA InitPort == Init => Port!Init
<1> SUFFICES ASSUME Init PROVE Port!Init  OBVIOUS
<1>1. TypeOK  BY InitInv DEF Inv
<1>2. Unread = <<>>
  BY <1>1, UnreadStretch, StretchEmpty DEF Init, TypeOK
<1>3. shift \o udr = <<>>
  BY ConcatEmptySeq, EmptySeq DEF Init
<1> QED  BY <1>2, <1>3 DEF Init, Port!Init, Result

\* What leaves the ring, the transmitter and the result alone the port does not see.
LEMMA Unseen ==
  ASSUME UNCHANGED <<ring, wire>>, Result' = Result
  PROVE  UNCHANGED Port!vars
BY DEF ring, wire, Port!vars, Unread, Count

\* Outside a read whose tail is already stored, the result is what was returned.
LEMMA ResultUnseen ==
  ASSUME UNCHANGED <<got, buffer>>,
         \/ pc # "ReadLoadLate" /\ pc' # "ReadLoadLate"
         \/ UNCHANGED <<pc, slot>>
  PROVE  Result' = Result
BY DEF Result

\* The transmitter's two registers hold one queue of at most two bytes.
LEMMA TransmitterTypes ==
  ASSUME TypeOK
  PROVE  /\ udr \in Seq(Byte) /\ shift \in Seq(Byte)
         /\ Len(udr) \in 0..1 /\ Len(shift) \in 0..1
<1>1. ASSUME NEW q, q \in {<<>>} \cup {<<b>> : b \in Byte}
      PROVE  q \in Seq(Byte) /\ Len(q) \in 0..1
  <2>1. CASE q = <<>>
    <3>1. <<>> \in Seq(Byte) /\ Len(<<>>) = 0  BY EmptySeq
    <3> QED  BY <2>1, <3>1
  <2>2. ASSUME NEW b \in Byte, q = <<b>> PROVE q \in Seq(Byte) /\ Len(q) \in 0..1
    <3>1. <<b>> \in Seq(Byte) /\ Len(<<b>>) = 1  OBVIOUS
    <3> QED  BY <2>2, <3>1
  <2> QED  BY <1>1, <2>1, <2>2
<1> QED  BY <1>1 DEF TypeOK

\* The accesses of a method that take no effect of their own.
LEMMA SilentSteps ==
  ASSUME Inv,
         \/ \E baud \in Bauds : Begin(baud)
         \/ End \/ Available \/ PeekTest \/ ReadTest \/ ReadLoad \/ ReadLoadLate
         \/ FlushLoad \/ (\E b \in Byte : WriteCall(b)) \/ UNCHANGED vars
  PROVE  UNCHANGED Port!vars
<1>1. CASE ReadLoadLate
  <2>1. Result' = Result  BY <1>1 DEF ReadLoadLate, Result
  <2> QED  BY <1>1, <2>1, Unseen DEF ReadLoadLate
<1>2. ASSUME NEW baud \in Bauds, Begin(baud) PROVE UNCHANGED Port!vars
  BY <1>2, Unseen, ResultUnseen DEF Begin, ring, regs
<1>3. CASE End \/ Available
  BY <1>3, Unseen, ResultUnseen DEF End, Available, ring, regs
<1>4. CASE PeekTest \/ ReadTest \/ ReadLoad \/ FlushLoad
  <2>1. UNCHANGED <<ring, wire, got>> /\ pc # "ReadLoadLate" /\ pc' # "ReadLoadLate"
    BY <1>4 DEF PeekTest, ReadTest, ReadLoad, FlushLoad
  <2> QED  BY <2>1, Unseen, ResultUnseen DEF ring
<1>5. ASSUME NEW b \in Byte, WriteCall(b) PROVE UNCHANGED Port!vars
  <2>1. UNCHANGED <<ring, wire, got>> /\ pc # "ReadLoadLate" /\ pc' # "ReadLoadLate"
    BY <1>5 DEF WriteCall
  <2> QED  BY <2>1, Unseen, ResultUnseen DEF ring
<1>6. CASE UNCHANGED vars
  BY <1>6, Unseen, ResultUnseen DEF vars, ring, regs
<1> QED  BY <1>1, <1>2, <1>3, <1>4, <1>5, <1>6

\* A receive interrupt is an arrival: the slot it fills is neither unread nor the
\* one a read that has already moved the tail is still to load.
LEMMA ArriveStep ==
  ASSUME Inv, NEW b \in Byte, RxInterrupt(b)
  PROVE  Port!Arrive(b)
<1>t. buffer \in [Slots -> Byte] /\ head \in Slots /\ tail \in Slots /\ slot \in Slots
  BY DEF Inv, TypeOK
<1>u. UNCHANGED <<tail, wire, pc, slot, got>>
  BY DEF RxInterrupt, regs
<1>1. CASE Advance(head) = tail
  <2>1. UNCHANGED ring
    BY <1>1, <1>u DEF RxInterrupt, store_char, ring
  <2>2. UNCHANGED Port!vars
    BY <2>1, <1>u, Unseen, ResultUnseen DEF ring
  <2>3. ~(Len(Unread) < RX_BUFFER_SIZE - 1)
    <3>1. Len(Unread) = RX_BUFFER_SIZE - 1
      BY <1>1, <1>t, UnreadStretch, StretchFull
    <3> QED  BY <3>1, SizeAssumption
  <2> QED  BY <2>2, <2>3 DEF Port!Arrive, Port!vars
<1>2. CASE Advance(head) # tail
  <2>1. head' = Advance(head) /\ buffer' = [buffer EXCEPT ![head] = b]
    BY <1>2 DEF RxInterrupt, store_char
  <2>2. Unread' = Stretch(buffer', head', tail')
    BY DEF Unread, Stretch, Held, Count
  <2>3. Len(Unread) < RX_BUFFER_SIZE - 1 /\ Unread' = Append(Unread, b)
    BY <1>2, <1>t, <1>u, <2>1, <2>2, UnreadStretch, StretchAppend
  <2>4. Result' = Result
    <3>1. pc = "ReadLoadLate" => buffer'[slot] = buffer[slot]
      BY <1>2, <1>t, <2>1 DEF Inv, ReaderInv
    <3> QED  BY <1>u, <3>1 DEF Result
  <2> QED  BY <1>u, <2>3, <2>4 DEF Port!Arrive, wire
<1> QED  BY <1>1, <1>2

\* The store of the tail, in either order, takes the first character.
LEMMA ReadStep ==
  ASSUME Inv, ReadStore \/ ReadStoreEarly
  PROVE  Port!Read
<1>t. buffer \in [Slots -> Byte] /\ head \in Slots /\ tail \in Slots
  BY DEF Inv, TypeOK
<1>1. head # tail
  BY DEF ReadStore, ReadStoreEarly, Inv, ReaderInv
<1>2. tail' = Advance(tail) /\ UNCHANGED <<buffer, head, wire>>
  BY DEF ReadStore, ReadStoreEarly
<1>3. Unread' = Stretch(buffer, head, Advance(tail))
  BY <1>2 DEF Unread, Stretch, Held, Count
<1>4. Unread # <<>> /\ Head(Unread) = buffer[tail] /\ Unread' = Tail(Unread)
  BY <1>t, <1>1, <1>3, UnreadStretch, StretchRead
<1>5. Result' = buffer[tail]
  BY <1>2 DEF ReadStore, ReadStoreEarly, Result, Inv, ReaderInv
<1> QED  BY <1>2, <1>4, <1>5 DEF Port!Read, wire

\* peek() returns the first character, and nothing comes of an empty ring.
LEMMA LookStep ==
  ASSUME Inv, PeekLoad \/ ReturnNone
  PROVE  Port!Peek \/ Port!Nothing
<1>t. buffer \in [Slots -> Byte] /\ head \in Slots /\ tail \in Slots
  BY DEF Inv, TypeOK
<1>u. UNCHANGED <<ring, wire>>
  BY DEF PeekLoad, ReturnNone
<1>v. UNCHANGED Unread
  BY <1>u DEF ring, Unread, Count
<1>1. CASE PeekLoad
  <2>1. head # tail  BY <1>1 DEF PeekLoad, Inv, ReaderInv
  <2>2. Unread # <<>> /\ Head(Unread) = buffer[tail]
    BY <1>t, <2>1, UnreadStretch, StretchRead
  <2>3. Result' = buffer[tail]  BY <1>1 DEF PeekLoad, Result
  <2> QED  BY <1>u, <1>v, <2>2, <2>3 DEF Port!Peek, wire
<1>2. CASE ReturnNone
  <2>1. Unread = <<>>
    BY <1>2, <1>t, UnreadStretch, StretchEmpty DEF ReturnNone
  <2>2. Result' = -1  BY <1>2 DEF ReturnNone, Result
  <2> QED  BY <1>u, <1>v, <2>1, <2>2 DEF Port!Nothing, wire
<1> QED  BY <1>1, <1>2

\* flush() takes effect when it stores the head.
LEMMA FlushStep ==
  ASSUME Inv, FlushStore
  PROVE  Port!Flush
<1>1. head' = tail /\ tail' = tail /\ UNCHANGED <<buffer, wire>>
  BY DEF FlushStore, Inv, ReaderInv
<1>2. Unread' = Stretch(buffer, tail, tail)
  BY <1>1 DEF Unread, Stretch, Held, Count
<1>3. Unread' = <<>>
  BY <1>2, StretchEmpty DEF Inv, TypeOK
<1>4. Result' = Result  BY DEF FlushStore, Result
<1> QED  BY <1>1, <1>3, <1>4 DEF Port!Flush, wire

\* write() takes effect when it stores the transmit register.
LEMMA WriteStep ==
  ASSUME Inv, WriteUdr
  PROVE  Port!Write(c) /\ c \in Byte
<1>1. udr = <<>> /\ udr' = <<c>> /\ UNCHANGED <<ring, shift, line>> /\ c \in Byte
  BY DEF WriteUdr, Inv, TypeOK
<1>2. shift \in Seq(Byte) /\ Len(shift) \in 0..1
  BY TransmitterTypes DEF Inv
<1>3. shift \o udr = shift
  BY <1>1, <1>2, ConcatEmptySeq
<1>4. (shift \o udr)' = Append(shift, c)
  BY <1>1, <1>2, AppendIsConcat
<1>5. UNCHANGED <<Unread, Result>>
  BY <1>1 DEF WriteUdr, Unread, Count, ring, Result
<1>6. Len(shift \o udr) < 2
  BY <1>2, <1>3
<1> QED  BY <1>1, <1>3, <1>4, <1>5, <1>6 DEF Port!Write

\* The move from register to shifter is not seen; the end of a byte is.
LEMMA TransmitStep ==
  ASSUME Inv, TxLoad \/ TxDone
  PROVE  Port!Transmit \/ UNCHANGED Port!vars
<1>1. UNCHANGED <<ring, pc, regs, got>>
  BY DEF TxLoad, TxDone
<1>2. UNCHANGED <<Unread, Result>>
  BY <1>1 DEF ring, regs, Unread, Count, Result
<1>3. udr \in Seq(Byte) /\ shift \in Seq(Byte) /\ Len(shift) \in 0..1
  BY TransmitterTypes DEF Inv
<1>4. CASE TxLoad
  <2>1. shift \o udr = udr  BY <1>3, <1>4, ConcatEmptySeq DEF TxLoad
  <2>2. (shift \o udr)' = udr  BY <1>3, <1>4, ConcatEmptySeq DEF TxLoad
  <2> QED  BY <1>2, <1>4, <2>1, <2>2 DEF TxLoad, Port!vars
<1>5. CASE TxDone
  <2>1. PICK b \in Byte : shift = <<b>>
    BY <1>5 DEF TxDone, Inv, TypeOK
  <2>2. (shift \o udr)' = udr  BY <1>3, <1>5, ConcatEmptySeq DEF TxDone
  <2> DEFINE s == shift \o udr
  <2>3. /\ s \in Seq(Byte) /\ Len(s) = 1 + Len(udr) /\ Len(udr) \in Nat
        /\ \A i \in 1..Len(s) : s[i] = IF i <= 1 THEN shift[i] ELSE udr[i - 1]
    BY <1>3, <2>1, ConcatProperties, LenProperties
  <2> HIDE DEF s
  <2>4. s # <<>>  BY <2>3, EmptySeq
  <2>5. Head(s) = b
    <3>1. s[1] = shift[1]  BY <2>3
    <3>2. Head(s) = s[1]  BY <2>3, <2>4
    <3> QED  BY <2>1, <3>1, <3>2
  <2>6. Tail(s) = udr
    <3>1. /\ Tail(s) \in Seq(Byte) /\ Len(Tail(s)) = Len(udr)
          /\ \A i \in 1..Len(Tail(s)) : Tail(s)[i] = s[i + 1]
      BY <2>3, <2>4, HeadTailProperties
    <3>2. \A i \in 1..Len(Tail(s)) : Tail(s)[i] = udr[i]
      BY <2>3, <3>1
    <3> QED  BY <1>3, <3>1, <3>2, SeqEqual
  <2>7. line' = b  BY <1>5, <2>1 DEF TxDone
  <2> QED  BY <1>2, <2>2, <2>4, <2>5, <2>6, <2>7 DEF Port!Transmit, s
<1> QED  BY <1>4, <1>5

\* The serial port is two bounded first-in first-out queues, for every ring size
\* and character set, in whichever order read() makes its two accesses.
THEOREM PortImplemented == Spec => ImplementsPort
<1>1. Inv /\ [Next]_vars => [Port!Next]_(Port!vars)
  <2> SUFFICES ASSUME Inv, [Next]_vars PROVE [Port!Next]_(Port!vars)  OBVIOUS
  <2>1. CASE \E b \in Byte : RxInterrupt(b)
    BY <2>1, ArriveStep DEF Port!Next
  <2>2. CASE ReadStore \/ ReadStoreEarly
    BY <2>2, ReadStep DEF Port!Next
  <2>3. CASE PeekLoad \/ ReturnNone
    BY <2>3, LookStep DEF Port!Next
  <2>4. CASE FlushStore
    BY <2>4, FlushStep DEF Port!Next
  <2>5. CASE WriteUdr
    BY <2>5, WriteStep DEF Port!Next
  <2>6. CASE TxLoad \/ TxDone
    BY <2>6, TransmitStep DEF Port!Next
  <2>7. CASE \/ \E baud \in Bauds : Begin(baud)
             \/ End \/ Available \/ PeekTest \/ ReadTest \/ ReadLoad \/ ReadLoadLate
             \/ FlushLoad \/ (\E b \in Byte : WriteCall(b)) \/ UNCHANGED vars
    BY <2>7, SilentSteps
  <2> QED
    BY <2>1, <2>2, <2>3, <2>4, <2>5, <2>6, <2>7
    DEF Next, Sketch, Usart, ReadMethod, PeekMethod, FlushMethod, WriteMethod
<1> QED  BY <1>1, InitPort, InvariantHolds, PTL DEF Spec, ImplementsPort, Port!Spec
=============================================================================
