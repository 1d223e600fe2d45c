--------------------------- MODULE HardwareSerial ---------------------------
(***************************************************************************)
(* cores/arduino/HardwareSerial.cpp: one USART and its receive ring.  Two  *)
(* actors share the ring without a lock: the receive interrupt, which      *)
(* stores a character and moves head, and the sketch, which reads          *)
(* characters and moves tail (and, in flush, head).  The interrupt runs    *)
(* to completion between any two memory accesses of the sketch, so each    *)
(* method of the sketch is split at its accesses to the shared ring.       *)
(*                                                                         *)
(* head and tail are plain ints.  Nothing orders the sketch's two accesses *)
(* in read(), the load of the character and the store of the tail, for the *)
(* compiler, so both orders are modelled.  A 16-bit access of the AVR is   *)
(* two instructions; RX_BUFFER_SIZE <= 256 keeps the high byte at zero,    *)
(* which makes the pair indivisible in effect.                             *)
(***************************************************************************)
EXTENDS Integers, Sequences

CONSTANTS RX_BUFFER_SIZE,  \* 32 or 128 in the source
          Byte,            \* the characters, 0 (the ring's first content) among them
          Bauds,           \* the rates sketches pass to begin()
          F_CPU            \* the clock, in Hz

ASSUME SizeAssumption == RX_BUFFER_SIZE \in 2..256
ASSUME ByteAssumption == 0 \in Byte /\ Byte \subseteq 0..255
ASSUME BaudAssumption == Bauds \subseteq Nat \ {0} /\ F_CPU \in Nat \ {0}

VARIABLES buffer, head, tail,  \* struct ring_buffer
          enabled,             \* RXEN, TXEN and RXCIE, set and cleared together
          u2x, ubrr,           \* double-speed bit and the 12-bit rate register
          asked,               \* the rate the last begin() was called with
          udr, shift,          \* transmit register and shifter: <<>> or <<c>>
          line,                \* last byte on the wire
          pc,                  \* where the sketch is inside a method
          slot, c,             \* a tail and a character it has in registers (0 when dead)
          got,                 \* what the last read() or peek() returned
          promised             \* reads that available() said will succeed

ring == <<buffer, head, tail>>
rate == <<u2x, ubrr, asked>>
wire == <<udr, shift, line>>
regs == <<slot, c>>
vars == <<ring, enabled, rate, wire, pc, regs, got, promised>>
-----------------------------------------------------------------------------
Slots == 0..(RX_BUFFER_SIZE - 1)

AdvanceMutant(i) == i + 1   \* mutant: the ring never wraps

Advance(i) == (i + 1) % RX_BUFFER_SIZE

Count == (RX_BUFFER_SIZE + head - tail) % RX_BUFFER_SIZE

\* begin()'s arithmetic: the divisor it computes for a rate.
UsesU2X(baud) == ~(F_CPU = 16000000 /\ baud = 57600)

\* Mutant: rounded without the "- 1".
BaudSettingMutant(baud) ==
    ((F_CPU \div (IF UsesU2X(baud) THEN 4 ELSE 8)) \div baud) \div 2

BaudSetting(baud) ==
    LET step == IF UsesU2X(baud) THEN 4 ELSE 8
    IN  ((F_CPU \div step) \div baud - 1) \div 2

\* The register pair is given 16 bits of it, and the USART keeps 12.
Divisors == 0..4095

Divisor(baud) == BaudSetting(baud) % 4096

Init == /\ buffer = [i \in Slots |-> 0]
        /\ head = 0 /\ tail = 0
        /\ enabled = FALSE
        /\ u2x = FALSE /\ ubrr = 0 /\ asked = 0
        /\ udr = <<>> /\ shift = <<>> /\ line = -1
        /\ pc = "Sketch"
        /\ slot = 0 /\ c = 0
        /\ got = -1 /\ promised = 0
-----------------------------------------------------------------------------
(* The sketch: one method at a time.                                       *)

Begin(baud) ==
    /\ pc = "Sketch"
    /\ u2x' = UsesU2X(baud)
    /\ ubrr' = Divisor(baud)
    /\ asked' = baud
    /\ enabled' = TRUE
    /\ UNCHANGED <<ring, wire, pc, regs, got, promised>>

End == /\ pc = "Sketch"
       /\ enabled' = FALSE
       /\ UNCHANGED <<ring, rate, wire, pc, regs, got, promised>>

Available == /\ pc = "Sketch"
             /\ promised' = Count
             /\ UNCHANGED <<ring, enabled, rate, wire, pc, regs, got>>

\* read() and peek() on an empty ring.
ReturnNone == /\ pc = "Sketch"
              /\ head = tail
              /\ got' = -1
              /\ UNCHANGED <<ring, enabled, rate, wire, pc, regs, promised>>

PeekTest == /\ pc = "Sketch"
            /\ head # tail
            /\ pc' = "PeekLoad"
            /\ UNCHANGED <<ring, enabled, rate, wire, regs, got, promised>>

PeekLoad == /\ pc = "PeekLoad"
            /\ got' = buffer[tail]
            /\ pc' = "Sketch"
            /\ UNCHANGED <<ring, enabled, rate, wire, regs, promised>>

ReadTest == /\ pc = "Sketch"
            /\ head # tail
            /\ pc' = "Read"
            /\ UNCHANGED <<ring, enabled, rate, wire, regs, got, promised>>

Consumed == IF promised > 0 THEN promised - 1 ELSE 0

\* Character first, tail second: the order of the source.
ReadLoad == /\ pc = "Read"
            /\ c' = buffer[tail]
            /\ pc' = "ReadStore"
            /\ UNCHANGED <<ring, enabled, rate, wire, slot, got, promised>>

ReadStore == /\ pc = "ReadStore"
             /\ tail' = Advance(tail)
             /\ got' = c
             /\ promised' = Consumed
             /\ c' = 0
             /\ pc' = "Sketch"
             /\ UNCHANGED <<buffer, head, enabled, rate, wire, slot>>

\* Tail first, character second: the other order the compiler may emit.
ReadStoreEarly == /\ pc = "Read"
                  /\ slot' = tail
                  /\ tail' = Advance(tail)
                  /\ promised' = Consumed
                  /\ pc' = "ReadLoadLate"
                  /\ UNCHANGED <<buffer, head, enabled, rate, wire, c, got>>

ReadLoadLate == /\ pc = "ReadLoadLate"
                /\ got' = buffer[slot]
                /\ slot' = 0
                /\ pc' = "Sketch"
                /\ UNCHANGED <<ring, enabled, rate, wire, c, promised>>

FlushLoad == /\ pc = "Sketch"
             /\ slot' = tail
             /\ pc' = "FlushStore"
             /\ promised' = 0
             /\ UNCHANGED <<ring, enabled, rate, wire, c, got>>

FlushStore == /\ pc = "FlushStore"
              /\ head' = slot
              /\ slot' = 0
              /\ pc' = "Sketch"
              /\ UNCHANGED <<buffer, tail, enabled, rate, wire, c, got, promised>>

\* write() spins on UDRE, then stores the register.  (The sketch writes only
\* after begin(): without TXEN the register is not a transmit register.)
WriteCall(b) == /\ pc = "Sketch"
                /\ enabled
                /\ c' = b
                /\ pc' = "WriteWait"
                /\ UNCHANGED <<ring, enabled, rate, wire, slot, got, promised>>

WriteUdr == /\ pc = "WriteWait"
            /\ udr = <<>>
            /\ udr' = <<c>>
            /\ c' = 0
            /\ pc' = "Sketch"
            /\ UNCHANGED <<ring, enabled, rate, shift, line, slot, got, promised>>
-----------------------------------------------------------------------------
(* The interrupt and the USART.                                            *)

\* Mutants: no test for a full ring; the character one slot too far.
store_charMutantFull(b) == /\ buffer' = [buffer EXCEPT ![head] = b]
                           /\ head' = Advance(head)

store_charMutantSlot(b) ==
    LET i == Advance(head)
    IN  IF i # tail
        THEN buffer' = [buffer EXCEPT ![i] = b] /\ head' = i
        ELSE UNCHANGED <<buffer, head>>

\* SIGNAL(USART_RX_vect) with store_char: keep one slot free, else drop.
store_char(b) ==
    LET i == Advance(head)
    IN  IF i # tail
        THEN /\ buffer' = [buffer EXCEPT ![head] = b]
             /\ head' = i
        ELSE UNCHANGED <<buffer, head>>

RxInterrupt(b) == /\ enabled
                  /\ store_char(b)
                  /\ UNCHANGED <<tail, enabled, rate, wire, pc, regs, got, promised>>

\* The transmitter drains even after end() clears TXEN.
TxLoad == /\ udr # <<>> /\ shift = <<>>
          /\ shift' = udr
          /\ udr' = <<>>
          /\ UNCHANGED <<ring, enabled, rate, line, pc, regs, got, promised>>

TxDone == /\ shift # <<>>
          /\ line' = Head(shift)
          /\ shift' = <<>>
          /\ UNCHANGED <<ring, enabled, rate, udr, pc, regs, got, promised>>
-----------------------------------------------------------------------------
ReadMethod  == ReadTest \/ ReadLoad \/ ReadStore \/ ReadStoreEarly \/ ReadLoadLate
PeekMethod  == PeekTest \/ PeekLoad
FlushMethod == FlushLoad \/ FlushStore
WriteMethod == WriteUdr \/ \E b \in Byte : WriteCall(b)

Sketch == \/ \E baud \in Bauds : Begin(baud)
          \/ End \/ Available \/ ReturnNone
          \/ ReadMethod \/ PeekMethod \/ FlushMethod \/ WriteMethod

Usart == TxLoad \/ TxDone \/ \E b \in Byte : RxInterrupt(b)

Next == Sketch \/ Usart

Spec == Init /\ [][Next]_vars
-----------------------------------------------------------------------------
TypeOK == /\ buffer \in [Slots -> Byte]
          /\ head \in Slots /\ tail \in Slots
          /\ enabled \in BOOLEAN
          /\ u2x \in BOOLEAN /\ ubrr \in Divisors
          /\ asked \in Bauds \cup {0}
          /\ udr \in {<<>>} \cup {<<b>> : b \in Byte}
          /\ shift \in {<<>>} \cup {<<b>> : b \in Byte}
          /\ line \in Byte \cup {-1}
          /\ pc \in {"Sketch", "PeekLoad", "Read", "ReadStore", "ReadLoadLate",
                     "FlushStore", "WriteWait"}
          /\ slot \in Slots /\ c \in Byte
          /\ got \in Byte \cup {-1}
          /\ promised \in Slots

\* A count that available() returned stays good: whatever the interrupt does
\* afterwards, that many read() calls will each find a character.
PromiseKept == promised <= Count

\* What the sketch may rely on inside a method, however often the interrupt
\* has run since its last access; with TypeOK and PromiseKept an inductive
\* invariant (HardwareSerialProofs).
ReaderInv == /\ pc \in {"PeekLoad", "Read", "ReadStore"} => head # tail
             /\ pc = "ReadStore" => c = buffer[tail]
             /\ pc = "ReadLoadLate" => tail = Advance(slot)
             /\ pc = "FlushStore" => slot = tail /\ promised = 0

Inv == TypeOK /\ PromiseKept /\ ReaderInv

\* The rate on the wire is within 2.5% of the one begin() was asked for: the
\* divisor neither overflows its twelve bits nor rounds too far.
ActualDivisor == (IF u2x THEN 8 ELSE 16) * (ubrr + 1)

Near(baud) == LET error == F_CPU - baud * ActualDivisor
              IN  40 * (IF error < 0 THEN -error ELSE error) <= F_CPU

BaudAccurate == enabled => Near(asked)

\* The unread part of the ring, oldest first.
Unread == [k \in 1..Count |-> buffer[(tail + k - 1) % RX_BUFFER_SIZE]]

\* With the tail stored first, the read has taken effect and its result is
\* still in the ring.
Result == IF pc = "ReadLoadLate" THEN buffer[slot] ELSE got

Port == INSTANCE SerialPort WITH RxCapacity <- RX_BUFFER_SIZE - 1, TxCapacity <- 2,
                                 rx <- Unread, got <- Result,
                                 tx <- shift \o udr, line <- line

\* The port is two bounded FIFO queues, however the interrupt interleaves.
ImplementsPort == Port!Spec
=============================================================================
