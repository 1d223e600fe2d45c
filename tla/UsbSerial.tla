----------------------------- MODULE UsbSerial ------------------------------
(***************************************************************************)
(* The firmware of the board's other chip, firmwares/arduino-usbserial: it *)
(* carries bytes between the host's USB and the serial port of the board.  *)
(* The main loop moves them through two rings; the receive interrupt runs  *)
(* between any two of its accesses to the ring they share.                 *)
(***************************************************************************)
EXTENDS Integers, Sequences

CONSTANTS BUFFER_SIZE, BUFFER_NEARLY_FULL,
          COUNTS,       \* values of a RingBuff_Count_t: 256
          Byte          \* values of a byte

ASSUME RingAssumption == /\ BUFFER_SIZE \in Nat \ {0} /\ BUFFER_NEARLY_FULL \in 0..(BUFFER_SIZE - 1)
                         /\ COUNTS \in Nat /\ BUFFER_SIZE < COUNTS
ASSUME ByteAssumption == Byte \subseteq Nat /\ 0 \in Byte

Slots == 0..(BUFFER_SIZE - 1)

VARIABLES USARTtoUSB, USBtoUSART,   \* the rings: [Buffer, In, Out, Count]
          tov,                      \* TOV0: the flush timer has expired
          bridgePc, BufferCount,    \* main()'s place, and bytes left to pass on
          hand,                     \* the byte RingBuffer_Remove() has taken, -1 for none
          toHost, toBoard,          \* the last byte passed on each way, -1 before the first
          overrun,                  \* a byte came in with USARTtoUSB full
          reads                     \* USB_DeviceState is Configured and the host reads: else
                                    \* CDC_Device_SendByte() returns an error

bridgeVars == <<USARTtoUSB, USBtoUSART, tov, bridgePc, BufferCount, hand, toHost, toBoard, overrun, reads>>
-----------------------------------------------------------------------------
Ring == [Buffer : [Slots -> Byte], In : Slots, Out : Slots, Count : 0..(COUNTS - 1)]

Empty(r) == r.In = 0 /\ r.Out = 0 /\ r.Count = 0

BridgeInit == /\ USARTtoUSB \in Ring /\ Empty(USARTtoUSB)
              /\ USARTtoUSB.Buffer = [i \in Slots |-> 0]
              /\ USBtoUSART = USARTtoUSB
              /\ tov = FALSE /\ bridgePc = "receive" /\ BufferCount = 0
              /\ hand = -1 /\ toHost = -1 /\ toBoard = -1 /\ overrun = FALSE /\ reads = FALSE

Succ(i) == IF i + 1 = BUFFER_SIZE THEN 0 ELSE i + 1

IsFullMutant(r) == FALSE    \* mutant: the host's bytes are taken without asking

IsFull(r) == r.Count = BUFFER_SIZE

Insert(r, c) == [r EXCEPT !.Buffer[r.In] = c, !.In = Succ(@), !.Count = (@ + 1) % COUNTS]

Advance(r) == [r EXCEPT !.Out = Succ(@)]
Drop(r)    == [r EXCEPT !.Count = (@ + COUNTS - 1) % COUNTS]
Oldest(r)  == r.Buffer[r.Out]

(***** interrupts and the timer *****)

\* USART1_RX: the ring is not asked whether it is full.  While USB_DeviceState is not
\* Configured, the byte is dropped: no step.
Receive(c) == /\ USARTtoUSB' = Insert(USARTtoUSB, c)
              /\ overrun' = (overrun \/ IsFull(USARTtoUSB))
              /\ UNCHANGED <<USBtoUSART, tov, bridgePc, BufferCount, hand, toHost, toBoard, reads>>

Expire == /\ ~tov /\ tov' = TRUE
          /\ UNCHANGED <<USARTtoUSB, USBtoUSART, bridgePc, BufferCount, hand, toHost, toBoard, overrun, reads>>

\* The host comes and goes, and reads or does not.
Usb == /\ reads' = ~reads
       /\ UNCHANGED <<USARTtoUSB, USBtoUSART, tov, bridgePc, BufferCount, hand, toHost, toBoard, overrun>>

(***** main() *****)

\* A byte from the host, if there is one and there is room for it.
FromHost(c) == ~IsFull(USBtoUSART) /\ USBtoUSART' = Insert(USBtoUSART, c)

MainReceive == /\ bridgePc = "receive" /\ bridgePc' = "count"
               /\ UNCHANGED USBtoUSART \/ \E c \in Byte : FromHost(c)
               /\ UNCHANGED <<USARTtoUSB, tov, BufferCount, hand, toHost, toBoard, overrun, reads>>

MainCount == /\ bridgePc = "count" /\ bridgePc' = "test"
             /\ BufferCount' = USARTtoUSB.Count
             /\ UNCHANGED <<USARTtoUSB, USBtoUSART, tov, hand, toHost, toBoard, overrun, reads>>

\* Bytes are passed on when the timer has expired or many are waiting.
MainTest == /\ bridgePc = "test"
            /\ \/ (tov \/ BufferCount > BUFFER_NEARLY_FULL) /\ tov' = FALSE /\ bridgePc' = "take"
               \/ ~tov /\ BufferCount <= BUFFER_NEARLY_FULL /\ bridgePc' = "load" /\ UNCHANGED tov
            /\ UNCHANGED <<USARTtoUSB, USBtoUSART, BufferCount, hand, toHost, toBoard, overrun, reads>>

\* RingBuffer_Remove(): the byte and the pointer, and then the count.
MainTake == /\ bridgePc = "take"
            /\ \/ /\ BufferCount > 0 /\ bridgePc' = "drop" /\ BufferCount' = BufferCount - 1
                  /\ hand' = Oldest(USARTtoUSB) /\ USARTtoUSB' = Advance(USARTtoUSB)
               \/ BufferCount = 0 /\ bridgePc' = "load" /\ UNCHANGED <<USARTtoUSB, BufferCount, hand>>
            /\ UNCHANGED <<USBtoUSART, tov, toHost, toBoard, overrun, reads>>

\* The result of CDC_Device_SendByte() is ignored: a byte it does not deliver is gone.
MainDrop == /\ bridgePc = "drop" /\ bridgePc' = "take"
            /\ USARTtoUSB' = Drop(USARTtoUSB) /\ hand' = -1
            /\ toHost' = IF reads THEN hand ELSE toHost
            /\ UNCHANGED <<USBtoUSART, tov, BufferCount, toBoard, overrun, reads>>

\* The next byte for the board; Serial_TxByte() waits for the data register.
MainLoad == /\ bridgePc = "load" /\ bridgePc' = "receive"
            /\ \/ /\ USBtoUSART.Count > 0 /\ toBoard' = Oldest(USBtoUSART)
                  /\ USBtoUSART' = Drop(Advance(USBtoUSART))
               \/ USBtoUSART.Count = 0 /\ UNCHANGED <<USBtoUSART, toBoard>>
            /\ UNCHANGED <<USARTtoUSB, tov, BufferCount, hand, toHost, overrun, reads>>
-----------------------------------------------------------------------------
Main == MainReceive \/ MainCount \/ MainTest \/ MainTake \/ MainDrop \/ MainLoad

BridgeNext == (\E c \in Byte : Receive(c)) \/ Expire \/ Usb \/ Main

BridgeFairness == WF_bridgeVars(Main) /\ WF_bridgeVars(Expire)

BridgeSpec == BridgeInit /\ [][BridgeNext]_bridgeVars /\ BridgeFairness
-----------------------------------------------------------------------------
\* Every variable has the type of its C declaration.
BridgeTypeOK == /\ USARTtoUSB \in Ring /\ USBtoUSART \in Ring
                /\ tov \in BOOLEAN /\ overrun \in BOOLEAN /\ reads \in BOOLEAN
                /\ bridgePc \in {"receive", "count", "test", "take", "drop", "load"}
                /\ BufferCount \in 0..(COUNTS - 1)
                /\ {hand, toHost, toBoard} \subseteq Byte \cup {-1}

\* The n bytes of a ring from slot o on.
Bytes(r, o, n) == [k \in 1..n |-> r.Buffer[(o + k - 1) % BUFFER_SIZE]]

\* A byte in hand has left the ring, and is not passed on until it is dropped.
UpQueue == IF bridgePc = "drop" THEN <<hand>> \o Bytes(USARTtoUSB, USARTtoUSB.Out, USARTtoUSB.Count - 1)
                                ELSE Bytes(USARTtoUSB, USARTtoUSB.Out, USARTtoUSB.Count)

Up   == INSTANCE Pipe WITH Room <- BUFFER_SIZE, q <- UpQueue, out <- toHost, taken <- reads
Down == INSTANCE Pipe WITH Room <- BUFFER_SIZE, out <- toBoard, overrun <- FALSE, taken <- TRUE,
                           q <- Bytes(USBtoUSART, USBtoUSART.Out, USBtoUSART.Count)

\* Whatever the interrupt comes between, the bytes put in the ring go to the host in the
\* order the board sent them, each once and all of them but those that leave the ring
\* while the host does not read, until the ring overruns; and those of the host to the
\* board, always.
ImplementsPipes == Up!PipeSpec /\ Down!PipeSpec
=============================================================================
