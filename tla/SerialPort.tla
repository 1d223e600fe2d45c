----------------------------- MODULE SerialPort -----------------------------
(***************************************************************************)
(* What a sketch is promised by a hardware serial port: two bounded first- *)
(* in first-out queues of bytes, one per direction.  A byte that arrives   *)
(* when the receive queue is full is dropped; nothing is ever delivered    *)
(* twice, out of order, or corrupted.  HardwareSerial implements this.     *)
(***************************************************************************)
EXTENDS Integers, Sequences

CONSTANTS Byte,        \* the values of a character
          RxCapacity,  \* unread bytes the port can hold
          TxCapacity   \* bytes accepted but not yet on the wire

VARIABLES rx,    \* bytes received and not yet read, oldest first
          got,   \* what the last read() or peek() returned, -1 for none
          tx,    \* bytes written and not yet on the wire, oldest first
          line   \* the last byte put on the wire, -1 for none

vars == <<rx, got, tx, line>>

Init == /\ rx = <<>>
        /\ got = -1
        /\ tx = <<>>
        /\ line = -1

Arrive(c) == /\ IF Len(rx) < RxCapacity THEN rx' = Append(rx, c)
                                        ELSE UNCHANGED rx
             /\ UNCHANGED <<got, tx, line>>

Read == /\ rx # <<>>
        /\ got' = Head(rx)
        /\ rx' = Tail(rx)
        /\ UNCHANGED <<tx, line>>

Peek == /\ rx # <<>>
        /\ got' = Head(rx)
        /\ UNCHANGED <<rx, tx, line>>

Nothing == /\ rx = <<>>
           /\ got' = -1
           /\ UNCHANGED <<rx, tx, line>>

Flush == /\ rx' = <<>>
         /\ UNCHANGED <<got, tx, line>>

Write(c) == /\ Len(tx) < TxCapacity
            /\ tx' = Append(tx, c)
            /\ UNCHANGED <<rx, got, line>>

Transmit == /\ tx # <<>>
            /\ line' = Head(tx)
            /\ tx' = Tail(tx)
            /\ UNCHANGED <<rx, got>>

Next == \/ \E c \in Byte : Arrive(c) \/ Write(c)
        \/ Read \/ Peek \/ Nothing \/ Flush \/ Transmit

Spec == Init /\ [][Next]_vars
=============================================================================
