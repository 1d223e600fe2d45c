------------------------------- MODULE TwiBus -------------------------------
(***************************************************************************)
(* The hardware under libraries/Wire/utility/twi.c: the TWI peripheral of  *)
(* each node and the two-wire bus between them, at the grain at which the  *)
(* peripheral interrupts the processor, one status per byte.  This code is *)
(* not in the repository: it is modelled from the status codes twi.c       *)
(* handles and the control bits it writes.                                 *)
(*                                                                         *)
(* A byte moves only when no participant has its interrupt flag TWINT set  *)
(* (the flag stretches the clock).  Several nodes may send START at once;  *)
(* the wires carry the minimum of what they send, and a node that sees a   *)
(* lower value than its own has lost arbitration.                          *)
(***************************************************************************)
EXTENDS Integers, Sequences, FiniteSetsExt

CONSTANTS Node,          \* the boards; a board's bus address is its number
          Slave,         \* those that gave Wire.begin an address
          Device,        \* addresses of plain devices: they take and give anything
          SlowCallback,  \* may the bus run on while a slave's callback is running?
          Noise          \* may an illegal START or STOP appear on the wires?

ASSUME NodeAssumption == Node \subseteq 1..49 /\ Slave \subseteq Node
ASSUME DeviceAssumption == Device \subseteq 1..49 /\ Device \cap Node = {}
ASSUME FlagAssumption == SlowCallback \in BOOLEAN /\ Noise \in BOOLEAN

VARIABLES bus,    \* phase, masters still in arbitration, slave that acknowledged
          twint,  \* the status each peripheral signals, "none" without TWINT
          sta,    \* TWSTA: a START is requested
          ea,     \* TWEA: acknowledge the next byte or the own address
          twdr,   \* TWDR
          busy    \* is the processor inside the slave receive callback?

busVars == <<bus, twint, sta, ea, twdr>>

Free == [phase |-> "Free", masters |-> {}, slave |-> 0]

HighByte == 255                 \* what a bus nobody drives reads as
DeviceByte == 150
Sla(address, read) == 2 * address + read

BusInit == /\ bus = Free
           /\ twint = [n \in Node |-> "none"]
           /\ sta = [n \in Node |-> FALSE]
           /\ ea = [n \in Node |-> TRUE]
           /\ twdr = [n \in Node |-> HighByte]
           /\ busy = [n \in Node |-> FALSE]

\* A write of TWCR with TWINT set in it: it clears the flag, whatever the
\* status, and leaves TWSTA and TWEA as written.
WriteTWCR(n, start, ack) == /\ twint' = [twint EXCEPT ![n] = "none"]
                            /\ sta' = [sta EXCEPT ![n] = start]
                            /\ ea' = [ea EXCEPT ![n] = ack]

\* The same with TWSTO.  A master puts STOP on the bus, which the slave it has
\* been writing to sees; in a slave it only leaves the addressed mode.
\* (TWDR is dead from here on: it is reset to keep equivalent states equal.)
WriteStop(n) ==
    /\ twdr' = [twdr EXCEPT ![n] = HighByte]
    /\ sta' = [sta EXCEPT ![n] = FALSE]
    /\ ea' = [ea EXCEPT ![n] = TRUE]
    /\ IF bus.masters = {n}
       THEN LET told == {bus.slave} \cap Node
            IN  /\ \A s \in told : twint[s] = "none"
                /\ twint' = [m \in Node |->
                      IF m = n THEN "none"
                      ELSE IF m \in told /\ bus.phase = "Write" THEN "SR_STOP"
                      ELSE twint[m]]
                /\ bus' = Free
       ELSE /\ twint' = [twint EXCEPT ![n] = "none"]
            /\ bus' = [bus EXCEPT !.masters = @ \ {n}]
-----------------------------------------------------------------------------
Participants == bus.masters \cup ({bus.slave} \cap Node)

Clocked == bus.masters # {} /\ \A n \in Participants : twint[n] = "none"

\* The masters whose byte is the one on the wires, and that byte.
OnWire  == Min({twdr[m] : m \in bus.masters})
Winners == {m \in bus.masters : twdr[m] = OnWire}

\* Raise a status at each node of a function's domain.
Raise(status) == twint' = [n \in Node |-> IF n \in DOMAIN status THEN status[n] ELSE twint[n]]

Start == /\ bus.phase = "Free"
         /\ \E M \in SUBSET {n \in Node : sta[n] /\ twint[n] = "none"} :
               /\ M # {}
               /\ bus' = [Free EXCEPT !.phase = "Address", !.masters = M]
               /\ Raise([n \in M |-> "START"])
         /\ UNCHANGED <<sta, ea, twdr, busy>>

\* The address byte: arbitration, then the acknowledge of the addressed slave.
Address ==
    LET address == OnWire \div 2
        read    == OnWire % 2 = 1
        lost    == bus.masters \ Winners
        slave   == {s \in Slave \ Winners : s = address /\ ea[s]}
        acked   == slave # {} \/ address \in Device
        MasterStatus == IF read THEN IF acked THEN "MR_SLA_ACK" ELSE "MR_SLA_NACK"
                                ELSE IF acked THEN "MT_SLA_ACK" ELSE "MT_SLA_NACK"
        SlaveStatus(s) == IF read THEN IF s \in lost THEN "ST_ARB_LOST_SLA_ACK" ELSE "ST_SLA_ACK"
                                  ELSE IF s \in lost THEN "SR_ARB_LOST_SLA_ACK" ELSE "SR_SLA_ACK"
    IN  /\ bus.phase = "Address" /\ Clocked
        /\ \A s \in slave : twint[s] = "none" /\ (SlowCallback \/ ~busy[s])
        /\ Raise([n \in bus.masters \cup slave |->
                     IF n \in Winners THEN MasterStatus
                     ELSE IF n \in slave THEN SlaveStatus(n) ELSE "ARB_LOST"])
        /\ twdr' = [n \in Node |-> IF n \in slave THEN OnWire ELSE twdr[n]]
        /\ bus' = [phase |-> IF read THEN "Read" ELSE "Write",
                   masters |-> Winners,
                   slave |-> IF acked THEN address ELSE 0]
        /\ UNCHANGED <<sta, ea, busy>>

\* A data byte from the masters to the slave.  A slave that does not
\* acknowledge is no longer addressed.
WriteByte ==
    LET slave == {bus.slave} \cap Node
        acked == bus.slave \in Device \/ \E s \in slave : ea[s]
    IN  /\ bus.phase = "Write" /\ Clocked
        /\ Raise([n \in bus.masters \cup slave |->
                     IF n \in slave THEN IF acked THEN "SR_DATA_ACK" ELSE "SR_DATA_NACK"
                     ELSE IF n \notin Winners THEN "ARB_LOST"
                     ELSE IF acked THEN "MT_DATA_ACK" ELSE "MT_DATA_NACK"])
        /\ twdr' = [n \in Node |-> IF n \in slave THEN OnWire ELSE twdr[n]]
        /\ bus' = [bus EXCEPT !.masters = Winners, !.slave = IF acked THEN @ ELSE 0]
        /\ UNCHANGED <<sta, ea, busy>>

\* A data byte from the slave to the masters, which acknowledge it or not; a
\* master that does not while another does has lost arbitration.
ReadByte ==
    LET slave  == {bus.slave} \cap Node
        byte   == IF bus.slave \in Device THEN DeviceByte
                  ELSE IF slave # {} THEN twdr[bus.slave] ELSE HighByte
        acking == {m \in bus.masters : ea[m]}
        heard  == IF acking # {} THEN acking ELSE bus.masters
        last   == acking = {} \/ \E s \in slave : ~ea[s]
    IN  /\ bus.phase = "Read" /\ Clocked
        /\ Raise([n \in bus.masters \cup slave |->
                     IF n \in slave
                     THEN IF acking = {} THEN "ST_DATA_NACK"
                          ELSE IF ea[n] THEN "ST_DATA_ACK" ELSE "ST_LAST_DATA"
                     ELSE IF n \notin heard THEN "ARB_LOST"
                     ELSE IF acking # {} THEN "MR_DATA_ACK" ELSE "MR_DATA_NACK"])
        /\ twdr' = [n \in Node |-> IF n \in heard THEN byte ELSE twdr[n]]
        /\ bus' = [bus EXCEPT !.masters = heard, !.slave = IF last THEN 0 ELSE @]
        /\ UNCHANGED <<sta, ea, busy>>

BusError == /\ Noise
            /\ bus.phase \in {"Write", "Read"} /\ Clocked
            /\ Raise([n \in Participants |-> "BUS_ERROR"])
            /\ bus' = Free
            /\ UNCHANGED <<sta, ea, twdr, busy>>

Bus == Start \/ Address \/ WriteByte \/ ReadByte \/ BusError
=============================================================================
