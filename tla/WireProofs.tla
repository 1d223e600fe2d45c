----------------------------- MODULE WireProofs -----------------------------
(***************************************************************************)
(* Proofs about Wire for every set of boards, masters, slaves, devices,    *)
(* buffer lengths, addresses, quantities and replies.                      *)
(*                                                                         *)
(* The invariant comes in three layers.  MastersInv says what a master     *)
(* call has on the bus at each stage and that twi_error agrees with what   *)
(* was acknowledged; it needs only that no board is master and slave       *)
(* (Apart).  SlavesInv says when a slave is addressed, which status it may *)
(* then see and what its transmit buffer holds; it needs that the bus      *)
(* waits for a callback (~SlowCallback).  WholeInv relates the bytes a     *)
(* slave has to those its masters have sent; it needs that a slave's       *)
(* buffer is no shorter than a master's (Roomy).                           *)
(*                                                                         *)
(* A step of one node is proved in three parts: the types, its own part of *)
(* the invariant, and that it leaves every other node alone but for the    *)
(* STOP a slave is told of (Elsewhere).  The bus moves several nodes at    *)
(* once, so its five steps are proved for all nodes together.              *)
(***************************************************************************)
EXTENDS Wire, SequenceTheorems, WellFoundedInduction, TLAPS

\* No board makes master calls and serves as a slave.  Without it the interrupt of
\* a slave transfer can end a master call: the run wire_lost_write shows it.
Apart == Master \cap Slave = {}

Bytes == 0..255
Buffers == [Node -> Seq(Bytes)]
Calls == [op : {"none", "read", "write"}, address : 0..49, length : Nat]
Stages == {"Sketch", "TestReady", "Claim", "SendStart", "Wait", "SetIndices"}

BusTypes == /\ bus \in [phase : {"Free", "Address", "Write", "Read"},
                        masters : SUBSET Master, slave : Slave \cup Device \cup {0}]
            /\ bus.phase = "Free" => bus.masters = {}
            /\ twint \in [Node -> Statuses]
            /\ sta \in [Node -> BOOLEAN] /\ ea \in [Node -> BOOLEAN] /\ busy \in [Node -> BOOLEAN]
            /\ twdr \in [Node -> Bytes]

TwiTypes == /\ twi_state \in [Node -> {"READY", "MRX", "MTX", "SRX", "STX"}]
            /\ twi_error \in [Node -> {"none", "SLA_NACK", "DATA_NACK", "ARB_LOST", "BUS_ERROR"}]
            /\ twi_slarw \in [Node -> Bytes]
            /\ masterIndex \in [Node -> Nat] /\ masterLength \in [Node -> Nat]
            /\ txIndex \in [Node -> Nat] /\ txLength \in [Node -> Nat]
            /\ master \in Buffers /\ txBuffer \in Buffers /\ rxBuffer \in Buffers
            /\ pc \in [Node -> Stages] /\ call \in [Node -> Calls]
            /\ acked \in [Node -> Int]

WireTypes == /\ txData \in Buffers /\ unread \in Buffers /\ copied \in Buffers
             /\ txFill \in [Node -> Nat] /\ txAddress \in [Node -> 0..49]
             /\ transmitting \in [Node -> BOOLEAN]
             /\ ret \in [Node -> [code : -1..4, sent : BOOLEAN]]

Types == BusTypes /\ TwiTypes /\ WireTypes

\* No buffer holds more than its length.
Bounded(n) == /\ Len(rxBuffer[n]) <= TWI_BUFFER_LENGTH[n]
              /\ Len(txBuffer[n]) <= TWI_BUFFER_LENGTH[n]
              /\ Len(txData[n]) <= TWI_BUFFER_LENGTH[n] /\ txFill[n] <= Len(txData[n])
              /\ Len(unread[n]) <= TWI_BUFFER_LENGTH[n] /\ Len(copied[n]) <= TWI_BUFFER_LENGTH[n]
              /\ Len(master[n]) <= TWI_BUFFER_LENGTH[n]

Reads(n)  == call[n].op = "read"
Writes(n) == call[n].op = "write"
Claimed(n) == IF Reads(n) THEN "MRX" ELSE "MTX"

Idle(n)  == ~sta[n] /\ n \notin bus.masters /\ twint[n] = "none"
Fresh(n) == masterIndex[n] = 0 /\ acked[n] = -1

\* A byte of the message is on its way, or has just been answered.
Sending(n) == masterIndex[n] \in 1..masterLength[n] /\ acked[n] = masterIndex[n] - 1

\* What master n has on the bus while its call is under way.
Starting(n)  == /\ sta[n] /\ Fresh(n)
                /\ \/ twint[n] = "none" /\ n \notin bus.masters
                   \/ twint[n] = "START" /\ n \in bus.masters /\ bus.phase = "Address"
Addressing(n) == /\ ~sta[n] /\ n \in bus.masters /\ bus.phase = "Address" /\ Fresh(n)
                 /\ twint[n] = "none" /\ twdr[n] = twi_slarw[n]
Writing(n)   == /\ ~sta[n] /\ n \in bus.masters /\ bus.phase = "Write" /\ Writes(n)
                /\ \/ twint[n] \in {"MT_SLA_ACK", "MT_SLA_NACK"} /\ Fresh(n)
                   \/ twint[n] \in {"none", "MT_DATA_ACK", "MT_DATA_NACK"} /\ Sending(n)
Reading(n)   == /\ ~sta[n] /\ n \in bus.masters /\ bus.phase = "Read" /\ Reads(n)
                /\ masterIndex[n] <= masterLength[n]
                /\ twint[n] \in {"none", "MR_SLA_ACK", "MR_SLA_NACK", "MR_DATA_ACK", "MR_DATA_NACK"}
                /\ twint[n] \in {"MR_SLA_ACK", "MR_SLA_NACK"} => Fresh(n)
                /\ twint[n] = "none" => ea[n] = (masterIndex[n] < masterLength[n])
                /\ twint[n] = "MR_DATA_ACK" => masterIndex[n] < masterLength[n]
Losing(n)    == /\ ~sta[n] /\ n \notin bus.masters
                /\ twint[n] \in {"ARB_LOST", "BUS_ERROR"}
                /\ masterIndex[n] <= masterLength[n]
                /\ Writes(n) => acked[n] < masterLength[n]

UnderWay(n) == /\ twi_state[n] = Claimed(n) /\ twi_error[n] = "none"
               /\ Starting(n) \/ Addressing(n) \/ Writing(n) \/ Reading(n) \/ Losing(n)

\* The interrupt has ended it, and twi_error tells the truth.
Over(n) == /\ twi_state[n] = "READY" /\ Idle(n)
           /\ Writes(n) => /\ twi_error[n] = "none" <=> acked[n] = masterLength[n]
                           /\ masterIndex[n] <= masterLength[n]
           /\ Reads(n) => masterIndex[n] <= call[n].length

MasterInv(n) ==
    /\ ~busy[n]
    /\ ret[n].code = 0 => ret[n].sent
    /\ ret[n].code > 0 => ~ret[n].sent
    /\ pc[n] \in {"Sketch", "TestReady", "Claim", "SetIndices"} => Idle(n) /\ twi_state[n] = "READY"
    /\ pc[n] \in {"TestReady", "Claim", "SendStart", "Wait"} =>
         /\ Reads(n) \/ Writes(n)
         /\ call[n].length <= TWI_BUFFER_LENGTH[n] /\ (Reads(n) => call[n].length > 0)
    /\ pc[n] \in {"TestReady", "Claim"} /\ Writes(n) => call[n].length <= Len(txData[n])
    /\ pc[n] \in {"SendStart", "Wait"} =>
         /\ masterLength[n] = IF Reads(n) THEN call[n].length - 1 ELSE call[n].length
         /\ twi_slarw[n] = Sla(call[n].address, IF Reads(n) THEN 1 ELSE 0)
         /\ Len(master[n]) = IF Reads(n) THEN masterIndex[n] ELSE masterLength[n]
    /\ pc[n] = "SendStart" => /\ Idle(n) /\ Fresh(n)
                              /\ twi_state[n] = Claimed(n) /\ twi_error[n] = "none"
    /\ pc[n] = "Wait" => UnderWay(n) \/ Over(n)
    /\ pc[n] = "SetIndices" => call[n].length <= Len(copied[n])

SlaveStatuses == {"none", "BUS_ERROR", "SR_SLA_ACK", "SR_ARB_LOST_SLA_ACK", "SR_DATA_ACK",
                  "SR_DATA_NACK", "SR_STOP", "ST_SLA_ACK", "ST_ARB_LOST_SLA_ACK",
                  "ST_DATA_ACK", "ST_DATA_NACK", "ST_LAST_DATA"}

\* A board that is no master only serves.
OtherInv(n) == /\ twint[n] \in SlaveStatuses /\ twi_state[n] \in {"READY", "SRX", "STX"}
               /\ pc[n] = "Sketch" /\ ~sta[n] /\ ~transmitting[n]
               /\ ret[n] = NoResult /\ masterIndex[n] = 0

NodeInv(n) == Bounded(n) /\ (IF n \in Master THEN MasterInv(n) ELSE OtherInv(n))

MastersInv == Types /\ \A n \in Node : NodeInv(n)
-----------------------------------------------------------------------------
\* After power-up the invariant holds.
LEMMA InitHolds == ASSUME Init PROVE MastersInv
<1> USE NodeAssumption, DeviceAssumption, SketchAssumption, LengthAssumption
<1>1. Types
  BY DEF Init, BusInit, TwiInit, Free, Nothing, NoResult, HighByte, Types, BusTypes, TwiTypes,
         WireTypes, Statuses, Buffers, Bytes, Calls, Stages
<1>2. ASSUME NEW n \in Node PROVE NodeInv(n)
  <2>1. Bounded(n)
    <3>1. TWI_BUFFER_LENGTH[n] \in Nat /\ Len(<<>>) = 0  OBVIOUS
    <3> QED  BY <3>1 DEF Init, TwiInit, Bounded
  <2>2. MasterInv(n)  BY DEF Init, BusInit, TwiInit, Free, NoResult, MasterInv, Idle
  <2>3. OtherInv(n)  BY DEF Init, BusInit, TwiInit, NoResult, OtherInv, SlaveStatuses
  <2> QED  BY <2>1, <2>2, <2>3 DEF NodeInv
<1> QED  BY <1>1, <1>2 DEF MastersInv
-----------------------------------------------------------------------------
\* What a step of node n leaves alone at node m, but for the status.
Kept(m) ==
    /\ sta'[m] = sta[m] /\ ea'[m] = ea[m] /\ busy'[m] = busy[m] /\ twdr'[m] = twdr[m]
    /\ twi_state'[m] = twi_state[m] /\ twi_error'[m] = twi_error[m] /\ twi_slarw'[m] = twi_slarw[m]
    /\ masterIndex'[m] = masterIndex[m] /\ masterLength'[m] = masterLength[m]
    /\ master'[m] = master[m] /\ txBuffer'[m] = txBuffer[m] /\ rxBuffer'[m] = rxBuffer[m]
    /\ txIndex'[m] = txIndex[m] /\ txLength'[m] = txLength[m]
    /\ pc'[m] = pc[m] /\ call'[m] = call[m] /\ acked'[m] = acked[m]
    /\ txData'[m] = txData[m] /\ txFill'[m] = txFill[m] /\ txAddress'[m] = txAddress[m]
    /\ unread'[m] = unread[m] /\ copied'[m] = copied[m]
    /\ transmitting'[m] = transmitting[m] /\ ret'[m] = ret[m]

\* It may leave the bus.  The last master frees it, and the slave it has been
\* writing to is told of the STOP.
Frees(n) == bus.masters = {n} /\ bus' = Free /\ \A s \in {bus.slave} \cap Node : twint[s] = "none"

Leaves(n) == \/ bus' = bus
             \/ Frees(n)
             \/ bus.masters # {n} /\ bus' = [bus EXCEPT !.masters = @ \ {n}]

Told(m) == \/ twint'[m] = twint[m]
           \/ /\ m = bus.slave /\ m \in Slave /\ bus.phase = "Write" /\ bus' = Free
              /\ twint[m] = "none" /\ twint'[m] = "SR_STOP"

Elsewhere(n) == Leaves(n) /\ \A m \in Node \ {n} : Kept(m) /\ Told(m)

\* A node's step disturbs no other node's part of the invariant: a STOP reaches only
\* the slave, and a master is never that slave.
LEMMA ElsewhereKeeps ==
  ASSUME Apart, MastersInv, NEW n \in Node, Elsewhere(n), NEW m \in Node \ {n}
  PROVE  NodeInv(m)'
<1> USE DEF MastersInv, NodeInv
<1>1. Bounded(m)'  BY DEF Elsewhere, Kept, Bounded
<1>2. /\ m \in bus'.masters <=> m \in bus.masters
      /\ m \in bus.masters => bus'.phase = bus.phase
  BY DEF Elsewhere, Leaves, Frees, Free, Types, BusTypes
<1>3. CASE m \in Master
  <2>1. twint'[m] = twint[m] /\ Kept(m)  BY <1>3 DEF Elsewhere, Told, Apart
  <2>2. /\ Idle(m)' = Idle(m) /\ Fresh(m)' = Fresh(m) /\ Reads(m)' = Reads(m) /\ Writes(m)' = Writes(m)
        /\ Claimed(m)' = Claimed(m) /\ Sending(m)' = Sending(m)
    BY <1>2, <2>1 DEF Kept, Idle, Fresh, Reads, Writes, Claimed, Sending
  <2>3. UnderWay(m)' = UnderWay(m)
    BY <1>2, <2>1, <2>2 DEF Kept, UnderWay, Starting, Addressing, Writing, Reading, Losing
  <2>4. Over(m)' = Over(m)  BY <2>1, <2>2 DEF Kept, Over
  <2> QED  BY <1>1, <1>3, <2>1, <2>2, <2>3, <2>4 DEF Kept, MasterInv
<1>4. CASE m \notin Master
  BY <1>1, <1>4 DEF Elsewhere, Told, Kept, OtherInv, SlaveStatuses
<1> QED  BY <1>3, <1>4
-----------------------------------------------------------------------------
\* A node's step: the types, the other nodes, and its own part of the invariant.
Steps(n) == Types' /\ Elsewhere(n) /\ NodeInv(n)'

\* So a step that keeps the types and its own part keeps all of it.
LEMMA StepsKeep == ASSUME Apart, MastersInv, NEW n \in Node, Steps(n) PROVE MastersInv'
<1>1. ASSUME NEW m \in Node PROVE NodeInv(m)'
  <2>1. CASE m = n  BY <2>1 DEF Steps
  <2>2. CASE m # n  BY <2>2, ElsewhereKeeps DEF Steps
  <2> QED  BY <2>1, <2>2
<1> QED  BY <1>1 DEF MastersInv, Steps

\* A master takes interrupts only while it waits.
LEMMA Interrupted ==
  ASSUME MastersInv, NEW n \in Master, twint[n] # "none"
  PROVE  pc[n] = "Wait" /\ UnderWay(n) /\ ~busy[n]
BY SketchAssumption DEF MastersInv, NodeInv, MasterInv, Types, TwiTypes, Stages, Idle, Over

\* A write of TWCR: twi_reply, twi_releaseBus and the START of a call.
LEMMA ReplyTypes ==
  ASSUME BusTypes, NEW n \in Node, NEW start \in BOOLEAN, NEW ack \in BOOLEAN,
         WriteTWCR(n, start, ack)
  PROVE  /\ twint' \in [Node -> Statuses] /\ sta' \in [Node -> BOOLEAN] /\ ea' \in [Node -> BOOLEAN]
         /\ twint'[n] = "none" /\ sta'[n] = start /\ ea'[n] = ack
         /\ \A m \in Node \ {n} : twint'[m] = twint[m] /\ sta'[m] = sta[m] /\ ea'[m] = ea[m]
BY DEF BusTypes, WriteTWCR, Statuses

\* twi_stop, for a master alone on the bus, for one of several, and for a slave.
LEMMA StopTypes ==
  ASSUME Apart, BusTypes, NEW n \in Node, WriteStop(n)
  PROVE  /\ twint' \in [Node -> Statuses] /\ sta' \in [Node -> BOOLEAN] /\ ea' \in [Node -> BOOLEAN]
         /\ twdr' \in [Node -> Bytes]
         /\ bus' \in [phase : {"Free", "Address", "Write", "Read"},
                      masters : SUBSET Master, slave : Slave \cup Device \cup {0}]
         /\ bus'.phase = "Free" => bus'.masters = {}
         /\ Leaves(n)
         /\ twint'[n] = "none" /\ ~sta'[n] /\ ea'[n] /\ n \notin bus'.masters
         /\ \A m \in Node \ {n} : /\ sta'[m] = sta[m] /\ ea'[m] = ea[m] /\ twdr'[m] = twdr[m]
                                  /\ Told(m)
<1> USE DEF BusTypes, WriteStop, Bytes, HighByte
<1>1. /\ sta' \in [Node -> BOOLEAN] /\ ea' \in [Node -> BOOLEAN] /\ twdr' \in [Node -> Bytes]
      /\ ~sta'[n] /\ ea'[n]
      /\ \A m \in Node \ {n} : sta'[m] = sta[m] /\ ea'[m] = ea[m] /\ twdr'[m] = twdr[m]
  OBVIOUS
<1>2. CASE bus.masters = {n}
  <2>1. {bus.slave} \cap Node \subseteq Slave  BY NodeAssumption, DeviceAssumption
  <2>2. bus' = Free  BY <1>2
  <2>3. twint' = [m \in Node |-> IF m = n THEN "none"
                              ELSE IF m \in {bus.slave} \cap Node /\ bus.phase = "Write"
                                   THEN "SR_STOP" ELSE twint[m]]
    BY <1>2
  <2>4. twint' \in [Node -> Statuses] /\ twint'[n] = "none"  BY <2>3 DEF Statuses
  <2>5. \A s \in {bus.slave} \cap Node : twint[s] = "none"  BY <1>2
  <2>6. ASSUME NEW m \in Node \ {n} PROVE Told(m)
    <3>1. CASE m \in {bus.slave} \cap Node /\ bus.phase = "Write"
      BY <2>1, <2>2, <2>3, <2>5, <3>1 DEF Told
    <3>2. CASE ~(m \in {bus.slave} \cap Node /\ bus.phase = "Write")
      BY <2>3, <3>2 DEF Told
    <3> QED  BY <3>1, <3>2
  <2>7. Leaves(n)  BY <1>2, <2>2, <2>5 DEF Leaves, Frees
  <2> QED  BY <1>1, <1>2, <2>2, <2>4, <2>6, <2>7 DEF Free
<1>3. CASE bus.masters # {n}
  <2>1. bus' = [bus EXCEPT !.masters = @ \ {n}]  BY <1>3
  <2>2. /\ bus'.masters = bus.masters \ {n} /\ bus'.phase = bus.phase /\ bus'.slave = bus.slave
        /\ bus' \in [phase : {"Free", "Address", "Write", "Read"},
                      masters : SUBSET Master, slave : Slave \cup Device \cup {0}]
    BY <2>1
  <2>3. /\ twint' \in [Node -> Statuses] /\ twint'[n] = "none"
        /\ \A m \in Node \ {n} : Told(m)
    BY <1>3 DEF Statuses, Told
  <2>4. Leaves(n)  BY <1>3, <2>1 DEF Leaves
  <2> QED  BY <1>1, <2>2, <2>3, <2>4
<1> QED  BY <1>2, <1>3

-----------------------------------------------------------------------------
\* The interrupt, one case after the other: TW_START.
LEMMA StepStart ==
  ASSUME Apart, MastersInv, NEW n \in Node, IsrStart(n), UNCHANGED wireVars
  PROVE  Steps(n)
<1> USE DEF IsrStart, Interrupt, twi_reply
<1>1. WriteTWCR(n, FALSE, TRUE) /\ BusTypes /\ bus' = bus  BY DEF MastersInv, Types
<1>2. n \in Master  BY DEF MastersInv, NodeInv, OtherInv, SlaveStatuses
<1>3. pc[n] = "Wait" /\ UnderWay(n) /\ ~busy[n]  BY <1>2, Interrupted
<1>4. Types'
  BY <1>1, ReplyTypes
  DEF MastersInv, Types, BusTypes, TwiTypes, WireTypes, wireVars, twiVars, masterVars,
      slaveVars, Set
<1>5. Elsewhere(n)
  <2>1. Leaves(n)  BY <1>1 DEF Leaves
  <2>2. ASSUME NEW m \in Node \ {n} PROVE Kept(m) /\ Told(m)
    BY <1>1, ReplyTypes DEF BusTypes, Kept, Told, wireVars, twiVars, masterVars, slaveVars, Set
  <2> QED  BY <2>1, <2>2 DEF Elsewhere
<1>6. Starting(n)
  BY <1>3 DEF UnderWay, Starting, Addressing, Writing, Reading, Losing
<1>7. Addressing(n)'
  BY <1>1, <1>6, ReplyTypes DEF Starting, Addressing, Fresh, BusTypes, twiVars, masterVars, Set
<1>8. NodeInv(n)'
  BY <1>1, <1>2, <1>3, <1>7, ReplyTypes
  DEF MastersInv, NodeInv, Bounded, MasterInv, UnderWay, Addressing, Claimed, Reads, Writes, 
      wireVars, twiVars, masterVars, slaveVars
<1> QED  BY <1>4, <1>5, <1>8 DEF Steps

\* MT_SLA_ACK, MT_DATA_ACK: the index follows the acknowledged bytes, up to the STOP.
LEMMA StepTransmit ==
  ASSUME Apart, MastersInv, NEW n \in Node, IsrTransmit(n), UNCHANGED wireVars
  PROVE  Steps(n)
<1> USE DEF IsrTransmit, Interrupt
<1>1. BusTypes  BY DEF MastersInv, Types
<1>2. n \in Master  BY DEF MastersInv, NodeInv, OtherInv, SlaveStatuses
<1>3. pc[n] = "Wait" /\ UnderWay(n) /\ ~busy[n]  BY <1>2, Interrupted
<1>4. Writing(n)
  BY <1>3 DEF UnderWay, Starting, Addressing, Writing, Reading, Losing
<1>5. /\ masterLength[n] \in Nat /\ masterIndex[n] \in Nat /\ acked[n] \in Int
      /\ master[n] \in Seq(Bytes) /\ Len(master[n]) = masterLength[n]
      /\ masterIndex[n] <= masterLength[n] /\ acked[n] + 1 = masterIndex[n]
  <2>1. /\ masterLength[n] \in Nat /\ masterIndex[n] \in Nat /\ acked[n] \in Int
        /\ master[n] \in Seq(Bytes)
    BY DEF MastersInv, Types, TwiTypes, Buffers
  <2>2. Writes(n) /\ Len(master[n]) = masterLength[n]
    BY <1>2, <1>3, <1>4 DEF MastersInv, NodeInv, MasterInv, Writing, Writes, Reads
  <2>3. Fresh(n) \/ Sending(n)  BY <1>4 DEF Writing
  <2> QED  BY <2>1, <2>2, <2>3 DEF Fresh, Sending
<1>6. /\ acked' \in [Node -> Int] /\ acked'[n] = masterIndex[n]
      /\ \A m \in Node \ {n} : acked'[m] = acked[m]
  BY <1>5 DEF MastersInv, Types, TwiTypes, Set
<1>7. CASE masterIndex[n] < masterLength[n]
  <2>1. WriteTWCR(n, FALSE, TRUE) /\ bus' = bus  BY <1>7 DEF twi_reply
  <2>2. /\ twdr' \in [Node -> Bytes] /\ masterIndex' \in [Node -> Nat]
        /\ masterIndex'[n] = masterIndex[n] + 1
        /\ twdr'[n] = master[n][masterIndex[n] + 1]
        /\ \A m \in Node \ {n} : twdr'[m] = twdr[m] /\ masterIndex'[m] = masterIndex[m]
    <3>1. master[n][masterIndex[n] + 1] \in Bytes  BY <1>5, <1>7
    <3>2. /\ twdr' = [twdr EXCEPT ![n] = master[n][masterIndex[n] + 1]]
          /\ masterIndex' = [masterIndex EXCEPT ![n] = masterIndex[n] + 1]
      BY <1>7 DEF Set
    <3>3. twdr \in [Node -> Bytes] /\ masterIndex \in [Node -> Nat]
      BY <1>1 DEF BusTypes, MastersInv, Types, TwiTypes
    <3> HIDE DEF IsrTransmit
    <3> QED  BY <1>5, <3>1, <3>2, <3>3
  <2>3. Types'
    <3>1. BusTypes'  BY <1>1, <2>1, <2>2, ReplyTypes DEF BusTypes
    <3>2. TwiTypes'
      BY <1>6, <1>7, <2>2 DEF MastersInv, Types, TwiTypes, masterVars, slaveVars
    <3>3. WireTypes'  BY DEF MastersInv, Types, WireTypes, wireVars
    <3> QED  BY <3>1, <3>2, <3>3 DEF Types
  <2>4. Elsewhere(n)
    <3>1. Leaves(n)  BY <2>1 DEF Leaves
    <3>2. ASSUME NEW m \in Node \ {n} PROVE Kept(m) /\ Told(m)
      BY <1>1, <1>6, <1>7, <2>1, <2>2, ReplyTypes
      DEF Kept, Told, wireVars, twiVars, masterVars, slaveVars, Set
    <3> QED  BY <3>1, <3>2 DEF Elsewhere
  <2>5. Writing(n)'
    <3>1. Sending(n)'  BY <1>5, <1>6, <1>7, <2>2 DEF Sending
    <3>2. ~sta'[n] /\ twint'[n] = "none"  BY <1>1, <2>1, ReplyTypes
    <3> QED  BY <1>4, <2>1, <3>1, <3>2 DEF Writing, Writes
  <2>6. NodeInv(n)'
    BY <1>1, <1>2, <1>3, <1>7, <2>1, <2>5, ReplyTypes
    DEF MastersInv, NodeInv, Bounded, MasterInv, UnderWay, Writing, Claimed, Reads, Writes,
        wireVars, twiVars, masterVars, slaveVars, Set
  <2> QED  BY <2>3, <2>4, <2>6 DEF Steps
<1>8. CASE ~(masterIndex[n] < masterLength[n])
  <2>1. WriteStop(n) /\ masterIndex' = masterIndex  BY <1>8 DEF twi_stop
  <2>2. /\ twi_state' \in [Node -> {"READY", "MRX", "MTX", "SRX", "STX"}]
        /\ twi_state'[n] = "READY" /\ \A m \in Node \ {n} : twi_state'[m] = twi_state[m]
    BY <1>8 DEF MastersInv, Types, TwiTypes, Set
  <2>3. Types'
    BY <1>1, <1>6, <1>8, <2>1, <2>2, StopTypes
    DEF MastersInv, Types, BusTypes, TwiTypes, WireTypes, wireVars, twiVars, masterVars,
        slaveVars, Set
  <2>4. Elsewhere(n)
    <3>1. ASSUME NEW m \in Node \ {n} PROVE Kept(m) /\ Told(m)
      BY <1>1, <1>6, <1>8, <2>1, <2>2, StopTypes
      DEF Kept, wireVars, twiVars, masterVars, slaveVars, Set
    <3> QED  BY <1>1, <2>1, <3>1, StopTypes DEF Elsewhere
  <2>5. Over(n)'
    BY <1>1, <1>3, <1>4, <1>5, <1>6, <1>8, <2>1, <2>2, StopTypes
    DEF UnderWay, Over, Idle, Writing, Writes, Reads, masterVars
  <2>6. NodeInv(n)'
    BY <1>1, <1>2, <1>3, <1>8, <2>1, <2>5, StopTypes
    DEF MastersInv, NodeInv, Bounded, MasterInv, Claimed, Reads, Writes, wireVars, twiVars,
        masterVars, slaveVars, Set
  <2> QED  BY <2>3, <2>4, <2>6 DEF Steps
<1> QED  BY <1>7, <1>8

\* MT_SLA_NACK, MT_DATA_NACK, TW_BUS_ERROR: the message was not acknowledged to its end.
LEMMA StepFailed ==
  ASSUME Apart, MastersInv, NEW n \in Node, IsrFailed(n), UNCHANGED wireVars
  PROVE  Steps(n)
<1> USE DEF IsrFailed, Interrupt
<1>1. BusTypes /\ WriteStop(n)  BY DEF MastersInv, Types, twi_stop
<1>2. /\ twi_state' \in [Node -> {"READY", "MRX", "MTX", "SRX", "STX"}] /\ twi_state'[n] = "READY"
      /\ twi_error' \in [Node -> {"none", "SLA_NACK", "DATA_NACK", "ARB_LOST", "BUS_ERROR"}]
      /\ twi_error'[n] # "none"
      /\ \A m \in Node \ {n} : twi_state'[m] = twi_state[m] /\ twi_error'[m] = twi_error[m]
  BY DEF MastersInv, Types, TwiTypes, Set, ErrorOf
<1>3. Types'
  BY <1>1, <1>2, StopTypes
  DEF MastersInv, Types, BusTypes, TwiTypes, WireTypes, wireVars, twiVars, masterVars,
      slaveVars, Set
<1>4. Elsewhere(n)
  <2>1. ASSUME NEW m \in Node \ {n} PROVE Kept(m) /\ Told(m)
    BY <1>1, <1>2, StopTypes DEF Kept, wireVars, twiVars, masterVars, slaveVars, Set
  <2> QED  BY <1>1, <2>1, StopTypes DEF Elsewhere
<1>5. CASE n \in Master
  <2>1. pc[n] = "Wait" /\ UnderWay(n) /\ ~busy[n]  BY <1>5, Interrupted
  <2>2. /\ masterLength[n] \in Nat /\ masterIndex[n] \in Nat /\ acked[n] \in Int
        /\ masterLength[n] = IF Reads(n) THEN call[n].length - 1 ELSE call[n].length
        /\ call[n].length \in Nat
    BY <1>5, <2>1 DEF MastersInv, NodeInv, MasterInv, Types, TwiTypes, Calls
  <2>3. /\ Writes(n) => acked[n] < masterLength[n]
        /\ masterIndex[n] <= masterLength[n]
    BY <2>1, <2>2
    DEF UnderWay, Starting, Addressing, Writing, Reading, Losing, Fresh, Sending, Reads, Writes
  <2>4. Over(n)'
    BY <1>1, <1>2, <1>5, <2>1, <2>2, <2>3, StopTypes
    DEF UnderWay, Over, Idle, Reads, Writes, wireVars, twiVars, masterVars, slaveVars, Set
  <2>5. NodeInv(n)'
    BY <1>1, <1>5, <2>1, <2>4, StopTypes
    DEF MastersInv, NodeInv, Bounded, MasterInv, Claimed, Reads, Writes, wireVars, twiVars,
        masterVars, slaveVars
  <2> QED  BY <1>3, <1>4, <2>5 DEF Steps
<1>6. CASE n \notin Master
  <2>1. NodeInv(n)'
    BY <1>1, <1>2, <1>6, StopTypes
    DEF MastersInv, NodeInv, Bounded, OtherInv, SlaveStatuses, wireVars, twiVars, masterVars,
        slaveVars
  <2> QED  BY <1>3, <1>4, <2>1 DEF Steps
<1> QED  BY <1>5, <1>6

\* TW_MT_ARB_LOST: the winner's message differs, so this one has a byte left.
LEMMA StepArbLost ==
  ASSUME Apart, MastersInv, NEW n \in Node, IsrArbLost(n), UNCHANGED wireVars
  PROVE  Steps(n)
<1>1. /\ twint[n] = "ARB_LOST" /\ WriteTWCR(n, FALSE, TRUE) /\ bus' = bus
      /\ twi_error' = [twi_error EXCEPT ![n] = "ARB_LOST"]
      /\ twi_state' = [twi_state EXCEPT ![n] = "READY"]
      /\ UNCHANGED <<twdr, busy, masterVars, slaveVars, pc, call, acked>>
  BY DEF IsrArbLost, Interrupt, twi_releaseBus, Set
<1>2. BusTypes /\ TwiTypes /\ WireTypes  BY DEF MastersInv, Types
<1>3. /\ twi_state' \in [Node -> {"READY", "MRX", "MTX", "SRX", "STX"}] /\ twi_state'[n] = "READY"
      /\ twi_error' \in [Node -> {"none", "SLA_NACK", "DATA_NACK", "ARB_LOST", "BUS_ERROR"}]
      /\ twi_error'[n] # "none"
      /\ \A m \in Node \ {n} : twi_state'[m] = twi_state[m] /\ twi_error'[m] = twi_error[m]
  BY <1>1, <1>2 DEF TwiTypes
<1>4. Types'
  <2>1. BusTypes'  BY <1>1, <1>2, ReplyTypes DEF BusTypes
  <2>2. TwiTypes'  BY <1>1, <1>2, <1>3 DEF TwiTypes, masterVars, slaveVars
  <2>3. WireTypes'  BY <1>2 DEF WireTypes, wireVars
  <2> QED  BY <2>1, <2>2, <2>3 DEF Types
<1>5. Elsewhere(n)
  <2>1. Leaves(n)  BY <1>1 DEF Leaves
  <2>2. ASSUME NEW m \in Node \ {n} PROVE Kept(m) /\ Told(m)
    <3>1. twint'[m] = twint[m] /\ sta'[m] = sta[m] /\ ea'[m] = ea[m]
      BY <1>1, <1>2, ReplyTypes
    <3> QED  BY <1>1, <1>3, <3>1 DEF Kept, Told, wireVars, masterVars, slaveVars
  <2> QED  BY <2>1, <2>2 DEF Elsewhere
<1>6. n \in Master  BY <1>1 DEF MastersInv, NodeInv, OtherInv, SlaveStatuses
<1>7. pc[n] = "Wait" /\ UnderWay(n) /\ ~busy[n]  BY <1>1, <1>6, Interrupted
<1>8. /\ masterLength[n] \in Nat /\ masterIndex[n] \in Nat /\ acked[n] \in Int
      /\ masterLength[n] = IF Reads(n) THEN call[n].length - 1 ELSE call[n].length
      /\ call[n].length \in Nat
  BY <1>2, <1>6, <1>7 DEF MastersInv, NodeInv, MasterInv, TwiTypes, Calls
<1>9. Losing(n)
  BY <1>1, <1>7 DEF UnderWay, Starting, Addressing, Writing, Reading, Losing
<1>10. Over(n)'
  <2>1. Idle(n)'  BY <1>1, <1>2, <1>9, ReplyTypes DEF Idle, Losing
  <2> QED  BY <1>1, <1>3, <1>8, <1>9, <2>1 DEF Losing, Over, Reads, Writes, masterVars
<1>11. NodeInv(n)'
  BY <1>1, <1>6, <1>7, <1>10
  DEF MastersInv, NodeInv, Bounded, MasterInv, Reads, Writes, wireVars, masterVars, slaveVars
<1> QED  BY <1>4, <1>5, <1>11 DEF Steps

\* Storing at the next free place appends.
LEMMA Storing ==
  ASSUME NEW s \in Seq(Bytes), NEW b \in Bytes
  PROVE  /\ Store(s, Len(s), b) = Append(s, b)
         /\ Store(s, Len(s), b) \in Seq(Bytes) /\ Len(Store(s, Len(s), b)) = Len(s) + 1
BY DEF Store

\* MR_SLA_ACK, MR_DATA_ACK: the byte fits, and the last one is not acknowledged.
LEMMA StepReceive ==
  ASSUME Apart, MastersInv, NEW n \in Node, IsrReceive(n), UNCHANGED wireVars
  PROVE  Steps(n)
<1> DEFINE index == masterIndex[n] + (IF twint[n] = "MR_DATA_ACK" THEN 1 ELSE 0)
<1>1. /\ twint[n] \in {"MR_SLA_ACK", "MR_DATA_ACK"}
      /\ master' = IF twint[n] = "MR_DATA_ACK" THEN Received(n) ELSE master
      /\ masterIndex' = Set(masterIndex, n, index)
      /\ WriteTWCR(n, FALSE, index < masterLength[n]) /\ bus' = bus
      /\ UNCHANGED <<twdr, busy, twi_state, twi_error, twi_slarw, masterLength, slaveVars,
                     pc, call, acked>>
  <2>1. CASE twint[n] = "MR_DATA_ACK"  BY <2>1, Zenon DEF IsrReceive, Interrupt, twi_reply
  <2>2. CASE twint[n] # "MR_DATA_ACK"
    <3> 0 # 1  OBVIOUS
    <3> QED  BY <2>2, Zenon DEF IsrReceive, Interrupt, twi_reply
  <2> QED  BY <2>1, <2>2
<1>2. BusTypes /\ TwiTypes /\ WireTypes  BY DEF MastersInv, Types
<1>3. n \in Master  BY <1>1 DEF MastersInv, NodeInv, OtherInv, SlaveStatuses
<1>4. pc[n] = "Wait" /\ UnderWay(n) /\ ~busy[n]  BY <1>1, <1>3, Interrupted
<1>5. Reading(n)
  BY <1>1, <1>4 DEF UnderWay, Starting, Addressing, Writing, Reading, Losing
<1>6. /\ masterLength[n] \in Nat /\ masterIndex[n] \in Nat /\ master[n] \in Seq(Bytes)
      /\ call[n].length \in Nat /\ twdr[n] \in Bytes
  BY <1>2 DEF BusTypes, TwiTypes, Buffers, Calls
<1>7. /\ Len(master[n]) = masterIndex[n] /\ masterLength[n] = call[n].length - 1
      /\ call[n].length <= TWI_BUFFER_LENGTH[n]
  BY <1>3, <1>4, <1>5 DEF MastersInv, NodeInv, MasterInv, Reading, Reads
<1>8. /\ index \in Nat /\ index <= masterLength[n] /\ TWI_BUFFER_LENGTH[n] \in 1..255
      /\ (index < masterLength[n]) \in BOOLEAN
  <2>1. CASE twint[n] = "MR_DATA_ACK"
    <3>1. index = masterIndex[n] + 1  BY <2>1
    <3>2. masterIndex[n] < masterLength[n]  BY <1>5, <2>1 DEF Reading
    <3>3. TWI_BUFFER_LENGTH[n] \in 1..255  BY LengthAssumption
    <3>4. masterLength[n] \in Nat /\ masterIndex[n] \in Nat  BY <1>6
    <3> HIDE DEF index
    <3>5. index \in Nat  BY <3>1, <3>4
    <3>6. index <= masterLength[n]  BY <3>1, <3>2, <3>4
    <3> QED  BY <3>3, <3>5, <3>6
  <2>2. CASE twint[n] # "MR_DATA_ACK"
    <3>1. index = masterIndex[n]  BY <1>6, <2>2
    <3> QED  BY <1>5, <1>6, <3>1, LengthAssumption DEF Reading
  <2> QED  BY <2>1, <2>2
<1>9. /\ masterIndex' \in [Node -> Nat] /\ masterIndex'[n] = index
      /\ \A m \in Node \ {n} : masterIndex'[m] = masterIndex[m]
  BY <1>1, <1>2, <1>8 DEF TwiTypes, Set
<1>10. /\ master' \in Buffers /\ Len(master'[n]) = index
       /\ \A m \in Node \ {n} : master'[m] = master[m]
  <2>1. CASE twint[n] = "MR_DATA_ACK"
    <3>1. master' = [master EXCEPT ![n] = Store(master[n], Len(master[n]), twdr[n])]
      BY <1>1, <1>7, <2>1 DEF Received, Set
    <3> QED  BY <1>2, <1>6, <1>7, <2>1, <3>1, Storing DEF TwiTypes, Buffers
  <2>2. CASE twint[n] # "MR_DATA_ACK"
    BY <1>1, <1>2, <1>6, <1>7, <2>2 DEF TwiTypes
  <2> QED  BY <2>1, <2>2
<1> HIDE DEF index
<1>11. Types'
  <2>1. BusTypes'  BY <1>1, <1>2, <1>8, <1>6, ReplyTypes DEF BusTypes
  <2>2. TwiTypes'  BY <1>1, <1>2, <1>9, <1>10 DEF TwiTypes, slaveVars
  <2>3. WireTypes'  BY <1>2 DEF WireTypes, wireVars
  <2> QED  BY <2>1, <2>2, <2>3 DEF Types
<1>12. Elsewhere(n)
  <2>1. Leaves(n)  BY <1>1 DEF Leaves
  <2>2. ASSUME NEW m \in Node \ {n} PROVE Kept(m) /\ Told(m)
    <3>1. twint'[m] = twint[m] /\ sta'[m] = sta[m] /\ ea'[m] = ea[m]
      BY <1>1, <1>2, <1>8, ReplyTypes
    <3> QED  BY <1>1, <1>9, <1>10, <3>1 DEF Kept, Told, wireVars, slaveVars
  <2> QED  BY <2>1, <2>2 DEF Elsewhere
<1>13. Reading(n)'
  <2>1. ~sta'[n] /\ twint'[n] = "none" /\ ea'[n] = (index < masterLength[n])
    BY <1>1, <1>2, <1>6, <1>8, ReplyTypes
  <2> QED  BY <1>1, <1>5, <1>8, <1>9, <2>1 DEF Reading, Reads
<1>14. NodeInv(n)'
  <2>1. Bounded(n)'
    <3>1. Len(master'[n]) = index  BY <1>10
    <3>2. index \in Int /\ call[n].length \in Int /\ TWI_BUFFER_LENGTH[n] \in Int
      <4>1. index \in Int  BY <1>8
      <4>2. call[n].length \in Int  BY <1>6
      <4>3. TWI_BUFFER_LENGTH[n] \in Int  BY <1>8
      <4> QED  BY <4>1, <4>2, <4>3
    <3>4. index <= TWI_BUFFER_LENGTH[n]
      <4>1. index <= call[n].length  BY <1>7, <1>8, <3>2
      <4>2. call[n].length <= TWI_BUFFER_LENGTH[n]  BY <1>7
      <4> QED  BY <3>2, <4>1, <4>2
    <3>3. Len(master[n])' <= TWI_BUFFER_LENGTH[n]  BY <3>1, <3>4
    <3> QED  BY <1>1, <3>3 DEF MastersInv, NodeInv, Bounded, wireVars, slaveVars
  <2>2. UnderWay(n)'  BY <1>1, <1>4, <1>13 DEF UnderWay, Claimed, Reads
  <2>3. MasterInv(n)'
    BY <1>1, <1>3, <1>4, <1>5, <1>9, <1>10, <2>2
    DEF MastersInv, NodeInv, MasterInv, Reading, Reads, Writes, wireVars
  <2> QED  BY <1>3, <2>1, <2>3 DEF NodeInv
<1> QED  BY <1>11, <1>12, <1>14 DEF Steps

\* MR_SLA_NACK, MR_DATA_NACK: the last byte fits too.
LEMMA StepReceived ==
  ASSUME Apart, MastersInv, NEW n \in Node, IsrReceived(n), UNCHANGED wireVars
  PROVE  Steps(n)
<1> DEFINE index == masterIndex[n] + (IF twint[n] = "MR_DATA_NACK" THEN 1 ELSE 0)
<1>1. /\ twint[n] \in {"MR_SLA_NACK", "MR_DATA_NACK"}
      /\ master' = IF twint[n] = "MR_DATA_NACK" THEN Received(n) ELSE master
      /\ WriteStop(n)
      /\ twi_state' = Set(twi_state, n, "READY")
      /\ UNCHANGED <<busy, twi_error, twi_slarw, masterLength, slaveVars, pc, call, acked>>
  BY DEF IsrReceived, Interrupt, twi_stop
<1>2. BusTypes /\ TwiTypes /\ WireTypes  BY DEF MastersInv, Types
<1>3. n \in Master  BY <1>1 DEF MastersInv, NodeInv, OtherInv, SlaveStatuses
<1>4. pc[n] = "Wait" /\ UnderWay(n) /\ ~busy[n]  BY <1>1, <1>3, Interrupted
<1>5. Reading(n)
  BY <1>1, <1>4 DEF UnderWay, Starting, Addressing, Writing, Reading, Losing
<1>6. /\ masterLength[n] \in Nat /\ masterIndex[n] \in Nat /\ master[n] \in Seq(Bytes)
      /\ call[n].length \in Nat /\ twdr[n] \in Bytes
  BY <1>2 DEF BusTypes, TwiTypes, Buffers, Calls
<1>7. /\ Len(master[n]) = masterIndex[n] /\ masterLength[n] = call[n].length - 1
      /\ call[n].length <= TWI_BUFFER_LENGTH[n]
  BY <1>3, <1>4, <1>5 DEF MastersInv, NodeInv, MasterInv, Reading, Reads
<1>8. index \in Nat /\ index <= call[n].length /\ TWI_BUFFER_LENGTH[n] \in 1..255
  <2>1. index = masterIndex[n] \/ index = masterIndex[n] + 1  BY <1>6
  <2>2. masterIndex[n] <= masterLength[n]  BY <1>5 DEF Reading
  <2>3. TWI_BUFFER_LENGTH[n] \in 1..255  BY LengthAssumption
  <2>4. /\ masterLength[n] \in Nat /\ masterIndex[n] \in Nat /\ call[n].length \in Nat
        /\ masterLength[n] = call[n].length - 1
    BY <1>6, <1>7
  <2> HIDE DEF index
  <2>5. index \in Nat  BY <2>1, <2>4
  <2>6. index <= call[n].length  BY <2>1, <2>2, <2>4
  <2> QED  BY <2>3, <2>5, <2>6
<1>9. /\ masterIndex' \in [Node -> Nat] /\ masterIndex'[n] = index
      /\ \A m \in Node \ {n} : masterIndex'[m] = masterIndex[m]
  <2>1. CASE twint[n] = "MR_DATA_NACK"
    <3>1. masterIndex' = [masterIndex EXCEPT ![n] = index]
      BY <2>1 DEF IsrReceived, Set
    <3> QED  BY <1>2, <1>8, <3>1 DEF TwiTypes
  <2>2. CASE twint[n] # "MR_DATA_NACK"
    BY <1>2, <1>6, <2>2 DEF IsrReceived, TwiTypes
  <2> QED  BY <2>1, <2>2
<1>10. /\ master' \in Buffers /\ Len(master'[n]) = index
       /\ \A m \in Node \ {n} : master'[m] = master[m]
  <2>1. CASE twint[n] = "MR_DATA_NACK"
    <3>1. master' = [master EXCEPT ![n] = Store(master[n], Len(master[n]), twdr[n])]
      BY <1>1, <1>7, <2>1 DEF Received, Set
    <3> QED  BY <1>2, <1>6, <1>7, <2>1, <3>1, Storing DEF TwiTypes, Buffers
  <2>2. CASE twint[n] # "MR_DATA_NACK"
    BY <1>1, <1>2, <1>6, <1>7, <2>2 DEF TwiTypes
  <2> QED  BY <2>1, <2>2
<1> HIDE DEF index
<1>11. /\ twi_state' \in [Node -> {"READY", "MRX", "MTX", "SRX", "STX"}] /\ twi_state'[n] = "READY"
       /\ \A m \in Node \ {n} : twi_state'[m] = twi_state[m]
  BY <1>1, <1>2 DEF TwiTypes, Set
<1>12. Types'
  <2>1. BusTypes'  BY <1>1, <1>2, StopTypes DEF BusTypes
  <2>2. TwiTypes'  BY <1>1, <1>2, <1>9, <1>10, <1>11 DEF TwiTypes, slaveVars
  <2>3. WireTypes'  BY <1>2 DEF WireTypes, wireVars
  <2> QED  BY <2>1, <2>2, <2>3 DEF Types
<1>13. Elsewhere(n)
  <2>1. ASSUME NEW m \in Node \ {n} PROVE Kept(m) /\ Told(m)
    BY <1>1, <1>2, <1>9, <1>10, <1>11, StopTypes DEF Kept, wireVars, slaveVars
  <2> QED  BY <1>1, <1>2, <2>1, StopTypes DEF Elsewhere
<1>14. Over(n)'
  <2>1. Idle(n)'  BY <1>1, <1>2, StopTypes DEF Idle
  <2> QED  BY <1>1, <1>5, <1>8, <1>9, <1>11, <2>1 DEF Over, Reading, Reads, Writes
<1>15. NodeInv(n)'
  <2>1. Bounded(n)'
    <3>1. Len(master'[n]) = index  BY <1>10
    <3>2. index \in Int /\ call[n].length \in Int /\ TWI_BUFFER_LENGTH[n] \in Int
      <4>1. index \in Int  BY <1>8
      <4>2. call[n].length \in Int  BY <1>6
      <4>3. TWI_BUFFER_LENGTH[n] \in Int  BY <1>8
      <4> QED  BY <4>1, <4>2, <4>3
    <3>4. index <= TWI_BUFFER_LENGTH[n]
      <4>1. index <= call[n].length  BY <1>7, <1>8, <3>2
      <4>2. call[n].length <= TWI_BUFFER_LENGTH[n]  BY <1>7
      <4> QED  BY <3>2, <4>1, <4>2
    <3>3. Len(master[n])' <= TWI_BUFFER_LENGTH[n]  BY <3>1, <3>4
    <3> QED  BY <1>1, <3>3 DEF MastersInv, NodeInv, Bounded, wireVars, slaveVars
  <2>2. MasterInv(n)'
    BY <1>1, <1>3, <1>4, <1>5, <1>9, <1>10, <1>14
    DEF MastersInv, NodeInv, MasterInv, Reading, Reads, Writes, wireVars
  <2> QED  BY <1>3, <2>1, <2>2 DEF NodeInv
<1> QED  BY <1>12, <1>13, <1>15 DEF Steps

\* A buffer has room for a byte.
LEMMA Capacity == ASSUME NEW n \in Node PROVE TWI_BUFFER_LENGTH[n] \in Nat /\ 1 <= TWI_BUFFER_LENGTH[n]
<1>1. TWI_BUFFER_LENGTH[n] \in 1..255  BY LengthAssumption
<1> QED  BY <1>1

\* A master is never in a slave's interrupt, nor in its callback.
LEMMA Served ==
  ASSUME MastersInv, NEW n \in Node,
         busy[n] \/ twint[n] \in {"SR_SLA_ACK", "SR_ARB_LOST_SLA_ACK", "SR_DATA_ACK",
                                  "SR_DATA_NACK", "SR_STOP", "ST_SLA_ACK",
                                  "ST_ARB_LOST_SLA_ACK", "ST_DATA_ACK", "ST_DATA_NACK",
                                  "ST_LAST_DATA"}
  PROVE  n \notin Master
<1> SUFFICES ASSUME n \in Master PROVE FALSE
  OBVIOUS
<1>1. ~busy[n]  BY DEF MastersInv, NodeInv, MasterInv
<1>2. UnderWay(n)  BY <1>1, Interrupted
<1> QED  BY <1>1, <1>2 DEF UnderWay, Starting, Addressing, Writing, Reading, Losing

\* SR_SLA_ACK, SR_ARB_LOST_SLA_ACK.
LEMMA StepSlaveAddressed ==
  ASSUME Apart, MastersInv, NEW n \in Node, IsrSlaveAddressed(n), UNCHANGED wireVars
  PROVE  Steps(n)
<1>1. /\ twint[n] \in {"SR_SLA_ACK", "SR_ARB_LOST_SLA_ACK"}
      /\ WriteTWCR(n, FALSE, TRUE) /\ bus' = bus
      /\ twi_state' = [twi_state EXCEPT ![n] = "SRX"]
      /\ rxBuffer' = [rxBuffer EXCEPT ![n] = <<>>]
      /\ UNCHANGED <<twdr, busy, twi_error, masterVars, txBuffer, txIndex, txLength, pc, call,
                     acked>>
  BY DEF IsrSlaveAddressed, Interrupt, twi_reply, Set
<1>2. BusTypes /\ TwiTypes /\ WireTypes  BY DEF MastersInv, Types
<1>3. /\ twi_state' \in [Node -> {"READY", "MRX", "MTX", "SRX", "STX"}] /\ twi_state'[n] = "SRX"
      /\ \A m \in Node \ {n} : twi_state'[m] = twi_state[m] /\ rxBuffer'[m] = rxBuffer[m]
      /\ rxBuffer'[n] = <<>>
  BY <1>1, <1>2 DEF TwiTypes, Buffers
<1>4. rxBuffer' \in Buffers  BY <1>1, <1>2 DEF TwiTypes, Buffers
<1>5. Types'
  <2>1. BusTypes'  BY <1>1, <1>2, ReplyTypes DEF BusTypes
  <2>2. TwiTypes'  BY <1>1, <1>2, <1>3, <1>4 DEF TwiTypes, masterVars
  <2>3. WireTypes'  BY <1>2 DEF WireTypes, wireVars
  <2> QED  BY <2>1, <2>2, <2>3 DEF Types
<1>6. Elsewhere(n)
  <2>1. Leaves(n)  BY <1>1 DEF Leaves
  <2>2. ASSUME NEW m \in Node \ {n} PROVE Kept(m) /\ Told(m)
    <3>1. twint'[m] = twint[m] /\ sta'[m] = sta[m] /\ ea'[m] = ea[m]
      BY <1>1, <1>2, ReplyTypes
    <3> QED  BY <1>1, <1>3, <3>1 DEF Kept, Told, wireVars, masterVars
  <2> QED  BY <2>1, <2>2 DEF Elsewhere
<1>7. n \notin Master  BY <1>1, Served
<1>8. NodeInv(n)'
  <2>1. Bounded(n)'
    <3>1. TWI_BUFFER_LENGTH[n] \in Nat /\ Len(<<>>) = 0  BY LengthAssumption
    <3> QED  BY <1>1, <1>3, <3>1 DEF MastersInv, NodeInv, Bounded, wireVars, masterVars
  <2>2. twint'[n] = "none" /\ ~sta'[n]  BY <1>1, <1>2, ReplyTypes
  <2>3. OtherInv(n)'
    BY <1>1, <1>3, <1>7, <2>2
    DEF MastersInv, NodeInv, OtherInv, SlaveStatuses, wireVars, masterVars
  <2> QED  BY <1>7, <2>1, <2>3 DEF NodeInv
<1> QED  BY <1>5, <1>6, <1>8 DEF Steps

\* SR_DATA_ACK: the test of the index keeps the byte inside twi_rxBuffer.
LEMMA StepSlaveData ==
  ASSUME Apart, MastersInv, NEW n \in Node, IsrSlaveData(n), UNCHANGED wireVars
  PROVE  Steps(n)
<1> DEFINE room == Len(rxBuffer[n]) < TWI_BUFFER_LENGTH[n]
<1>1. /\ twint[n] = "SR_DATA_ACK"
      /\ rxBuffer' = IF room THEN [rxBuffer EXCEPT ![n] = Append(rxBuffer[n], twdr[n])]
                             ELSE rxBuffer
      /\ WriteTWCR(n, FALSE, room) /\ bus' = bus
      /\ UNCHANGED <<twdr, busy, twi_state, twi_error, masterVars, txBuffer, txIndex, txLength,
                     pc, call, acked>>
  BY DEF IsrSlaveData, Interrupt, twi_reply, Set
<1>2. BusTypes /\ TwiTypes /\ WireTypes  BY DEF MastersInv, Types
<1>3. /\ rxBuffer[n] \in Seq(Bytes) /\ twdr[n] \in Bytes /\ TWI_BUFFER_LENGTH[n] \in Nat
      /\ room \in BOOLEAN
  <2>1. rxBuffer[n] \in Seq(Bytes) /\ twdr[n] \in Bytes
    BY <1>2 DEF BusTypes, TwiTypes, Buffers
  <2>2. TWI_BUFFER_LENGTH[n] \in Nat  BY LengthAssumption
  <2> QED  BY <2>1, <2>2
<1>4. /\ Append(rxBuffer[n], twdr[n]) \in Seq(Bytes)
      /\ Len(Append(rxBuffer[n], twdr[n])) = Len(rxBuffer[n]) + 1
  BY <1>3
<1>5. Len(rxBuffer[n]) <= TWI_BUFFER_LENGTH[n] /\ Len(rxBuffer[n]) \in Nat
  BY <1>3 DEF MastersInv, NodeInv, Bounded
<1>6. /\ rxBuffer' \in Buffers /\ Len(rxBuffer'[n]) <= TWI_BUFFER_LENGTH[n]
      /\ \A m \in Node \ {n} : rxBuffer'[m] = rxBuffer[m]
  <2>1. CASE room
    <3>1. rxBuffer' = [rxBuffer EXCEPT ![n] = Append(rxBuffer[n], twdr[n])]  BY <1>1, <2>1
    <3>2. /\ rxBuffer' \in Buffers /\ rxBuffer'[n] = Append(rxBuffer[n], twdr[n])
          /\ \A m \in Node \ {n} : rxBuffer'[m] = rxBuffer[m]
      BY <1>2, <1>4, <3>1 DEF TwiTypes, Buffers
    <3> QED  BY <1>3, <1>4, <1>5, <2>1, <3>2
  <2>2. CASE ~room  BY <1>1, <1>2, <1>5, <2>2 DEF TwiTypes
  <2> QED  BY <2>1, <2>2
<1> HIDE DEF room
<1>7. /\ BusTypes' /\ twint'[n] = "none" /\ ~sta'[n]
      /\ \A m \in Node \ {n} : twint'[m] = twint[m] /\ sta'[m] = sta[m] /\ ea'[m] = ea[m]
  BY <1>1, <1>2, <1>3, ReplyTypes DEF BusTypes
<1>8. Types'
  <2>1. TwiTypes'  BY <1>1, <1>2, <1>6 DEF TwiTypes, masterVars
  <2>2. WireTypes'  BY <1>2 DEF WireTypes, wireVars
  <2> QED  BY <1>7, <2>1, <2>2 DEF Types
<1>9. Elsewhere(n)
  <2>1. Leaves(n)  BY <1>1 DEF Leaves
  <2>2. ASSUME NEW m \in Node \ {n} PROVE Kept(m) /\ Told(m)
    BY <1>1, <1>6, <1>7 DEF Kept, Told, wireVars, masterVars
  <2> QED  BY <2>1, <2>2 DEF Elsewhere
<1>10. n \notin Master  BY <1>1, Served
<1>11. NodeInv(n)'
  <2>1. Bounded(n)'
    BY <1>1, <1>6 DEF MastersInv, NodeInv, Bounded, wireVars, masterVars
  <2>2. OtherInv(n)'
    BY <1>1, <1>7, <1>10 DEF MastersInv, NodeInv, OtherInv, SlaveStatuses, wireVars, masterVars
  <2> QED  BY <1>10, <2>1, <2>2 DEF NodeInv
<1> QED  BY <1>8, <1>9, <1>11 DEF Steps

\* SR_DATA_NACK.
LEMMA StepSlaveRefused ==
  ASSUME Apart, MastersInv, NEW n \in Node, IsrSlaveRefused(n), UNCHANGED wireVars
  PROVE  Steps(n)
<1>1. /\ twint[n] = "SR_DATA_NACK" /\ WriteTWCR(n, FALSE, FALSE) /\ bus' = bus
      /\ UNCHANGED <<twdr, busy, twiVars>>
  BY DEF IsrSlaveRefused, Interrupt, twi_reply
<1>2. BusTypes /\ TwiTypes /\ WireTypes  BY DEF MastersInv, Types
<1>3. /\ BusTypes' /\ twint'[n] = "none" /\ ~sta'[n]
      /\ \A m \in Node \ {n} : twint'[m] = twint[m] /\ sta'[m] = sta[m] /\ ea'[m] = ea[m]
  BY <1>1, <1>2, ReplyTypes DEF BusTypes
<1>4. Types'
  <2>1. TwiTypes'  BY <1>1, <1>2 DEF TwiTypes, twiVars, masterVars, slaveVars
  <2>2. WireTypes'  BY <1>2 DEF WireTypes, wireVars
  <2> QED  BY <1>3, <2>1, <2>2 DEF Types
<1>5. Elsewhere(n)
  <2>1. Leaves(n)  BY <1>1 DEF Leaves
  <2>2. ASSUME NEW m \in Node \ {n} PROVE Kept(m) /\ Told(m)
    BY <1>1, <1>3 DEF Kept, Told, wireVars, twiVars, masterVars, slaveVars
  <2> QED  BY <2>1, <2>2 DEF Elsewhere
<1>6. n \notin Master  BY <1>1, Served
<1>7. NodeInv(n)'
  BY <1>1, <1>3, <1>6
  DEF MastersInv, NodeInv, Bounded, OtherInv, SlaveStatuses, wireVars, twiVars, masterVars,
      slaveVars
<1> QED  BY <1>4, <1>5, <1>7 DEF Steps

\* SR_STOP after the callback.
LEMMA StepSlaveRelease ==
  ASSUME Apart, MastersInv, NEW n \in Node, IsrSlaveRelease(n), UNCHANGED wireVars
  PROVE  Steps(n)
<1>1. /\ busy[n] /\ WriteTWCR(n, FALSE, TRUE) /\ bus' = bus
      /\ busy' = [busy EXCEPT ![n] = FALSE]
      /\ twi_state' = [twi_state EXCEPT ![n] = "READY"]
      /\ rxBuffer' = [rxBuffer EXCEPT ![n] = <<>>]
      /\ UNCHANGED <<twdr, twi_error, masterVars, txBuffer, txIndex, txLength, pc, call, acked>>
  BY DEF IsrSlaveRelease, Interrupt, twi_releaseBus, Set
<1>2. BusTypes /\ TwiTypes /\ WireTypes  BY DEF MastersInv, Types
<1>3. /\ twi_state' \in [Node -> {"READY", "MRX", "MTX", "SRX", "STX"}] /\ twi_state'[n] = "READY"
      /\ \A m \in Node \ {n} : twi_state'[m] = twi_state[m] /\ rxBuffer'[m] = rxBuffer[m]
      /\ rxBuffer'[n] = <<>>
  BY <1>1, <1>2 DEF TwiTypes, Buffers
<1>4. /\ busy' \in [Node -> BOOLEAN] /\ \A m \in Node \ {n} : busy'[m] = busy[m]
      /\ rxBuffer' \in Buffers
  BY <1>1, <1>2 DEF BusTypes, TwiTypes, Buffers
<1>5. /\ BusTypes' /\ twint'[n] = "none" /\ ~sta'[n]
      /\ \A m \in Node \ {n} : twint'[m] = twint[m] /\ sta'[m] = sta[m] /\ ea'[m] = ea[m]
  BY <1>1, <1>2, <1>4, ReplyTypes DEF BusTypes
<1>6. Types'
  <2>1. TwiTypes'  BY <1>1, <1>2, <1>3, <1>4 DEF TwiTypes, masterVars
  <2>2. WireTypes'  BY <1>2 DEF WireTypes, wireVars
  <2> QED  BY <1>5, <2>1, <2>2 DEF Types
<1>7. Elsewhere(n)
  <2>1. Leaves(n)  BY <1>1 DEF Leaves
  <2>2. ASSUME NEW m \in Node \ {n} PROVE Kept(m) /\ Told(m)
    BY <1>1, <1>3, <1>4, <1>5 DEF Kept, Told, wireVars, masterVars
  <2> QED  BY <2>1, <2>2 DEF Elsewhere
<1>8. n \notin Master  BY <1>1, Served
<1>9. NodeInv(n)'
  <2>1. Bounded(n)'
    <3>1. TWI_BUFFER_LENGTH[n] \in Nat /\ Len(<<>>) = 0  BY LengthAssumption
    <3> QED  BY <1>1, <1>3, <3>1 DEF MastersInv, NodeInv, Bounded, wireVars, masterVars
  <2>2. OtherInv(n)'
    BY <1>1, <1>3, <1>5, <1>8
    DEF MastersInv, NodeInv, OtherInv, SlaveStatuses, wireVars, masterVars
  <2> QED  BY <1>8, <2>1, <2>2 DEF NodeInv
<1> QED  BY <1>6, <1>7, <1>9 DEF Steps

\* What the interrupt loads into TWDR is a byte.
LEMMA TxByteTypes == ASSUME NEW s \in Seq(Bytes), NEW i \in Nat PROVE TxByte(s, i) \in Bytes
<1>1. CASE i < Len(s)
  <2>1. i + 1 \in 1..Len(s)  BY <1>1
  <2>2. s[i + 1] \in Bytes  BY <2>1
  <2> QED  BY <1>1, <2>2 DEF TxByte
<1>2. CASE ~(i < Len(s))  BY <1>2 DEF TxByte, Stale, Bytes
<1> QED  BY <1>1, <1>2

\* ST_DATA_ACK.
LEMMA StepSlaveSend ==
  ASSUME Apart, MastersInv, NEW n \in Node, IsrSlaveSend(n), UNCHANGED wireVars
  PROVE  Steps(n)
<1> DEFINE more == txIndex[n] + 1 < txLength[n]
<1>1. /\ twint[n] = "ST_DATA_ACK"
      /\ twdr' = [twdr EXCEPT ![n] = TxByte(txBuffer[n], txIndex[n])]
      /\ txIndex' = [txIndex EXCEPT ![n] = txIndex[n] + 1]
      /\ WriteTWCR(n, FALSE, more) /\ bus' = bus
      /\ UNCHANGED <<busy, twi_state, twi_error, masterVars, txBuffer, txLength, rxBuffer, pc,
                     call, acked>>
  BY DEF IsrSlaveSend, Interrupt, twi_reply, Set
<1>2. BusTypes /\ TwiTypes /\ WireTypes  BY DEF MastersInv, Types
<1>3. txBuffer[n] \in Seq(Bytes) /\ txIndex[n] \in Nat /\ more \in BOOLEAN
  BY <1>2 DEF TwiTypes, Buffers
<1>4. /\ twdr' \in [Node -> Bytes] /\ txIndex' \in [Node -> Nat]
      /\ \A m \in Node \ {n} : twdr'[m] = twdr[m] /\ txIndex'[m] = txIndex[m]
  <2>1. TxByte(txBuffer[n], txIndex[n]) \in Bytes  BY <1>3, TxByteTypes
  <2> QED  BY <1>1, <1>2, <1>3, <2>1 DEF BusTypes, TwiTypes
<1> HIDE DEF more
<1>5. /\ BusTypes' /\ twint'[n] = "none" /\ ~sta'[n]
      /\ \A m \in Node \ {n} : twint'[m] = twint[m] /\ sta'[m] = sta[m] /\ ea'[m] = ea[m]
  <2>1. more \in BOOLEAN /\ WriteTWCR(n, FALSE, more)  BY <1>1, <1>3
  <2>2. /\ twint' \in [Node -> Statuses] /\ sta' \in [Node -> BOOLEAN] /\ ea' \in [Node -> BOOLEAN]
        /\ twint'[n] = "none" /\ ~sta'[n]
        /\ \A m \in Node \ {n} : twint'[m] = twint[m] /\ sta'[m] = sta[m] /\ ea'[m] = ea[m]
    BY <1>2, <2>1, ReplyTypes
  <2> QED  BY <1>1, <1>2, <1>4, <2>2 DEF BusTypes
<1>6. Types'
  <2>1. TwiTypes'  BY <1>1, <1>2, <1>4 DEF TwiTypes, masterVars
  <2>2. WireTypes'  BY <1>2 DEF WireTypes, wireVars
  <2> QED  BY <1>5, <2>1, <2>2 DEF Types
<1>7. Elsewhere(n)
  <2>1. Leaves(n)  BY <1>1 DEF Leaves
  <2>2. ASSUME NEW m \in Node \ {n} PROVE Kept(m) /\ Told(m)
    BY <1>1, <1>4, <1>5 DEF Kept, Told, wireVars, masterVars
  <2> QED  BY <2>1, <2>2 DEF Elsewhere
<1>8. n \notin Master  BY <1>1, Served
<1>9. NodeInv(n)'
  <2>1. Bounded(n)'  BY <1>1 DEF MastersInv, NodeInv, Bounded, wireVars, masterVars
  <2>2. OtherInv(n)'
    BY <1>1, <1>5, <1>8 DEF MastersInv, NodeInv, OtherInv, SlaveStatuses, wireVars, masterVars
  <2> QED  BY <1>8, <2>1, <2>2 DEF NodeInv
<1> QED  BY <1>6, <1>7, <1>9 DEF Steps

\* ST_DATA_NACK, ST_LAST_DATA.
LEMMA StepSlaveSent ==
  ASSUME Apart, MastersInv, NEW n \in Node, IsrSlaveSent(n), UNCHANGED wireVars
  PROVE  Steps(n)
<1>1. /\ twint[n] \in {"ST_DATA_NACK", "ST_LAST_DATA"} /\ WriteTWCR(n, FALSE, TRUE) /\ bus' = bus
      /\ twi_state' = [twi_state EXCEPT ![n] = "READY"]
      /\ twdr' = [twdr EXCEPT ![n] = HighByte]
      /\ txBuffer' = [txBuffer EXCEPT ![n] = <<>>]
      /\ txIndex' = [txIndex EXCEPT ![n] = 0] /\ txLength' = [txLength EXCEPT ![n] = 0]
      /\ UNCHANGED <<busy, twi_error, masterVars, rxBuffer, pc, call, acked>>
  BY DEF IsrSlaveSent, Interrupt, twi_reply, Set
<1>2. BusTypes /\ TwiTypes /\ WireTypes  BY DEF MastersInv, Types
<1>3. /\ twi_state' \in [Node -> {"READY", "MRX", "MTX", "SRX", "STX"}] /\ twi_state'[n] = "READY"
      /\ \A m \in Node \ {n} : twi_state'[m] = twi_state[m]
  BY <1>1, <1>2 DEF TwiTypes
<1>4. /\ twdr' \in [Node -> Bytes] /\ txIndex' \in [Node -> Nat] /\ txLength' \in [Node -> Nat]
      /\ \A m \in Node \ {n} : /\ twdr'[m] = twdr[m] /\ txIndex'[m] = txIndex[m]
                               /\ txLength'[m] = txLength[m]
  BY <1>1, <1>2 DEF BusTypes, TwiTypes, HighByte, Bytes
<1>5. /\ txBuffer' \in Buffers /\ txBuffer'[n] = <<>>
      /\ \A m \in Node \ {n} : txBuffer'[m] = txBuffer[m]
  BY <1>1, <1>2 DEF TwiTypes, Buffers
<1>6. /\ BusTypes' /\ twint'[n] = "none" /\ ~sta'[n]
      /\ \A m \in Node \ {n} : twint'[m] = twint[m] /\ sta'[m] = sta[m] /\ ea'[m] = ea[m]
  BY <1>1, <1>2, <1>4, ReplyTypes DEF BusTypes
<1>7. Types'
  <2>1. TwiTypes'  BY <1>1, <1>2, <1>3, <1>4, <1>5 DEF TwiTypes, masterVars
  <2>2. WireTypes'  BY <1>2 DEF WireTypes, wireVars
  <2> QED  BY <1>6, <2>1, <2>2 DEF Types
<1>8. Elsewhere(n)
  <2>1. Leaves(n)  BY <1>1 DEF Leaves
  <2>2. ASSUME NEW m \in Node \ {n} PROVE Kept(m) /\ Told(m)
    BY <1>1, <1>3, <1>4, <1>5, <1>6 DEF Kept, Told, wireVars, masterVars
  <2> QED  BY <2>1, <2>2 DEF Elsewhere
<1>9. n \notin Master  BY <1>1, Served
<1>10. NodeInv(n)'
  <2>1. Bounded(n)'
    <3>1. TWI_BUFFER_LENGTH[n] \in Nat /\ Len(<<>>) = 0  BY LengthAssumption
    <3> QED  BY <1>1, <1>5, <3>1 DEF MastersInv, NodeInv, Bounded, wireVars, masterVars
  <2>2. OtherInv(n)'
    BY <1>1, <1>3, <1>6, <1>9
    DEF MastersInv, NodeInv, OtherInv, SlaveStatuses, wireVars, masterVars
  <2> QED  BY <1>9, <2>1, <2>2 DEF NodeInv
<1> QED  BY <1>7, <1>8, <1>10 DEF Steps

\* SR_STOP up to the callback, and what the callback makes of the bytes.
LEMMA StepSlaveReceives ==
  ASSUME Apart, MastersInv, NEW n \in Node, SlaveReceives(n)
  PROVE  Steps(n)
<1>1. /\ twint[n] = "SR_STOP" /\ WriteStop(n)
      /\ twi_state' = [twi_state EXCEPT ![n] = "READY"] /\ busy' = [busy EXCEPT ![n] = TRUE]
      /\ UNCHANGED <<twi_error, masterVars, slaveVars, pc, call, acked,
                     txData, txFill, txAddress, transmitting, ret>>
  BY DEF SlaveReceives, IsrSlaveStop, Interrupt, twi_stop, Set
<1>2. BusTypes /\ TwiTypes /\ WireTypes  BY DEF MastersInv, Types
<1>3. n \notin Master  BY <1>1, Served
<1>4. pc[n] = "Sketch"  BY <1>3 DEF MastersInv, NodeInv, OtherInv
<1>5. copied' = copied /\ (\/ unread' = unread
                           \/ unread' = [unread EXCEPT ![n] = rxBuffer[n]]
                           \/ unread' = [unread EXCEPT ![n] = <<>>])
  BY <1>4 DEF SlaveReceives, onReceiveService, rxVars, Set
<1>6. /\ rxBuffer[n] \in Seq(Bytes) /\ Len(rxBuffer[n]) <= TWI_BUFFER_LENGTH[n]
      /\ TWI_BUFFER_LENGTH[n] \in Nat /\ Len(<<>>) = 0
      /\ Len(unread[n]) <= TWI_BUFFER_LENGTH[n]
  <2>1. rxBuffer[n] \in Seq(Bytes)  BY <1>2 DEF TwiTypes, Buffers
  <2>2. TWI_BUFFER_LENGTH[n] \in Nat  BY LengthAssumption
  <2> QED  BY <2>1, <2>2 DEF MastersInv, NodeInv, Bounded
<1>7. unread' \in Buffers /\ \A m \in Node \ {n} : unread'[m] = unread[m]
  <2>1. unread \in [Node -> Seq(Bytes)] /\ <<>> \in Seq(Bytes)  BY <1>2 DEF WireTypes, Buffers
  <2>2. CASE unread' = unread  BY <2>1, <2>2 DEF Buffers
  <2>3. CASE unread' = [unread EXCEPT ![n] = rxBuffer[n]]  BY <1>6, <2>1, <2>3 DEF Buffers
  <2>4. CASE unread' = [unread EXCEPT ![n] = <<>>]  BY <2>1, <2>4 DEF Buffers
  <2> QED  BY <1>5, <2>2, <2>3, <2>4
<1>8. Len(unread'[n]) <= TWI_BUFFER_LENGTH[n]
  <2>1. unread \in [Node -> Seq(Bytes)]  BY <1>2 DEF WireTypes, Buffers
  <2>2. unread'[n] \in {unread[n], rxBuffer[n], <<>>}  BY <1>5, <2>1
  <2>3. Len(<<>>) <= TWI_BUFFER_LENGTH[n]  BY <1>6
  <2> QED  BY <1>6, <2>2, <2>3
<1>9. /\ twi_state' \in [Node -> {"READY", "MRX", "MTX", "SRX", "STX"}] /\ twi_state'[n] = "READY"
      /\ busy' \in [Node -> BOOLEAN]
      /\ \A m \in Node \ {n} : twi_state'[m] = twi_state[m] /\ busy'[m] = busy[m]
  BY <1>1, <1>2 DEF BusTypes, TwiTypes
<1>10. Types'
  <2>1. BusTypes'  BY <1>1, <1>2, <1>9, StopTypes DEF BusTypes
  <2>2. TwiTypes'  BY <1>1, <1>2, <1>9 DEF TwiTypes, masterVars, slaveVars
  <2>3. WireTypes'  BY <1>1, <1>2, <1>5, <1>7 DEF WireTypes
  <2> QED  BY <2>1, <2>2, <2>3 DEF Types
<1>11. Elsewhere(n)
  <2>1. ASSUME NEW m \in Node \ {n} PROVE Kept(m) /\ Told(m)
    BY <1>1, <1>2, <1>5, <1>7, <1>9, StopTypes DEF Kept, masterVars, slaveVars
  <2> QED  BY <1>1, <1>2, <2>1, StopTypes DEF Elsewhere
<1>12. NodeInv(n)'
  <2>1. Bounded(n)'
    BY <1>1, <1>5, <1>8 DEF MastersInv, NodeInv, Bounded, masterVars, slaveVars
  <2>2. twint'[n] = "none" /\ ~sta'[n]  BY <1>1, <1>2, StopTypes
  <2>3. OtherInv(n)'
    BY <1>1, <1>3, <1>9, <2>2 DEF MastersInv, NodeInv, OtherInv, SlaveStatuses, masterVars
  <2> QED  BY <1>3, <2>1, <2>3 DEF NodeInv
<1> QED  BY <1>10, <1>11, <1>12 DEF Steps

\* The request callback of a board that is no master fills the transmit buffer only.
LEMMA Requested ==
  ASSUME Apart, MastersInv, NEW n \in Node, SlaveRequested(n)
  PROVE  /\ n \notin Master
         /\ \E reply \in Seq({Reply(n)}) :
              Len(reply) <= TWI_BUFFER_LENGTH[n] /\ IsrSlaveRequest(n, reply)
         /\ UNCHANGED <<rxVars, txAddress, transmitting, ret, txData>>
         /\ txFill' = [txFill EXCEPT ![n] = 0]
<1>1. PICK k \in Replies : onRequestService(n, k)  BY DEF SlaveRequested
<1>2. twint[n] \in {"ST_SLA_ACK", "ST_ARB_LOST_SLA_ACK"}
  BY <1>1 DEF onRequestService, IsrSlaveRequest, Interrupt
<1>3. n \notin Master  BY <1>2, Served
<1>4. ~transmitting[n] /\ k \in Nat /\ TWI_BUFFER_LENGTH[n] \in Nat
  <2>1. ~transmitting[n] /\ k \in Nat
    BY <1>3, SketchAssumption DEF MastersInv, NodeInv, OtherInv
  <2>2. TWI_BUFFER_LENGTH[n] \in Nat  BY LengthAssumption
  <2> QED  BY <2>1, <2>2
<1> DEFINE bytes == [i \in 1..k |-> Reply(n)]
           given == IF k > TWI_BUFFER_LENGTH[n] THEN <<>> ELSE bytes
<1>5. /\ IsrSlaveRequest(n, given)
      /\ txData' = [txData EXCEPT ![n] = Overlay(<<>>, txData[n])]
      /\ txFill' = [txFill EXCEPT ![n] = Len(<<>>)]
  BY <1>1, <1>4, Zenon DEF onRequestService, Set
<1>6. given \in Seq({Reply(n)}) /\ Len(given) <= TWI_BUFFER_LENGTH[n]
  <2>1. bytes \in Seq({Reply(n)}) /\ Len(bytes) = k  BY <1>4
  <2>2. <<>> \in Seq({Reply(n)}) /\ Len(<<>>) = 0  OBVIOUS
  <2> HIDE DEF bytes
  <2> QED  BY <1>4, <2>1, <2>2
<1>7. txData' = txData /\ txFill' = [txFill EXCEPT ![n] = 0]
  <2>1. txData \in [Node -> Seq(Bytes)]  BY DEF MastersInv, Types, WireTypes, Buffers
  <2>2. Overlay(<<>>, txData[n]) = txData[n]  BY <2>1 DEF Overlay
  <2> QED  BY <1>5, <2>1, <2>2
<1>8. UNCHANGED <<rxVars, txAddress, transmitting, ret>>  BY DEF SlaveRequested
<1> HIDE DEF given
<1> QED  BY <1>3, <1>5, <1>6, <1>7, <1>8

\* ST_SLA_ACK, ST_ARB_LOST_SLA_ACK, with the request callback.
LEMMA StepSlaveRequested ==
  ASSUME Apart, MastersInv, NEW n \in Node, SlaveRequested(n)
  PROVE  Steps(n)
<1>1. /\ n \notin Master
      /\ UNCHANGED <<rxVars, txAddress, transmitting, ret, txData>>
      /\ txFill' = [txFill EXCEPT ![n] = 0]
  BY Requested
<1>2. PICK reply \in Seq({Reply(n)}) :
        Len(reply) <= TWI_BUFFER_LENGTH[n] /\ IsrSlaveRequest(n, reply)
  BY Requested
<1> DEFINE bytes == IF reply = <<>> THEN <<0>> ELSE reply
           more == 1 < Len(bytes)
<1>3. /\ twi_state' = [twi_state EXCEPT ![n] = "STX"]
      /\ txBuffer' = [txBuffer EXCEPT ![n] = bytes]
      /\ txLength' = [txLength EXCEPT ![n] = Len(bytes)]
      /\ txIndex' = [txIndex EXCEPT ![n] = 1]
      /\ twdr' = [twdr EXCEPT ![n] = TxByte(bytes, 0)]
      /\ WriteTWCR(n, FALSE, more) /\ bus' = bus
      /\ UNCHANGED <<busy, twi_error, masterVars, rxBuffer, pc, call, acked>>
  BY <1>2, Zenon DEF IsrSlaveRequest, twi_reply, Set
<1>4. BusTypes /\ TwiTypes /\ WireTypes  BY DEF MastersInv, Types
<1>5. bytes \in Seq(Bytes) /\ Len(bytes) <= TWI_BUFFER_LENGTH[n] /\ Len(bytes) \in Nat
  <2>1. n \in 1..49  BY NodeAssumption
  <2>2. Reply(n) \in Bytes /\ 0 \in Bytes  BY <2>1 DEF Reply, Bytes
  <2>3. reply \in Seq(Bytes) /\ <<0>> \in Seq(Bytes) /\ Len(<<0>>) = 1  BY <2>2
  <2> QED  BY <1>2, <2>3, Capacity
<1>6. TxByte(bytes, 0) \in Bytes /\ more \in BOOLEAN
  <2>1. TxByte(bytes, 0) \in Bytes  BY <1>5, TxByteTypes
  <2>2. more \in BOOLEAN  OBVIOUS
  <2> QED  BY <2>1, <2>2
<1> HIDE DEF bytes, more
<1>7. /\ twi_state' \in [Node -> {"READY", "MRX", "MTX", "SRX", "STX"}] /\ twi_state'[n] = "STX"
      /\ \A m \in Node \ {n} : twi_state'[m] = twi_state[m]
  BY <1>3, <1>4 DEF TwiTypes
<1>8. /\ twdr' \in [Node -> Bytes] /\ txIndex' \in [Node -> Nat] /\ txLength' \in [Node -> Nat]
      /\ txFill' \in [Node -> Nat] /\ txFill'[n] = 0
      /\ \A m \in Node \ {n} : /\ twdr'[m] = twdr[m] /\ txIndex'[m] = txIndex[m]
                               /\ txLength'[m] = txLength[m] /\ txFill'[m] = txFill[m]
  BY <1>1, <1>3, <1>4, <1>5, <1>6 DEF BusTypes, TwiTypes, WireTypes
<1>9. /\ txBuffer' \in Buffers /\ txBuffer'[n] = bytes
      /\ \A m \in Node \ {n} : txBuffer'[m] = txBuffer[m]
  BY <1>3, <1>4, <1>5 DEF TwiTypes, Buffers
<1>10. /\ BusTypes' /\ twint'[n] = "none" /\ ~sta'[n]
       /\ \A m \in Node \ {n} : twint'[m] = twint[m] /\ sta'[m] = sta[m] /\ ea'[m] = ea[m]
  <2>1. more \in BOOLEAN /\ WriteTWCR(n, FALSE, more)  BY <1>3, <1>6
  <2>2. /\ twint' \in [Node -> Statuses] /\ sta' \in [Node -> BOOLEAN] /\ ea' \in [Node -> BOOLEAN]
        /\ twint'[n] = "none" /\ ~sta'[n]
        /\ \A m \in Node \ {n} : twint'[m] = twint[m] /\ sta'[m] = sta[m] /\ ea'[m] = ea[m]
    BY <1>4, <2>1, ReplyTypes
  <2> QED  BY <1>3, <1>4, <1>8, <2>2 DEF BusTypes
<1>11. Types'
  <2>1. TwiTypes'  BY <1>3, <1>4, <1>7, <1>8, <1>9 DEF TwiTypes, masterVars
  <2>2. WireTypes'  BY <1>1, <1>4, <1>8 DEF WireTypes, rxVars
  <2> QED  BY <1>10, <2>1, <2>2 DEF Types
<1>12. Elsewhere(n)
  <2>1. Leaves(n)  BY <1>3 DEF Leaves
  <2>2. ASSUME NEW m \in Node \ {n} PROVE Kept(m) /\ Told(m)
    BY <1>1, <1>3, <1>7, <1>8, <1>9, <1>10 DEF Kept, Told, rxVars, masterVars
  <2> QED  BY <2>1, <2>2 DEF Elsewhere
<1>13. NodeInv(n)'
  <2>1. Bounded(n)'
    <3>1. 0 <= Len(txData[n])  BY <1>4 DEF WireTypes, Buffers
    <3> QED  BY <1>1, <1>3, <1>5, <1>8, <1>9, <3>1
             DEF MastersInv, NodeInv, Bounded, rxVars, masterVars
  <2>2. OtherInv(n)'
    BY <1>1, <1>3, <1>7, <1>10 DEF MastersInv, NodeInv, OtherInv, SlaveStatuses, masterVars
  <2> QED  BY <1>1, <2>1, <2>2 DEF NodeInv
<1> QED  BY <1>11, <1>12, <1>13 DEF Steps
-----------------------------------------------------------------------------
\* The master calls.  The bus and the peripheral registers they touch are few.
LEMMA Calling ==
  ASSUME MastersInv, NEW n \in Node, pc[n] # "Sketch"
  PROVE  n \in Master /\ MasterInv(n) /\ Bounded(n)
BY DEF MastersInv, NodeInv, OtherInv

\* twi_readFrom, twi_writeTo: the test of twi_state.
LEMMA StepTestReady ==
  ASSUME Apart, MastersInv, NEW n \in Node, TestReady(n), UNCHANGED wireVars
  PROVE  Steps(n)
<1>1. /\ pc[n] = "TestReady" /\ pc' = [pc EXCEPT ![n] = "Claim"]
      /\ UNCHANGED <<busVars, busy, twi_state, twi_error, masterVars, slaveVars, call, acked>>
  BY DEF TestReady, Set
<1>2. BusTypes /\ TwiTypes /\ WireTypes  BY DEF MastersInv, Types
<1>3. /\ pc' \in [Node -> Stages] /\ pc'[n] = "Claim"
      /\ \A m \in Node \ {n} : pc'[m] = pc[m]
  BY <1>1, <1>2 DEF TwiTypes, Stages
<1>4. Types'
  <2>1. BusTypes'  BY <1>1, <1>2 DEF BusTypes, busVars
  <2>2. TwiTypes'  BY <1>1, <1>2, <1>3 DEF TwiTypes, masterVars, slaveVars
  <2>3. WireTypes'  BY <1>2 DEF WireTypes, wireVars
  <2> QED  BY <2>1, <2>2, <2>3 DEF Types
<1>5. Elsewhere(n)
  BY <1>1, <1>3 DEF Elsewhere, Leaves, Kept, Told, busVars, wireVars, masterVars, slaveVars
<1>6. n \in Master /\ MasterInv(n) /\ Bounded(n)  BY <1>1, Calling
<1>7. NodeInv(n)'
  <2>1. Bounded(n)'  BY <1>1, <1>6 DEF Bounded, wireVars, masterVars, slaveVars
  <2>2. MasterInv(n)'
    BY <1>1, <1>3, <1>6 DEF MasterInv, Idle, Reads, Writes, busVars, wireVars, masterVars
  <2> QED  BY <1>6, <2>1, <2>2 DEF NodeInv
<1> QED  BY <1>4, <1>5, <1>7 DEF Steps

\* The claim: the message is copied, and fits.
LEMMA StepClaim ==
  ASSUME Apart, MastersInv, NEW n \in Node, Claim(n, SubSeq(txData[n], 1, call[n].length)),
         UNCHANGED wireVars
  PROVE  Steps(n)
<1> DEFINE data == IF Reads(n) THEN <<>> ELSE SubSeq(txData[n], 1, call[n].length)
           size == IF Reads(n) THEN (call[n].length + 255) % 256 ELSE call[n].length
           slarw == Sla(call[n].address, IF Reads(n) THEN 1 ELSE 0)
<1>1. /\ pc[n] = "Claim" /\ pc' = [pc EXCEPT ![n] = "SendStart"]
      /\ twi_state' = [twi_state EXCEPT ![n] = Claimed(n)]
      /\ twi_error' = [twi_error EXCEPT ![n] = "none"]
      /\ masterIndex' = [masterIndex EXCEPT ![n] = 0]
      /\ masterLength' = [masterLength EXCEPT ![n] = size]
      /\ master' = [master EXCEPT ![n] = data]
      /\ twi_slarw' = [twi_slarw EXCEPT ![n] = slarw]
      /\ acked' = [acked EXCEPT ![n] = -1]
      /\ UNCHANGED <<busVars, busy, slaveVars, call>>
  BY Zenon DEF Claim, Set, Claimed, Reads
<1>2. BusTypes /\ TwiTypes /\ WireTypes  BY DEF MastersInv, Types
<1>3. n \in Master /\ MasterInv(n) /\ Bounded(n)  BY <1>1, Calling
<1>4. /\ Reads(n) \/ Writes(n)
      /\ call[n].length \in Nat /\ call[n].length <= TWI_BUFFER_LENGTH[n]
      /\ Reads(n) => call[n].length > 0
      /\ Writes(n) => call[n].length <= Len(txData[n])
      /\ call[n].address \in 0..49
  <2>1. call[n].length \in Nat /\ call[n].address \in 0..49  BY <1>2 DEF TwiTypes, Calls
  <2> QED  BY <1>1, <1>3, <2>1 DEF MasterInv
<1>5. /\ data \in Seq(Bytes) /\ Len(data) = IF Reads(n) THEN 0 ELSE call[n].length
  <2>1. txData[n] \in Seq(Bytes)  BY <1>2 DEF WireTypes, Buffers
  <2>2. CASE Reads(n)  BY <2>2
  <2>3. CASE ~Reads(n)
    <3>1. call[n].length \in 0..Len(txData[n])  BY <1>4, <2>1, <2>3
    <3> QED  BY <2>1, <2>3, <3>1, SubSeqProperties
  <2> QED  BY <2>2, <2>3
<1>6. size \in Nat /\ size = (IF Reads(n) THEN call[n].length - 1 ELSE call[n].length)
  <2>1. CASE Reads(n)
    <3>1. TWI_BUFFER_LENGTH[n] \in 1..255  BY LengthAssumption
    <3>2. PICK l \in Nat : l = call[n].length  BY <1>4
    <3>3. PICK w \in 1..255 : w = TWI_BUFFER_LENGTH[n]  BY <3>1
    <3>4. l > 0 /\ l <= w  BY <1>4, <2>1, <3>2, <3>3
    <3>5. (l + 255) % 256 = l - 1  BY <3>4
    <3>6. l - 1 \in Nat  BY <3>4
    <3> QED  BY <2>1, <3>2, <3>5, <3>6
  <2>2. CASE ~Reads(n)  BY <1>4, <2>2
  <2> QED  BY <2>1, <2>2
<1>7. slarw \in Bytes
  <2>1. PICK a \in 0..49 : a = call[n].address  BY <1>4
  <2>2. 2 * a + 1 \in Bytes /\ 2 * a + 0 \in Bytes  BY DEF Bytes
  <2> QED  BY <2>1, <2>2 DEF Sla
<1>8. /\ Claimed(n) \in {"MRX", "MTX"}  BY DEF Claimed
<1> HIDE DEF data, size, slarw
<1>9. /\ pc' \in [Node -> Stages] /\ pc'[n] = "SendStart"
      /\ twi_state' \in [Node -> {"READY", "MRX", "MTX", "SRX", "STX"}] /\ twi_state'[n] = Claimed(n)
      /\ twi_error' \in [Node -> {"none", "SLA_NACK", "DATA_NACK", "ARB_LOST", "BUS_ERROR"}]
      /\ twi_error'[n] = "none"
      /\ \A m \in Node \ {n} : /\ pc'[m] = pc[m] /\ twi_state'[m] = twi_state[m]
                               /\ twi_error'[m] = twi_error[m]
  BY <1>1, <1>2, <1>8 DEF TwiTypes, Stages
<1>10. /\ masterIndex' \in [Node -> Nat] /\ masterIndex'[n] = 0
       /\ masterLength' \in [Node -> Nat] /\ masterLength'[n] = size
       /\ twi_slarw' \in [Node -> Bytes] /\ twi_slarw'[n] = slarw
       /\ acked' \in [Node -> Int] /\ acked'[n] = -1
       /\ \A m \in Node \ {n} : /\ masterIndex'[m] = masterIndex[m]
                                /\ masterLength'[m] = masterLength[m]
                                /\ twi_slarw'[m] = twi_slarw[m] /\ acked'[m] = acked[m]
  BY <1>1, <1>2, <1>6, <1>7 DEF TwiTypes
<1>11. /\ master' \in Buffers /\ master'[n] = data
       /\ \A m \in Node \ {n} : master'[m] = master[m]
  BY <1>1, <1>2, <1>5 DEF TwiTypes, Buffers
<1>12. Types'
  <2>1. BusTypes'  BY <1>1, <1>2 DEF BusTypes, busVars
  <2>2. TwiTypes'  BY <1>1, <1>2, <1>9, <1>10, <1>11 DEF TwiTypes, slaveVars
  <2>3. WireTypes'  BY <1>2 DEF WireTypes, wireVars
  <2> QED  BY <2>1, <2>2, <2>3 DEF Types
<1>13. Elsewhere(n)
  BY <1>1, <1>9, <1>10, <1>11 DEF Elsewhere, Leaves, Kept, Told, busVars, wireVars, slaveVars
<1>14. NodeInv(n)'
  <2>1. Bounded(n)'
    <3>1. Len(data) <= TWI_BUFFER_LENGTH[n]  BY <1>4, <1>5, Capacity
    <3> QED  BY <1>1, <1>3, <1>11, <3>1 DEF Bounded, wireVars, slaveVars
  <2>2. Idle(n)' /\ Fresh(n)'
    BY <1>1, <1>3, <1>10 DEF MasterInv, Idle, Fresh, busVars
  <2>3. /\ masterLength'[n] = IF Reads(n)' THEN call'[n].length - 1 ELSE call'[n].length
        /\ Len(master'[n]) = IF Reads(n)' THEN masterIndex'[n] ELSE masterLength'[n]
        /\ twi_slarw'[n] = Sla(call'[n].address, IF Reads(n)' THEN 1 ELSE 0)
    BY <1>1, <1>5, <1>6, <1>10, <1>11 DEF Reads, slarw
  <2>4. MasterInv(n)'
    BY <1>1, <1>3, <1>4, <1>9, <2>2, <2>3
    DEF MasterInv, Claimed, Reads, Writes, wireVars
  <2> QED  BY <1>3, <2>1, <2>4 DEF NodeInv
<1> QED  BY <1>12, <1>13, <1>14 DEF Steps

\* The START of the call.
LEMMA StepSendStart ==
  ASSUME Apart, MastersInv, NEW n \in Node, SendStart(n), UNCHANGED wireVars
  PROVE  Steps(n)
<1>1. /\ pc[n] = "SendStart" /\ pc' = [pc EXCEPT ![n] = "Wait"]
      /\ WriteTWCR(n, TRUE, TRUE)
      /\ UNCHANGED <<bus, twdr, busy, twi_state, twi_error, masterVars, slaveVars, call, acked>>
  BY DEF SendStart, Set
<1>2. BusTypes /\ TwiTypes /\ WireTypes  BY DEF MastersInv, Types
<1>3. n \in Master /\ MasterInv(n) /\ Bounded(n)  BY <1>1, Calling
<1>4. /\ pc' \in [Node -> Stages] /\ pc'[n] = "Wait"
      /\ \A m \in Node \ {n} : pc'[m] = pc[m]
  BY <1>1, <1>2 DEF TwiTypes, Stages
<1>5. /\ BusTypes' /\ twint'[n] = "none" /\ sta'[n]
      /\ \A m \in Node \ {n} : twint'[m] = twint[m] /\ sta'[m] = sta[m] /\ ea'[m] = ea[m]
  BY <1>1, <1>2, ReplyTypes DEF BusTypes
<1>6. Types'
  <2>1. TwiTypes'  BY <1>1, <1>2, <1>4 DEF TwiTypes, masterVars, slaveVars
  <2>2. WireTypes'  BY <1>2 DEF WireTypes, wireVars
  <2> QED  BY <1>5, <2>1, <2>2 DEF Types
<1>7. Elsewhere(n)
  BY <1>1, <1>4, <1>5 DEF Elsewhere, Leaves, Kept, Told, wireVars, masterVars, slaveVars
<1>8. UnderWay(n)'
  BY <1>1, <1>3, <1>5
  DEF MasterInv, Idle, Fresh, UnderWay, Starting, Claimed, Reads, masterVars
<1>9. NodeInv(n)'
  <2>1. Bounded(n)'  BY <1>1, <1>3 DEF Bounded, wireVars, masterVars, slaveVars
  <2>2. MasterInv(n)'
    BY <1>1, <1>3, <1>4, <1>8 DEF MasterInv, Reads, Writes, wireVars, masterVars
  <2> QED  BY <1>3, <2>1, <2>2 DEF NodeInv
<1> QED  BY <1>6, <1>7, <1>9 DEF Steps
-----------------------------------------------------------------------------
\* The bytes the library copies.
LEMMA Lesser ==
  ASSUME NEW a \in Int, NEW b \in Int
  PROVE  Min({a, b}) = IF a <= b THEN a ELSE b
<1> DEFINE least == IF a <= b THEN a ELSE b
<1>1. least \in {a, b} /\ \A y \in {a, b} : least <= y  OBVIOUS
<1>2. \A x \in {a, b} : (\A y \in {a, b} : x <= y) => x = least  OBVIOUS
<1> HIDE DEF least
<1>3. Min({a, b}) \in {a, b} /\ \A y \in {a, b} : Min({a, b}) <= y
  <2>1. \E x \in {a, b} : \A y \in {a, b} : x <= y  BY <1>1
  <2> QED  BY <2>1 DEF Min
<1>4. Min({a, b}) = least  BY <1>2, <1>3
<1> QED  BY <1>4 DEF least

\* The first k bytes of a buffer.
LEMMA Prefix ==
  ASSUME NEW s \in Seq(Bytes), NEW k \in 0..Len(s)
  PROVE  SubSeq(s, 1, k) \in Seq(Bytes) /\ Len(SubSeq(s, 1, k)) = k
BY SubSeqProperties

\* Copying over a buffer leaves the longer of the two.
LEMMA Overlaid ==
  ASSUME NEW new \in Seq(Bytes), NEW old \in Seq(Bytes)
  PROVE  /\ Overlay(new, old) \in Seq(Bytes)
         /\ Len(Overlay(new, old)) = IF Len(new) <= Len(old) THEN Len(old) ELSE Len(new)
<1> DEFINE rest == SubSeq(old, Len(new) + 1, Len(old))
<1>1. Len(new) \in Nat /\ Len(old) \in Nat  OBVIOUS
<1>2. \A i \in (Len(new) + 1)..Len(old) : old[i] \in Bytes  BY <1>1
<1>3. rest \in Seq(Bytes) /\ Len(rest) = IF Len(new) + 1 <= Len(old) THEN Len(old) - Len(new) ELSE 0
  <2>1. rest \in Seq(Bytes)  BY <1>1, <1>2, SubSeqProperties
  <2>2. Len(rest) = IF Len(new) + 1 <= Len(old) THEN Len(old) - (Len(new) + 1) + 1 ELSE 0
    BY <1>1, <1>2, SubSeqProperties
  <2> QED  BY <1>1, <2>1, <2>2
<1> HIDE DEF rest
<1>4. new \o rest \in Seq(Bytes) /\ Len(new \o rest) = Len(new) + Len(rest)
  BY <1>3, ConcatProperties
<1> QED  BY <1>1, <1>3, <1>4 DEF Overlay, rest

\* TwoWire::send never fills the buffer beyond its length.
LEMMA SentFits ==
  ASSUME txData \in Buffers, NEW n \in Node, NEW fill \in Nat, NEW bytes \in Seq(Bytes),
         fill <= Len(txData[n]), Len(txData[n]) <= TWI_BUFFER_LENGTH[n]
  PROVE  /\ Sent(n, fill, bytes) \in Seq(Bytes)
         /\ Len(Sent(n, fill, bytes)) <= TWI_BUFFER_LENGTH[n]
         /\ Len(Sent(n, fill, bytes)) \in Nat
<1> DEFINE k == Min({Len(bytes), TWI_BUFFER_LENGTH[n] - fill})
<1>1. txData[n] \in Seq(Bytes)  BY DEF Buffers
<1>2. TWI_BUFFER_LENGTH[n] - fill \in Nat /\ TWI_BUFFER_LENGTH[n] \in Nat
  BY <1>1, Capacity
<1>3. k \in 0..Len(bytes) /\ k <= TWI_BUFFER_LENGTH[n] - fill
  <2> DEFINE a == Len(bytes)
             b == TWI_BUFFER_LENGTH[n] - fill
  <2>1. a \in Nat /\ b \in Nat  BY <1>2
  <2> HIDE DEF a, b
  <2>2. Min({a, b}) = IF a <= b THEN a ELSE b  BY <2>1, Lesser
  <2>3. Min({a, b}) \in 0..a /\ Min({a, b}) <= b  BY <2>1, <2>2
  <2> QED  BY <2>3 DEF a, b
<1> HIDE DEF k
<1>4. SubSeq(bytes, 1, k) \in Seq(Bytes) /\ Len(SubSeq(bytes, 1, k)) = k  BY <1>3, Prefix
<1>5. SubSeq(txData[n], 1, fill) \in Seq(Bytes) /\ Len(SubSeq(txData[n], 1, fill)) = fill
  <2>1. fill \in 0..Len(txData[n])  BY <1>1
  <2> QED  BY <1>1, <2>1, Prefix
<1> DEFINE all == SubSeq(txData[n], 1, fill) \o SubSeq(bytes, 1, k)
<1>6. all \in Seq(Bytes) /\ Len(all) = fill + k  BY <1>4, <1>5, ConcatProperties
<1>7. Sent(n, fill, bytes) = all  BY DEF Sent, k
<1> HIDE DEF all
<1> QED  BY <1>2, <1>3, <1>6, <1>7
-----------------------------------------------------------------------------
\* The sketch.
LEMMA StepBeginTransmission ==
  ASSUME Apart, MastersInv, NEW n \in Node, NEW a \in Target[n], beginTransmission(n, a)
  PROVE  Steps(n)
<1>1. /\ n \in Master /\ pc[n] = "Sketch"
      /\ transmitting' = [transmitting EXCEPT ![n] = TRUE]
      /\ txAddress' = [txAddress EXCEPT ![n] = a]
      /\ txFill' = [txFill EXCEPT ![n] = 0]
      /\ ret' = [ret EXCEPT ![n] = NoResult]
      /\ UNCHANGED <<busVars, busy, twiVars, rxVars, txData>>
  BY DEF beginTransmission, InSketch, Set
<1>2. BusTypes /\ TwiTypes /\ WireTypes  BY DEF MastersInv, Types
<1>3. MasterInv(n) /\ Bounded(n)  BY <1>1 DEF MastersInv, NodeInv
<1>4. a \in 0..49
  <2>1. a \in 1..49  BY SketchAssumption
  <2> QED  BY <2>1
<1>5. NoResult \in [code : -1..4, sent : BOOLEAN]  BY DEF NoResult
<1>6. /\ transmitting' \in [Node -> BOOLEAN] /\ txAddress' \in [Node -> 0..49]
      /\ txFill' \in [Node -> Nat] /\ txFill'[n] = 0
      /\ ret' \in [Node -> [code : -1..4, sent : BOOLEAN]] /\ ret'[n] = NoResult
      /\ \A m \in Node \ {n} : /\ transmitting'[m] = transmitting[m] /\ txAddress'[m] = txAddress[m]
                               /\ txFill'[m] = txFill[m] /\ ret'[m] = ret[m]
  BY <1>1, <1>2, <1>4, <1>5 DEF WireTypes
<1>7. Types'
  <2>1. BusTypes'  BY <1>1, <1>2 DEF BusTypes, busVars
  <2>2. TwiTypes'  BY <1>1, <1>2 DEF TwiTypes, twiVars, masterVars, slaveVars
  <2>3. WireTypes'  BY <1>1, <1>2, <1>6 DEF WireTypes, rxVars
  <2> QED  BY <2>1, <2>2, <2>3 DEF Types
<1>8. Elsewhere(n)
  BY <1>1, <1>6
  DEF Elsewhere, Leaves, Kept, Told, busVars, twiVars, rxVars, masterVars, slaveVars
<1>9. NodeInv(n)'
  <2>1. Bounded(n)'
    <3>1. 0 <= Len(txData[n])  BY <1>2 DEF WireTypes, Buffers
    <3> QED  BY <1>1, <1>3, <1>6, <3>1 DEF Bounded, rxVars, twiVars, masterVars, slaveVars
  <2>2. MasterInv(n)'
    BY <1>1, <1>3, <1>6
    DEF MasterInv, Idle, NoResult, busVars, twiVars, masterVars
  <2> QED  BY <1>1, <2>1, <2>2 DEF NodeInv
<1> QED  BY <1>7, <1>8, <1>9 DEF Steps

\* TwoWire::send.
LEMMA StepSend ==
  ASSUME Apart, MastersInv, NEW n \in Node, send(n)
  PROVE  Steps(n)
<1> DEFINE bytes == Sent(n, txFill[n], <<Payload(n)>>)
<1>1. /\ n \in Master /\ pc[n] = "Sketch"
      /\ txData' = [txData EXCEPT ![n] = Overlay(bytes, txData[n])]
      /\ txFill' = [txFill EXCEPT ![n] = Len(bytes)]
      /\ UNCHANGED <<busVars, busy, twiVars, rxVars, txAddress, transmitting, ret>>
  BY DEF send, InSketch, Set
<1>2. BusTypes /\ TwiTypes /\ WireTypes  BY DEF MastersInv, Types
<1>3. MasterInv(n) /\ Bounded(n)  BY <1>1 DEF MastersInv, NodeInv
<1>4. /\ bytes \in Seq(Bytes) /\ Len(bytes) <= TWI_BUFFER_LENGTH[n] /\ Len(bytes) \in Nat
  <2>1. <<Payload(n)>> \in Seq(Bytes)
    <3>1. Payload(n) \in Bytes
      <4>1. n \in 1..49  BY NodeAssumption
      <4> QED  BY <4>1 DEF Payload, Bytes
    <3> QED  BY <3>1
  <2>2. txData \in Buffers /\ txFill[n] \in Nat  BY <1>2 DEF WireTypes
  <2>3. txFill[n] <= Len(txData[n]) /\ Len(txData[n]) <= TWI_BUFFER_LENGTH[n]
    BY <1>3 DEF Bounded
  <2> QED  BY <2>1, <2>2, <2>3, SentFits
<1> HIDE DEF bytes
<1>5. /\ Overlay(bytes, txData[n]) \in Seq(Bytes)
      /\ Len(Overlay(bytes, txData[n])) <= TWI_BUFFER_LENGTH[n]
      /\ Len(bytes) <= Len(Overlay(bytes, txData[n]))
  <2>1. txData[n] \in Seq(Bytes) /\ Len(txData[n]) \in Nat  BY <1>2 DEF WireTypes, Buffers
  <2>2. Len(txData[n]) <= TWI_BUFFER_LENGTH[n]  BY <1>3 DEF Bounded
  <2>3. Overlay(bytes, txData[n]) \in Seq(Bytes)  BY <1>4, <2>1, Overlaid
  <2>4. Len(Overlay(bytes, txData[n]))
           = IF Len(bytes) <= Len(txData[n]) THEN Len(txData[n]) ELSE Len(bytes)
    BY <1>4, <2>1, Overlaid
  <2> QED  BY <1>4, <2>1, <2>2, <2>3, <2>4
<1>6. /\ txData' \in Buffers /\ txData'[n] = Overlay(bytes, txData[n])
      /\ txFill' \in [Node -> Nat] /\ txFill'[n] = Len(bytes)
      /\ \A m \in Node \ {n} : txData'[m] = txData[m] /\ txFill'[m] = txFill[m]
  BY <1>1, <1>2, <1>4, <1>5 DEF WireTypes, Buffers
<1>7. Types'
  <2>1. BusTypes'  BY <1>1, <1>2 DEF BusTypes, busVars
  <2>2. TwiTypes'  BY <1>1, <1>2 DEF TwiTypes, twiVars, masterVars, slaveVars
  <2>3. WireTypes'  BY <1>1, <1>2, <1>6 DEF WireTypes, rxVars
  <2> QED  BY <2>1, <2>2, <2>3 DEF Types
<1>8. Elsewhere(n)
  BY <1>1, <1>6
  DEF Elsewhere, Leaves, Kept, Told, busVars, twiVars, rxVars, masterVars, slaveVars
<1>9. NodeInv(n)'
  <2>1. Bounded(n)'
    BY <1>1, <1>3, <1>5, <1>6 DEF Bounded, rxVars, twiVars, masterVars, slaveVars
  <2>2. MasterInv(n)'
    BY <1>1, <1>3 DEF MasterInv, Idle, busVars, twiVars, masterVars
  <2> QED  BY <1>1, <2>1, <2>2 DEF NodeInv
<1> QED  BY <1>7, <1>8, <1>9 DEF Steps

\* A call is made: from here on it is the call's state that counts.
LEMMA StepEnters ==
  ASSUME Apart, MastersInv, NEW n \in Master, NEW request \in Calls, Enter(n, request),
         request.op \in {"read", "write"},
         request.op = "write" => request.length <= Len(txData[n]),
         request.op = "read" => request.length > 0,
         ret' = Set(ret, n, NoResult),
         UNCHANGED <<busVars, busy, twi_state, twi_error, masterVars, slaveVars, acked,
                     rxVars, txData, txFill, txAddress, transmitting>>
  PROVE  Steps(n)
<1>1. /\ pc[n] = "Sketch" /\ request.length <= TWI_BUFFER_LENGTH[n]
      /\ pc' = [pc EXCEPT ![n] = "TestReady"] /\ call' = [call EXCEPT ![n] = request]
      /\ ret' = [ret EXCEPT ![n] = NoResult] /\ n \in Node
  BY SketchAssumption DEF Enter, Set
<1>2. BusTypes /\ TwiTypes /\ WireTypes  BY DEF MastersInv, Types
<1>3. MasterInv(n) /\ Bounded(n)  BY <1>1 DEF MastersInv, NodeInv
<1>4. NoResult \in [code : -1..4, sent : BOOLEAN]  BY DEF NoResult
<1>5. /\ pc' \in [Node -> Stages] /\ pc'[n] = "TestReady"
      /\ call' \in [Node -> Calls] /\ call'[n] = request
      /\ ret' \in [Node -> [code : -1..4, sent : BOOLEAN]] /\ ret'[n] = NoResult
      /\ \A m \in Node \ {n} : pc'[m] = pc[m] /\ call'[m] = call[m] /\ ret'[m] = ret[m]
  BY <1>1, <1>2, <1>4 DEF TwiTypes, WireTypes, Stages
<1>6. Types'
  <2>1. BusTypes'  BY <1>2 DEF BusTypes, busVars
  <2>2. TwiTypes'  BY <1>2, <1>5 DEF TwiTypes, masterVars, slaveVars
  <2>3. WireTypes'  BY <1>2, <1>5 DEF WireTypes, rxVars
  <2> QED  BY <2>1, <2>2, <2>3 DEF Types
<1>7. Elsewhere(n)
  BY <1>5 DEF Elsewhere, Leaves, Kept, Told, busVars, rxVars, masterVars, slaveVars
<1>8. NodeInv(n)'
  <2>1. Bounded(n)'  BY <1>3 DEF Bounded, rxVars, masterVars, slaveVars
  <2>2. MasterInv(n)'
    BY <1>1, <1>3, <1>5 DEF MasterInv, Idle, Reads, Writes, NoResult, busVars, masterVars
  <2> QED  BY <2>1, <2>2 DEF NodeInv
<1> QED  BY <1>6, <1>7, <1>8 DEF Steps

\* TwoWire::endTransmission enters twi_writeTo.
LEMMA StepEndTransmission ==
  ASSUME Apart, MastersInv, NEW n \in Node, endTransmission(n)
  PROVE  Steps(n)
<1> DEFINE request == [op |-> "write", address |-> txAddress[n], length |-> txFill[n]]
<1>1. n \in Master /\ Enter(n, request)  BY DEF endTransmission, InSketch
<1>2. request \in Calls  BY DEF MastersInv, Types, WireTypes, Calls
<1>3. request.op = "write" /\ request.length <= Len(txData[n])
  BY DEF MastersInv, NodeInv, Bounded
<1>4. /\ ret' = Set(ret, n, NoResult)
      /\ UNCHANGED <<busVars, busy, twi_state, twi_error, masterVars, slaveVars, acked,
                     rxVars, txData, txFill, txAddress, transmitting>>
  BY DEF endTransmission
<1> HIDE DEF request
<1>5. /\ request.op \in {"read", "write"}
      /\ request.op = "write" => request.length <= Len(txData[n])
      /\ request.op = "read" => request.length > 0
  BY <1>3
<1> QED  BY <1>1, <1>2, <1>4, <1>5, StepEnters

\* TwoWire::requestFrom enters twi_readFrom.
LEMMA StepRequestFrom ==
  ASSUME Apart, MastersInv, NEW n \in Node, NEW a \in Target[n], NEW q \in Quantity,
         requestFrom(n, a, q)
  PROVE  Steps(n)
<1> DEFINE request == [op |-> "read", address |-> a,
                       length |-> Min({q, TWI_BUFFER_LENGTH[n]})]
<1>1. n \in Master /\ Enter(n, request)  BY DEF requestFrom, InSketch
<1>2. Min({q, TWI_BUFFER_LENGTH[n]}) \in Nat \ {0}
  <2>1. q \in 1..255  BY SketchAssumption
  <2>2. q \in Nat \ {0}  BY <2>1
  <2>3. TWI_BUFFER_LENGTH[n] \in Nat \ {0}  BY Capacity
  <2>4. Min({q, TWI_BUFFER_LENGTH[n]}) \in {q, TWI_BUFFER_LENGTH[n]}  BY <2>2, <2>3, Lesser
  <2> QED  BY <2>2, <2>3, <2>4
<1>3. request \in Calls
  <2>1. a \in 1..49  BY SketchAssumption
  <2>2. a \in 0..49  BY <2>1
  <2> QED  BY <1>2, <2>2 DEF Calls
<1>4. request.op = "read" /\ request.length > 0  BY <1>2
<1> HIDE DEF request
<1> QED  BY <1>1, <1>3, <1>4, StepEnters DEF requestFrom

\* TwoWire::receive until nothing is available.
LEMMA StepReceiveAll ==
  ASSUME Apart, MastersInv, NEW n \in Node, receiveAll(n)
  PROVE  Steps(n)
<1>1. /\ n \in Master /\ pc[n] = "Sketch" /\ unread' = [unread EXCEPT ![n] = <<>>]
      /\ UNCHANGED <<busVars, busy, twiVars, copied, txData, txFill, txAddress, transmitting, ret>>
  BY DEF receiveAll, InSketch, Set
<1>2. BusTypes /\ TwiTypes /\ WireTypes  BY DEF MastersInv, Types
<1>3. MasterInv(n) /\ Bounded(n)  BY <1>1 DEF MastersInv, NodeInv
<1>4. /\ unread' \in Buffers /\ unread'[n] = <<>>
      /\ \A m \in Node \ {n} : unread'[m] = unread[m]
  BY <1>1, <1>2 DEF WireTypes, Buffers
<1>5. Types'
  <2>1. BusTypes'  BY <1>1, <1>2 DEF BusTypes, busVars
  <2>2. TwiTypes'  BY <1>1, <1>2 DEF TwiTypes, twiVars, masterVars, slaveVars
  <2>3. WireTypes'  BY <1>1, <1>2, <1>4 DEF WireTypes
  <2> QED  BY <2>1, <2>2, <2>3 DEF Types
<1>6. Elsewhere(n)
  BY <1>1, <1>4 DEF Elsewhere, Leaves, Kept, Told, busVars, twiVars, masterVars, slaveVars
<1>7. NodeInv(n)'
  <2>1. Bounded(n)'
    <3>1. Len(<<>>) = 0  OBVIOUS
    <3> QED  BY <1>1, <1>3, <1>4, <3>1, Capacity DEF Bounded, twiVars, masterVars, slaveVars
  <2>2. MasterInv(n)'
    BY <1>1, <1>3 DEF MasterInv, Idle, busVars, twiVars, masterVars
  <2> QED  BY <1>1, <2>1, <2>2 DEF NodeInv
<1> QED  BY <1>5, <1>6, <1>7 DEF Steps
-----------------------------------------------------------------------------
\* A call returns.
LEMMA Waiting ==
  ASSUME MastersInv, NEW n \in Node, NEW op, Waited(n, op), op \in {"read", "write"}
  PROVE  /\ n \in Master /\ MasterInv(n) /\ Bounded(n) /\ Over(n) /\ pc[n] = "Wait"
         /\ call[n].op = op
<1>1. pc[n] = "Wait" /\ call[n].op = op /\ twi_state[n] # (IF op = "read" THEN "MRX" ELSE "MTX")
  BY DEF Waited
<1>2. n \in Master /\ MasterInv(n) /\ Bounded(n)  BY <1>1, Calling
<1>3. twi_state[n] # Claimed(n)  BY <1>1 DEF Claimed, Reads
<1>4. Over(n)  BY <1>1, <1>2, <1>3 DEF MasterInv, UnderWay
<1> QED  BY <1>1, <1>2, <1>4

\* The way back to the sketch.
LEMMA Returning ==
  ASSUME MastersInv, NEW n \in Node, Return(n), Idle(n)
  PROVE  /\ pc' \in [Node -> Stages] /\ pc'[n] = "Sketch" /\ call' \in [Node -> Calls]
         /\ twi_error' \in [Node -> {"none", "SLA_NACK", "DATA_NACK", "ARB_LOST", "BUS_ERROR"}]
         /\ twi_slarw' \in [Node -> Bytes] /\ acked' \in [Node -> Int]
         /\ masterIndex' \in [Node -> Nat] /\ masterLength' \in [Node -> Nat]
         /\ master' \in Buffers /\ master'[n] = <<>>
         /\ \A m \in Node \ {n} :
              /\ pc'[m] = pc[m] /\ call'[m] = call[m] /\ twi_error'[m] = twi_error[m]
              /\ twi_slarw'[m] = twi_slarw[m] /\ acked'[m] = acked[m] /\ master'[m] = master[m]
              /\ masterIndex'[m] = masterIndex[m] /\ masterLength'[m] = masterLength[m]
<1>1. /\ pc' = [pc EXCEPT ![n] = "Sketch"] /\ call' = [call EXCEPT ![n] = Nothing]
      /\ twi_slarw' = [twi_slarw EXCEPT ![n] = 0] /\ master' = [master EXCEPT ![n] = <<>>]
      /\ masterIndex' = [masterIndex EXCEPT ![n] = 0]
      /\ masterLength' = [masterLength EXCEPT ![n] = 0]
      /\ twi_error' = [twi_error EXCEPT ![n] = "none"] /\ acked' = [acked EXCEPT ![n] = -1]
  BY DEF Return, Idle, Set
<1>2. TwiTypes  BY DEF MastersInv, Types
<1>3. Nothing \in Calls /\ 0 \in Bytes  BY DEF Nothing, Calls, Bytes
<1>4. master' \in Buffers /\ master'[n] = <<>> /\ \A m \in Node \ {n} : master'[m] = master[m]
  BY <1>1, <1>2 DEF TwiTypes, Buffers
<1> QED  BY <1>1, <1>2, <1>3, <1>4 DEF TwiTypes, Stages

\* endTransmission returns 0 exactly when every byte was acknowledged.
LEMMA StepEndTransmissionReturns ==
  ASSUME Apart, MastersInv, NEW n \in Node, endTransmissionReturns(n)
  PROVE  Steps(n)
<1> DEFINE result == [code |-> WriteCode(n), sent |-> acked[n] = masterLength[n]]
<1>1. /\ Waited(n, "write") /\ Return(n)
      /\ ret' = [ret EXCEPT ![n] = result]
      /\ txData' = [txData EXCEPT ![n] = <<>>] /\ txFill' = [txFill EXCEPT ![n] = 0]
      /\ transmitting' = [transmitting EXCEPT ![n] = FALSE]
      /\ UNCHANGED <<rxVars, txAddress>>
  BY DEF endTransmissionReturns, Set
<1>2. UNCHANGED <<busVars, busy, twi_state, slaveVars>>  BY <1>1 DEF Waited
<1>3. BusTypes /\ TwiTypes /\ WireTypes  BY DEF MastersInv, Types
<1>4. n \in Master /\ MasterInv(n) /\ Bounded(n) /\ Over(n) /\ Writes(n)
  BY <1>1, Waiting DEF Writes
<1>5. Idle(n) /\ twi_state[n] = "READY"  BY <1>4 DEF Over
<1>6. /\ result \in [code : -1..4, sent : BOOLEAN]
      /\ result.code = 0 => result.sent
      /\ result.code > 0 => ~result.sent
  <2>1. WriteCode(n) \in {0, 2, 3, 4} /\ (WriteCode(n) = 0 <=> twi_error[n] = "none")
    BY DEF WriteCode
  <2>2. twi_error[n] = "none" <=> acked[n] = masterLength[n]  BY <1>4 DEF Over
  <2>3. WriteCode(n) > 0 <=> twi_error[n] # "none"  BY <2>1
  <2>4. WriteCode(n) \in -1..4  BY <2>1
  <2> QED  BY <2>1, <2>2, <2>3, <2>4
<1> HIDE DEF result
<1>7. /\ ret' \in [Node -> [code : -1..4, sent : BOOLEAN]] /\ ret'[n] = result
      /\ txFill' \in [Node -> Nat] /\ txFill'[n] = 0 /\ transmitting' \in [Node -> BOOLEAN]
      /\ \A m \in Node \ {n} : /\ ret'[m] = ret[m] /\ txFill'[m] = txFill[m]
                               /\ transmitting'[m] = transmitting[m]
  BY <1>1, <1>3, <1>6 DEF WireTypes
<1>8. /\ txData' \in Buffers /\ txData'[n] = <<>>
      /\ \A m \in Node \ {n} : txData'[m] = txData[m]
  BY <1>1, <1>3 DEF WireTypes, Buffers
<1>9. Types'
  <2>1. BusTypes'  BY <1>2, <1>3 DEF BusTypes, busVars
  <2>2. TwiTypes'  BY <1>1, <1>2, <1>3, <1>5, Returning DEF TwiTypes, slaveVars
  <2>3. WireTypes'  BY <1>1, <1>3, <1>7, <1>8 DEF WireTypes, rxVars
  <2> QED  BY <2>1, <2>2, <2>3 DEF Types
<1>10. Elsewhere(n)
  <2>1. Leaves(n)  BY <1>2 DEF Leaves, busVars
  <2>2. ASSUME NEW m \in Node \ {n} PROVE Kept(m) /\ Told(m)
    BY <1>1, <1>2, <1>5, <1>7, <1>8, Returning DEF Kept, Told, busVars, rxVars, slaveVars
  <2> QED  BY <2>1, <2>2 DEF Elsewhere
<1>11. NodeInv(n)'
  <2>1. pc'[n] = "Sketch" /\ master'[n] = <<>>  BY <1>1, <1>5, Returning
  <2>2. Bounded(n)'
    <3>1. Len(<<>>) = 0  OBVIOUS
    <3> QED  BY <1>1, <1>2, <1>4, <1>7, <1>8, <2>1, <3>1, Capacity DEF Bounded, rxVars, slaveVars
  <2>3. MasterInv(n)'
    BY <1>2, <1>4, <1>5, <1>6, <1>7, <2>1 DEF MasterInv, Idle, busVars
  <2> QED  BY <1>4, <2>2, <2>3 DEF NodeInv
<1> QED  BY <1>9, <1>10, <1>11 DEF Steps

\* twi_readFrom copies out what was received.
LEMMA StepRequestFromCopies ==
  ASSUME Apart, MastersInv, NEW n \in Node, requestFromCopies(n)
  PROVE  Steps(n)
<1> DEFINE bytes == ReadBytes(n)
<1>1. /\ Waited(n, "read")
      /\ copied' = [copied EXCEPT ![n] = bytes]
      /\ call' = [call EXCEPT ![n].length = Len(bytes)]
      /\ pc' = [pc EXCEPT ![n] = "SetIndices"]
      /\ UNCHANGED <<masterVars, twi_error, acked,
                     unread, txData, txFill, txAddress, transmitting, ret>>
  BY DEF requestFromCopies, Set
<1>2. UNCHANGED <<busVars, busy, twi_state, slaveVars>>  BY <1>1 DEF Waited
<1>3. BusTypes /\ TwiTypes /\ WireTypes  BY DEF MastersInv, Types
<1>4. /\ n \in Master /\ MasterInv(n) /\ Bounded(n) /\ Over(n) /\ Reads(n) /\ pc[n] = "Wait"
  BY <1>1, Waiting DEF Reads
<1>5. Idle(n) /\ twi_state[n] = "READY"  BY <1>4 DEF Over
<1>6. bytes \in Seq(Bytes) /\ Len(bytes) <= TWI_BUFFER_LENGTH[n] /\ Len(bytes) \in Nat
  <2>1. master[n] \in Seq(Bytes) /\ masterIndex[n] \in Nat /\ call[n].length \in Nat
    BY <1>3 DEF TwiTypes, Buffers, Calls
  <2>2. masterIndex[n] <= call[n].length  BY <1>4 DEF Over
  <2>3. Min({masterIndex[n], call[n].length}) = masterIndex[n]  BY <2>1, <2>2, Lesser
  <2>4. Len(master[n]) = masterIndex[n]  BY <1>4 DEF MasterInv
  <2>5. masterIndex[n] \in 0..Len(master[n])  BY <2>1, <2>4
  <2>6. bytes \in Seq(Bytes) /\ Len(bytes) = masterIndex[n]
    BY <2>1, <2>3, <2>5, Prefix DEF ReadBytes
  <2>7. Len(master[n]) <= TWI_BUFFER_LENGTH[n]  BY <1>4 DEF Bounded
  <2> QED  BY <2>1, <2>4, <2>6, <2>7
<1> HIDE DEF bytes
<1>7. /\ copied' \in Buffers /\ copied'[n] = bytes
      /\ \A m \in Node \ {n} : copied'[m] = copied[m]
  BY <1>1, <1>3, <1>6 DEF WireTypes, Buffers
<1>8. /\ pc' \in [Node -> Stages] /\ pc'[n] = "SetIndices"
      /\ \A m \in Node \ {n} : pc'[m] = pc[m]
  BY <1>1, <1>3 DEF TwiTypes, Stages
<1>9. /\ call' \in [Node -> Calls] /\ call'[n].length = Len(bytes)
      /\ \A m \in Node \ {n} : call'[m] = call[m]
  <2>1. call'[n] = [call[n] EXCEPT !.length = Len(bytes)]  BY <1>1, <1>3 DEF TwiTypes
  <2>2. call'[n] \in Calls /\ call'[n].length = Len(bytes)
    <3> DEFINE c == call[n]
    <3>1. c \in Calls  BY <1>3 DEF TwiTypes
    <3> HIDE DEF c
    <3>2. [c EXCEPT !.length = Len(bytes)] \in Calls  BY <1>6, <3>1 DEF Calls
    <3>3. [c EXCEPT !.length = Len(bytes)].length = Len(bytes)  BY <3>1 DEF Calls
    <3> QED  BY <2>1, <3>2, <3>3 DEF c
  <2> QED  BY <1>1, <1>3, <2>2 DEF TwiTypes
<1>10. Types'
  <2>1. BusTypes'  BY <1>2, <1>3 DEF BusTypes, busVars
  <2>2. TwiTypes'  BY <1>1, <1>2, <1>3, <1>8, <1>9 DEF TwiTypes, masterVars, slaveVars
  <2>3. WireTypes'  BY <1>1, <1>3, <1>7 DEF WireTypes
  <2> QED  BY <2>1, <2>2, <2>3 DEF Types
<1>11. Elsewhere(n)
  BY <1>1, <1>2, <1>7, <1>8, <1>9
  DEF Elsewhere, Leaves, Kept, Told, busVars, masterVars, slaveVars
<1>12. NodeInv(n)'
  <2>1. Bounded(n)'  BY <1>1, <1>2, <1>4, <1>6, <1>7 DEF Bounded, masterVars, slaveVars
  <2>2. call'[n].length <= Len(copied'[n])  BY <1>6, <1>7, <1>9
  <2>3. MasterInv(n)'
    BY <1>1, <1>2, <1>4, <1>5, <1>8, <2>2 DEF MasterInv, Idle, busVars
  <2> QED  BY <1>4, <2>1, <2>3 DEF NodeInv
<1> QED  BY <1>10, <1>11, <1>12 DEF Steps

\* requestFrom sets the indices and returns.
LEMMA StepRequestFromReturns ==
  ASSUME Apart, MastersInv, NEW n \in Node, requestFromReturns(n)
  PROVE  Steps(n)
<1> DEFINE bytes == SubSeq(copied[n], 1, call[n].length)
<1>1. /\ pc[n] = "SetIndices" /\ Return(n)
      /\ unread' = [unread EXCEPT ![n] = bytes] /\ copied' = [copied EXCEPT ![n] = <<>>]
      /\ UNCHANGED <<busVars, busy, twi_state, slaveVars,
                     txData, txFill, txAddress, transmitting, ret>>
  BY DEF requestFromReturns, Set
<1>2. BusTypes /\ TwiTypes /\ WireTypes  BY DEF MastersInv, Types
<1>3. n \in Master /\ MasterInv(n) /\ Bounded(n)  BY <1>1, Calling
<1>4. Idle(n) /\ twi_state[n] = "READY"  BY <1>1, <1>3 DEF MasterInv
<1>5. bytes \in Seq(Bytes) /\ Len(bytes) <= TWI_BUFFER_LENGTH[n]
  <2>1. copied[n] \in Seq(Bytes) /\ call[n].length \in Nat
    BY <1>2 DEF TwiTypes, WireTypes, Buffers, Calls
  <2>2. call[n].length <= Len(copied[n])  BY <1>1, <1>3 DEF MasterInv
  <2>3. call[n].length \in 0..Len(copied[n])  BY <2>1, <2>2
  <2>4. bytes \in Seq(Bytes) /\ Len(bytes) = call[n].length  BY <2>1, <2>3, Prefix
  <2>5. Len(copied[n]) <= TWI_BUFFER_LENGTH[n] /\ TWI_BUFFER_LENGTH[n] \in Nat /\ Len(copied[n]) \in Nat
    BY <1>3, <2>1, Capacity DEF Bounded
  <2> QED  BY <2>1, <2>2, <2>4, <2>5
<1> HIDE DEF bytes
<1>6. /\ unread' \in Buffers /\ unread'[n] = bytes
      /\ \A m \in Node \ {n} : unread'[m] = unread[m]
  BY <1>1, <1>2, <1>5 DEF WireTypes, Buffers
<1>7. /\ copied' \in Buffers /\ copied'[n] = <<>>
      /\ \A m \in Node \ {n} : copied'[m] = copied[m]
  BY <1>1, <1>2 DEF WireTypes, Buffers
<1>8. Types'
  <2>1. BusTypes'  BY <1>1, <1>2 DEF BusTypes, busVars
  <2>2. TwiTypes'  BY <1>1, <1>2, <1>4, Returning DEF TwiTypes, slaveVars
  <2>3. WireTypes'  BY <1>1, <1>2, <1>6, <1>7 DEF WireTypes
  <2> QED  BY <2>1, <2>2, <2>3 DEF Types
<1>9. Elsewhere(n)
  <2>1. Leaves(n)  BY <1>1 DEF Leaves, busVars
  <2>2. ASSUME NEW m \in Node \ {n} PROVE Kept(m) /\ Told(m)
    BY <1>1, <1>4, <1>6, <1>7, Returning DEF Kept, Told, busVars, slaveVars
  <2> QED  BY <2>1, <2>2 DEF Elsewhere
<1>10. NodeInv(n)'
  <2>1. pc'[n] = "Sketch" /\ master'[n] = <<>>  BY <1>1, <1>4, Returning
  <2>2. Bounded(n)'
    <3>1. Len(<<>>) = 0  OBVIOUS
    <3> QED  BY <1>1, <1>3, <1>5, <1>6, <1>7, <2>1, <3>1, Capacity DEF Bounded, slaveVars
  <2>3. MasterInv(n)'
    BY <1>1, <1>3, <1>4, <2>1 DEF MasterInv, Idle, busVars
  <2> QED  BY <1>3, <2>2, <2>3 DEF NodeInv
<1> QED  BY <1>8, <1>9, <1>10 DEF Steps
-----------------------------------------------------------------------------
\* The bus.  The byte on the wires is one a master sends.
LEMMA Least ==
  ASSUME NEW S \in SUBSET Nat, S # {}
  PROVE  Min(S) \in S /\ \A y \in S : Min(S) <= y
<1>1. PICK x \in S : \A y \in S : ~(<<y, x>> \in OpToRel(<, Nat))
  BY NatLessThanWellFounded, WFMin
<1>2. ASSUME NEW y \in S PROVE x <= y
  <2>1. ~(y < x)  BY <1>1 DEF OpToRel
  <2> QED  BY <2>1
<1>3. \E z \in S : \A y \in S : z <= y  BY <1>2
<1> QED  BY <1>3 DEF Min

\* The byte on the wires is some master's.
LEMMA WireByte ==
  ASSUME BusTypes, bus.masters # {}
  PROVE  OnWire \in Bytes /\ \E m \in bus.masters : twdr[m] = OnWire
<1> DEFINE S == {twdr[m] : m \in bus.masters}
<1>1. bus.masters \subseteq Node  BY SketchAssumption DEF BusTypes
<1>2. S \subseteq Bytes /\ S # {}  BY <1>1 DEF BusTypes
<1>3. S \in SUBSET Nat  BY <1>2 DEF Bytes
<1>4. OnWire \in S  BY <1>2, <1>3, Least DEF OnWire
<1> QED  BY <1>2, <1>4

\* A bus step touches a master's call only through the status and the bus.
LEMMA BusKeeps ==
  ASSUME Apart, MastersInv, BusTypes', UNCHANGED <<sta, ea, busy, twiVars, wireVars>>,
         \A n \in Node \ Master : twint'[n] \in SlaveStatuses,
         \A m \in Master : Idle(m) => Idle(m)',
         \A m \in Master : UnderWay(m) => UnderWay(m)'
  PROVE  MastersInv'
<1>1. Types'
  <2>1. TwiTypes'  BY DEF MastersInv, Types, TwiTypes, twiVars, masterVars, slaveVars
  <2>2. WireTypes'  BY DEF MastersInv, Types, WireTypes, wireVars
  <2> QED  BY <2>1, <2>2 DEF Types
<1>2. ASSUME NEW n \in Node PROVE NodeInv(n)'
  <2>1. Bounded(n)'
    BY DEF MastersInv, NodeInv, Bounded, twiVars, masterVars, slaveVars, wireVars
  <2>2. CASE n \in Master
    <3>1. MasterInv(n)  BY <2>2 DEF MastersInv, NodeInv
    <3>2. Over(n) => Over(n)'
      BY <2>2 DEF Over, Reads, Writes, twiVars, masterVars
    <3>3. MasterInv(n)'
      BY <2>2, <3>1, <3>2
      DEF MasterInv, Fresh, Claimed, Reads, Writes, twiVars, masterVars, wireVars
    <3> QED  BY <2>1, <2>2, <3>3 DEF NodeInv
  <2>3. CASE n \notin Master
    BY <2>1, <2>3 DEF MastersInv, NodeInv, OtherInv, twiVars, masterVars, wireVars
  <2> QED  BY <2>2, <2>3
<1> QED  BY <1>1, <1>2 DEF MastersInv

\* A master that is not on the bus sees nothing of the others' transfer.
LEMMA OffBus ==
  ASSUME NEW m \in Master, m \notin bus.masters, m \notin bus'.masters, twint'[m] = twint[m],
         UNCHANGED <<sta, twiVars>>
  PROVE  (Idle(m) => Idle(m)') /\ (UnderWay(m) => UnderWay(m)')
BY DEF Idle, UnderWay, Starting, Addressing, Writing, Reading, Losing, Claimed, Fresh, Reads,
       Writes, twiVars, masterVars

\* The STARTs that go out together are of masters that asked for one.
LEMMA StepBusStart ==
  ASSUME Apart, MastersInv, Start, UNCHANGED <<twiVars, wireVars>>
  PROVE  MastersInv'
<1>1. PICK M \in SUBSET {n \in Node : sta[n] /\ twint[n] = "none"} :
        /\ bus' = [Free EXCEPT !.phase = "Address", !.masters = M]
        /\ Raise([n \in M |-> "START"])
  BY DEF Start
<1>2. twint' = [n \in Node |-> IF n \in M THEN "START" ELSE twint[n]]
  BY <1>1 DEF Raise
<1>3. bus' = [phase |-> "Address", masters |-> M, slave |-> 0]  BY <1>1 DEF Free
<1>4. bus.masters = {} /\ BusTypes /\ UNCHANGED <<sta, ea, twdr, busy>>
  BY DEF Start, MastersInv, Types, BusTypes
<1>5. M \subseteq Master  BY DEF MastersInv, NodeInv, OtherInv
<1>6. BusTypes'
  <2>1. twint' \in [Node -> Statuses]  BY <1>2, <1>4 DEF BusTypes, Statuses
  <2> QED  BY <1>3, <1>4, <1>5, <2>1 DEF BusTypes
<1>7. \A n \in Node \ Master : twint'[n] \in SlaveStatuses
  BY <1>2, <1>5 DEF MastersInv, NodeInv, OtherInv
<1>8. ASSUME NEW m \in Master
      PROVE  (Idle(m) => Idle(m)') /\ (UnderWay(m) => UnderWay(m)')
  <2>1. m \in Node  BY SketchAssumption
  <2>2. CASE m \in M
    <3>1. sta[m] /\ twint[m] = "none" /\ twint'[m] = "START" /\ m \in bus'.masters
      BY <1>2, <1>3, <2>1, <2>2
    <3>2. UnderWay(m) => Starting(m)'
      BY <1>3, <1>4, <3>1
      DEF UnderWay, Starting, Addressing, Writing, Reading, Losing, Fresh, twiVars, masterVars
    <3> QED  BY <3>1, <3>2 DEF Idle, UnderWay, Claimed, Reads, twiVars
  <2>3. CASE m \notin M
    <3>1. twint'[m] = twint[m] /\ m \notin bus.masters /\ m \notin bus'.masters
      BY <1>2, <1>3, <1>4, <2>1, <2>3
    <3> QED  BY <1>4, <3>1, OffBus
  <2> QED  BY <2>2, <2>3
<1> QED  BY <1>4, <1>6, <1>7, <1>8, BusKeeps

\* After the address byte every winner is in the phase its own call asked for.
LEMMA StepAddress ==
  ASSUME Apart, MastersInv, Address, UNCHANGED <<twiVars, wireVars>>
  PROVE  MastersInv'
<1> DEFINE read  == OnWire % 2 = 1
           slave == {s \in Slave \ Winners : s = OnWire \div 2 /\ ea[s]}
           acks  == slave # {} \/ OnWire \div 2 \in Device
           lost  == bus.masters \ Winners
           MasterStatus == IF read THEN IF acks THEN "MR_SLA_ACK" ELSE "MR_SLA_NACK"
                                   ELSE IF acks THEN "MT_SLA_ACK" ELSE "MT_SLA_NACK"
           SlaveStatus(s) ==
             IF read THEN IF s \in lost THEN "ST_ARB_LOST_SLA_ACK" ELSE "ST_SLA_ACK"
                     ELSE IF s \in lost THEN "SR_ARB_LOST_SLA_ACK" ELSE "SR_SLA_ACK"
           status == [n \in bus.masters \cup slave |->
                        IF n \in Winners THEN MasterStatus
                        ELSE IF n \in slave THEN SlaveStatus(n) ELSE "ARB_LOST"]
<1>1. /\ bus.phase = "Address" /\ Clocked
      /\ Raise(status)
      /\ twdr' = [n \in Node |-> IF n \in slave THEN OnWire ELSE twdr[n]]
      /\ bus' = [phase |-> IF read THEN "Read" ELSE "Write", masters |-> Winners,
                 slave |-> IF acks THEN OnWire \div 2 ELSE 0]
      /\ UNCHANGED <<sta, ea, busy>>
  BY Zenon DEF Address
<1>2. BusTypes  BY DEF MastersInv, Types
<1>3. /\ Winners \subseteq bus.masters /\ bus.masters \subseteq Master /\ slave \subseteq Slave
      /\ bus.masters # {} /\ \A m \in bus.masters : twint[m] = "none"
  BY <1>1, <1>2 DEF Winners, Clocked, Participants, BusTypes
<1>4. \A n \in Node :
        /\ n \in Winners => twint'[n] = MasterStatus
        /\ n \in slave => twint'[n] = SlaveStatus(n)
        /\ n \in bus.masters /\ n \notin Winners /\ n \notin slave => twint'[n] = "ARB_LOST"
        /\ n \notin bus.masters /\ n \notin slave => twint'[n] = twint[n]
  BY <1>1, <1>3, Zenon DEF Raise
<1>5. twint' \in [Node -> Statuses]
  <2>1. \A n \in Node : twint'[n] \in Statuses
    BY <1>2, <1>3, <1>4 DEF Statuses, BusTypes
  <2> QED  BY <1>1, <2>1 DEF Raise
<1>6. BusTypes'
  <2>1. twdr' \in [Node -> Bytes]  BY <1>1, <1>2, <1>3, WireByte DEF BusTypes
  <2>2. acks => OnWire \div 2 \in Slave \cup Device  OBVIOUS
  <2>3. bus' \in [phase : {"Free", "Address", "Write", "Read"},
                  masters : SUBSET Master, slave : Slave \cup Device \cup {0}]
        /\ bus'.phase # "Free"
    BY <1>1, <1>3, <2>2
  <2> QED  BY <1>1, <1>2, <1>5, <2>1, <2>3 DEF BusTypes
<1>7. ASSUME NEW n \in Node \ Master PROVE twint'[n] \in SlaveStatuses
  <2>1. n \notin bus.masters  BY <1>3
  <2>2. twint[n] \in SlaveStatuses  BY DEF MastersInv, NodeInv, OtherInv
  <2> QED  BY <1>4, <2>1, <2>2 DEF SlaveStatuses
<1>8. ASSUME NEW m \in Master
      PROVE  (Idle(m) => Idle(m)') /\ (UnderWay(m) => UnderWay(m)')
  <2>1. m \in Node /\ m \notin slave  BY <1>3, SketchAssumption DEF Apart
  <2>2. CASE m \notin bus.masters
    BY <1>1, <1>3, <1>4, <2>1, <2>2, OffBus
  <2>3. CASE m \in bus.masters
    <3>1. UnderWay(m) => Addressing(m)
      BY <1>1, <1>3, <2>3 DEF UnderWay, Starting, Addressing, Writing, Reading, Losing
    <3>2. ~Idle(m)  BY <2>3 DEF Idle
    <3>3. MasterInv(m)  BY <2>1 DEF MastersInv, NodeInv
    <3>4. SUFFICES ASSUME UnderWay(m), Addressing(m) PROVE UnderWay(m)'
      BY <3>1, <3>2
    <3>5. pc[m] = "Wait"  BY <2>3, <3>2, <3>3, Calling, <2>1, <3>4
          DEF MasterInv, Idle, MastersInv, Types, TwiTypes, Stages, Addressing
    <3>6. /\ Reads(m) \/ Writes(m)
          /\ twi_slarw[m] = Sla(call[m].address, IF Reads(m) THEN 1 ELSE 0)
      BY <3>3, <3>5 DEF MasterInv
    <3>7. m \in Winners => (read <=> Reads(m))
      <4>1. m \in Winners => OnWire = twi_slarw[m]  BY <3>4 DEF Winners, Addressing
      <4>2. PICK a \in 0..49 : a = call[m].address
        BY <2>1 DEF MastersInv, Types, TwiTypes, Calls
      <4>3. (2 * a + 1) % 2 = 1 /\ (2 * a + 0) % 2 = 0  OBVIOUS
      <4> QED  BY <3>6, <4>1, <4>2, <4>3 DEF Sla
    <3>8. twi_state'[m] = Claimed(m)' /\ twi_error'[m] = "none"
      BY <3>4 DEF UnderWay, Claimed, Reads, twiVars
    <3>9. ~sta'[m] /\ Fresh(m)'  BY <1>1, <3>4 DEF Addressing, Fresh, twiVars, masterVars
    <3>10. masterIndex'[m] = 0 /\ acked'[m] = -1 /\ masterLength'[m] \in Nat
      BY <3>9, <2>1 DEF Fresh, MastersInv, Types, TwiTypes, twiVars, masterVars
    <3> HIDE DEF read, acks, slave, lost
    <3>11. CASE m \in Winners
      <4>1. twint'[m] = MasterStatus /\ m \in bus'.masters
        BY <1>1, <1>4, <2>1, <3>11
      <4>2. CASE Reads(m)
        <5>1. twint'[m] \in {"MR_SLA_ACK", "MR_SLA_NACK"} /\ bus'.phase = "Read"
          BY <1>1, <3>7, <3>11, <4>1, <4>2
        <5>2. Reading(m)'
          BY <3>9, <3>10, <4>1, <4>2, <5>1 DEF Reading, Reads, twiVars
        <5> QED  BY <3>8, <5>2 DEF UnderWay
      <4>3. CASE ~Reads(m)
        <5>1. twint'[m] \in {"MT_SLA_ACK", "MT_SLA_NACK"} /\ bus'.phase = "Write"
          BY <1>1, <3>7, <3>11, <4>1, <4>3
        <5>2. Writing(m)'
          BY <3>6, <3>9, <4>1, <4>3, <5>1 DEF Writing, Writes, twiVars
        <5> QED  BY <3>8, <5>2 DEF UnderWay
      <4> QED  BY <4>2, <4>3
    <3>12. CASE m \notin Winners
      <4>1. twint'[m] = "ARB_LOST" /\ m \notin bus'.masters
        BY <1>1, <1>4, <2>1, <2>3, <3>12
      <4>2. Losing(m)'  BY <3>9, <3>10, <4>1 DEF Losing
      <4> QED  BY <3>8, <4>2 DEF UnderWay
    <3> QED  BY <3>11, <3>12
  <2> QED  BY <2>2, <2>3
<1> QED  BY <1>1, <1>6, <1>7, <1>8, BusKeeps

\* A node the bus addresses gave Wire.begin an address.
LEMMA ServesSlave == ASSUME BusTypes PROVE {bus.slave} \cap Node \subseteq Slave
<1>1. bus.slave \in Slave \cup Device \cup {0}  BY DEF BusTypes
<1>2. 0 \notin Node  BY NodeAssumption
<1> QED  BY <1>1, <1>2, DeviceAssumption

\* While bytes move, every master on the bus is writing, or every one is reading.
LEMMA Moving ==
  ASSUME MastersInv, Clocked, NEW m \in bus.masters, UnderWay(m)
  PROVE  /\ bus.phase = "Write" => Writing(m) /\ Sending(m)
         /\ bus.phase = "Read" => Reading(m)
         /\ twint[m] = "none"
BY DEF Clocked, Participants, UnderWay, Starting, Addressing, Writing, Reading, Losing

\* A byte written: the winners go on, the others have lost.
LEMMA StepWriteByte ==
  ASSUME Apart, MastersInv, WriteByte, UNCHANGED <<twiVars, wireVars>>
  PROVE  MastersInv'
<1> DEFINE slave == {bus.slave} \cap Node
           acks  == bus.slave \in Device \/ \E s \in slave : ea[s]
<1>1. /\ bus.phase = "Write" /\ Clocked
      /\ Raise([n \in bus.masters \cup slave |->
                  IF n \in slave THEN IF acks THEN "SR_DATA_ACK" ELSE "SR_DATA_NACK"
                  ELSE IF n \notin Winners THEN "ARB_LOST"
                  ELSE IF acks THEN "MT_DATA_ACK" ELSE "MT_DATA_NACK"])
      /\ twdr' = [n \in Node |-> IF n \in slave THEN OnWire ELSE twdr[n]]
      /\ bus' = [bus EXCEPT !.masters = Winners, !.slave = IF acks THEN @ ELSE 0]
      /\ UNCHANGED <<sta, ea, busy>>
  BY Zenon DEF WriteByte
<1>2. BusTypes  BY DEF MastersInv, Types
<1>3. /\ Winners \subseteq bus.masters /\ bus.masters \subseteq Master
      /\ bus.masters # {} /\ \A m \in bus.masters : twint[m] = "none"
  BY <1>1, <1>2 DEF Winners, Clocked, Participants, BusTypes
<1>4. slave \subseteq Slave  BY <1>2, ServesSlave
<1>5. \A n \in Node :
        /\ n \in slave => twint'[n] \in {"SR_DATA_ACK", "SR_DATA_NACK"}
        /\ n \in Winners /\ n \notin slave => twint'[n] \in {"MT_DATA_ACK", "MT_DATA_NACK"}
        /\ n \in bus.masters /\ n \notin Winners /\ n \notin slave => twint'[n] = "ARB_LOST"
        /\ n \notin bus.masters /\ n \notin slave => twint'[n] = twint[n]
  BY <1>1, <1>3 DEF Raise
<1>6. twint' \in [Node -> Statuses]
  <2>1. \A n \in Node : twint'[n] \in Statuses
    BY <1>2, <1>3, <1>5 DEF Statuses, BusTypes
  <2> QED  BY <1>1, <2>1 DEF Raise
<1> HIDE DEF acks, slave
<1>7. bus'.phase = "Write" /\ bus'.masters = Winners /\ bus'.slave = IF acks THEN bus.slave ELSE 0
  BY <1>1, <1>2 DEF BusTypes
<1>8. BusTypes'
  <2>1. twdr' \in [Node -> Bytes]  BY <1>1, <1>2, <1>3, WireByte DEF BusTypes
  <2>2. bus' \in [phase : {"Free", "Address", "Write", "Read"},
                  masters : SUBSET Master, slave : Slave \cup Device \cup {0}]
    BY <1>1, <1>2, <1>3 DEF BusTypes
  <2> QED  BY <1>1, <1>2, <1>6, <1>7, <2>1, <2>2 DEF BusTypes
<1>9. ASSUME NEW n \in Node \ Master PROVE twint'[n] \in SlaveStatuses
  <2>1. n \notin bus.masters  BY <1>3
  <2>2. twint[n] \in SlaveStatuses  BY DEF MastersInv, NodeInv, OtherInv
  <2> QED  BY <1>5, <2>1, <2>2 DEF SlaveStatuses
<1>10. ASSUME NEW m \in Master
       PROVE  (Idle(m) => Idle(m)') /\ (UnderWay(m) => UnderWay(m)')
  <2>1. m \in Node /\ m \notin slave  BY <1>4, SketchAssumption DEF Apart
  <2>2. CASE m \notin bus.masters
    BY <1>1, <1>3, <1>5, <1>7, <2>1, <2>2, OffBus
  <2>3. CASE m \in bus.masters
    <3>1. ~Idle(m)  BY <2>3 DEF Idle
    <3>2. SUFFICES ASSUME UnderWay(m) PROVE UnderWay(m)'
      BY <3>1
    <3>3. Writing(m) /\ Sending(m)  BY <1>1, <2>3, <3>2, Moving
    <3>4. twi_state'[m] = Claimed(m)' /\ twi_error'[m] = "none"
      BY <3>2 DEF UnderWay, Claimed, Reads, twiVars
    <3>5. ~sta'[m] /\ Sending(m)' /\ Writes(m)'
      BY <1>1, <3>3 DEF Writing, Writes, Sending, twiVars, masterVars
    <3>6. CASE m \in Winners
      <4>1. twint'[m] \in {"MT_DATA_ACK", "MT_DATA_NACK"}  BY <1>5, <2>1, <3>6
      <4>2. Writing(m)'  BY <1>7, <3>5, <3>6, <4>1 DEF Writing
      <4> QED  BY <3>4, <4>2 DEF UnderWay
    <3>7. CASE m \notin Winners
      <4>1. twint'[m] = "ARB_LOST"  BY <1>5, <2>1, <2>3, <3>7
      <4>2. masterIndex'[m] <= masterLength'[m] /\ acked'[m] < masterLength'[m]
        <5>1. masterIndex[m] \in Nat /\ masterLength[m] \in Nat /\ acked[m] \in Int
          BY <2>1 DEF MastersInv, Types, TwiTypes
        <5>2. masterIndex[m] <= masterLength[m] /\ acked[m] = masterIndex[m] - 1
          BY <3>3, <5>1 DEF Sending
        <5> QED  BY <5>1, <5>2 DEF twiVars, masterVars
      <4>3. Losing(m)'  BY <1>7, <3>5, <3>7, <4>1, <4>2 DEF Losing
      <4> QED  BY <3>4, <4>3 DEF UnderWay
    <3> QED  BY <3>6, <3>7
  <2> QED  BY <2>2, <2>3
<1> QED  BY <1>1, <1>8, <1>9, <1>10, BusKeeps

\* A byte read: the masters that acknowledge go on.
LEMMA StepReadByte ==
  ASSUME Apart, MastersInv, ReadByte, UNCHANGED <<twiVars, wireVars>>
  PROVE  MastersInv'
<1> DEFINE slave  == {bus.slave} \cap Node
           byte   == IF bus.slave \in Device THEN DeviceByte
                     ELSE IF slave # {} THEN twdr[bus.slave] ELSE HighByte
           acking == {m \in bus.masters : ea[m]}
           heard  == IF acking # {} THEN acking ELSE bus.masters
           last   == acking = {} \/ \E s \in slave : ~ea[s]
<1>1. /\ bus.phase = "Read" /\ Clocked
      /\ Raise([n \in bus.masters \cup slave |->
                  IF n \in slave
                  THEN IF acking = {} THEN "ST_DATA_NACK"
                       ELSE IF ea[n] THEN "ST_DATA_ACK" ELSE "ST_LAST_DATA"
                  ELSE IF n \notin heard THEN "ARB_LOST"
                  ELSE IF acking # {} THEN "MR_DATA_ACK" ELSE "MR_DATA_NACK"])
      /\ twdr' = [n \in Node |-> IF n \in heard THEN byte ELSE twdr[n]]
      /\ bus' = [bus EXCEPT !.masters = heard, !.slave = IF last THEN 0 ELSE @]
      /\ UNCHANGED <<sta, ea, busy>>
  BY Zenon DEF ReadByte
<1>2. BusTypes  BY DEF MastersInv, Types
<1>3. /\ heard \subseteq bus.masters /\ bus.masters \subseteq Master
      /\ bus.masters # {} /\ \A m \in bus.masters : twint[m] = "none"
  BY <1>1, <1>2 DEF Clocked, Participants, BusTypes
<1>4. slave \subseteq Slave  BY <1>2, ServesSlave
<1>5. \A n \in Node :
        /\ n \in slave => twint'[n] \in {"ST_DATA_ACK", "ST_DATA_NACK", "ST_LAST_DATA"}
        /\ n \in heard /\ n \notin slave =>
             twint'[n] = IF acking # {} THEN "MR_DATA_ACK" ELSE "MR_DATA_NACK"
        /\ n \in bus.masters /\ n \notin heard /\ n \notin slave => twint'[n] = "ARB_LOST"
        /\ n \notin bus.masters /\ n \notin slave => twint'[n] = twint[n]
  BY <1>1, <1>3, Zenon DEF Raise
<1>6. twint' \in [Node -> Statuses]
  <2>1. \A n \in Node : twint'[n] \in Statuses
    BY <1>2, <1>3, <1>5 DEF Statuses, BusTypes
  <2> QED  BY <1>1, <2>1 DEF Raise
<1>7. byte \in Bytes
  <2>1. DeviceByte \in Bytes /\ HighByte \in Bytes  BY DEF DeviceByte, HighByte, Bytes
  <2>2. slave # {} => twdr[bus.slave] \in Bytes  BY <1>2 DEF BusTypes
  <2> QED  BY <2>1, <2>2
<1>8. bus'.phase = "Read" /\ bus'.masters = heard /\ bus'.slave = IF last THEN 0 ELSE bus.slave
  BY <1>1, <1>2 DEF BusTypes
<1>9. BusTypes'
  <2>1. twdr' \in [Node -> Bytes]  BY <1>1, <1>2, <1>7 DEF BusTypes
  <2>2. bus' \in [phase : {"Free", "Address", "Write", "Read"},
                  masters : SUBSET Master, slave : Slave \cup Device \cup {0}]
    BY <1>1, <1>2, <1>3 DEF BusTypes
  <2> QED  BY <1>1, <1>2, <1>6, <1>8, <2>1, <2>2 DEF BusTypes
<1>10. ASSUME NEW n \in Node \ Master PROVE twint'[n] \in SlaveStatuses
  <2>1. n \notin bus.masters  BY <1>3
  <2>2. twint[n] \in SlaveStatuses  BY DEF MastersInv, NodeInv, OtherInv
  <2> QED  BY <1>5, <2>1, <2>2 DEF SlaveStatuses
<1>11. ASSUME NEW m \in Master
       PROVE  (Idle(m) => Idle(m)') /\ (UnderWay(m) => UnderWay(m)')
  <2>1. m \in Node /\ m \notin slave  BY <1>4, SketchAssumption DEF Apart
  <2>2. CASE m \notin bus.masters
    BY <1>1, <1>3, <1>5, <1>8, <2>1, <2>2, OffBus
  <2>3. CASE m \in bus.masters
    <3>1. ~Idle(m)  BY <2>3 DEF Idle
    <3>2. SUFFICES ASSUME UnderWay(m) PROVE UnderWay(m)'
      BY <3>1
    <3>3. Reading(m) /\ twint[m] = "none"  BY <1>1, <2>3, <3>2, Moving
    <3>4. twi_state'[m] = Claimed(m)' /\ twi_error'[m] = "none"
      BY <3>2 DEF UnderWay, Claimed, Reads, twiVars
    <3>5. ~sta'[m] /\ Reads(m)' /\ masterIndex'[m] <= masterLength'[m]
      BY <1>1, <3>3 DEF Reading, Reads, twiVars, masterVars
    <3>6. CASE m \in heard
      <4>1. twint'[m] = IF acking # {} THEN "MR_DATA_ACK" ELSE "MR_DATA_NACK"
        BY <1>5, <2>1, <3>6
      <4>2. acking # {} => ea[m]  BY <3>6
      <4>3. acking # {} => masterIndex'[m] < masterLength'[m]
        BY <3>3, <4>2 DEF Reading, twiVars, masterVars
      <4>4. Reading(m)'
        BY <1>8, <3>5, <3>6, <4>1, <4>3 DEF Reading
      <4> QED  BY <3>4, <4>4 DEF UnderWay
    <3>7. CASE m \notin heard
      <4>1. twint'[m] = "ARB_LOST"  BY <1>5, <2>1, <2>3, <3>7
      <4>2. Losing(m)'  BY <1>8, <3>5, <3>7, <4>1 DEF Losing, Reads, Writes
      <4> QED  BY <3>4, <4>2 DEF UnderWay
    <3> QED  BY <3>6, <3>7
  <2> QED  BY <2>2, <2>3
<1> QED  BY <1>1, <1>9, <1>10, <1>11, BusKeeps

\* An illegal START or STOP ends every transfer.
LEMMA StepBusError ==
  ASSUME Apart, MastersInv, BusError, UNCHANGED <<twiVars, wireVars>>
  PROVE  MastersInv'
<1>1. /\ bus.phase \in {"Write", "Read"} /\ Clocked
      /\ twint' = [n \in Node |-> IF n \in Participants THEN "BUS_ERROR" ELSE twint[n]]
      /\ bus' = Free
      /\ UNCHANGED <<sta, ea, twdr, busy>>
  BY DEF BusError, Raise
<1>2. BusTypes  BY DEF MastersInv, Types
<1>3. bus'.masters = {} /\ bus'.phase = "Free" /\ bus'.slave = 0  BY <1>1 DEF Free
<1>4. BusTypes'
  <2>1. twint' \in [Node -> Statuses]  BY <1>1, <1>2 DEF BusTypes, Statuses
  <2>2. bus' \in [phase : {"Free", "Address", "Write", "Read"},
                  masters : SUBSET Master, slave : Slave \cup Device \cup {0}]
    BY <1>1 DEF Free
  <2> QED  BY <1>1, <1>2, <1>3, <2>1, <2>2 DEF BusTypes
<1>5. \A n \in Node \ Master : twint'[n] \in SlaveStatuses
  BY <1>1 DEF MastersInv, NodeInv, OtherInv, SlaveStatuses
<1>6. ASSUME NEW m \in Master
      PROVE  (Idle(m) => Idle(m)') /\ (UnderWay(m) => UnderWay(m)')
  <2>1. m \in Node /\ m \notin {bus.slave} \cap Node
    BY <1>2, SketchAssumption, ServesSlave DEF Apart
  <2>2. CASE m \notin bus.masters
    <3>1. twint'[m] = twint[m]  BY <1>1, <2>1, <2>2 DEF Participants
    <3> QED  BY <1>1, <1>3, <2>2, <3>1, OffBus
  <2>3. CASE m \in bus.masters
    <3>1. ~Idle(m)  BY <2>3 DEF Idle
    <3>2. SUFFICES ASSUME UnderWay(m) PROVE UnderWay(m)'
      BY <3>1
    <3>3. twint'[m] = "BUS_ERROR"  BY <1>1, <2>1, <2>3 DEF Participants
    <3>4. /\ masterIndex[m] \in Nat /\ masterLength[m] \in Nat /\ acked[m] \in Int
      BY <2>1 DEF MastersInv, Types, TwiTypes
    <3>5. /\ masterIndex[m] <= masterLength[m] /\ ~sta[m]
          /\ Writes(m) => acked[m] < masterLength[m]
      <4>1. CASE bus.phase = "Write"
        <5>1. Writing(m) /\ Sending(m)  BY <1>1, <2>3, <3>2, <4>1, Moving
        <5> QED  BY <3>4, <5>1 DEF Writing, Sending
      <4>2. CASE bus.phase = "Read"
        <5>1. Reading(m)  BY <1>1, <2>3, <3>2, <4>2, Moving
        <5> QED  BY <5>1 DEF Reading, Reads, Writes
      <4> QED  BY <1>1, <4>1, <4>2
    <3>6. Losing(m)'
      BY <1>1, <1>3, <3>3, <3>5 DEF Losing, Writes, twiVars, masterVars
    <3> QED  BY <3>2, <3>6 DEF UnderWay, Claimed, Reads, twiVars
  <2> QED  BY <2>2, <2>3
<1> QED  BY <1>1, <1>4, <1>5, <1>6, BusKeeps
-----------------------------------------------------------------------------
\* A stuttering step.
LEMMA StutterKeeps == ASSUME MastersInv, UNCHANGED vars PROVE MastersInv'
<1> USE DEF vars, busVars, twiVars, masterVars, slaveVars, wireVars
<1>1. Types'  BY DEF MastersInv, Types, BusTypes, TwiTypes, WireTypes
<1>2. ASSUME NEW n \in Node PROVE NodeInv(n)'
  <2>1. NodeInv(n)  BY DEF MastersInv
  <2>2. Bounded(n)'  BY <2>1 DEF NodeInv, Bounded
  <2>3. OtherInv(n)' = OtherInv(n)  BY DEF OtherInv
  <2>4. /\ Idle(n)' = Idle(n) /\ Fresh(n)' = Fresh(n) /\ Reads(n)' = Reads(n)
        /\ Writes(n)' = Writes(n) /\ Claimed(n)' = Claimed(n) /\ Sending(n)' = Sending(n)
    BY DEF Idle, Fresh, Reads, Writes, Claimed, Sending
  <2>5. UnderWay(n)' = UnderWay(n) /\ Over(n)' = Over(n)
    BY <2>4 DEF UnderWay, Starting, Addressing, Writing, Reading, Losing, Over
  <2>6. MasterInv(n)' = MasterInv(n)  BY <2>4, <2>5 DEF MasterInv
  <2> QED  BY <2>1, <2>2, <2>3, <2>6 DEF NodeInv
<1> QED  BY <1>1, <1>2 DEF MastersInv

\* Every case of the interrupt.
LEMMA IsrKeeps ==
  ASSUME Apart, MastersInv, NEW n \in Node, IsrStep(n)
  PROVE  Steps(n)
<1>1. CASE Isr(n) /\ UNCHANGED wireVars
  BY <1>1, StepStart, StepTransmit, StepFailed, StepArbLost, StepReceive, StepReceived,
     StepSlaveAddressed, StepSlaveData, StepSlaveRefused, StepSlaveRelease, StepSlaveSend,
     StepSlaveSent
  DEF Isr
<1> QED  BY <1>1, StepSlaveReceives, StepSlaveRequested DEF IsrStep

\* Every step: the masters' invariant is inductive.
LEMMA NextKeeps == ASSUME Apart, MastersInv, [Next]_vars PROVE MastersInv'
<1>1. CASE BusStep
  BY <1>1, StepBusStart, StepAddress, StepWriteByte, StepReadByte, StepBusError DEF BusStep, Bus
<1>2. ASSUME NEW n \in Node, CallStep(n) PROVE MastersInv'
  <2>1. Steps(n)
    BY <1>2, StepTestReady, StepClaim, StepSendStart, StepEndTransmissionReturns,
       StepRequestFromCopies, StepRequestFromReturns
    DEF CallStep
  <2> QED  BY <2>1, StepsKeep
<1>3. ASSUME NEW n \in Node, IsrStep(n) PROVE MastersInv'
  BY <1>3, IsrKeeps, StepsKeep
<1>4. ASSUME NEW n \in Node, SketchStep(n) PROVE MastersInv'
  <2>1. Steps(n)
    BY <1>4, StepBeginTransmission, StepSend, StepEndTransmission, StepRequestFrom,
       StepReceiveAll
    DEF SketchStep
  <2> QED  BY <2>1, StepsKeep
<1>5. CASE UNCHANGED vars  BY <1>5, StutterKeeps
<1> QED  BY <1>1, <1>2, <1>3, <1>4, <1>5 DEF Next

\* Every reachable state satisfies the masters' invariant, for any boards, addresses,
\* buffer lengths, messages and callbacks, as long as no board is master and slave.
THEOREM MastersInvariant == ASSUME Apart PROVE Spec => []MastersInv
<1>1. Init => MastersInv  BY InitHolds
<1>2. MastersInv /\ [Next]_vars => MastersInv'  BY NextKeeps
<1> QED  BY <1>1, <1>2, PTL DEF Spec

\* endTransmission() returns 0 only when the address and every byte were acknowledged
\* (twi_writeTo's result from twi_error, against what was acknowledged on the bus).
THEOREM SuccessesSent == ASSUME Apart PROVE Spec => []SuccessMeansSent
<1>1. MastersInv => SuccessMeansSent
  <2> SUFFICES ASSUME MastersInv, NEW n \in Node PROVE ret[n].code = 0 => ret[n].sent
    BY DEF SuccessMeansSent
  <2> QED  BY DEF MastersInv, NodeInv, MasterInv, OtherInv, NoResult
<1> QED  BY <1>1, MastersInvariant, PTL

\* It returns an error only when the message was not acknowledged to its end, so a
\* retry repeats nothing the slave has taken whole.
THEOREM FailuresNotSent == ASSUME Apart PROVE Spec => []FailureMeansNotSent
<1>1. MastersInv => FailureMeansNotSent
  <2> SUFFICES ASSUME MastersInv, NEW n \in Node PROVE ret[n].code > 0 => ~ret[n].sent
    BY DEF FailureMeansNotSent
  <2> QED  BY DEF MastersInv, NodeInv, MasterInv, OtherInv, NoResult
<1> QED  BY <1>1, MastersInvariant, PTL

\* A master call that waits for twi_state always has something coming that ends the
\* wait: a START requested, a place on the bus or an interrupt.
THEOREM StartsKept == ASSUME Apart PROVE Spec => []NoLostStart
<1>1. MastersInv => NoLostStart
  <2> SUFFICES ASSUME MastersInv, NEW n \in Node, pc[n] = "Wait", twi_state[n] \in {"MTX", "MRX"}
               PROVE  sta[n] \/ n \in bus.masters \/ bus.slave = n \/ twint[n] # "none" \/ busy[n]
    BY DEF NoLostStart
  <2>1. UnderWay(n)  BY Calling DEF MasterInv, Over
  <2> QED  BY <2>1 DEF UnderWay, Starting, Addressing, Writing, Reading, Losing
<1> QED  BY <1>1, MastersInvariant, PTL
-----------------------------------------------------------------------------
\* What the slave side rests on, when the bus waits for a callback that runs.
Answer(s) == {Reply(s), 0}
Taking    == {"SR_SLA_ACK", "SR_ARB_LOST_SLA_ACK", "SR_DATA_ACK"}
Giving    == {"ST_SLA_ACK", "ST_ARB_LOST_SLA_ACK", "ST_DATA_ACK"}

\* The transmit buffer holds the callback's bytes, and the index stays in it.
Transmits(s) == /\ Len(txBuffer[s]) = txLength[s] /\ txIndex[s] <= txLength[s]
                /\ \A i \in 1..Len(txBuffer[s]) : txBuffer[s][i] \in Answer(s)

Serves(s) ==
    /\ busy[s] => twint[s] = "none" /\ bus.slave # s
    /\ bus.slave = s => bus.phase \in {"Write", "Read"} /\ twint[s] \in Taking \cup Giving \cup {"none"}
    /\ twint[s] \in Taking => bus.slave = s /\ bus.phase = "Write"
    /\ twint[s] \in Giving => bus.slave = s /\ bus.phase = "Read"
    /\ twint[s] = "ST_DATA_ACK" => txIndex[s] < txLength[s]
    /\ bus.slave = s /\ bus.phase = "Read" /\ twint[s] = "none" =>
          twdr[s] \in Answer(s) /\ ea[s] = (txIndex[s] < txLength[s])

SlavesInv == /\ \A s \in Node : Transmits(s)
             /\ \A s \in Node \ Master : Serves(s)
             /\ bus.phase # "Free" => bus.masters # {}

\* After power-up.
LEMMA SlavesInit == ASSUME Init PROVE SlavesInv
<1>1. ASSUME NEW s \in Node PROVE Transmits(s) /\ Serves(s)
  <2>1. s # 0 /\ Len(<<>>) = 0  BY NodeAssumption
  <2> QED  BY <2>1 DEF Init, BusInit, TwiInit, Free, Transmits, Serves, Taking, Giving
<1> QED  BY <1>1 DEF Init, BusInit, Free, SlavesInv

\* A node's step leaves what the other slaves are doing alone.
LEMMA ElsewhereServes ==
  ASSUME MastersInv, SlavesInv, NEW n \in Node, Elsewhere(n), NEW m \in Node \ {n}
  PROVE  Transmits(m)' /\ (m \notin Master => Serves(m)')
<1>1. Kept(m) /\ Told(m) /\ Leaves(n)  BY DEF Elsewhere
<1>2. Transmits(m)'  BY <1>1 DEF SlavesInv, Transmits, Kept
<1>3. ASSUME m \notin Master PROVE Serves(m)'
  <2>1. Serves(m) /\ m # 0  BY <1>3, NodeAssumption DEF SlavesInv
  <2>2. CASE bus' = bus
    <3>1. twint'[m] = twint[m]  BY <1>1, <2>1, <2>2 DEF Told, Serves, Free
    <3> QED  BY <1>1, <2>1, <2>2, <3>1 DEF Kept, Serves
  <2>3. CASE Frees(n)
    <3>1. bus'.slave # m  BY <2>1, <2>3 DEF Frees, Free
    <3>2. twint'[m] \notin Taking \cup Giving
      BY <1>1, <2>1, <2>3 DEF Told, Frees, Serves, Taking, Giving
    <3>3. busy'[m] => twint'[m] = "none"  BY <1>1, <2>1 DEF Kept, Told, Serves
    <3> QED  BY <3>1, <3>2, <3>3 DEF Serves, Giving
  <2>4. CASE bus.masters # {n} /\ bus' = [bus EXCEPT !.masters = @ \ {n}]
    <3>1. bus'.slave = bus.slave /\ bus'.phase = bus.phase
      BY <2>4 DEF MastersInv, Types, BusTypes
    <3>2. twint'[m] = twint[m]
      BY <1>1, <2>1, <3>1 DEF Told, Free
    <3> QED  BY <1>1, <2>1, <3>1, <3>2 DEF Kept, Serves
  <2> QED  BY <1>1, <2>2, <2>3, <2>4 DEF Leaves
<1> QED  BY <1>2, <1>3

\* Somebody is master while the bus is in use.
LEMMA LeavesOne ==
  ASSUME MastersInv, SlavesInv, NEW n \in Node, Leaves(n), bus'.phase # "Free"
  PROVE  bus'.masters # {}
<1>1. CASE bus' = bus  BY <1>1 DEF SlavesInv
<1>2. CASE Frees(n)  BY <1>2 DEF Frees, Free
<1>3. CASE bus.masters # {n} /\ bus' = [bus EXCEPT !.masters = @ \ {n}]
  <2>1. bus'.masters = bus.masters \ {n} /\ bus'.phase = bus.phase
    BY <1>3 DEF MastersInv, Types, BusTypes
  <2> QED  BY <1>3, <2>1 DEF SlavesInv
<1> QED  BY <1>1, <1>2, <1>3 DEF Leaves

\* So a step owes only its own node's part.
LEMMA SlaveStepKeeps ==
  ASSUME MastersInv, SlavesInv, NEW n \in Node, Elsewhere(n), Transmits(n)',
         n \notin Master => Serves(n)'
  PROVE  SlavesInv'
<1>1. \A m \in Node : Transmits(m)' /\ (m \notin Master => Serves(m)')
  BY ElsewhereServes
<1>2. bus'.phase # "Free" => bus'.masters # {}  BY LeavesOne DEF Elsewhere
<1> QED  BY <1>1, <1>2 DEF SlavesInv

\* A master's own steps leave the slave's buffers alone.
LEMMA MasterLeavesBuffers ==
  ASSUME MastersInv, NEW n \in Node, CallStep(n) \/ SketchStep(n) \/ (n \in Master /\ IsrStep(n))
  PROVE  UNCHANGED slaveVars
<1>1. CASE CallStep(n)
  BY <1>1 DEF CallStep, TestReady, Claim, SendStart, endTransmissionReturns, requestFromCopies,
              requestFromReturns, Waited
<1>2. CASE SketchStep(n)
  BY <1>2
  DEF SketchStep, beginTransmission, send, endTransmission, requestFrom, receiveAll, twiVars
<1>3. CASE n \in Master /\ IsrStep(n)
  <2>1. ~busy[n]  BY <1>3 DEF MastersInv, NodeInv, MasterInv
  <2>2. twint[n] \notin {"SR_SLA_ACK", "SR_ARB_LOST_SLA_ACK", "SR_DATA_ACK", "SR_DATA_NACK",
                         "SR_STOP", "ST_SLA_ACK", "ST_ARB_LOST_SLA_ACK", "ST_DATA_ACK",
                         "ST_DATA_NACK", "ST_LAST_DATA"}
    BY <1>3, Served
  <2>3. ~SlaveReceives(n) /\ ~SlaveRequested(n)
    BY <2>2 DEF SlaveReceives, IsrSlaveStop, SlaveRequested, onRequestService, IsrSlaveRequest,
                Interrupt
  <2>4. IsrStart(n) \/ IsrTransmit(n) \/ IsrFailed(n) \/ IsrArbLost(n)
          \/ IsrReceive(n) \/ IsrReceived(n)
    BY <1>3, <2>1, <2>2, <2>3
    DEF IsrStep, Isr, IsrSlaveAddressed, IsrSlaveData, IsrSlaveRefused, IsrSlaveRelease,
        IsrSlaveSend, IsrSlaveSent, Interrupt
  <2> QED  BY <2>4 DEF IsrStart, IsrTransmit, IsrFailed, IsrArbLost, IsrReceive, IsrReceived,
                       twiVars
<1> QED  BY <1>1, <1>2, <1>3

\* A slave's interrupt, case after case: TW_BUS_ERROR.
LEMMA ServeFailed ==
  ASSUME Apart, MastersInv, SlavesInv, NEW n \in Node \ Master, IsrFailed(n)
  PROVE  Transmits(n)' /\ Serves(n)'
<1>1. /\ twint[n] = "BUS_ERROR" /\ ~busy[n] /\ WriteStop(n) /\ BusTypes
      /\ UNCHANGED <<busy, slaveVars>>
  BY DEF IsrFailed, Interrupt, twi_stop, MastersInv, Types, NodeInv, OtherInv, SlaveStatuses
<1>2. Serves(n) /\ Transmits(n)  BY DEF SlavesInv
<1>3. bus.slave # n /\ n # 0  BY <1>1, <1>2, NodeAssumption DEF Serves, Taking, Giving
<1>4. bus'.slave # n
  <2>1. bus'.slave \in {bus.slave, 0}
    BY <1>1, StopTypes DEF Leaves, Frees, Free, BusTypes
  <2> QED  BY <1>3, <2>1
<1>5. twint'[n] = "none"  BY <1>1, StopTypes
<1>6. Transmits(n)'  BY <1>1, <1>2 DEF Transmits, slaveVars
<1> QED  BY <1>1, <1>4, <1>5, <1>6 DEF Serves, Taking, Giving

\* SR_STOP up to the callback.
LEMMA ServeReceives ==
  ASSUME Apart, MastersInv, SlavesInv, NEW n \in Node \ Master, SlaveReceives(n)
  PROVE  Transmits(n)' /\ Serves(n)'
<1>1. twint[n] = "SR_STOP" /\ WriteStop(n) /\ BusTypes /\ UNCHANGED slaveVars
  BY DEF SlaveReceives, IsrSlaveStop, Interrupt, twi_stop, MastersInv, Types
<1>2. Serves(n) /\ Transmits(n)  BY DEF SlavesInv
<1>3. bus.slave # n /\ n # 0  BY <1>1, <1>2, NodeAssumption DEF Serves, Taking, Giving
<1>4. bus'.slave # n
  <2>1. bus'.slave \in {bus.slave, 0}
    BY <1>1, StopTypes DEF Leaves, Frees, Free, BusTypes
  <2> QED  BY <1>3, <2>1
<1>5. twint'[n] = "none"  BY <1>1, StopTypes
<1>6. Transmits(n)'  BY <1>1, <1>2 DEF Transmits, slaveVars
<1> QED  BY <1>4, <1>5, <1>6 DEF Serves, Taking, Giving

\* SR_SLA_ACK, SR_ARB_LOST_SLA_ACK.
LEMMA ServeAddressed ==
  ASSUME MastersInv, SlavesInv, NEW n \in Node \ Master, IsrSlaveAddressed(n)
  PROVE  Transmits(n)' /\ Serves(n)'
<1>1. /\ twint[n] \in {"SR_SLA_ACK", "SR_ARB_LOST_SLA_ACK"} /\ ~busy[n]
      /\ WriteTWCR(n, FALSE, TRUE) /\ bus' = bus /\ BusTypes
      /\ UNCHANGED <<busy, txBuffer, txIndex, txLength>>
  BY DEF IsrSlaveAddressed, Interrupt, twi_reply, MastersInv, Types
<1>2. Serves(n) /\ Transmits(n)  BY DEF SlavesInv
<1>3. twint'[n] = "none"  BY <1>1, ReplyTypes
<1>4. bus.phase = "Write"  BY <1>1, <1>2 DEF Serves, Taking
<1>5. Transmits(n)'  BY <1>1, <1>2 DEF Transmits
<1> QED  BY <1>1, <1>3, <1>4, <1>5 DEF Serves, Taking, Giving

\* SR_DATA_ACK.
LEMMA ServeData ==
  ASSUME MastersInv, SlavesInv, NEW n \in Node \ Master, IsrSlaveData(n)
  PROVE  Transmits(n)' /\ Serves(n)'
<1> DEFINE room == Len(rxBuffer[n]) < TWI_BUFFER_LENGTH[n]
<1>1. /\ twint[n] = "SR_DATA_ACK" /\ ~busy[n]
      /\ WriteTWCR(n, FALSE, room) /\ bus' = bus /\ BusTypes
      /\ UNCHANGED <<busy, txBuffer, txIndex, txLength>>
  BY DEF IsrSlaveData, Interrupt, twi_reply, MastersInv, Types
<1>2. Serves(n) /\ Transmits(n)  BY DEF SlavesInv
<1>3. twint'[n] = "none"  BY <1>1 DEF WriteTWCR, BusTypes
<1>4. bus.phase = "Write"  BY <1>1, <1>2 DEF Serves, Taking
<1>5. Transmits(n)'  BY <1>1, <1>2 DEF Transmits
<1> QED  BY <1>1, <1>3, <1>4, <1>5 DEF Serves, Taking, Giving

\* SR_DATA_NACK.
LEMMA ServeRefused ==
  ASSUME MastersInv, SlavesInv, NEW n \in Node \ Master, IsrSlaveRefused(n)
  PROVE  Transmits(n)' /\ Serves(n)'
<1>1. /\ twint[n] = "SR_DATA_NACK" /\ ~busy[n]
      /\ WriteTWCR(n, FALSE, FALSE) /\ bus' = bus /\ BusTypes
      /\ UNCHANGED <<busy, txBuffer, txIndex, txLength>>
  BY DEF IsrSlaveRefused, Interrupt, twi_reply, MastersInv, Types, twiVars, slaveVars
<1>2. Serves(n) /\ Transmits(n)  BY DEF SlavesInv
<1>3. twint'[n] = "none"  BY <1>1, ReplyTypes
<1>4. bus.slave # n  BY <1>1, <1>2 DEF Serves, Taking, Giving
<1>5. Transmits(n)'  BY <1>1, <1>2 DEF Transmits
<1> QED  BY <1>1, <1>3, <1>4, <1>5 DEF Serves, Taking, Giving

\* SR_STOP after the callback: nobody was addressing the slave meanwhile.
LEMMA ServeRelease ==
  ASSUME MastersInv, SlavesInv, NEW n \in Node \ Master, IsrSlaveRelease(n)
  PROVE  Transmits(n)' /\ Serves(n)'
<1>1. /\ busy[n] /\ WriteTWCR(n, FALSE, TRUE) /\ bus' = bus /\ BusTypes
      /\ UNCHANGED <<txBuffer, txIndex, txLength>>
  BY DEF IsrSlaveRelease, twi_releaseBus, MastersInv, Types
<1>2. Serves(n) /\ Transmits(n)  BY DEF SlavesInv
<1>3. twint'[n] = "none"  BY <1>1, ReplyTypes
<1>4. bus.slave # n  BY <1>1, <1>2 DEF Serves
<1>5. Transmits(n)'  BY <1>1, <1>2 DEF Transmits
<1> QED  BY <1>1, <1>3, <1>4, <1>5 DEF Serves, Taking, Giving

\* ST_DATA_ACK: there is a byte left, and it is the callback's.
LEMMA ServeSend ==
  ASSUME MastersInv, SlavesInv, NEW n \in Node \ Master, IsrSlaveSend(n)
  PROVE  Transmits(n)' /\ Serves(n)'
<1> DEFINE more == txIndex[n] + 1 < txLength[n]
<1>1. /\ twint[n] = "ST_DATA_ACK" /\ ~busy[n]
      /\ WriteTWCR(n, FALSE, more) /\ bus' = bus
      /\ twdr' = [twdr EXCEPT ![n] = TxByte(txBuffer[n], txIndex[n])]
      /\ txIndex' = [txIndex EXCEPT ![n] = txIndex[n] + 1]
      /\ UNCHANGED <<busy, txBuffer, txLength>>
  BY DEF IsrSlaveSend, Interrupt, twi_reply, Set
<1>2. BusTypes /\ TwiTypes  BY DEF MastersInv, Types
<1>3. Serves(n) /\ Transmits(n)  BY DEF SlavesInv
<1>4. /\ twint'[n] = "none" /\ ea'[n] = more
  BY <1>1, <1>2 DEF WriteTWCR, BusTypes
<1>5. /\ txIndex[n] \in Nat /\ txLength[n] \in Nat /\ txIndex[n] < txLength[n]
      /\ Len(txBuffer[n]) = txLength[n] /\ txBuffer[n] \in Seq(Bytes)
  BY <1>1, <1>2, <1>3 DEF TwiTypes, Buffers, Serves, Transmits
<1>6. twdr'[n] \in Answer(n) /\ txIndex'[n] = txIndex[n] + 1
  <2>1. txIndex[n] + 1 \in 1..Len(txBuffer[n])  BY <1>5
  <2>2. TxByte(txBuffer[n], txIndex[n]) = txBuffer[n][txIndex[n] + 1]  BY <1>5 DEF TxByte
  <2>3. txBuffer[n][txIndex[n] + 1] \in Answer(n)  BY <1>3, <2>1 DEF Transmits
  <2> QED  BY <1>1, <1>2, <2>2, <2>3 DEF BusTypes, TwiTypes
<1>7. Transmits(n)'
  <2>1. txIndex[n] + 1 <= txLength[n]  BY <1>5
  <2> QED  BY <1>1, <1>3, <1>6, <2>1 DEF Transmits
<1>8. ea'[n] = (txIndex'[n] < txLength'[n])  BY <1>1, <1>4, <1>6
<1>9. Serves(n)'
  BY <1>1, <1>3, <1>4, <1>6, <1>8 DEF Serves, Taking, Giving, Answer
<1> QED  BY <1>7, <1>9

\* ST_DATA_NACK, ST_LAST_DATA.
LEMMA ServeSent ==
  ASSUME MastersInv, SlavesInv, NEW n \in Node \ Master, IsrSlaveSent(n)
  PROVE  Transmits(n)' /\ Serves(n)'
<1>1. /\ twint[n] \in {"ST_DATA_NACK", "ST_LAST_DATA"} /\ ~busy[n]
      /\ WriteTWCR(n, FALSE, TRUE) /\ bus' = bus /\ BusTypes
      /\ txBuffer' = [txBuffer EXCEPT ![n] = <<>>]
      /\ txIndex' = [txIndex EXCEPT ![n] = 0] /\ txLength' = [txLength EXCEPT ![n] = 0]
      /\ UNCHANGED busy
  BY DEF IsrSlaveSent, Interrupt, twi_reply, Set, MastersInv, Types
<1>2. Serves(n)  BY DEF SlavesInv
<1>3. twint'[n] = "none"  BY <1>1, ReplyTypes
<1>4. bus.slave # n  BY <1>1, <1>2 DEF Serves, Taking, Giving
<1>5. txBuffer'[n] = <<>> /\ txIndex'[n] = 0 /\ txLength'[n] = 0 /\ Len(<<>>) = 0
  BY <1>1 DEF MastersInv, Types, TwiTypes, Buffers
<1>6. Transmits(n)'  BY <1>5 DEF Transmits
<1> QED  BY <1>1, <1>3, <1>4, <1>6 DEF Serves, Taking, Giving

\* ST_SLA_ACK, ST_ARB_LOST_SLA_ACK: the first byte is the callback's, or the zero.
LEMMA ServeRequested ==
  ASSUME Apart, MastersInv, SlavesInv, NEW n \in Node \ Master, SlaveRequested(n)
  PROVE  Transmits(n)' /\ Serves(n)'
<1>1. PICK reply \in Seq({Reply(n)}) :
        Len(reply) <= TWI_BUFFER_LENGTH[n] /\ IsrSlaveRequest(n, reply)
  BY Requested
<1> DEFINE bytes == IF reply = <<>> THEN <<0>> ELSE reply
           more == 1 < Len(bytes)
<1>2. /\ twint[n] \in {"ST_SLA_ACK", "ST_ARB_LOST_SLA_ACK"} /\ ~busy[n]
      /\ txBuffer' = [txBuffer EXCEPT ![n] = bytes]
      /\ txLength' = [txLength EXCEPT ![n] = Len(bytes)]
      /\ txIndex' = [txIndex EXCEPT ![n] = 1]
      /\ twdr' = [twdr EXCEPT ![n] = TxByte(bytes, 0)]
      /\ WriteTWCR(n, FALSE, more) /\ bus' = bus
      /\ UNCHANGED busy
  BY <1>1, Zenon DEF IsrSlaveRequest, Interrupt, twi_reply, Set
<1>3. BusTypes /\ TwiTypes  BY DEF MastersInv, Types
<1>4. Serves(n)  BY DEF SlavesInv
<1>5. bytes \in Seq(Answer(n)) /\ Len(bytes) \in Nat /\ Len(bytes) >= 1
  <2>1. reply \in Seq(Answer(n)) /\ Len(reply) \in Nat  BY DEF Answer
  <2>2. <<0>> \in Seq(Answer(n)) /\ Len(<<0>>) = 1  BY DEF Answer
  <2>3. reply # <<>> => Len(reply) >= 1  BY <2>1
  <2> QED  BY <2>1, <2>2, <2>3
<1> HIDE DEF bytes
<1>6. /\ \A i \in 1..Len(bytes) : bytes[i] \in Answer(n)
      /\ TxByte(bytes, 0) \in Answer(n)
  <2>1. \A i \in 1..Len(bytes) : bytes[i] \in Answer(n)  BY <1>5
  <2>2. 1 \in 1..Len(bytes) /\ 0 < Len(bytes)  BY <1>5
  <2>3. TxByte(bytes, 0) = bytes[0 + 1]  BY <2>2 DEF TxByte
  <2> QED  BY <2>1, <2>2, <2>3
<1>7. twint'[n] = "none" /\ ea'[n] = more  BY <1>2, <1>3 DEF WriteTWCR, BusTypes
<1>8. /\ txBuffer'[n] = bytes /\ txIndex'[n] = 1 /\ txLength'[n] = Len(bytes)
      /\ twdr'[n] = TxByte(bytes, 0)
  <2>1. txBuffer'[n] = bytes  BY <1>2, <1>3 DEF TwiTypes, Buffers
  <2> QED  BY <1>2, <1>3, <2>1 DEF BusTypes, TwiTypes
<1>9. Transmits(n)'  BY <1>5, <1>6, <1>8 DEF Transmits, Answer, Reply
<1>10. Serves(n)'
  BY <1>2, <1>4, <1>6, <1>7, <1>8 DEF Serves, Taking, Giving, Answer, Reply
<1> QED  BY <1>9, <1>10

\* Every case of a slave's interrupt.
LEMMA IsrServes ==
  ASSUME Apart, MastersInv, SlavesInv, NEW n \in Node \ Master, IsrStep(n)
  PROVE  Transmits(n)' /\ Serves(n)'
<1>1. ~(IsrStart(n) \/ IsrTransmit(n) \/ IsrArbLost(n) \/ IsrReceive(n) \/ IsrReceived(n))
  BY DEF IsrStart, IsrTransmit, IsrArbLost, IsrReceive, IsrReceived, Interrupt,
         MastersInv, NodeInv, OtherInv, SlaveStatuses
<1> QED  BY <1>1, ServeFailed, ServeReceives, ServeAddressed, ServeData, ServeRefused,
            ServeRelease, ServeSend, ServeSent, ServeRequested
         DEF IsrStep, Isr

-----------------------------------------------------------------------------
\* The bus leaves the buffers alone.
LEMMA BusServes ==
  ASSUME SlavesInv, UNCHANGED twiVars, bus'.phase # "Free" => bus'.masters # {},
         \A s \in Node \ Master : Serves(s)'
  PROVE  SlavesInv'
<1>1. ASSUME NEW s \in Node PROVE Transmits(s)'
  BY DEF SlavesInv, Transmits, twiVars, slaveVars
<1> QED  BY <1>1 DEF SlavesInv

\* The bus, step after step: a START addresses nobody yet.
LEMMA ServeStart ==
  ASSUME MastersInv, SlavesInv, Start, UNCHANGED <<twiVars, wireVars>>
  PROVE  SlavesInv'
<1>1. PICK M \in SUBSET {n \in Node : sta[n] /\ twint[n] = "none"} :
        /\ M # {}
        /\ bus' = [Free EXCEPT !.phase = "Address", !.masters = M]
        /\ Raise([n \in M |-> "START"])
  BY DEF Start
<1>2. twint' = [n \in Node |-> IF n \in M THEN "START" ELSE twint[n]]
  BY <1>1 DEF Raise
<1>3. bus' = [phase |-> "Address", masters |-> M, slave |-> 0]  BY <1>1 DEF Free
<1>4. bus.phase = "Free" /\ UNCHANGED <<sta, ea, twdr, busy>>  BY DEF Start
<1>5. M \subseteq Master  BY DEF MastersInv, NodeInv, OtherInv
<1>6. ASSUME NEW s \in Node \ Master PROVE Serves(s)'
  <2>1. Serves(s) /\ s # 0  BY NodeAssumption DEF SlavesInv
  <2>2. twint'[s] = twint[s] /\ bus'.slave # s  BY <1>2, <1>3, <1>5, <2>1
  <2> QED  BY <1>4, <2>1, <2>2 DEF Serves, Giving
<1> QED  BY <1>1, <1>3, <1>6, BusServes

\* The address byte finds a slave that is not in its callback.
LEMMA ServeAddress ==
  ASSUME Apart, ~SlowCallback, MastersInv, SlavesInv, Address, UNCHANGED <<twiVars, wireVars>>
  PROVE  SlavesInv'
<1> DEFINE read  == OnWire % 2 = 1
           slave == {s \in Slave \ Winners : s = OnWire \div 2 /\ ea[s]}
           acks  == slave # {} \/ OnWire \div 2 \in Device
           lost  == bus.masters \ Winners
           MasterStatus == IF read THEN IF acks THEN "MR_SLA_ACK" ELSE "MR_SLA_NACK"
                                   ELSE IF acks THEN "MT_SLA_ACK" ELSE "MT_SLA_NACK"
           SlaveStatus(s) ==
             IF read THEN IF s \in lost THEN "ST_ARB_LOST_SLA_ACK" ELSE "ST_SLA_ACK"
                     ELSE IF s \in lost THEN "SR_ARB_LOST_SLA_ACK" ELSE "SR_SLA_ACK"
           status == [n \in bus.masters \cup slave |->
                        IF n \in Winners THEN MasterStatus
                        ELSE IF n \in slave THEN SlaveStatus(n) ELSE "ARB_LOST"]
<1>1. /\ bus.phase = "Address" /\ Clocked
      /\ \A s \in slave : twint[s] = "none" /\ (SlowCallback \/ ~busy[s])
      /\ Raise(status)
      /\ bus' = [phase |-> IF read THEN "Read" ELSE "Write", masters |-> Winners,
                 slave |-> IF acks THEN OnWire \div 2 ELSE 0]
      /\ UNCHANGED <<sta, ea, busy>>
  BY Zenon DEF Address
<1>2. BusTypes  BY DEF MastersInv, Types
<1>3. bus.masters \subseteq Master /\ bus.masters # {}  BY <1>1, <1>2 DEF Clocked, BusTypes
<1>4. Winners # {} /\ Winners \subseteq bus.masters  BY <1>2, <1>3, WireByte DEF Winners
<1>5. \A s \in Node \ Master :
        /\ s \in slave => twint'[s] = SlaveStatus(s)
        /\ s \notin slave => twint'[s] = twint[s]
  BY <1>1, <1>3, <1>4, Zenon DEF Raise
<1>6. /\ bus'.phase = IF read THEN "Read" ELSE "Write"
      /\ bus'.masters = Winners
      /\ bus'.slave = IF acks THEN OnWire \div 2 ELSE 0
  BY <1>1
<1>7. ASSUME NEW s \in Node \ Master PROVE Serves(s)'
  <2>1. Serves(s) /\ s # 0 /\ s \notin Device
    BY NodeAssumption, DeviceAssumption DEF SlavesInv
  <2>2. bus.slave # s /\ twint[s] \notin Taking \cup Giving
    BY <1>1, <2>1 DEF Serves
  <2>3. CASE s \in slave
    <3>1. ~busy'[s]  BY <1>1, <2>3
    <3>2. twint'[s] = SlaveStatus(s) /\ bus'.slave = s  BY <1>5, <1>6, <2>3
    <3> HIDE DEF slave, acks, lost, read
    <3>3. read => twint'[s] \in {"ST_SLA_ACK", "ST_ARB_LOST_SLA_ACK"} /\ bus'.phase = "Read"
      BY <1>6, <3>2
    <3>4. ~read => twint'[s] \in {"SR_SLA_ACK", "SR_ARB_LOST_SLA_ACK"} /\ bus'.phase = "Write"
      BY <1>6, <3>2
    <3> QED  BY <3>1, <3>2, <3>3, <3>4 DEF Serves, Taking, Giving
  <2>4. CASE s \notin slave
    <3>1. twint'[s] = twint[s]  BY <1>5, <2>4
    <3>2. bus'.slave # s
      <4>1. acks /\ OnWire \div 2 = s => s \in slave  BY <2>1
      <4> HIDE DEF acks, slave
      <4> QED  BY <1>6, <2>1, <2>4, <4>1
    <3> QED  BY <1>1, <2>1, <2>2, <3>1, <3>2 DEF Serves, Giving
  <2> QED  BY <2>3, <2>4
<1> QED  BY <1>4, <1>6, <1>7, BusServes

\* A byte for the slave.
LEMMA ServeWriteByte ==
  ASSUME Apart, MastersInv, SlavesInv, WriteByte, UNCHANGED <<twiVars, wireVars>>
  PROVE  SlavesInv'
<1> DEFINE slave == {bus.slave} \cap Node
           acks  == bus.slave \in Device \/ \E s \in slave : ea[s]
<1>1. /\ bus.phase = "Write" /\ Clocked
      /\ Raise([n \in bus.masters \cup slave |->
                  IF n \in slave THEN IF acks THEN "SR_DATA_ACK" ELSE "SR_DATA_NACK"
                  ELSE IF n \notin Winners THEN "ARB_LOST"
                  ELSE IF acks THEN "MT_DATA_ACK" ELSE "MT_DATA_NACK"])
      /\ bus' = [bus EXCEPT !.masters = Winners, !.slave = IF acks THEN @ ELSE 0]
      /\ UNCHANGED <<sta, ea, busy>>
  BY Zenon DEF WriteByte
<1>2. BusTypes  BY DEF MastersInv, Types
<1>3. bus.masters \subseteq Master /\ bus.masters # {}  BY <1>1, <1>2 DEF Clocked, BusTypes
<1>4. Winners # {}  BY <1>2, <1>3, WireByte DEF Winners
<1>5. \A s \in Node \ Master :
        /\ s \in slave => twint'[s] = IF acks THEN "SR_DATA_ACK" ELSE "SR_DATA_NACK"
        /\ s \notin slave => twint'[s] = twint[s]
  BY <1>1, <1>3, Zenon DEF Raise
<1>6. bus'.phase = "Write" /\ bus'.masters = Winners /\ bus'.slave = IF acks THEN bus.slave ELSE 0
  BY <1>1, <1>2 DEF BusTypes
<1> HIDE DEF acks
<1>7. ASSUME NEW s \in Node \ Master PROVE Serves(s)'
  <2>1. Serves(s) /\ s # 0  BY NodeAssumption DEF SlavesInv
  <2>2. CASE bus.slave = s
    <3>1. twint'[s] = IF acks THEN "SR_DATA_ACK" ELSE "SR_DATA_NACK"  BY <1>5, <2>2
    <3>2. ~busy'[s]  BY <1>1, <2>1, <2>2 DEF Serves
    <3>3. CASE acks
      BY <1>6, <2>2, <3>1, <3>2, <3>3 DEF Serves, Taking, Giving
    <3>4. CASE ~acks
      BY <1>6, <2>1, <3>1, <3>2, <3>4 DEF Serves, Taking, Giving
    <3> QED  BY <3>3, <3>4
  <2>3. CASE bus.slave # s
    <3>1. twint'[s] = twint[s] /\ bus'.slave # s  BY <1>5, <1>6, <2>1, <2>3
    <3>2. twint[s] \notin Taking \cup Giving  BY <2>1, <2>3 DEF Serves
    <3> QED  BY <1>1, <2>1, <3>1, <3>2 DEF Serves, Giving
  <2> QED  BY <2>2, <2>3
<1> QED  BY <1>4, <1>6, <1>7, BusServes

\* A byte from the slave: ST_DATA_ACK comes only while it has another.
LEMMA ServeReadByte ==
  ASSUME Apart, MastersInv, SlavesInv, ReadByte, UNCHANGED <<twiVars, wireVars>>
  PROVE  SlavesInv'
<1> DEFINE slave  == {bus.slave} \cap Node
           acking == {m \in bus.masters : ea[m]}
           heard  == IF acking # {} THEN acking ELSE bus.masters
           last   == acking = {} \/ \E s \in slave : ~ea[s]
<1>1. /\ bus.phase = "Read" /\ Clocked
      /\ Raise([n \in bus.masters \cup slave |->
                  IF n \in slave
                  THEN IF acking = {} THEN "ST_DATA_NACK"
                       ELSE IF ea[n] THEN "ST_DATA_ACK" ELSE "ST_LAST_DATA"
                  ELSE IF n \notin heard THEN "ARB_LOST"
                  ELSE IF acking # {} THEN "MR_DATA_ACK" ELSE "MR_DATA_NACK"])
      /\ bus' = [bus EXCEPT !.masters = heard, !.slave = IF last THEN 0 ELSE @]
      /\ UNCHANGED <<sta, ea, busy>>
  BY Zenon DEF ReadByte
<1>2. BusTypes  BY DEF MastersInv, Types
<1>3. bus.masters \subseteq Master /\ bus.masters # {}  BY <1>1, <1>2 DEF Clocked, BusTypes
<1>4. heard # {}  BY <1>3
<1>5. \A s \in Node \ Master :
        /\ s \in slave => twint'[s] = IF acking = {} THEN "ST_DATA_NACK"
                                      ELSE IF ea[s] THEN "ST_DATA_ACK" ELSE "ST_LAST_DATA"
        /\ s \notin slave => twint'[s] = twint[s]
  BY <1>1, <1>3, Zenon DEF Raise
<1>6. bus'.phase = "Read" /\ bus'.masters = heard /\ bus'.slave = IF last THEN 0 ELSE bus.slave
  BY <1>1, <1>2 DEF BusTypes
<1> HIDE DEF acking, heard
<1>7. ASSUME NEW s \in Node \ Master PROVE Serves(s)'
  <2>1. Serves(s) /\ s # 0  BY NodeAssumption DEF SlavesInv
  <2>2. CASE bus.slave = s
    <3>1. twint'[s] = IF acking = {} THEN "ST_DATA_NACK"
                      ELSE IF ea[s] THEN "ST_DATA_ACK" ELSE "ST_LAST_DATA"
      BY <1>5, <2>2
    <3>2. ~busy'[s] /\ twint[s] = "none"
      BY <1>1, <2>1, <2>2 DEF Serves, Clocked, Participants
    <3>3. last <=> (acking = {} \/ ~ea[s])  BY <2>2
    <3> HIDE DEF last
    <3>4. CASE last
      <4>1. twint'[s] \in {"ST_DATA_NACK", "ST_LAST_DATA"} /\ bus'.slave = 0
        BY <1>6, <3>1, <3>3, <3>4
      <4> QED  BY <2>1, <3>2, <4>1 DEF Serves, Taking, Giving
    <3>5. CASE ~last
      <4>1. twint'[s] = "ST_DATA_ACK" /\ bus'.slave = s /\ ea[s]
        BY <1>6, <2>2, <3>1, <3>3, <3>5
      <4>2. txIndex'[s] < txLength'[s]
        BY <1>1, <2>1, <2>2, <3>2, <4>1 DEF Serves, twiVars, slaveVars
      <4> QED  BY <1>6, <3>2, <4>1, <4>2 DEF Serves, Taking, Giving
    <3> QED  BY <3>4, <3>5
  <2>3. CASE bus.slave # s
    <3>1. twint'[s] = twint[s] /\ bus'.slave # s  BY <1>5, <1>6, <2>1, <2>3
    <3>2. twint[s] \notin Taking \cup Giving  BY <2>1, <2>3 DEF Serves
    <3> QED  BY <1>1, <2>1, <3>1, <3>2 DEF Serves, Giving
  <2> QED  BY <2>2, <2>3
<1> QED  BY <1>4, <1>6, <1>7, BusServes

\* A bus error.
LEMMA ServeBusError ==
  ASSUME Apart, MastersInv, SlavesInv, BusError, UNCHANGED <<twiVars, wireVars>>
  PROVE  SlavesInv'
<1>1. /\ bus.phase \in {"Write", "Read"} /\ Clocked
      /\ twint' = [n \in Node |-> IF n \in Participants THEN "BUS_ERROR" ELSE twint[n]]
      /\ bus' = Free
      /\ UNCHANGED <<sta, ea, twdr, busy>>
  BY DEF BusError, Raise
<1>2. BusTypes  BY DEF MastersInv, Types
<1>3. bus'.masters = {} /\ bus'.phase = "Free" /\ bus'.slave = 0  BY <1>1 DEF Free
<1>4. ASSUME NEW s \in Node \ Master PROVE Serves(s)'
  <2>1. Serves(s) /\ s # 0  BY NodeAssumption DEF SlavesInv
  <2>2. CASE bus.slave = s
    <3>1. twint'[s] = "BUS_ERROR"  BY <1>1, <2>2 DEF Participants
    <3>2. ~busy'[s]  BY <1>1, <2>1, <2>2 DEF Serves
    <3> QED  BY <1>3, <2>1, <3>1, <3>2 DEF Serves, Taking, Giving
  <2>3. CASE bus.slave # s
    <3>1. s \notin Participants  BY <1>2, <2>3 DEF Participants, BusTypes
    <3>2. twint'[s] = twint[s]  BY <1>1, <3>1
    <3>3. twint[s] \notin Taking \cup Giving  BY <2>1, <2>3 DEF Serves
    <3> QED  BY <1>1, <1>3, <2>1, <3>2, <3>3 DEF Serves, Giving
  <2> QED  BY <2>2, <2>3
<1> QED  BY <1>3, <1>4, BusServes

\* A master is addressed by nobody, and its own steps serve nobody.
LEMMA SlavesKeep ==
  ASSUME Apart, ~SlowCallback, MastersInv, SlavesInv, [Next]_vars
  PROVE  SlavesInv'
<1>1. CASE BusStep
  BY <1>1, ServeStart, ServeAddress, ServeWriteByte, ServeReadByte, ServeBusError
  DEF BusStep, Bus
<1>2. ASSUME NEW n \in Node, CallStep(n) \/ SketchStep(n) PROVE SlavesInv'
  <2>1. Steps(n)
    BY <1>2, StepTestReady, StepClaim, StepSendStart, StepEndTransmissionReturns,
       StepRequestFromCopies, StepRequestFromReturns, StepBeginTransmission, StepSend,
       StepEndTransmission, StepRequestFrom, StepReceiveAll
    DEF CallStep, SketchStep
  <2>2. UNCHANGED slaveVars  BY <1>2, MasterLeavesBuffers
  <2>3. Transmits(n)'  BY <2>2 DEF SlavesInv, Transmits, slaveVars
  <2>4. n \in Master
    BY <1>2, Calling
    DEF CallStep, SketchStep, beginTransmission, send, endTransmission, requestFrom, receiveAll,
        InSketch, MastersInv, NodeInv, OtherInv, TestReady, Claim, SendStart,
        endTransmissionReturns, requestFromCopies, requestFromReturns, Waited
  <2> QED  BY <2>1, <2>3, <2>4, SlaveStepKeeps DEF Steps
<1>3. ASSUME NEW n \in Node, IsrStep(n) PROVE SlavesInv'
  <2>1. Elsewhere(n)  BY <1>3, IsrKeeps DEF Steps
  <2>2. CASE n \in Master
    <3>1. Transmits(n)'  BY <1>3, <2>2, MasterLeavesBuffers DEF SlavesInv, Transmits, slaveVars
    <3> QED  BY <2>1, <2>2, <3>1, SlaveStepKeeps
  <2>3. CASE n \notin Master
    BY <1>3, <2>1, <2>3, IsrServes, SlaveStepKeeps
  <2> QED  BY <2>2, <2>3
<1>4. CASE UNCHANGED vars
  <2>1. \A s \in Node : Transmits(s)'
    BY <1>4 DEF SlavesInv, Transmits, vars, twiVars, slaveVars
  <2>2. ASSUME NEW s \in Node \ Master PROVE Serves(s)'
    BY <1>4 DEF SlavesInv, Serves, vars, busVars, twiVars, slaveVars
  <2> QED  BY <1>4, <2>1, <2>2 DEF SlavesInv, vars, busVars
<1> QED  BY <1>1, <1>2, <1>3, <1>4 DEF Next

\* Every reachable state satisfies both invariants when the bus waits for a callback.
THEOREM SlavesInvariant == ASSUME Apart, ~SlowCallback PROVE Spec => [](MastersInv /\ SlavesInv)
<1>1. Init => MastersInv /\ SlavesInv  BY InitHolds, SlavesInit
<1>2. (MastersInv /\ SlavesInv) /\ [Next]_vars => (MastersInv /\ SlavesInv)'
  BY NextKeeps, SlavesKeep
<1> QED  BY <1>1, <1>2, PTL DEF Spec

-----------------------------------------------------------------------------
\* No call indexes past the end of twi_masterBuffer.
Indexed == \A n \in Node : masterIndex[n] <= TWI_BUFFER_LENGTH[n]

\* Only the claim and the master's interrupts move twi_masterBufferIndex.
LEMMA IndexedKeeps == ASSUME MastersInv, Indexed, [Next]_vars PROVE Indexed'
<1> USE DEF Indexed
<1>0. masterIndex \in [Node -> Nat] /\ masterLength \in [Node -> Nat]
  BY DEF MastersInv, Types, TwiTypes
<1>1. CASE UNCHANGED masterIndex  BY <1>1
<1>2. ASSUME NEW n \in Node, masterIndex' = [masterIndex EXCEPT ![n] = 0] PROVE Indexed'
  BY <1>0, <1>2, Capacity
<1>3. ASSUME NEW n \in Node, CallStep(n) PROVE Indexed'
  <2>1. UNCHANGED masterIndex \/ masterIndex' = [masterIndex EXCEPT ![n] = 0]
    BY <1>3
    DEF CallStep, TestReady, Claim, SendStart, endTransmissionReturns, requestFromCopies,
                requestFromReturns, Return, masterVars, Set
  <2> QED  BY <1>1, <1>2, <2>1
<1>4. ASSUME NEW n \in Node, IsrTransmit(n) \/ IsrReceive(n) \/ IsrReceived(n) PROVE Indexed'
  <2>1. twint[n] \in {"MT_SLA_ACK", "MT_DATA_ACK", "MR_SLA_ACK", "MR_DATA_ACK", "MR_SLA_NACK",
                      "MR_DATA_NACK"}
    BY <1>4 DEF IsrTransmit, IsrReceive, IsrReceived, Interrupt
  <2>2. n \in Master  BY <2>1 DEF MastersInv, NodeInv, OtherInv, SlaveStatuses
  <2>3. pc[n] = "Wait" /\ UnderWay(n) /\ MasterInv(n)
    BY <2>1, <2>2, Interrupted DEF MastersInv, NodeInv
  <2>4. /\ call[n].length \in Nat /\ TWI_BUFFER_LENGTH[n] \in Nat
        /\ masterIndex[n] \in Nat /\ masterLength[n] \in Nat
    BY Capacity DEF MastersInv, Types, TwiTypes, Calls
  <2>5. /\ Reads(n) => masterLength[n] + 1 <= TWI_BUFFER_LENGTH[n]
        /\ Writes(n) => masterLength[n] <= TWI_BUFFER_LENGTH[n]
    <3>1. call[n].length <= TWI_BUFFER_LENGTH[n]  BY <2>3 DEF MasterInv
    <3>2. masterLength[n] = IF Reads(n) THEN call[n].length - 1 ELSE call[n].length
      BY <2>3 DEF MasterInv
    <3>3. Reads(n) => ~Writes(n)  BY DEF Reads, Writes
    <3> QED  BY <2>4, <3>1, <3>2, <3>3
  <2>6. Writing(n) \/ Reading(n)
    BY <2>1, <2>3 DEF UnderWay, Starting, Addressing, Losing
  <2>7. \E k \in Nat : masterIndex' = [masterIndex EXCEPT ![n] = k] /\ k <= TWI_BUFFER_LENGTH[n]
    <3>1. CASE IsrTransmit(n)
      <4>1. Writes(n)
        BY <3>1, <2>6 DEF IsrTransmit, Interrupt, Writing, Reading
      <4>2. CASE masterIndex[n] < masterLength[n]
        <5>1. masterIndex[n] + 1 \in Nat /\ masterIndex[n] + 1 <= TWI_BUFFER_LENGTH[n]
          BY <2>4, <2>5, <4>1, <4>2
        <5> QED  BY <3>1, <4>2, <5>1 DEF IsrTransmit, Set
      <4>3. CASE ~(masterIndex[n] < masterLength[n])
        BY <1>0, <2>4, <3>1, <4>3 DEF IsrTransmit
      <4> QED  BY <4>2, <4>3
    <3>2. CASE IsrReceive(n) \/ IsrReceived(n)
      <4>1. Reading(n)
        BY <3>2, <2>6 DEF IsrReceive, IsrReceived, Interrupt, Writing
      <4>2. masterIndex[n] <= masterLength[n] /\ Reads(n)  BY <4>1 DEF Reading
      <4>3. /\ masterIndex[n] + 1 \in Nat /\ masterIndex[n] + 1 <= TWI_BUFFER_LENGTH[n]
            /\ masterIndex[n] <= TWI_BUFFER_LENGTH[n] /\ masterIndex[n] + 0 = masterIndex[n]
        BY <2>4, <2>5, <4>2
      <4>4. \/ masterIndex' = [masterIndex EXCEPT ![n] = masterIndex[n] + 1]
            \/ masterIndex' = [masterIndex EXCEPT ![n] = masterIndex[n]]
        BY <1>0, <3>2, <4>3 DEF IsrReceive, IsrReceived, Set
      <4> QED  BY <2>4, <4>3, <4>4
    <3> QED  BY <1>4, <3>1, <3>2
  <2> QED  BY <1>0, <2>7
<1>5. ASSUME NEW n \in Node, IsrStep(n), ~(IsrTransmit(n) \/ IsrReceive(n) \/ IsrReceived(n))
      PROVE  UNCHANGED masterIndex
  BY <1>5 DEF IsrStep, Isr, IsrStart, IsrFailed, IsrArbLost, IsrSlaveAddressed, IsrSlaveData,
              IsrSlaveRefused, IsrSlaveRelease, IsrSlaveSend, IsrSlaveSent, SlaveReceives,
              IsrSlaveStop, SlaveRequested, onRequestService, IsrSlaveRequest, twiVars, masterVars
<1>6. ASSUME NEW n \in Node, SketchStep(n) PROVE UNCHANGED masterIndex
  BY <1>6 DEF SketchStep, beginTransmission, send, endTransmission, requestFrom, receiveAll,
              twiVars, masterVars
<1>7. CASE BusStep \/ UNCHANGED vars
  BY <1>7 DEF BusStep, vars, twiVars, masterVars
<1> QED  BY <1>1, <1>3, <1>4, <1>5, <1>6, <1>7 DEF Next

\* Types, and no index past the end of its buffer: twi.c stores and fetches inside
\* twi_masterBuffer, twi_txBuffer and twi_rxBuffer, Wire.cpp inside its two.
THEOREM TypeCorrect == ASSUME Apart, ~SlowCallback PROVE Spec => []TypeOK
<1>1. Init => Indexed
  BY Capacity DEF Init, TwiInit, Indexed
<1>2. MastersInv /\ Indexed /\ [Next]_vars => Indexed'  BY IndexedKeeps
<1>3. MastersInv /\ SlavesInv /\ Indexed => TypeOK
  <2> SUFFICES ASSUME MastersInv, SlavesInv, Indexed PROVE TypeOK
    OBVIOUS
  <2>1. /\ bus \in [phase : {"Free", "Address", "Write", "Read"},
                    masters : SUBSET Node, slave : Node \cup Device \cup {0}]
    BY NodeAssumption, SketchAssumption DEF MastersInv, Types, BusTypes
  <2>2. /\ twint \in [Node -> Statuses]
        /\ sta \in [Node -> BOOLEAN] /\ ea \in [Node -> BOOLEAN] /\ busy \in [Node -> BOOLEAN]
        /\ twdr \in [Node -> 0..255]
    BY DEF MastersInv, Types, BusTypes, Bytes
  <2>3. /\ twi_state \in [Node -> {"READY", "MRX", "MTX", "SRX", "STX"}]
        /\ twi_error \in [Node -> {"none", "SLA_NACK", "DATA_NACK", "ARB_LOST", "BUS_ERROR"}]
        /\ pc \in [Node -> {"Sketch", "TestReady", "Claim", "SendStart", "Wait", "SetIndices"}]
        /\ transmitting \in [Node -> BOOLEAN]
        /\ ret \in [Node -> [code : -1..4, sent : BOOLEAN]]
    BY DEF MastersInv, Types, TwiTypes, WireTypes, Stages
  <2>4. ASSUME NEW n \in Node
        PROVE  \A buffer \in {master[n], rxBuffer[n], txBuffer[n], txData[n], unread[n], copied[n]} :
                  Len(buffer) <= TWI_BUFFER_LENGTH[n]
    BY DEF MastersInv, NodeInv, Bounded
  <2>5. ASSUME NEW n \in Node
        PROVE  /\ masterIndex[n] <= TWI_BUFFER_LENGTH[n]
               /\ txIndex[n] <= TWI_BUFFER_LENGTH[n]
               /\ txFill[n] <= Len(txData[n])
    <3>1. txIndex[n] <= txLength[n] /\ txLength[n] <= TWI_BUFFER_LENGTH[n]
      BY DEF SlavesInv, Transmits, MastersInv, NodeInv, Bounded
    <3>2. txIndex[n] \in Nat /\ txLength[n] \in Nat /\ TWI_BUFFER_LENGTH[n] \in Nat
      BY Capacity DEF MastersInv, Types, TwiTypes
    <3>3. txIndex[n] <= TWI_BUFFER_LENGTH[n]  BY <3>1, <3>2
    <3> QED  BY <3>3 DEF Indexed, MastersInv, NodeInv, Bounded
  <2> QED  BY <2>1, <2>2, <2>3, <2>4, <2>5 DEF TypeOK
<1> QED  BY <1>1, <1>2, <1>3, SlavesInvariant, PTL DEF Spec

\* A master reads from a node only bytes its request callback gave, or the zero
\* the interrupt sends when the callback gave none.
THEOREM RepliesRead == ASSUME Apart, ~SlowCallback PROVE Spec => ReadsReply
<1> DEFINE Heard(n) == twint[n] = "none" /\ twint'[n] \in {"MR_DATA_ACK", "MR_DATA_NACK"}
                         /\ bus.slave \in Node
           A == \A n \in Node : Heard(n) => twdr'[n] \in {Reply(bus.slave), 0}
<1>1. ASSUME MastersInv, SlavesInv, [Next]_vars PROVE [A]_vars
  <2> SUFFICES ASSUME NEW n \in Node, Heard(n) PROVE twdr'[n] \in {Reply(bus.slave), 0}
    OBVIOUS
  <2>1. BusTypes  BY <1>1 DEF MastersInv, Types
  <2>2. ~UNCHANGED vars  BY DEF vars, busVars
  <2>3. ~(\E m \in Node : CallStep(m) \/ IsrStep(m) \/ SketchStep(m))
    <3>1. SUFFICES ASSUME NEW m \in Node, CallStep(m) \/ IsrStep(m) \/ SketchStep(m) PROVE FALSE
      OBVIOUS
    <3>2. Steps(m)
      BY <1>1, <3>1, IsrKeeps, StepTestReady, StepClaim, StepSendStart,
          StepEndTransmissionReturns,
         StepRequestFromCopies, StepRequestFromReturns, StepBeginTransmission, StepSend,
         StepEndTransmission, StepRequestFrom, StepReceiveAll
      DEF CallStep, SketchStep
    <3>3. m = n  BY <3>2 DEF Steps, Elsewhere, Told
    <3>4. CASE CallStep(m) \/ SketchStep(m)
      <4>1. UNCHANGED twint \/ SendStart(m)
        BY <3>4
        DEF CallStep, SketchStep, TestReady, Claim, endTransmissionReturns, requestFromCopies,
            requestFromReturns, Waited, beginTransmission, send, endTransmission, requestFrom,
            receiveAll, busVars
      <4>2. SendStart(m) => twint'[m] = "none"  BY <2>1 DEF SendStart, WriteTWCR, BusTypes
      <4> QED  BY <3>3, <4>1, <4>2
    <3>5. CASE IsrStep(m)
      <4>1. IsrSlaveRelease(m)
        BY <3>3, <3>5
        DEF IsrStep, Isr, IsrStart, IsrTransmit, IsrFailed, IsrArbLost, IsrReceive, IsrReceived,
            IsrSlaveAddressed, IsrSlaveData, IsrSlaveRefused, IsrSlaveSend, IsrSlaveSent,
            SlaveReceives, IsrSlaveStop, SlaveRequested, onRequestService, IsrSlaveRequest,
            Interrupt
      <4>2. twint'[m] = "none"
        BY <2>1, <4>1 DEF IsrSlaveRelease, twi_releaseBus, WriteTWCR, BusTypes
      <4> QED  BY <3>3, <4>2
    <3> QED  BY <3>1, <3>4, <3>5
  <2>4. BusStep  BY <1>1, <2>2, <2>3 DEF Next
  <2>5. ReadByte
    <3>1. ~Start
      <4>1. Start => twint'[n] \in {"START", "none"}  BY DEF Start, Raise
      <4> QED  BY <4>1
    <3>2. ~BusError
      <4>1. BusError => twint'[n] \in {"BUS_ERROR", "none"}  BY DEF BusError, Raise
      <4> QED  BY <4>1
    <3>3. ~WriteByte
      <4>1. WriteByte => twint'[n] \in {"SR_DATA_ACK", "SR_DATA_NACK", "ARB_LOST", "MT_DATA_ACK",
                                        "MT_DATA_NACK", "none"}
        BY DEF WriteByte, Raise
      <4> QED  BY <4>1
    <3>4. ~Address
      <4>1. Address => twint'[n] \in {"MR_SLA_ACK", "MR_SLA_NACK", "MT_SLA_ACK", "MT_SLA_NACK",
                 "ST_ARB_LOST_SLA_ACK", "ST_SLA_ACK", "SR_ARB_LOST_SLA_ACK", "SR_SLA_ACK",
                 "ARB_LOST", "none"}
        BY DEF Address, Raise
      <4> QED  BY <4>1
    <3> QED  BY <2>4, <3>1, <3>2, <3>3, <3>4 DEF BusStep, Bus
  <2> DEFINE slave  == {bus.slave} \cap Node
             byte   == IF bus.slave \in Device THEN DeviceByte
                       ELSE IF slave # {} THEN twdr[bus.slave] ELSE HighByte
             acking == {m \in bus.masters : ea[m]}
             heard  == IF acking # {} THEN acking ELSE bus.masters
  <2>6. /\ bus.phase = "Read" /\ Clocked
        /\ Raise([m \in bus.masters \cup slave |->
                    IF m \in slave
                    THEN IF acking = {} THEN "ST_DATA_NACK"
                         ELSE IF ea[m] THEN "ST_DATA_ACK" ELSE "ST_LAST_DATA"
                    ELSE IF m \notin heard THEN "ARB_LOST"
                    ELSE IF acking # {} THEN "MR_DATA_ACK" ELSE "MR_DATA_NACK"])
        /\ twdr' = [m \in Node |-> IF m \in heard THEN byte ELSE twdr[m]]
    BY <2>5, Zenon DEF ReadByte
  <2>7. n \in heard
    <3>1. n \notin heard => twint'[n] \in {"ST_DATA_NACK", "ST_DATA_ACK", "ST_LAST_DATA",
                                           "ARB_LOST", "none"}
      BY <2>6 DEF Raise
    <3> QED  BY <3>1
  <2>8. twdr'[n] = twdr[bus.slave] /\ twint[bus.slave] = "none"
    BY <2>6, <2>7, DeviceAssumption DEF Clocked, Participants
  <2>9. bus.slave \in Node \ Master  BY <2>1, ServesSlave DEF Apart
  <2>10. twdr[bus.slave] \in Answer(bus.slave)  BY <1>1, <2>6, <2>8, <2>9 DEF SlavesInv, Serves
  <2> QED  BY <2>8, <2>10 DEF Answer
<1> QED  BY <1>1, SlavesInvariant, PTL DEF Spec, ReadsReply

-----------------------------------------------------------------------------
\* The third layer: the slave's buffer has room for whatever a master may send.
Roomy == \A m \in Master, s \in Slave : TWI_BUFFER_LENGTH[m] <= TWI_BUFFER_LENGTH[s]

Refusals == {"MT_SLA_NACK", "MT_DATA_NACK", "MR_SLA_NACK", "MR_DATA_NACK"}

\* How many bytes of master m's message are with the slave, and those slave s has,
\* the one in its TWDR included.
Taken(m) == IF twint[m] = "none" THEN masterIndex[m] - 1 ELSE masterIndex[m]
Held(s)  == IF twint[s] \in {"SR_SLA_ACK", "SR_ARB_LOST_SLA_ACK"} THEN <<>>
            ELSE IF twint[s] = "SR_DATA_ACK" THEN Append(rxBuffer[s], twdr[s]) ELSE rxBuffer[s]

\* A refused master has no slave; a master's byte on the wires is its message's.
Speaks(m) == /\ twint[m] \in Refusals => bus.slave = 0
             /\ bus.phase = "Write" /\ twint[m] = "none" => twdr[m] = master[m][masterIndex[m]]

\* A slave is never out of room, never left behind, and has what was sent.
Whole(s) == /\ twint[s] # "SR_DATA_NACK"
            /\ twi_state[s] \in {"SRX", "STX"} => bus.slave = s \/ twint[s] # "none"
            /\ bus.slave = s /\ bus.phase = "Write" =>
                 /\ twint[s] = "none" => ea[s]
                 /\ \A m \in bus.masters : Held(s) = SubSeq(master[m], 1, Taken(m))

WholeInv == /\ \A m \in bus.masters : Speaks(m)
            /\ \A s \in Node \ Master : Whole(s)

\* After power-up.
LEMMA WholeInit == ASSUME Init PROVE WholeInv
<1>1. bus.masters = {} /\ bus.slave = 0  BY DEF Init, BusInit, Free
<1>2. ASSUME NEW s \in Node PROVE Whole(s)
  BY <1>1 DEF Init, BusInit, TwiInit, Free, Whole
<1> QED  BY <1>1, <1>2 DEF WholeInv

\* A master on the bus is waiting for its call to end.
LEMMA OnTheBus ==
  ASSUME MastersInv, NEW m \in bus.masters
  PROVE  m \in Node /\ m \in Master /\ pc[m] = "Wait" /\ UnderWay(m) /\ MasterInv(m)
<1>1. m \in Node /\ m \in Master  BY SketchAssumption DEF MastersInv, Types, BusTypes
<1>2. MasterInv(m) /\ pc[m] \in Stages  BY <1>1 DEF MastersInv, NodeInv, Types, TwiTypes
<1>3. ~Idle(m)  BY DEF Idle
<1>4. pc[m] = "Wait" /\ ~Over(m)  BY <1>2, <1>3 DEF MasterInv, Stages, Over
<1> QED  BY <1>1, <1>2, <1>4 DEF MasterInv

\* A master that writes: its index and its message.
LEMMA Takes ==
  ASSUME MastersInv, NEW m \in bus.masters, bus.phase = "Write"
  PROVE  /\ Writing(m) /\ m \in Node /\ m \in Master
         /\ master[m] \in Seq(Bytes) /\ Len(master[m]) = masterLength[m]
         /\ Len(master[m]) <= TWI_BUFFER_LENGTH[m]
         /\ masterIndex[m] \in Nat /\ masterLength[m] \in Nat
         /\ Taken(m) \in Nat /\ Taken(m) <= Len(master[m])
         /\ twint[m] = "none" => masterIndex[m] \in 1..Len(master[m])
<1>1. m \in Node /\ m \in Master /\ pc[m] = "Wait" /\ UnderWay(m) /\ MasterInv(m)
  BY OnTheBus
<1>2. Writing(m)  BY <1>1 DEF UnderWay, Starting, Addressing, Reading, Losing
<1>3. /\ master[m] \in Seq(Bytes) /\ masterIndex[m] \in Nat /\ masterLength[m] \in Nat
      /\ Len(master[m]) <= TWI_BUFFER_LENGTH[m]
  BY <1>1 DEF MastersInv, Types, TwiTypes, Buffers, NodeInv, Bounded
<1>4. Len(master[m]) = masterLength[m]
  BY <1>1, <1>2 DEF MasterInv, Writing, Reads, Writes
<1>5. Taken(m) \in Nat /\ Taken(m) <= Len(master[m])
  <2>1. CASE twint[m] = "none"
    <3>1. masterIndex[m] \in 1..masterLength[m]  BY <1>2, <2>1 DEF Writing, Sending
    <3> QED  BY <1>3, <1>4, <2>1, <3>1 DEF Taken
  <2>2. CASE twint[m] # "none"
    <3>1. masterIndex[m] = 0 \/ masterIndex[m] \in 1..masterLength[m]
      BY <1>2 DEF Writing, Fresh, Sending
    <3> QED  BY <1>3, <1>4, <2>2, <3>1 DEF Taken
  <2> QED  BY <2>1, <2>2
<1>6. twint[m] = "none" => masterIndex[m] \in 1..Len(master[m])
  BY <1>2, <1>4 DEF Writing, Sending
<1> QED  BY <1>1, <1>2, <1>3, <1>4, <1>5, <1>6

\* What a node's step owes the others: a master that stays on the bus goes on
\* with its message, one that frees it tells the slave it has been writing to.
Goes(n) ==
    /\ n \in bus'.masters =>
         /\ Speaks(n)'
         /\ bus'.phase = "Write" => Taken(n)' = Taken(n) /\ master'[n] = master[n]
    /\ Frees(n) /\ bus.slave \in Node => twint'[bus.slave] = "SR_STOP"
    /\ n \notin Master => Whole(n)'

\* A step that does so keeps the invariant at every other node.
LEMMA WholeElsewhere ==
  ASSUME Apart, MastersInv, SlavesInv, WholeInv, NEW n \in Node, Elsewhere(n), Goes(n)
  PROVE  WholeInv'
<1>1. Leaves(n) /\ BusTypes  BY DEF Elsewhere, MastersInv, Types
<1>2. /\ bus'.masters \subseteq bus.masters
      /\ bus'.masters # {} => bus'.phase = bus.phase /\ bus'.slave = bus.slave
      /\ bus'.slave \in {bus.slave, 0}
  BY <1>1 DEF Leaves, Frees, Free, BusTypes
<1>3. ASSUME NEW m \in bus'.masters, m # n
      PROVE  /\ m \in Node /\ Kept(m) /\ twint'[m] = twint[m]
             /\ Taken(m)' = Taken(m)
  <2>1. m \in Node /\ m \in Master  BY <1>2, OnTheBus
  <2>2. Kept(m) /\ Told(m)  BY <1>3, <2>1 DEF Elsewhere
  <2>3. twint'[m] = twint[m]  BY <2>1, <2>2 DEF Told, Apart
  <2> QED  BY <2>1, <2>2, <2>3 DEF Kept, Taken
<1>4. ASSUME NEW m \in bus'.masters PROVE Speaks(m)'
  <2>1. CASE m = n  BY <2>1 DEF Goes
  <2>2. CASE m # n
    <3>1. Speaks(m)  BY <1>2 DEF WholeInv
    <3> QED  BY <1>2, <1>3, <2>2, <3>1 DEF Speaks, Kept
  <2> QED  BY <2>1, <2>2
<1>5. ASSUME NEW s \in Node \ Master PROVE Whole(s)'
  <2>1. CASE s = n  BY <2>1, <1>5 DEF Goes
  <2>2. CASE s # n
    <3>1. Whole(s) /\ Kept(s) /\ Told(s) /\ s # 0
      BY <2>2, NodeAssumption DEF WholeInv, Elsewhere
    <3>2. twint'[s] # "SR_DATA_NACK"  BY <3>1 DEF Told, Whole
    <3>3. twi_state'[s] \in {"SRX", "STX"} => bus'.slave = s \/ twint'[s] # "none"
      <4>1. CASE Frees(n)  BY <3>1, <4>1 DEF Whole, Kept, Told, Goes
      <4>2. CASE ~Frees(n)
        <5>1. bus'.slave = bus.slave  BY <1>1, <4>2 DEF Leaves, BusTypes
        <5> QED  BY <3>1, <5>1 DEF Whole, Kept, Told
      <4> QED  BY <4>1, <4>2
    <3>4. ASSUME bus'.slave = s, bus'.phase = "Write"
          PROVE  /\ twint'[s] = "none" => ea'[s]
                 /\ \A m \in bus'.masters : Held(s)' = SubSeq(master[m], 1, Taken(m))'
      <4>1. ~Frees(n)  BY <3>1, <3>4 DEF Frees, Free
      <4>2. bus.slave = s /\ bus.phase = "Write"
        BY <1>1, <3>4, <4>1 DEF Leaves, BusTypes
      <4>3. twint'[s] = twint[s]
        BY <3>1, <3>4 DEF Told, Free
      <4>4. Held(s)' = Held(s) /\ ea'[s] = ea[s]  BY <3>1, <4>3 DEF Held, Kept
      <4>5. ASSUME NEW m \in bus'.masters PROVE Held(s)' = SubSeq(master[m], 1, Taken(m))'
        <5>1. Held(s) = SubSeq(master[m], 1, Taken(m))  BY <1>2, <3>1, <4>2 DEF Whole
        <5>2. master'[m] = master[m] /\ Taken(m)' = Taken(m)
          BY <1>3, <3>4 DEF Goes, Kept
        <5> QED  BY <4>4, <5>1, <5>2
      <4> QED  BY <3>1, <4>2, <4>3, <4>4, <4>5 DEF Whole
    <3> QED  BY <3>2, <3>3, <3>4 DEF Whole
  <2> QED  BY <2>1, <2>2
<1> QED  BY <1>4, <1>5 DEF WholeInv

\* A step of the sketch or of its call is that of a master that is not on the bus.
LEMMA CallGoes ==
  ASSUME MastersInv, NEW n \in Node, CallStep(n) \/ SketchStep(n)
  PROVE  n \in Master /\ Goes(n)
<1>1. n \in Master
  BY Calling
  DEF CallStep, SketchStep, beginTransmission, send, endTransmission, requestFrom, receiveAll,
      InSketch, MastersInv, NodeInv, OtherInv, TestReady, Claim, SendStart,
      endTransmissionReturns, requestFromCopies, requestFromReturns, Waited
<1>2. bus' = bus
  BY DEF CallStep, SketchStep, TestReady, Claim, SendStart, endTransmissionReturns,
         requestFromCopies, requestFromReturns, Waited, beginTransmission, send,
         endTransmission, requestFrom, receiveAll, busVars
<1>3. n \notin bus.masters
  <2>1. SUFFICES ASSUME n \in bus.masters PROVE FALSE
    OBVIOUS
  <2>2. pc[n] = "Wait" /\ twi_state[n] = Claimed(n)  BY <2>1, OnTheBus DEF UnderWay
  <2> QED
    BY <2>2
    DEF CallStep, SketchStep, TestReady, Claim, SendStart, endTransmissionReturns,
        requestFromCopies, requestFromReturns, Waited, beginTransmission, send,
        endTransmission, requestFrom, receiveAll, InSketch, Claimed, Reads
<1> QED  BY <1>1, <1>2, <1>3 DEF Goes, Frees

\* A master that stops while it has no slave, or has lost the bus, tells nobody.
LEMMA StopGoes ==
  ASSUME Apart, MastersInv, WholeInv, NEW n \in Master, n \in Node, WriteStop(n),
         twint[n] \in Refusals \cup {"BUS_ERROR"}
  PROVE  Goes(n)
<1>1. n \notin bus'.masters  BY StopTypes DEF MastersInv, Types
<1>2. ASSUME n \in bus.masters PROVE bus.slave \notin Node
  <2>1. UnderWay(n)  BY <1>2, OnTheBus
  <2>2. twint[n] # "BUS_ERROR"
    BY <1>2, <2>1 DEF UnderWay, Starting, Addressing, Writing, Reading, Losing
  <2>3. bus.slave = 0  BY <1>2, <2>2 DEF WholeInv, Speaks
  <2> QED  BY <2>3, NodeAssumption
<1> QED  BY <1>1, <1>2 DEF Goes, Frees

\* The next byte, or the STOP after the last: the slave is told.
LEMMA TransmitGoes ==
  ASSUME Apart, MastersInv, WholeInv, NEW n \in Master, n \in Node, IsrTransmit(n)
  PROVE  Goes(n)
<1>1. twint[n] \in {"MT_SLA_ACK", "MT_DATA_ACK"}  BY DEF IsrTransmit, Interrupt
<1>2. BusTypes  BY DEF MastersInv, Types
<1>3. Writing(n)
  <2>1. UnderWay(n)  BY <1>1, Interrupted
  <2> QED  BY <1>1, <2>1 DEF UnderWay, Starting, Addressing, Reading, Losing
<1>4. n \in bus.masters /\ bus.phase = "Write"  BY <1>3 DEF Writing
<1>5. CASE masterIndex[n] < masterLength[n]
  <2>1. /\ twdr' = [twdr EXCEPT ![n] = master[n][masterIndex[n] + 1]]
        /\ masterIndex' = [masterIndex EXCEPT ![n] = masterIndex[n] + 1]
        /\ WriteTWCR(n, FALSE, TRUE) /\ bus' = bus /\ master' = master
    BY <1>5 DEF IsrTransmit, twi_reply, Set
  <2>2. /\ twdr'[n] = master[n][masterIndex[n] + 1] /\ masterIndex'[n] = masterIndex[n] + 1
        /\ twint'[n] = "none"
    BY <1>2, <2>1, ReplyTypes DEF BusTypes, MastersInv, Types, TwiTypes
  <2>3. Speaks(n)'  BY <2>1, <2>2 DEF Speaks, Refusals
  <2>4. masterIndex[n] \in Nat  BY <1>4, Takes
  <2>5. Taken(n)' = Taken(n)  BY <1>1, <2>2, <2>4 DEF Taken
  <2>6. ~Frees(n)  BY <1>4, <2>1 DEF Frees, Free
  <2> QED  BY <2>1, <2>3, <2>5, <2>6 DEF Goes
<1>6. CASE ~(masterIndex[n] < masterLength[n])
  <2>1. WriteStop(n)  BY <1>6 DEF IsrTransmit, twi_stop
  <2>2. n \notin bus'.masters  BY <1>2, <2>1, StopTypes
  <2>3. ASSUME Frees(n), bus.slave \in Node PROVE twint'[bus.slave] = "SR_STOP"
    <3>1. bus.masters = {n} /\ bus.slave # n
      BY <1>2, <2>3, ServesSlave DEF Frees, Apart
    <3>2. twint' = [m \in Node |->
                      IF m = n THEN "none"
                      ELSE IF m \in {bus.slave} \cap Node /\ bus.phase = "Write" THEN "SR_STOP"
                      ELSE twint[m]]
      BY <2>1, <3>1 DEF WriteStop
    <3> QED  BY <1>4, <2>3, <3>1, <3>2
  <2> QED  BY <2>2, <2>3 DEF Goes
<1> QED  BY <1>5, <1>6

\* Every interrupt of a master.
LEMMA MasterGoes ==
  ASSUME Apart, MastersInv, WholeInv, NEW n \in Master, n \in Node, IsrStep(n)
  PROVE  Goes(n)
<1>1. BusTypes  BY DEF MastersInv, Types
<1>2. ~busy[n]  BY DEF MastersInv, NodeInv, MasterInv
<1>3. twint[n] \notin {"SR_SLA_ACK", "SR_ARB_LOST_SLA_ACK", "SR_DATA_ACK", "SR_DATA_NACK",
                       "SR_STOP", "ST_SLA_ACK", "ST_ARB_LOST_SLA_ACK", "ST_DATA_ACK",
                       "ST_DATA_NACK", "ST_LAST_DATA"}
  BY Served
<1>4. IsrStart(n) \/ IsrTransmit(n) \/ IsrFailed(n) \/ IsrArbLost(n)
        \/ IsrReceive(n) \/ IsrReceived(n)
  <2>1. ~SlaveReceives(n) /\ ~SlaveRequested(n)
    BY <1>3 DEF SlaveReceives, IsrSlaveStop, SlaveRequested, onRequestService, IsrSlaveRequest,
                Interrupt
  <2> QED
    BY <1>2, <1>3, <2>1
    DEF IsrStep, Isr, IsrSlaveAddressed, IsrSlaveData, IsrSlaveRefused, IsrSlaveRelease,
        IsrSlaveSend, IsrSlaveSent, Interrupt
<1>5. ASSUME twint[n] # "none" PROVE UnderWay(n)  BY <1>5, Interrupted
<1>6. CASE IsrStart(n)
  <2>1. twint[n] = "START" /\ WriteTWCR(n, FALSE, TRUE) /\ bus' = bus
    BY <1>6 DEF IsrStart, Interrupt, twi_reply
  <2>2. bus.phase = "Address" /\ n \in bus.masters
    BY <1>5, <2>1 DEF UnderWay, Starting, Addressing, Writing, Reading, Losing
  <2>3. twint'[n] = "none"  BY <1>1, <2>1, ReplyTypes
  <2> QED  BY <2>1, <2>2, <2>3 DEF Goes, Speaks, Refusals, Frees, Free
<1>7. CASE IsrTransmit(n)  BY <1>7, TransmitGoes
<1>8. CASE IsrFailed(n)
  BY <1>8, StopGoes DEF IsrFailed, Interrupt, twi_stop, Refusals
<1>9. CASE IsrArbLost(n)
  <2>1. twint[n] = "ARB_LOST" /\ bus' = bus
    BY <1>9 DEF IsrArbLost, Interrupt, twi_releaseBus
  <2>2. n \notin bus.masters
    BY <1>5, <2>1 DEF UnderWay, Starting, Addressing, Writing, Reading, Losing
  <2> QED  BY <2>1, <2>2 DEF Goes, Frees
<1>10. CASE IsrReceive(n)
  <2>1. twint[n] \in {"MR_SLA_ACK", "MR_DATA_ACK"} /\ bus' = bus
    BY <1>10 DEF IsrReceive, Interrupt, twi_reply
  <2>2. bus.phase = "Read" /\ n \in bus.masters
    BY <1>5, <2>1 DEF UnderWay, Starting, Addressing, Writing, Reading, Losing
  <2>3. twint'[n] = "none"
    BY <1>1, <1>10 DEF IsrReceive, twi_reply, WriteTWCR, BusTypes
  <2> QED  BY <2>1, <2>2, <2>3 DEF Goes, Speaks, Refusals, Frees, Free
<1>11. CASE IsrReceived(n)
  BY <1>11, StopGoes DEF IsrReceived, Interrupt, twi_stop, Refusals
<1> QED  BY <1>4, <1>6, <1>7, <1>8, <1>9, <1>10, <1>11
-----------------------------------------------------------------------------
\* A slave's interrupt, once more: what it keeps of the message.
LEMMA SlaveGoes ==
  ASSUME Apart, MastersInv, NEW n \in Node \ Master, Elsewhere(n), Whole(n)'
  PROVE  Goes(n)
<1>1. n \notin bus.masters /\ BusTypes  BY DEF MastersInv, Types, BusTypes
<1>2. n \notin bus'.masters
  BY <1>1 DEF Elsewhere, Leaves, Frees, BusTypes
<1> QED  BY <1>1, <1>2 DEF Goes, Frees

\* The message starts empty.
LEMMA WholeAddressed ==
  ASSUME Apart, MastersInv, SlavesInv, WholeInv, NEW n \in Node \ Master,
         IsrSlaveAddressed(n), Elsewhere(n)
  PROVE  Whole(n)'
<1>1. /\ twint[n] \in {"SR_SLA_ACK", "SR_ARB_LOST_SLA_ACK"}
      /\ WriteTWCR(n, FALSE, TRUE) /\ bus' = bus /\ BusTypes
      /\ rxBuffer' = [rxBuffer EXCEPT ![n] = <<>>]
      /\ UNCHANGED masterVars
  BY DEF IsrSlaveAddressed, Interrupt, twi_reply, Set, MastersInv, Types
<1>2. Serves(n) /\ Whole(n)  BY DEF SlavesInv, WholeInv
<1>3. bus.slave = n /\ bus.phase = "Write"  BY <1>1, <1>2 DEF Serves, Taking
<1>4. twint'[n] = "none" /\ ea'[n] = TRUE  BY <1>1, ReplyTypes
<1>5. Held(n) = <<>> /\ Held(n)' = <<>>
  BY <1>1, <1>4 DEF Held, MastersInv, Types, TwiTypes, Buffers
<1>6. ASSUME NEW m \in bus.masters PROVE Taken(m)' = Taken(m) /\ master'[m] = master[m]
  <2>1. m \in Node \ {n} /\ m \in Master  BY <1>6, OnTheBus
  <2>2. Kept(m) /\ Told(m)  BY <2>1 DEF Elsewhere
  <2>3. twint'[m] = twint[m]  BY <2>1, <2>2 DEF Told, Apart
  <2> QED  BY <2>2, <2>3 DEF Kept, Taken
<1> QED  BY <1>1, <1>2, <1>3, <1>4, <1>5, <1>6 DEF Whole

\* The byte is stored: the message so far is shorter than the master's buffer, so
\* there is room in the slave's.
LEMMA WholeData ==
  ASSUME Apart, Roomy, MastersInv, SlavesInv, WholeInv, NEW n \in Node \ Master,
         IsrSlaveData(n), Elsewhere(n)
  PROVE  Whole(n)'
<1> DEFINE room == Len(rxBuffer[n]) < TWI_BUFFER_LENGTH[n]
<1>1. /\ twint[n] = "SR_DATA_ACK"
      /\ WriteTWCR(n, FALSE, room) /\ bus' = bus /\ BusTypes
      /\ room => rxBuffer' = [rxBuffer EXCEPT ![n] = Append(rxBuffer[n], twdr[n])]
      /\ UNCHANGED masterVars
  BY DEF IsrSlaveData, Interrupt, twi_reply, Set, MastersInv, Types
<1>2. Serves(n) /\ Whole(n)  BY DEF SlavesInv, WholeInv
<1>3. bus.slave = n /\ bus.phase = "Write"  BY <1>1, <1>2 DEF Serves, Taking
<1>4. Held(n) = Append(rxBuffer[n], twdr[n])  BY <1>1 DEF Held
<1>5. rxBuffer[n] \in Seq(Bytes) /\ twdr[n] \in Bytes
  BY <1>1 DEF MastersInv, Types, TwiTypes, Buffers, BusTypes
<1>6. room
  <2>1. PICK m \in bus.masters : TRUE  BY <1>3 DEF SlavesInv
  <2>2. Held(n) = SubSeq(master[m], 1, Taken(m))  BY <1>2, <1>3, <2>1 DEF Whole
  <2>3. /\ m \in Master /\ m \in Node /\ master[m] \in Seq(Bytes) /\ Taken(m) \in Nat
        /\ Taken(m) <= Len(master[m]) /\ Len(master[m]) <= TWI_BUFFER_LENGTH[m]
    BY <1>3, <2>1, Takes
  <2>4. Len(SubSeq(master[m], 1, Taken(m))) = Taken(m)  BY <2>3, Prefix
  <2>5. Len(Append(rxBuffer[n], twdr[n])) = Len(rxBuffer[n]) + 1  BY <1>5
  <2>6. n \in Slave  BY <1>1, <1>3, ServesSlave
  <2>7. TWI_BUFFER_LENGTH[m] <= TWI_BUFFER_LENGTH[n]  BY <2>3, <2>6 DEF Roomy
  <2>8. /\ TWI_BUFFER_LENGTH[m] \in Nat /\ TWI_BUFFER_LENGTH[n] \in Nat
        /\ Len(rxBuffer[n]) \in Nat /\ Len(master[m]) \in Nat
    BY <1>5, <2>3, Capacity
  <2>9. Taken(m) = Len(rxBuffer[n]) + 1  BY <1>4, <2>2, <2>4, <2>5
  <2> QED  BY <2>3, <2>7, <2>8, <2>9
<1>7. twint'[n] = "none" /\ ea'[n]  BY <1>1, <1>6 DEF WriteTWCR, BusTypes
<1>8. Held(n)' = Held(n)
  BY <1>1, <1>4, <1>6, <1>7 DEF Held, MastersInv, Types, TwiTypes, Buffers
<1>9. ASSUME NEW m \in bus.masters PROVE Taken(m)' = Taken(m) /\ master'[m] = master[m]
  <2>1. m \in Node \ {n} /\ m \in Master  BY <1>9, OnTheBus
  <2>2. Kept(m) /\ Told(m)  BY <2>1 DEF Elsewhere
  <2>3. twint'[m] = twint[m]  BY <2>1, <2>2 DEF Told, Apart
  <2> QED  BY <2>2, <2>3 DEF Kept, Taken
<1> QED  BY <1>1, <1>2, <1>3, <1>7, <1>8, <1>9 DEF Whole

\* Every interrupt of a slave.
LEMMA SlaveKeepsWhole ==
  ASSUME Apart, Roomy, MastersInv, SlavesInv, WholeInv, NEW n \in Node \ Master,
         IsrStep(n), Elsewhere(n), SlavesInv'
  PROVE  Whole(n)'
<1>1. Serves(n) /\ Whole(n) /\ n # 0 /\ BusTypes /\ TwiTypes
  BY NodeAssumption DEF SlavesInv, WholeInv, MastersInv, Types
<1>2. ASSUME twint'[n] = "none",
             twi_state'[n] \in {"SRX", "STX"} => bus'.slave = n,
             ~(bus'.slave = n /\ bus'.phase = "Write")
      PROVE  Whole(n)'
  BY <1>2 DEF Whole
<1>3. CASE IsrSlaveAddressed(n)  BY <1>3, WholeAddressed
<1>4. CASE IsrSlaveData(n)  BY <1>4, WholeData
<1>5. CASE IsrFailed(n) \/ SlaveReceives(n)
  <2>1. /\ twint[n] \in {"BUS_ERROR", "SR_STOP"} /\ WriteStop(n)
        /\ twi_state' = [twi_state EXCEPT ![n] = "READY"]
    BY <1>5 DEF IsrFailed, SlaveReceives, IsrSlaveStop, Interrupt, twi_stop, Set, MastersInv,
                NodeInv, OtherInv, SlaveStatuses
  <2>2. twint'[n] = "none" /\ twi_state'[n] = "READY"
    BY <1>1, <2>1, StopTypes DEF TwiTypes
  <2>3. bus'.slave # n
    <3>1. bus.slave # n  BY <1>1, <2>1 DEF Serves, Taking, Giving
    <3>2. bus'.slave \in {bus.slave, 0}
      BY <1>1, <2>1, StopTypes DEF Leaves, Frees, Free, BusTypes
    <3> QED  BY <1>1, <3>1, <3>2
  <2> QED  BY <1>2, <2>2, <2>3
<1>6. CASE IsrSlaveRelease(n)
  <2>1. /\ busy[n] /\ WriteTWCR(n, FALSE, TRUE) /\ bus' = bus
        /\ twi_state' = [twi_state EXCEPT ![n] = "READY"]
    BY <1>6 DEF IsrSlaveRelease, twi_releaseBus, Set
  <2>2. twint'[n] = "none" /\ twi_state'[n] = "READY"
    BY <1>1, <2>1, ReplyTypes DEF TwiTypes
  <2>3. bus'.slave # n  BY <1>1, <2>1 DEF Serves
  <2> QED  BY <1>2, <2>2, <2>3
<1>7. CASE IsrSlaveSent(n)
  <2>1. /\ twint[n] \in {"ST_DATA_NACK", "ST_LAST_DATA"} /\ WriteTWCR(n, FALSE, TRUE) /\ bus' = bus
        /\ twi_state' = [twi_state EXCEPT ![n] = "READY"]
    BY <1>7 DEF IsrSlaveSent, Interrupt, twi_reply, Set
  <2>2. twint'[n] = "none" /\ twi_state'[n] = "READY"
    BY <1>1, <2>1, ReplyTypes DEF TwiTypes
  <2>3. bus'.slave # n  BY <1>1, <2>1 DEF Serves, Taking, Giving
  <2> QED  BY <1>2, <2>2, <2>3
<1>8. CASE IsrSlaveSend(n) \/ SlaveRequested(n)
  <2>1. twint[n] \in Giving /\ bus' = bus /\ twint' = [twint EXCEPT ![n] = "none"]
    <3>1. CASE IsrSlaveSend(n)
      BY <3>1 DEF IsrSlaveSend, Interrupt, Giving, twi_reply, WriteTWCR
    <3>2. CASE SlaveRequested(n)
      <4>1. PICK reply \in Seq({Reply(n)}) : IsrSlaveRequest(n, reply)  BY <3>2, Requested
      <4> QED  BY <4>1 DEF IsrSlaveRequest, Interrupt, Giving, twi_reply, WriteTWCR
    <3> QED  BY <1>8, <3>1, <3>2
  <2>2. bus.slave = n /\ bus.phase = "Read"  BY <1>1, <2>1 DEF Serves
  <2>3. twint'[n] = "none"  BY <1>1, <2>1 DEF BusTypes
  <2> QED  BY <1>2, <2>1, <2>2, <2>3
<1>9. ~IsrSlaveRefused(n)  BY <1>1 DEF IsrSlaveRefused, Interrupt, Whole
<1>10. ~(IsrStart(n) \/ IsrTransmit(n) \/ IsrArbLost(n) \/ IsrReceive(n) \/ IsrReceived(n))
  BY DEF IsrStart, IsrTransmit, IsrArbLost, IsrReceive, IsrReceived, Interrupt,
         MastersInv, NodeInv, OtherInv, SlaveStatuses
<1> QED  BY <1>3, <1>4, <1>5, <1>6, <1>7, <1>8, <1>9, <1>10 DEF IsrStep, Isr

-----------------------------------------------------------------------------
\* The bus, once more: a START.
LEMMA WholeStart ==
  ASSUME MastersInv, SlavesInv, WholeInv, Start, UNCHANGED <<twiVars, wireVars>>
  PROVE  WholeInv'
<1>1. PICK M \in SUBSET {n \in Node : sta[n] /\ twint[n] = "none"} :
        /\ bus' = [Free EXCEPT !.phase = "Address", !.masters = M]
        /\ Raise([n \in M |-> "START"])
  BY DEF Start
<1>2. twint' = [n \in Node |-> IF n \in M THEN "START" ELSE twint[n]]
  BY <1>1 DEF Raise
<1>3. bus' = [phase |-> "Address", masters |-> M, slave |-> 0]  BY <1>1 DEF Free
<1>4. bus.phase = "Free"  BY DEF Start
<1>5. M \subseteq Master  BY DEF MastersInv, NodeInv, OtherInv
<1>6. ASSUME NEW m \in bus'.masters PROVE Speaks(m)'
  BY <1>2, <1>3, <1>6 DEF Speaks, Refusals
<1>7. ASSUME NEW s \in Node \ Master PROVE Whole(s)'
  <2>1. Whole(s) /\ Serves(s)  BY DEF SlavesInv, WholeInv
  <2>0. s # 0  BY NodeAssumption
  <2>2. twint'[s] = twint[s] /\ bus'.slave # s /\ bus.slave # s
    BY <2>0, <1>2, <1>3, <1>4, <1>5, <2>1 DEF Serves
  <2> QED  BY <2>1, <2>2 DEF Whole, twiVars
<1> QED  BY <1>6, <1>7 DEF WholeInv

\* After the address byte nothing of any message has been taken.
LEMMA WholeAddress ==
  ASSUME Apart, MastersInv, SlavesInv, WholeInv, Address, UNCHANGED <<twiVars, wireVars>>
  PROVE  WholeInv'
<1> DEFINE read  == OnWire % 2 = 1
           slave == {s \in Slave \ Winners : s = OnWire \div 2 /\ ea[s]}
           acks  == slave # {} \/ OnWire \div 2 \in Device
           lost  == bus.masters \ Winners
           MasterStatus == IF read THEN IF acks THEN "MR_SLA_ACK" ELSE "MR_SLA_NACK"
                                   ELSE IF acks THEN "MT_SLA_ACK" ELSE "MT_SLA_NACK"
           SlaveStatus(s) ==
             IF read THEN IF s \in lost THEN "ST_ARB_LOST_SLA_ACK" ELSE "ST_SLA_ACK"
                     ELSE IF s \in lost THEN "SR_ARB_LOST_SLA_ACK" ELSE "SR_SLA_ACK"
           status == [n \in bus.masters \cup slave |->
                        IF n \in Winners THEN MasterStatus
                        ELSE IF n \in slave THEN SlaveStatus(n) ELSE "ARB_LOST"]
<1>1. /\ bus.phase = "Address" /\ Clocked /\ Raise(status)
      /\ bus' = [phase |-> IF read THEN "Read" ELSE "Write", masters |-> Winners,
                 slave |-> IF acks THEN OnWire \div 2 ELSE 0]
  BY Zenon DEF Address
<1>2. BusTypes  BY DEF MastersInv, Types
<1>3. /\ bus.masters \subseteq Master /\ bus.masters \subseteq Node
      /\ Winners \subseteq bus.masters
  BY <1>1, <1>2, SketchAssumption DEF BusTypes, Winners
<1>4. /\ \A m \in Winners : twint'[m] = MasterStatus
      /\ \A s \in Node \ Master :
           /\ s \in slave => twint'[s] = SlaveStatus(s)
           /\ s \notin slave => twint'[s] = twint[s]
  BY <1>1, <1>3, Zenon DEF Raise
<1>5. /\ bus'.phase = IF read THEN "Read" ELSE "Write"
      /\ bus'.masters = Winners
      /\ bus'.slave = IF acks THEN OnWire \div 2 ELSE 0
  BY <1>1
<1>6. ASSUME NEW s \in Node \ Master, acks, OnWire \div 2 = s PROVE s \in slave
  BY <1>6, DeviceAssumption
<1>7. \A s \in slave : acks /\ s = OnWire \div 2  OBVIOUS
<1> HIDE DEF slave, acks, lost, read
<1>8. ASSUME NEW m \in Winners
      PROVE  /\ twint'[m] # "none" /\ Taken(m)' = 0
             /\ twint'[m] \in Refusals => bus'.slave = 0
  <2>1. twint'[m] = MasterStatus  BY <1>4
  <2>2. twint'[m] # "none" /\ (twint'[m] \in Refusals => ~acks)  BY <2>1 DEF Refusals
  <2>3. UnderWay(m)  BY <1>3, OnTheBus
  <2>4. masterIndex[m] = 0
    BY <1>1, <1>3, <2>3 DEF UnderWay, Starting, Addressing, Writing, Reading, Losing, Fresh
  <2> QED  BY <1>5, <2>2, <2>4 DEF Taken, twiVars, masterVars
<1>9. \A m \in bus'.masters : Speaks(m)'  BY <1>5, <1>8 DEF Speaks
<1>10. ASSUME NEW s \in Node \ Master PROVE Whole(s)'
  <2>1. Whole(s) /\ Serves(s) /\ s # 0  BY NodeAssumption DEF SlavesInv, WholeInv
  <2>2. CASE s \in slave
    <3>1. twint'[s] = SlaveStatus(s)  BY <1>4, <2>2
    <3>2. /\ twint'[s] \in {"ST_ARB_LOST_SLA_ACK", "ST_SLA_ACK", "SR_ARB_LOST_SLA_ACK",
                            "SR_SLA_ACK"}
          /\ ~read => twint'[s] \in {"SR_ARB_LOST_SLA_ACK", "SR_SLA_ACK"}
      BY <3>1
    <3>3. bus'.phase = "Write" => Held(s)' = <<>>  BY <1>5, <3>2 DEF Held
    <3>4. ASSUME NEW m \in bus'.masters, bus'.phase = "Write"
          PROVE  Held(s)' = SubSeq(master[m], 1, Taken(m))'
      <4>1. Taken(m)' = 0  BY <1>5, <1>8
      <4>2. master'[m] \in Seq(Bytes)
        BY <1>3, <1>5 DEF MastersInv, Types, TwiTypes, Buffers, twiVars, masterVars
      <4>3. SubSeq(master'[m], 1, 0) = <<>>  BY <4>2
      <4> QED  BY <3>3, <3>4, <4>1, <4>3
    <3> QED  BY <3>2, <3>4 DEF Whole
  <2>3. CASE s \notin slave
    <3>1. twint'[s] = twint[s] /\ bus'.slave # s /\ bus.slave # s
      BY <1>1, <1>4, <1>5, <1>6, <2>1, <2>3 DEF Serves
    <3> QED  BY <2>1, <3>1 DEF Whole, twiVars
  <2> QED  BY <2>2, <2>3
<1> QED  BY <1>9, <1>10 DEF WholeInv

\* One byte more of a message.
LEMMA NextByte ==
  ASSUME NEW S, NEW s \in Seq(S), NEW i \in 1..Len(s)
  PROVE  SubSeq(s, 1, i) = Append(SubSeq(s, 1, i - 1), s[i])
<1>1. i - 1 \in Nat /\ i - 1 <= Len(s)  OBVIOUS
<1> QED  BY <1>1

\* The winners all sent the byte on the wires, and the slave takes it.
LEMMA WholeWriteByte ==
  ASSUME Apart, MastersInv, SlavesInv, WholeInv, WriteByte, UNCHANGED <<twiVars, wireVars>>
  PROVE  WholeInv'
<1> DEFINE slave == {bus.slave} \cap Node
           acks  == bus.slave \in Device \/ \E s \in slave : ea[s]
<1>1. /\ bus.phase = "Write" /\ Clocked
      /\ Raise([n \in bus.masters \cup slave |->
                  IF n \in slave THEN IF acks THEN "SR_DATA_ACK" ELSE "SR_DATA_NACK"
                  ELSE IF n \notin Winners THEN "ARB_LOST"
                  ELSE IF acks THEN "MT_DATA_ACK" ELSE "MT_DATA_NACK"])
      /\ twdr' = [n \in Node |-> IF n \in slave THEN OnWire ELSE twdr[n]]
      /\ bus' = [bus EXCEPT !.masters = Winners, !.slave = IF acks THEN @ ELSE 0]
  BY Zenon DEF WriteByte
<1>2. BusTypes  BY DEF MastersInv, Types
<1>3. /\ bus.masters \subseteq Master /\ bus.masters \subseteq Node
      /\ Winners \subseteq bus.masters /\ slave \subseteq Node \ Master
      /\ \A m \in Winners : twdr[m] = OnWire
      /\ \A n \in bus.masters \cup slave : twint[n] = "none"
  BY <1>1, <1>2, SketchAssumption, ServesSlave
  DEF BusTypes, Winners, Clocked, Participants, Apart
<1>4. /\ \A m \in Winners : twint'[m] = IF acks THEN "MT_DATA_ACK" ELSE "MT_DATA_NACK"
      /\ \A s \in Node \ Master :
           /\ s \in slave => twint'[s] = IF acks THEN "SR_DATA_ACK" ELSE "SR_DATA_NACK"
           /\ s \notin slave => twint'[s] = twint[s]
  BY <1>1, <1>3, Zenon DEF Raise
<1>5. bus'.phase = "Write" /\ bus'.masters = Winners /\ bus'.slave = IF acks THEN bus.slave ELSE 0
  BY <1>1, <1>2 DEF BusTypes
<1>6. ASSUME NEW s \in slave PROVE acks
  <2>1. Whole(s)  BY <1>3 DEF WholeInv
  <2>2. ea[s]  BY <1>1, <1>3, <2>1 DEF Whole
  <2> QED  BY <2>2
<1> HIDE DEF acks
<1>7. ASSUME NEW m \in Winners
      PROVE  /\ twint'[m] # "none" /\ (twint'[m] \in Refusals => bus'.slave = 0)
             /\ Taken(m)' = masterIndex[m] /\ Taken(m) = masterIndex[m] - 1
  BY <1>3, <1>4, <1>5 DEF Taken, Refusals, twiVars, masterVars
<1>8. \A m \in bus'.masters : Speaks(m)'  BY <1>5, <1>7 DEF Speaks
<1>9. ASSUME NEW s \in Node \ Master PROVE Whole(s)'
  <2>1. Whole(s) /\ s # 0  BY NodeAssumption DEF WholeInv
  <2>2. CASE bus.slave = s
    <3>1. s \in slave  BY <2>2
    <3>2. twint'[s] = "SR_DATA_ACK"  BY <1>4, <1>6, <3>1
    <3>3. Held(s)' = Append(rxBuffer[s], OnWire) /\ Held(s) = rxBuffer[s]
      BY <1>1, <1>3, <3>1, <3>2 DEF Held, twiVars, slaveVars
    <3>4. ASSUME NEW m \in bus'.masters PROVE Held(s)' = SubSeq(master[m], 1, Taken(m))'
      <4>1. m \in bus.masters /\ m \in Winners  BY <1>3, <1>5
      <4>2. Held(s) = SubSeq(master[m], 1, Taken(m))  BY <1>1, <2>1, <2>2, <4>1 DEF Whole
      <4>3. master[m] \in Seq(Bytes) /\ masterIndex[m] \in 1..Len(master[m])
        BY <1>1, <1>3, <4>1, Takes
      <4>4. OnWire = master[m][masterIndex[m]]
        BY <1>1, <1>3, <4>1 DEF WholeInv, Speaks
      <4>5. SubSeq(master[m], 1, masterIndex[m])
              = Append(SubSeq(master[m], 1, masterIndex[m] - 1), master[m][masterIndex[m]])
        BY <4>3, NextByte
      <4>6. SubSeq(master[m], 1, Taken(m))' = SubSeq(master[m], 1, masterIndex[m])
        BY <1>7, <4>1 DEF twiVars, masterVars
      <4> QED  BY <1>7, <3>3, <4>1, <4>2, <4>4, <4>5, <4>6
    <3> QED  BY <3>2, <3>4 DEF Whole
  <2>3. CASE bus.slave # s
    <3>1. twint'[s] = twint[s] /\ bus'.slave # s  BY <1>4, <1>5, <2>1, <2>3
    <3> QED  BY <2>1, <2>3, <3>1 DEF Whole, twiVars
  <2> QED  BY <2>2, <2>3
<1> QED  BY <1>8, <1>9 DEF WholeInv

\* While masters read, nothing is taken.
LEMMA WholeReadByte ==
  ASSUME Apart, MastersInv, SlavesInv, WholeInv, ReadByte, UNCHANGED <<twiVars, wireVars>>
  PROVE  WholeInv'
<1> DEFINE slave  == {bus.slave} \cap Node
           acking == {m \in bus.masters : ea[m]}
           heard  == IF acking # {} THEN acking ELSE bus.masters
           last   == acking = {} \/ \E s \in slave : ~ea[s]
<1>1. /\ bus.phase = "Read" /\ Clocked
      /\ Raise([n \in bus.masters \cup slave |->
                  IF n \in slave
                  THEN IF acking = {} THEN "ST_DATA_NACK"
                       ELSE IF ea[n] THEN "ST_DATA_ACK" ELSE "ST_LAST_DATA"
                  ELSE IF n \notin heard THEN "ARB_LOST"
                  ELSE IF acking # {} THEN "MR_DATA_ACK" ELSE "MR_DATA_NACK"])
      /\ bus' = [bus EXCEPT !.masters = heard, !.slave = IF last THEN 0 ELSE @]
  BY Zenon DEF ReadByte
<1>2. BusTypes  BY DEF MastersInv, Types
<1>3. /\ bus.masters \subseteq Master /\ bus.masters \subseteq Node
      /\ heard \subseteq bus.masters /\ slave \subseteq Node \ Master
  BY <1>2, SketchAssumption, ServesSlave DEF BusTypes, Apart
<1>4. acking = {} => last  OBVIOUS
<1>5. /\ \A m \in heard : twint'[m] = IF acking # {} THEN "MR_DATA_ACK" ELSE "MR_DATA_NACK"
      /\ \A s \in Node \ Master :
           /\ s \in slave => twint'[s] \in {"ST_DATA_NACK", "ST_DATA_ACK", "ST_LAST_DATA"}
           /\ s \notin slave => twint'[s] = twint[s]
  BY <1>1, <1>3, Zenon DEF Raise
<1>6. bus'.phase = "Read" /\ bus'.masters = heard /\ bus'.slave = IF last THEN 0 ELSE bus.slave
  BY <1>1, <1>2 DEF BusTypes
<1> HIDE DEF acking, heard, last
<1>7. \A m \in bus'.masters : Speaks(m)'  BY <1>4, <1>5, <1>6 DEF Speaks, Refusals
<1>8. ASSUME NEW s \in Node \ Master PROVE Whole(s)'
  <2>1. Whole(s) /\ s # 0  BY NodeAssumption DEF WholeInv
  <2>2. CASE bus.slave = s
    <3>1. twint'[s] \in {"ST_DATA_NACK", "ST_DATA_ACK", "ST_LAST_DATA"}  BY <1>5, <2>2
    <3> QED  BY <1>6, <3>1 DEF Whole
  <2>3. CASE bus.slave # s
    <3>1. twint'[s] = twint[s] /\ bus'.slave # s  BY <1>5, <1>6, <2>1, <2>3
    <3> QED  BY <2>1, <2>3, <3>1 DEF Whole, twiVars
  <2> QED  BY <2>2, <2>3
<1> QED  BY <1>7, <1>8 DEF WholeInv

\* A bus error leaves an interrupt pending at the slave it cut off.
LEMMA WholeBusError ==
  ASSUME Apart, MastersInv, WholeInv, BusError, UNCHANGED <<twiVars, wireVars>>
  PROVE  WholeInv'
<1>1. /\ twint' = [n \in Node |-> IF n \in Participants THEN "BUS_ERROR" ELSE twint[n]]
      /\ bus' = Free
  BY DEF BusError, Raise
<1>2. BusTypes  BY DEF MastersInv, Types
<1>3. bus'.masters = {} /\ bus'.phase = "Free" /\ bus'.slave = 0  BY <1>1 DEF Free
<1>4. ASSUME NEW s \in Node \ Master PROVE Whole(s)'
  <2>1. Whole(s) /\ s # 0  BY NodeAssumption DEF WholeInv
  <2>2. CASE bus.slave = s
    <3>1. twint'[s] = "BUS_ERROR"  BY <1>1, <2>2 DEF Participants
    <3> QED  BY <1>3, <2>1, <3>1 DEF Whole
  <2>3. CASE bus.slave # s
    <3>1. twint'[s] = twint[s]  BY <1>1, <1>2, <2>3 DEF Participants, BusTypes
    <3> QED  BY <1>3, <2>1, <2>3, <3>1 DEF Whole, twiVars
  <2> QED  BY <2>2, <2>3
<1> QED  BY <1>3, <1>4 DEF WholeInv

\* Every step.
LEMMA WholeKeeps ==
  ASSUME Apart, ~SlowCallback, Roomy, MastersInv, SlavesInv, WholeInv, [Next]_vars
  PROVE  WholeInv'
<1>1. CASE BusStep
  BY <1>1, WholeStart, WholeAddress, WholeWriteByte, WholeReadByte, WholeBusError
  DEF BusStep, Bus
<1>2. ASSUME NEW n \in Node, CallStep(n) \/ SketchStep(n) PROVE WholeInv'
  <2>1. Steps(n)
    BY <1>2, StepTestReady, StepClaim, StepSendStart, StepEndTransmissionReturns,
       StepRequestFromCopies, StepRequestFromReturns, StepBeginTransmission, StepSend,
       StepEndTransmission, StepRequestFrom, StepReceiveAll
    DEF CallStep, SketchStep
  <2>2. Goes(n)  BY <1>2, CallGoes
  <2> QED  BY <2>1, <2>2, WholeElsewhere DEF Steps
<1>3. ASSUME NEW n \in Node, IsrStep(n) PROVE WholeInv'
  <2>1. Elsewhere(n)  BY <1>3, IsrKeeps DEF Steps
  <2>2. Goes(n)
    <3>1. CASE n \in Master  BY <1>3, <3>1, MasterGoes
    <3>2. CASE n \notin Master
      <4>1. SlavesInv'  BY <1>3, <2>1, <3>2, IsrServes, SlaveStepKeeps
      <4>2. Whole(n)'  BY <1>3, <2>1, <3>2, <4>1, SlaveKeepsWhole
      <4> QED  BY <2>1, <3>2, <4>2, SlaveGoes
    <3> QED  BY <3>1, <3>2
  <2> QED  BY <2>1, <2>2, WholeElsewhere
<1>4. CASE UNCHANGED vars
  <2>1. UNCHANGED <<bus, twint, twdr, ea, twi_state, master, masterIndex, rxBuffer>>
    BY <1>4 DEF vars, busVars, twiVars, masterVars, slaveVars
  <2>2. \A n : Taken(n)' = Taken(n) /\ Held(n)' = Held(n)  BY <2>1 DEF Taken, Held
  <2>3. \A m \in bus.masters : Speaks(m)'  BY <2>1 DEF WholeInv, Speaks
  <2>4. \A s \in Node \ Master : Whole(s)'  BY <2>1, <2>2 DEF WholeInv, Whole
  <2> QED  BY <2>1, <2>3, <2>4 DEF WholeInv
<1> QED  BY <1>1, <1>2, <1>3, <1>4 DEF Next

\* Every reachable state satisfies the three invariants when no master's buffer is
\* longer than a slave's (all are TWI_BUFFER_LENGTH in the source).
THEOREM WholeInvariant ==
  ASSUME Apart, ~SlowCallback, Roomy
  PROVE  Spec => [](MastersInv /\ SlavesInv /\ WholeInv)
<1>1. Init => MastersInv /\ SlavesInv /\ WholeInv  BY InitHolds, SlavesInit, WholeInit
<1>2. (MastersInv /\ SlavesInv /\ WholeInv) /\ [Next]_vars
        => (MastersInv /\ SlavesInv /\ WholeInv)'
  BY NextKeeps, SlavesKeep, WholeKeeps
<1> QED  BY <1>1, <1>2, PTL DEF Spec

\* A node in a slave state is being served by the bus or has an interrupt coming, so
\* twi_state becomes READY again.  (A longer message leaves it in TWI_SRX: only a STOP
\* ends that state, and the slave that has refused a byte no longer sees it.)
THEOREM SlavesReturn ==
  ASSUME Apart, ~SlowCallback, Roomy
  PROVE  Spec => []NoStuckSlave
<1>1. MastersInv /\ WholeInv => NoStuckSlave
  <2> SUFFICES ASSUME MastersInv, WholeInv, NEW n \in Node, twi_state[n] \in {"SRX", "STX"}
               PROVE  bus.slave = n \/ twint[n] # "none"
    BY DEF NoStuckSlave
  <2>1. CASE n \in Master
    <3>1. MasterInv(n) /\ pc[n] \in Stages
      BY <2>1 DEF MastersInv, NodeInv, Types, TwiTypes
    <3>2. twi_state[n] \in {"READY", "MRX", "MTX"}
      BY <3>1 DEF MasterInv, Stages, UnderWay, Over, Claimed
    <3> QED  BY <3>2
  <2>2. CASE n \notin Master  BY <2>2 DEF WholeInv, Whole
  <2> QED  BY <2>1, <2>2
<1> QED  BY <1>1, WholeInvariant, PTL

\* When a master puts its STOP after the last byte, the slave's twi_rxBuffer holds
\* exactly the message, however many masters began it and lost.
THEOREM MessagesArriveWhole ==
  ASSUME Apart, ~SlowCallback, Roomy
  PROVE  Spec => MessageWhole
<1> DEFINE A == \A n, s \in Node :
                  bus.masters = {n} /\ bus.slave = s /\ twint[n] = "MT_DATA_ACK" /\ bus' = Free
                      => rxBuffer[s] = master[n]
<1>1. ASSUME MastersInv, SlavesInv, WholeInv, [Next]_vars PROVE [A]_vars
  <2> SUFFICES ASSUME NEW n \in Node, NEW s \in Node, bus.masters = {n}, bus.slave = s,
                      twint[n] = "MT_DATA_ACK", bus' = Free
               PROVE  rxBuffer[s] = master[n]
    OBVIOUS
  <2> USE <1>1
  <2>1. BusTypes  BY DEF MastersInv, Types
  <2>2. n \in bus.masters /\ n \in Master /\ UnderWay(n) /\ ~busy[n]
    BY OnTheBus DEF MasterInv
  <2>3. Writing(n)  BY <2>2 DEF UnderWay, Starting, Addressing, Reading, Losing
  <2>4. bus.phase = "Write" /\ Sending(n)  BY <2>3 DEF Writing
  <2>5. bus' # bus /\ bus'.phase = "Free" /\ bus'.masters = {}  BY DEF Free
  <2>6. ~BusStep
    BY <2>2, <2>4 DEF BusStep, Bus, Start, Address, WriteByte, ReadByte, BusError, Clocked,
                      Participants
  <2>7. ~UNCHANGED vars  BY <2>5 DEF vars, busVars
  <2>8. PICK m \in Node : CallStep(m) \/ SketchStep(m) \/ IsrStep(m)
    BY <2>6, <2>7 DEF Next
  <2>9. IsrStep(m)
    <3>1. CallStep(m) \/ SketchStep(m) => bus' = bus
      BY DEF CallStep, SketchStep, TestReady, Claim, SendStart, endTransmissionReturns,
             requestFromCopies, requestFromReturns, Waited, beginTransmission, send,
             endTransmission, requestFrom, receiveAll, busVars
    <3> QED  BY <2>5, <2>8, <3>1
  <2>10. Frees(m)
    <3>1. Leaves(m)  BY <2>9, IsrKeeps DEF Steps, Elsewhere
    <3>2. ~(bus.masters # {m} /\ bus' = [bus EXCEPT !.masters = @ \ {m}])
      BY <2>1, <2>4, <2>5 DEF BusTypes
    <3> QED  BY <2>5, <3>1, <3>2 DEF Leaves
  <2>11. m = n /\ twint[s] = "none"  BY <2>10 DEF Frees
  <2>12. IsrTransmit(n)
    <3>1. ~SlaveReceives(n) /\ ~SlaveRequested(n)
      BY DEF SlaveReceives, IsrSlaveStop, SlaveRequested, onRequestService, IsrSlaveRequest,
             Interrupt
    <3> QED
      BY <2>2, <2>9, <2>11, <3>1
      DEF IsrStep, Isr, IsrStart, IsrFailed, IsrArbLost, IsrReceive, IsrReceived,
          IsrSlaveAddressed, IsrSlaveData, IsrSlaveRefused, IsrSlaveRelease, IsrSlaveSend,
          IsrSlaveSent, Interrupt
  <2>13. ~(masterIndex[n] < masterLength[n])
    BY <2>5, <2>12 DEF IsrTransmit, twi_reply
  <2>14. /\ master[n] \in Seq(Bytes) /\ Len(master[n]) = masterLength[n]
         /\ masterIndex[n] \in Nat /\ masterLength[n] \in Nat
    BY <2>2, <2>4, Takes
  <2>15. masterIndex[n] = masterLength[n]  BY <2>4, <2>13, <2>14 DEF Sending
  <2>16. s \notin Master /\ Whole(s)  BY <2>1, ServesSlave DEF Apart, WholeInv
  <2>17. Held(s) = SubSeq(master[n], 1, Taken(n))  BY <2>2, <2>4, <2>16 DEF Whole
  <2>18. Held(s) = rxBuffer[s] /\ Taken(n) = Len(master[n])
    BY <2>11, <2>14, <2>15 DEF Held, Taken
  <2>19. SubSeq(master[n], 1, Len(master[n])) = master[n]  BY <2>14
  <2> QED  BY <2>17, <2>18, <2>19
<1> QED  BY <1>1, WholeInvariant, PTL DEF Spec, MessageWhole
=============================================================================
