-------------------------------- MODULE Wire --------------------------------
(***************************************************************************)
(* libraries/Wire/Wire.cpp over Twi: the TwoWire object of each node, the  *)
(* sketch that calls it and the slave callbacks the interrupt runs.        *)
(*                                                                         *)
(* A byte is told by who made it: Payload(n) when node n's sketch sends it *)
(* as master, Reply(n) when its request callback does.                     *)
(***************************************************************************)
EXTENDS Twi

CONSTANTS Master,    \* the nodes whose sketch makes master calls
          Target,    \* the addresses each of them calls
          Quantity,  \* bytes asked for in requestFrom
          Replies    \* bytes a request callback sends

ASSUME SketchAssumption == /\ Master \subseteq Node
                           /\ Target \in [Node -> SUBSET (1..49)]
                           /\ Quantity \subseteq 1..255
                           /\ Replies \subseteq Nat

VARIABLES unread,          \* rxBuffer from rxBufferIndex to rxBufferLength
          copied,          \* rxBuffer while requestFrom has yet to set the two
          txData, txFill,  \* txBuffer, txBufferLength (and txBufferIndex)
          txAddress, transmitting,
          ret              \* what endTransmission returned, and history: was the
                           \* message acknowledged to its end?

wireVars == <<unread, copied, txData, txFill, txAddress, transmitting, ret>>
vars == <<busVars, busy, twiVars, wireVars>>

Payload(n) == 100 + n
Reply(n) == 200 + n

NoResult == [code |-> -1, sent |-> FALSE]

Init == /\ BusInit /\ TwiInit
        /\ unread = [n \in Node |-> <<>>]
        /\ copied = [n \in Node |-> <<>>]
        /\ txData = [n \in Node |-> <<>>]
        /\ txFill = [n \in Node |-> 0]
        /\ txAddress = [n \in Node |-> 0]
        /\ transmitting = [n \in Node |-> FALSE]
        /\ ret = [n \in Node |-> NoResult]
-----------------------------------------------------------------------------
(* The sketch.                                                             *)

rxVars == <<unread, copied>>
InSketch(n) == n \in Master /\ pc[n] = "Sketch" /\ Runs(n)

beginTransmission(n, address) ==
    /\ InSketch(n)
    /\ transmitting' = Set(transmitting, n, TRUE)
    /\ txAddress' = Set(txAddress, n, address)
    /\ txFill' = Set(txFill, n, 0)
    /\ ret' = Set(ret, n, NoResult)
    /\ UNCHANGED <<busVars, busy, twiVars, rxVars, txData>>

\* The bytes a buffer holds after k more were sent: those that do not fit are
\* dropped.
Sent(n, fill, bytes) == LET k == Min({Len(bytes), TWI_BUFFER_LENGTH[n] - fill})
                        IN  SubSeq(txData[n], 1, fill) \o SubSeq(bytes, 1, k)

send(n) ==
    /\ InSketch(n)
    /\ transmitting[n]
    /\ LET bytes == Sent(n, txFill[n], <<Payload(n)>>)
       IN  /\ txData' = Set(txData, n, Overlay(bytes, txData[n]))
           /\ txFill' = Set(txFill, n, Len(bytes))
    /\ UNCHANGED <<busVars, busy, twiVars, rxVars, txAddress, transmitting, ret>>

endTransmission(n) ==
    /\ InSketch(n)
    /\ transmitting[n]
    /\ Enter(n, [op |-> "write", address |-> txAddress[n], length |-> txFill[n]])
    /\ ret' = Set(ret, n, NoResult)
    /\ UNCHANGED <<busVars, busy, twi_state, twi_error, masterVars, slaveVars, acked,
                   rxVars, txData, txFill, txAddress, transmitting>>

endTransmissionReturns(n) ==
    /\ Waited(n, "write")
    /\ ret' = Set(ret, n, [code |-> WriteCode(n), sent |-> acked[n] = masterLength[n]])
    /\ Return(n)
    /\ txData' = Set(txData, n, <<>>)
    /\ txFill' = Set(txFill, n, 0)
    /\ transmitting' = Set(transmitting, n, FALSE)
    /\ UNCHANGED <<rxVars, txAddress>>

requestFrom(n, address, quantity) ==
    /\ InSketch(n)
    /\ Enter(n, [op |-> "read", address |-> address,
                 length |-> Min({quantity, TWI_BUFFER_LENGTH[n]})])
    /\ ret' = Set(ret, n, NoResult)
    /\ UNCHANGED <<busVars, busy, twi_state, twi_error, masterVars, slaveVars, acked,
                   rxVars, txData, txFill, txAddress, transmitting>>

\* twi_readFrom copies straight into rxBuffer; the indices follow.
requestFromCopies(n) ==
    /\ Waited(n, "read")
    /\ copied' = Set(copied, n, ReadBytes(n))
    /\ call' = [call EXCEPT ![n].length = Len(ReadBytes(n))]
    /\ pc' = Set(pc, n, "SetIndices")
    /\ UNCHANGED <<masterVars, twi_error, acked,
                   unread, txData, txFill, txAddress, transmitting, ret>>

requestFromReturns(n) ==
    /\ pc[n] = "SetIndices" /\ Runs(n)
    /\ Return(n)
    /\ unread' = Set(unread, n, SubSeq(copied[n], 1, call[n].length))
    /\ copied' = Set(copied, n, <<>>)
    /\ UNCHANGED <<busVars, busy, twi_state, slaveVars,
                   txData, txFill, txAddress, transmitting, ret>>

\* receive() until available() is zero.
receiveAll(n) ==
    /\ InSketch(n)
    /\ unread[n] # <<>>
    /\ unread' = Set(unread, n, <<>>)
    /\ UNCHANGED <<busVars, busy, twiVars, copied, txData, txFill, txAddress, transmitting,
                   ret>>
-----------------------------------------------------------------------------
(* The callbacks, in interrupt context.                                    *)

\* Data is dropped while the sketch has unread bytes; else it is copied in and
\* the user's callback reads it, or leaves it.
onReceiveService(n) ==
    IF unread[n] # <<>>
    THEN UNCHANGED rxVars
    ELSE /\ unread' \in {Set(unread, n, rxBuffer[n]), Set(unread, n, <<>>)}
         /\ copied' = IF pc[n] = "SetIndices"
                      THEN Set(copied, n, Overlay(rxBuffer[n], copied[n])) ELSE copied

SlaveReceives(n) == /\ IsrSlaveStop(n)
                    /\ onReceiveService(n)
                    /\ UNCHANGED <<txData, txFill, txAddress, transmitting, ret>>

\* The user's callback makes one send() of k bytes.  If the sketch is between
\* beginTransmission and endTransmission they land in the master's buffer, byte
\* by byte, and the interrupt is left with nothing to transmit.
onRequestService(n, k) ==
    LET bytes == [i \in 1..k |-> Reply(n)]
        kept  == IF transmitting[n] THEN Sent(n, 0, bytes) ELSE <<>>
        given == IF transmitting[n] \/ k > TWI_BUFFER_LENGTH[n] THEN <<>> ELSE bytes
    IN  /\ IsrSlaveRequest(n, given)
        /\ txData' = Set(txData, n, Overlay(kept, txData[n]))
        /\ txFill' = Set(txFill, n, Len(kept))

SlaveRequested(n) == /\ \E k \in Replies : onRequestService(n, k)
                     /\ UNCHANGED <<rxVars, txAddress, transmitting, ret>>
-----------------------------------------------------------------------------
CallStep(n) == \/ /\ \/ TestReady(n)
                     \/ Claim(n, SubSeq(txData[n], 1, call[n].length))
                     \/ SendStart(n)
                  /\ UNCHANGED wireVars
               \/ endTransmissionReturns(n)
               \/ requestFromCopies(n) \/ requestFromReturns(n)

IsrStep(n) == \/ Isr(n) /\ UNCHANGED wireVars
              \/ SlaveReceives(n)
              \/ SlaveRequested(n)

SketchStep(n) == \/ \E a \in Target[n] : \/ beginTransmission(n, a)
                                      \/ \E q \in Quantity : requestFrom(n, a, q)
                 \/ send(n) \/ endTransmission(n) \/ receiveAll(n)

BusStep == Bus /\ UNCHANGED <<twiVars, wireVars>>

Next == \/ BusStep
        \/ \E n \in Node : CallStep(n) \/ IsrStep(n) \/ SketchStep(n)

Spec == Init /\ [][Next]_vars

\* The bus, the interrupts and a call that has begun do not all stop at once;
\* nothing makes a sketch begin a call.
Fairness == WF_vars(BusStep \/ \E n \in Node : IsrStep(n) \/ CallStep(n))

FairSpec == Spec /\ Fairness
-----------------------------------------------------------------------------
Statuses == {"none", "START", "ARB_LOST", "BUS_ERROR",
             "MT_SLA_ACK", "MT_SLA_NACK", "MT_DATA_ACK", "MT_DATA_NACK",
             "MR_SLA_ACK", "MR_SLA_NACK", "MR_DATA_ACK", "MR_DATA_NACK",
             "SR_SLA_ACK", "SR_ARB_LOST_SLA_ACK", "SR_DATA_ACK", "SR_DATA_NACK", "SR_STOP",
             "ST_SLA_ACK", "ST_ARB_LOST_SLA_ACK", "ST_DATA_ACK", "ST_DATA_NACK",
             "ST_LAST_DATA"}

\* Types, and no index past the end of its buffer.
TypeOK ==
    /\ bus \in [phase : {"Free", "Address", "Write", "Read"},
                masters : SUBSET Node, slave : Node \cup Device \cup {0}]
    /\ twint \in [Node -> Statuses]
    /\ sta \in [Node -> BOOLEAN] /\ ea \in [Node -> BOOLEAN] /\ busy \in [Node -> BOOLEAN]
    /\ twdr \in [Node -> 0..255]
    /\ twi_state \in [Node -> {"READY", "MRX", "MTX", "SRX", "STX"}]
    /\ twi_error \in [Node -> {"none", "SLA_NACK", "DATA_NACK", "ARB_LOST", "BUS_ERROR"}]
    /\ pc \in [Node -> {"Sketch", "TestReady", "Claim", "SendStart", "Wait", "SetIndices"}]
    /\ transmitting \in [Node -> BOOLEAN]
    /\ ret \in [Node -> [code : -1..4, sent : BOOLEAN]]
    /\ \A n \in Node : \A buffer \in {master[n], rxBuffer[n], txBuffer[n], txData[n],
                                      unread[n], copied[n]} :
           Len(buffer) <= TWI_BUFFER_LENGTH[n]
    /\ \A n \in Node : /\ masterIndex[n] <= TWI_BUFFER_LENGTH[n]
                       /\ txIndex[n] <= TWI_BUFFER_LENGTH[n]
                       /\ txFill[n] <= Len(txData[n])

\* endTransmission() returns 0 only when the addressed device acknowledged its
\* address and every byte (twi_writeTo: "0 .. success").
SuccessMeansSent ==
    \A n \in Node : ret[n].code = 0 => ret[n].sent

\* It returns an error only when some byte was not acknowledged, so a retry
\* never repeats a message the slave has taken whole.
FailureMeansNotSent ==
    \A n \in Node : ret[n].code > 0 => ~ret[n].sent

\* A node that is in a slave state is being served by the bus or has an
\* interrupt coming: it will be READY again.
NoStuckSlave ==
    \A n \in Node : twi_state[n] \in {"SRX", "STX"} =>
        bus.slave = n \/ twint[n] # "none"

\* A master call that waits has a START requested, is on the bus, or has an
\* interrupt or a slave transfer that will end the wait.
NoLostStart ==
    \A n \in Node : pc[n] = "Wait" /\ twi_state[n] \in {"MTX", "MRX"} =>
        sta[n] \/ n \in bus.masters \/ bus.slave = n \/ twint[n] # "none" \/ busy[n]

\* When a master puts its STOP after the last byte, the slave's buffer holds
\* exactly the message, however many masters began it.
MessageWhole ==
    [][\A n, s \in Node :
          bus.masters = {n} /\ bus.slave = s /\ twint[n] = "MT_DATA_ACK" /\ bus' = Free
              => rxBuffer[s] = master[n]]_vars

\* Every byte a master reads from a node while that node is sending is one its
\* request callback gave, or the zero the interrupt puts in its place.
ReadsReply ==
    [][\A n \in Node : twint[n] = "none" /\ twint'[n] \in {"MR_DATA_ACK", "MR_DATA_NACK"}
            /\ bus.slave \in Node
        => twdr'[n] \in {Reply(bus.slave), 0}]_vars

\* A call to the Wire library returns.
CallsReturn == \A n \in Master : pc[n] = "TestReady" ~> pc[n] = "Sketch"
=============================================================================
