--------------------------------- MODULE Twi ---------------------------------
(***************************************************************************)
(* libraries/Wire/utility/twi.c on every node: the blocking master calls   *)
(* twi_writeTo and twi_readFrom, which run in the sketch, and the state    *)
(* machine of the TWI interrupt, which serves the node as master and as    *)
(* slave.  The two share twi_state, twi_error and TWCR without a lock, so  *)
(* a master call is split where it touches them: the test of twi_state,    *)
(* the claim (twi_state, twi_error and the buffers), the START and the     *)
(* wait.  Wire supplies the callbacks and the calls.                       *)
(***************************************************************************)
EXTENDS TwiBus

CONSTANT TWI_BUFFER_LENGTH  \* per node; 32 in the source

ASSUME LengthAssumption == TWI_BUFFER_LENGTH \in [Node -> 1..255]

VARIABLES twi_state,   \* "READY", "MRX", "MTX", "SRX" or "STX"
          twi_error,   \* "none" is 0xFF
          twi_slarw,
          master,      \* twi_masterBuffer: the bytes to send, or those received
          masterIndex, masterLength,
          txBuffer, txIndex, txLength,
          rxBuffer,    \* the bytes of twi_rxBuffer below twi_rxBufferIndex
          pc,          \* where the sketch is: "Sketch", or a step of a master call
          call,        \* the arguments of that call
          acked        \* history: bytes acknowledged in this call, -1: not even the address

masterVars == <<twi_slarw, master, masterIndex, masterLength>>
slaveVars  == <<txBuffer, txIndex, txLength, rxBuffer>>
twiVars == <<twi_state, twi_error, masterVars, slaveVars, pc, call, acked>>

Nothing == [op |-> "none", address |-> 0, length |-> 0]

TwiInit == /\ twi_state = [n \in Node |-> "READY"]
           /\ twi_error = [n \in Node |-> "none"]
           /\ twi_slarw = [n \in Node |-> 0]
           /\ master = [n \in Node |-> <<>>]
           /\ masterIndex = [n \in Node |-> 0]
           /\ masterLength = [n \in Node |-> 0]
           /\ txBuffer = [n \in Node |-> <<>>]
           /\ txIndex = [n \in Node |-> 0]
           /\ txLength = [n \in Node |-> 0]
           /\ rxBuffer = [n \in Node |-> <<>>]
           /\ pc = [n \in Node |-> "Sketch"]
           /\ call = [n \in Node |-> Nothing]
           /\ acked = [n \in Node |-> -1]

Set(f, n, v) == [f EXCEPT ![n] = v]

\* Copying bytes to the front of a buffer leaves the older bytes after them.
Overlay(new, old) == new \o SubSeq(old, Len(new) + 1, Len(old))

\* buffer[i] = byte, where i is the next free place or an earlier one.
Store(buffer, i, byte) == IF i < Len(buffer) THEN [buffer EXCEPT ![i + 1] = byte]
                                             ELSE Append(buffer, byte)
-----------------------------------------------------------------------------
(* The master calls.  A pending interrupt preempts the sketch.             *)

Runs(n) == twint[n] = "none" /\ ~busy[n]

\* Enter twi_writeTo or twi_readFrom; a length beyond the buffer returns at once.
Enter(n, request) ==
    /\ pc[n] = "Sketch" /\ Runs(n)
    /\ request.length <= TWI_BUFFER_LENGTH[n]
    /\ pc' = Set(pc, n, "TestReady")
    /\ call' = Set(call, n, request)

TestReady(n) == /\ pc[n] = "TestReady" /\ Runs(n)
                /\ twi_state[n] = "READY"
                /\ pc' = Set(pc, n, "Claim")
                /\ UNCHANGED <<busVars, busy, twi_state, twi_error, masterVars, slaveVars,
                               call, acked>>

\* Unconditional: whatever the interrupt has made of twi_state since the test.
\* "data" is what the caller's buffer holds now, not when the call was made.
Claim(n, data) ==
    LET read == call[n].op = "read"
    IN  /\ pc[n] = "Claim" /\ Runs(n)
        /\ twi_state' = Set(twi_state, n, IF read THEN "MRX" ELSE "MTX")
        /\ twi_error' = Set(twi_error, n, "none")
        /\ masterIndex' = Set(masterIndex, n, 0)
        /\ masterLength' = Set(masterLength, n,
               IF read THEN (call[n].length + 255) % 256 ELSE call[n].length)
        /\ master' = Set(master, n, IF read THEN <<>> ELSE data)
        /\ twi_slarw' = Set(twi_slarw, n, Sla(call[n].address, IF read THEN 1 ELSE 0))
        /\ acked' = Set(acked, n, -1)
        /\ pc' = Set(pc, n, "SendStart")
        /\ UNCHANGED <<busVars, busy, slaveVars, call>>

SendStart(n) == /\ pc[n] = "SendStart" /\ Runs(n)
                /\ WriteTWCR(n, TRUE, TRUE)
                /\ pc' = Set(pc, n, "Wait")
                /\ UNCHANGED <<bus, twdr, busy, twi_state, twi_error, masterVars, slaveVars,
                               call, acked>>

\* The wait is over as soon as twi_state is anything but the claimed state.
Waited(n, op) == /\ pc[n] = "Wait" /\ Runs(n)
                 /\ call[n].op = op
                 /\ twi_state[n] # (IF op = "read" THEN "MRX" ELSE "MTX")
                 /\ UNCHANGED <<busVars, busy, twi_state, slaveVars>>

\* Back to the sketch.  What the call leaves behind is dead, unless its START
\* is still to come, and is reset to keep equivalent states equal.
Return(n) ==
    /\ pc' = Set(pc, n, "Sketch")
    /\ call' = Set(call, n, Nothing)
    /\ IF sta[n] \/ n \in bus.masters
       THEN UNCHANGED <<masterVars, twi_error, acked>>
       ELSE /\ twi_slarw' = Set(twi_slarw, n, 0)
            /\ master' = Set(master, n, <<>>)
            /\ masterIndex' = Set(masterIndex, n, 0)
            /\ masterLength' = Set(masterLength, n, 0)
            /\ twi_error' = Set(twi_error, n, "none")
            /\ acked' = Set(acked, n, -1)

\* What twi_writeTo returns, and the bytes twi_readFrom copies out.
WriteCode(n) == CASE twi_error[n] = "none"     -> 0
                  [] twi_error[n] = "SLA_NACK"  -> 2
                  [] twi_error[n] = "DATA_NACK" -> 3
                  [] OTHER                      -> 4

ReadBytes(n) == SubSeq(master[n], 1, Min({masterIndex[n], call[n].length}))
-----------------------------------------------------------------------------
(* The interrupt: one action per group of cases of the switch.             *)

Interrupt(n, statuses) == twint[n] \in statuses /\ ~busy[n]

twi_reply(n, ack) == WriteTWCR(n, FALSE, ack) /\ UNCHANGED bus
twi_releaseBus(n) == WriteTWCR(n, FALSE, TRUE) /\ UNCHANGED bus
twi_stop(n)       == WriteStop(n)

IsrStart(n) == /\ Interrupt(n, {"START"})
               /\ twdr' = Set(twdr, n, twi_slarw[n])
               /\ twi_reply(n, TRUE)
               /\ UNCHANGED <<busy, twiVars>>

\* Mutant: "<=" for "<", one byte too many.
IsrTransmitMutant(n) ==
    /\ Interrupt(n, {"MT_SLA_ACK", "MT_DATA_ACK"})
    /\ acked' = Set(acked, n, acked[n] + 1)
    /\ IF masterIndex[n] <= masterLength[n]
       THEN /\ twdr' = Set(twdr, n, IF masterIndex[n] < Len(master[n])
                                    THEN master[n][masterIndex[n] + 1] ELSE 0)
            /\ masterIndex' = Set(masterIndex, n, masterIndex[n] + 1)
            /\ twi_reply(n, TRUE)
            /\ UNCHANGED twi_state
       ELSE /\ twi_stop(n)
            /\ twi_state' = Set(twi_state, n, "READY")
            /\ UNCHANGED masterIndex
    /\ UNCHANGED <<busy, twi_error, twi_slarw, master, masterLength, slaveVars, pc, call>>

IsrTransmit(n) ==
    /\ Interrupt(n, {"MT_SLA_ACK", "MT_DATA_ACK"})
    /\ acked' = Set(acked, n, acked[n] + 1)
    /\ IF masterIndex[n] < masterLength[n]
       THEN /\ twdr' = Set(twdr, n, master[n][masterIndex[n] + 1])
            /\ masterIndex' = Set(masterIndex, n, masterIndex[n] + 1)
            /\ twi_reply(n, TRUE)
            /\ UNCHANGED twi_state
       ELSE /\ twi_stop(n)
            /\ twi_state' = Set(twi_state, n, "READY")
            /\ UNCHANGED masterIndex
    /\ UNCHANGED <<busy, twi_error, twi_slarw, master, masterLength, slaveVars, pc, call>>

ErrorOf(status) == CASE status = "MT_SLA_NACK"  -> "SLA_NACK"
                     [] status = "MT_DATA_NACK" -> "DATA_NACK"
                     [] OTHER                   -> status

\* Mutants: the error is not recorded; the call is not ended.
IsrFailedMutantSilent(n) ==
    /\ Interrupt(n, {"MT_SLA_NACK", "MT_DATA_NACK", "BUS_ERROR"})
    /\ twi_stop(n)
    /\ twi_state' = Set(twi_state, n, "READY")
    /\ UNCHANGED <<busy, twi_error, masterVars, slaveVars, pc, call, acked>>

IsrFailedMutantEndless(n) ==
    /\ Interrupt(n, {"MT_SLA_NACK", "MT_DATA_NACK", "BUS_ERROR"})
    /\ twi_error' = Set(twi_error, n, ErrorOf(twint[n]))
    /\ twi_stop(n)
    /\ UNCHANGED <<busy, twi_state, masterVars, slaveVars, pc, call, acked>>

\* A negative acknowledge or a bus error ends the transfer with a STOP.
IsrFailed(n) ==
    /\ Interrupt(n, {"MT_SLA_NACK", "MT_DATA_NACK", "BUS_ERROR"})
    /\ twi_error' = Set(twi_error, n, ErrorOf(twint[n]))
    /\ twi_stop(n)
    /\ twi_state' = Set(twi_state, n, "READY")
    /\ UNCHANGED <<busy, masterVars, slaveVars, pc, call, acked>>

\* Mutants: a lost arbitration is not recorded; it does not end the call.
IsrArbLostMutantSilent(n) ==
    /\ Interrupt(n, {"ARB_LOST"})
    /\ twi_releaseBus(n)
    /\ twi_state' = Set(twi_state, n, "READY")
    /\ UNCHANGED <<twdr, busy, twi_error, masterVars, slaveVars, pc, call, acked>>

IsrArbLostMutantEndless(n) ==
    /\ Interrupt(n, {"ARB_LOST"})
    /\ twi_error' = Set(twi_error, n, "ARB_LOST")
    /\ twi_releaseBus(n)
    /\ UNCHANGED <<twdr, busy, twi_state, masterVars, slaveVars, pc, call, acked>>

IsrArbLost(n) == /\ Interrupt(n, {"ARB_LOST"})
                 /\ twi_error' = Set(twi_error, n, "ARB_LOST")
                 /\ twi_releaseBus(n)
                 /\ twi_state' = Set(twi_state, n, "READY")
                 /\ UNCHANGED <<twdr, busy, masterVars, slaveVars, pc, call, acked>>

Received(n) == Set(master, n, Store(master[n], masterIndex[n], twdr[n]))

\* MR_DATA_ACK stores the byte and falls through to MR_SLA_ACK.
IsrReceive(n) ==
    LET stored == IF twint[n] = "MR_DATA_ACK" THEN 1 ELSE 0
        index  == masterIndex[n] + stored
    IN  /\ Interrupt(n, {"MR_SLA_ACK", "MR_DATA_ACK"})
        /\ master' = IF stored = 1 THEN Received(n) ELSE master
        /\ masterIndex' = Set(masterIndex, n, index)
        /\ twi_reply(n, index < masterLength[n])
        /\ UNCHANGED <<twdr, busy, twi_state, twi_error, twi_slarw, masterLength, slaveVars,
                       pc, call, acked>>

\* MR_DATA_NACK stores the last byte and falls through to MR_SLA_NACK.
IsrReceived(n) ==
    /\ Interrupt(n, {"MR_SLA_NACK", "MR_DATA_NACK"})
    /\ IF twint[n] = "MR_DATA_NACK"
       THEN /\ master' = Received(n)
            /\ masterIndex' = Set(masterIndex, n, masterIndex[n] + 1)
       ELSE UNCHANGED <<master, masterIndex>>
    /\ twi_stop(n)
    /\ twi_state' = Set(twi_state, n, "READY")
    /\ UNCHANGED <<busy, twi_error, twi_slarw, masterLength, slaveVars, pc, call, acked>>

\* Mutant: the address is answered, the byte that follows is refused.
IsrSlaveAddressedMutant(n) ==
    /\ Interrupt(n, {"SR_SLA_ACK", "SR_ARB_LOST_SLA_ACK"})
    /\ twi_state' = Set(twi_state, n, "SRX")
    /\ rxBuffer' = Set(rxBuffer, n, <<>>)
    /\ twi_reply(n, FALSE)
    /\ UNCHANGED <<twdr, busy, twi_error, masterVars, txBuffer, txIndex, txLength, pc, call,
                   acked>>

IsrSlaveAddressed(n) ==
    /\ Interrupt(n, {"SR_SLA_ACK", "SR_ARB_LOST_SLA_ACK"})
    /\ twi_state' = Set(twi_state, n, "SRX")
    /\ rxBuffer' = Set(rxBuffer, n, <<>>)
    /\ twi_reply(n, TRUE)
    /\ UNCHANGED <<twdr, busy, twi_error, masterVars, txBuffer, txIndex, txLength, pc, call,
                   acked>>

\* Mutants: no test for a full buffer; a buffer one byte short.
IsrSlaveDataMutantFull(n) ==
    /\ Interrupt(n, {"SR_DATA_ACK"})
    /\ rxBuffer' = Set(rxBuffer, n, Append(rxBuffer[n], twdr[n]))
    /\ twi_reply(n, TRUE)
    /\ UNCHANGED <<twdr, busy, twi_state, twi_error, masterVars, txBuffer, txIndex,
                   txLength, pc, call, acked>>

IsrSlaveDataMutantShort(n) ==
    LET room == Len(rxBuffer[n]) + 1 < TWI_BUFFER_LENGTH[n]
    IN  /\ Interrupt(n, {"SR_DATA_ACK"})
        /\ rxBuffer' = IF room THEN Set(rxBuffer, n, Append(rxBuffer[n], twdr[n])) ELSE rxBuffer
        /\ twi_reply(n, room)
        /\ UNCHANGED <<twdr, busy, twi_state, twi_error, masterVars, txBuffer, txIndex,
                       txLength, pc, call, acked>>

IsrSlaveData(n) ==
    LET room == Len(rxBuffer[n]) < TWI_BUFFER_LENGTH[n]
    IN  /\ Interrupt(n, {"SR_DATA_ACK"})
        /\ rxBuffer' = IF room THEN Set(rxBuffer, n, Append(rxBuffer[n], twdr[n])) ELSE rxBuffer
        /\ twi_reply(n, room)
        /\ UNCHANGED <<twdr, busy, twi_state, twi_error, masterVars, txBuffer, txIndex,
                       txLength, pc, call, acked>>

IsrSlaveRefused(n) == /\ Interrupt(n, {"SR_DATA_NACK"})
                      /\ twi_reply(n, FALSE)
                      /\ UNCHANGED <<twdr, busy, twiVars>>

\* SR_STOP up to the callback: twi_stop has re-enabled the peripheral.
IsrSlaveStop(n) ==
    /\ Interrupt(n, {"SR_STOP"})
    /\ twi_stop(n)
    /\ twi_state' = Set(twi_state, n, "READY")
    /\ busy' = Set(busy, n, TRUE)
    /\ UNCHANGED <<twi_error, masterVars, slaveVars, pc, call, acked>>

\* SR_STOP after the callback.
IsrSlaveRelease(n) ==
    /\ busy[n]
    /\ busy' = Set(busy, n, FALSE)
    /\ rxBuffer' = Set(rxBuffer, n, <<>>)
    /\ twi_releaseBus(n)
    /\ twi_state' = Set(twi_state, n, "READY")
    /\ UNCHANGED <<twdr, twi_error, masterVars, txBuffer, txIndex, txLength, pc, call, acked>>

\* After a transfer the transmit buffer is read again only if the interrupt of
\* the next request was lost; such a byte is Stale.
Stale == 199
TxByte(buffer, i) == IF i < Len(buffer) THEN buffer[i + 1] ELSE Stale

\* The callback handed "reply" to twi_transmit, or nothing: then one zero byte.
IsrSlaveRequest(n, reply) ==
    LET bytes == IF reply = <<>> THEN <<0>> ELSE reply
    IN  /\ Interrupt(n, {"ST_SLA_ACK", "ST_ARB_LOST_SLA_ACK"})
        /\ twi_state' = Set(twi_state, n, "STX")
        /\ txBuffer' = Set(txBuffer, n, bytes)
        /\ txLength' = Set(txLength, n, Len(bytes))
        /\ txIndex' = Set(txIndex, n, 1)
        /\ twdr' = Set(twdr, n, TxByte(bytes, 0))
        /\ twi_reply(n, 1 < Len(bytes))
        /\ UNCHANGED <<busy, twi_error, masterVars, rxBuffer, pc, call, acked>>

\* Mutant: the index is advanced before the byte is fetched.
IsrSlaveSendMutant(n) ==
    /\ Interrupt(n, {"ST_DATA_ACK"})
    /\ twdr' = Set(twdr, n, TxByte(txBuffer[n], txIndex[n] + 1))
    /\ txIndex' = Set(txIndex, n, txIndex[n] + 1)
    /\ twi_reply(n, txIndex[n] + 1 < txLength[n])
    /\ UNCHANGED <<busy, twi_state, twi_error, masterVars, txBuffer, txLength, rxBuffer, pc,
                   call, acked>>

IsrSlaveSend(n) ==
    /\ Interrupt(n, {"ST_DATA_ACK"})
    /\ twdr' = Set(twdr, n, TxByte(txBuffer[n], txIndex[n]))
    /\ txIndex' = Set(txIndex, n, txIndex[n] + 1)
    /\ twi_reply(n, txIndex[n] + 1 < txLength[n])
    /\ UNCHANGED <<busy, twi_state, twi_error, masterVars, txBuffer, txLength, rxBuffer, pc,
                   call, acked>>

IsrSlaveSent(n) == /\ Interrupt(n, {"ST_DATA_NACK", "ST_LAST_DATA"})
                   /\ twi_reply(n, TRUE)
                   /\ twi_state' = Set(twi_state, n, "READY")
                   /\ twdr' = Set(twdr, n, HighByte)
                   /\ txBuffer' = Set(txBuffer, n, <<>>)
                   /\ txIndex' = Set(txIndex, n, 0)
                   /\ txLength' = Set(txLength, n, 0)
                   /\ UNCHANGED <<busy, twi_error, masterVars, rxBuffer, pc, call, acked>>

\* The cases that call nothing outside twi.c.
Isr(n) == \/ IsrStart(n) \/ IsrTransmit(n) \/ IsrFailed(n) \/ IsrArbLost(n)
          \/ IsrReceive(n) \/ IsrReceived(n)
          \/ IsrSlaveAddressed(n) \/ IsrSlaveData(n) \/ IsrSlaveRefused(n)
          \/ IsrSlaveRelease(n) \/ IsrSlaveSend(n) \/ IsrSlaveSent(n)
=============================================================================
