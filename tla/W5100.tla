------------------------------- MODULE W5100 -------------------------------
(***************************************************************************)
(* The W5100 and the hosts on its network, as libraries/Ethernet uses      *)
(* them.  The chip runs TCP by itself: a socket changes state between any  *)
(* two register reads of the sketch.  Clients dial the sketch's server and *)
(* each sends one request per connection; Host is what the sketch dials.   *)
(***************************************************************************)
EXTENDS Integers

CONSTANTS MAX_SOCK_NUM,  \* sockets of the chip
          Clients,       \* hosts that dial the sketch's server
          Host,          \* the host that sketches dial
          Resets,        \* connections can break
          HostCloses     \* Host can be the one that ends its connection

NOBODY == "nobody"
ASSUME SocketAssumption == MAX_SOCK_NUM \in Nat \ {0}
ASSUME HostAssumption == Host \notin Clients /\ NOBODY \notin Clients \cup {Host} /\ {Resets, HostCloses} \subseteq BOOLEAN

Socks == 0..(MAX_SOCK_NUM - 1)

VARIABLES SnSR,      \* state of each socket
          peer,      \* host at the other end
          rx,        \* whether a byte of the peer waits in the chip
          tx,        \* SnTX_FSR: "empty", "full", or "sent" and not acknowledged
          SEND_OK,   \* interrupt flag: SEND is complete
          host,      \* what each host is doing
          broken     \* a connection has been reset

chipVars == <<SnSR, peer, rx, tx, SEND_OK, host, broken>>
-----------------------------------------------------------------------------
States == {"CLOSED", "INIT", "LISTEN", "SYNSENT", "ESTABLISHED", "FIN_WAIT", "CLOSE_WAIT", "LAST_ACK"}
Open(s) == SnSR[s] \in {"ESTABLISHED", "CLOSE_WAIT"}

ChipInit == /\ SnSR = [s \in Socks |-> "CLOSED"] /\ peer = [s \in Socks |-> NOBODY]
            /\ rx = [s \in Socks |-> FALSE] /\ tx = [s \in Socks |-> "empty"]
            /\ SEND_OK = [s \in Socks |-> FALSE]
            /\ host = [p \in Clients \cup {Host} |-> "idle"] /\ broken = FALSE

\* Socket s is closed, with nothing buffered and no peer; its interrupt flags stay.
Closed(s) == /\ SnSR' = [SnSR EXCEPT ![s] = "CLOSED"]
             /\ peer' = [peer EXCEPT ![s] = NOBODY]
             /\ rx' = [rx EXCEPT ![s] = FALSE] /\ tx' = [tx EXCEPT ![s] = "empty"]
             /\ UNCHANGED <<SEND_OK, broken>>

\* The host at the other end of s, unless it has closed, sees its connection end.
HangUp(s) == host' = [p \in DOMAIN host |->
    IF SnSR[s] \in {"ESTABLISHED", "FIN_WAIT"} /\ p = peer[s] THEN "idle" ELSE host[p]]

(***** commands (execCmdSn waits until the chip has taken them) *****)

CLOSE(s) == Closed(s) /\ HangUp(s)

Command(s, st) == /\ SnSR' = [SnSR EXCEPT ![s] = st]
                  /\ UNCHANGED <<peer, rx, tx, SEND_OK, host, broken>>

OPEN(s)    == Command(s, "INIT")
LISTEN(s)  == Command(s, "LISTEN")
CONNECT(s) == Command(s, "SYNSENT")

DISCON(s) == Command(s, CASE SnSR[s] = "ESTABLISHED" -> "FIN_WAIT"
                          [] SnSR[s] = "CLOSE_WAIT"  -> "LAST_ACK"
                          [] OTHER                   -> SnSR[s])

SEND(s, full) == /\ tx' = [tx EXCEPT ![s] = IF full THEN "full" ELSE @]
                 /\ UNCHANGED <<SnSR, peer, rx, SEND_OK, host, broken>>

RECV(s) == rx' = [rx EXCEPT ![s] = FALSE] /\ UNCHANGED <<SnSR, peer, tx, SEND_OK, host, broken>>

ClearIR(s) == SEND_OK' = [SEND_OK EXCEPT ![s] = FALSE] /\ UNCHANGED <<SnSR, peer, rx, tx, host, broken>>
-----------------------------------------------------------------------------
(***** the chip and the network *****)

Establish(s, p) == /\ SnSR' = [SnSR EXCEPT ![s] = "ESTABLISHED"]
                   /\ peer' = [peer EXCEPT ![s] = p] /\ host' = [host EXCEPT ![p] = "open"]
                   /\ UNCHANGED <<rx, tx, SEND_OK, broken>>

Dial(p) == /\ host[p] = "idle" /\ host' = [host EXCEPT ![p] = "syn"]
           /\ UNCHANGED <<SnSR, peer, rx, tx, SEND_OK, broken>>

Accept(s, p) == SnSR[s] = "LISTEN" /\ host[p] = "syn" /\ Establish(s, p)

Answer(s) == SnSR[s] = "SYNSENT" /\ host[Host] = "idle" /\ Establish(s, Host)

\* Host refuses, or does not answer until the chip gives up.
Refuse(s) == /\ SnSR[s] = "SYNSENT" /\ SnSR' = [SnSR EXCEPT ![s] = "CLOSED"]
             /\ UNCHANGED <<peer, rx, tx, SEND_OK, host, broken>>

Arrive(s) == /\ SnSR[s] = "ESTABLISHED" /\ host[peer[s]] = "open" /\ ~rx[s]
             /\ rx' = [rx EXCEPT ![s] = TRUE] /\ host' = [host EXCEPT ![peer[s]] = "sent"]
             /\ UNCHANGED <<SnSR, peer, tx, SEND_OK, broken>>

\* The peer sends its FIN, whether or not it sent anything else, and may dial again.
Fin(s) == /\ SnSR[s] = "ESTABLISHED" /\ (HostCloses \/ peer[s] # Host)
          /\ SnSR' = [SnSR EXCEPT ![s] = "CLOSE_WAIT"]
          /\ host' = [host EXCEPT ![peer[s]] = "idle"]
          /\ UNCHANGED <<peer, rx, tx, SEND_OK, broken>>

\* Both FINs are through.
Finish(s) == SnSR[s] \in {"FIN_WAIT", "LAST_ACK"} /\ Closed(s) /\ HangUp(s)

\* The data is out, and later its room is free again.
Transmit(s) == /\ Open(s) /\ tx[s] = "full"
               /\ tx' = [tx EXCEPT ![s] = "sent"] /\ SEND_OK' = [SEND_OK EXCEPT ![s] = TRUE]
               /\ UNCHANGED <<SnSR, peer, rx, host, broken>>

Acked(s) == /\ tx[s] = "sent" /\ tx' = [tx EXCEPT ![s] = "empty"]
            /\ UNCHANGED <<SnSR, peer, rx, SEND_OK, host, broken>>

\* A reset, or a retransmission timeout: what was not read yet stays in the chip.
Reset(s) == /\ Resets /\ ~broken /\ SnSR[s] \in {"ESTABLISHED", "CLOSE_WAIT", "FIN_WAIT", "LAST_ACK"}
            /\ SnSR' = [SnSR EXCEPT ![s] = "CLOSED"] /\ HangUp(s) /\ broken' = TRUE
            /\ peer' = [peer EXCEPT ![s] = NOBODY]
            /\ tx' = [tx EXCEPT ![s] = "empty"] /\ UNCHANGED <<rx, SEND_OK>>
=============================================================================
