--------------------------- MODULE EthernetProofs ---------------------------
(***************************************************************************)
(* What holds of Ethernet for every number of sockets and every set of     *)
(* clients: types, that the server's connections and the sketch's own do   *)
(* not mix, although both take their sockets from the same chip, and that  *)
(* the server throws no byte away.                                         *)
(***************************************************************************)
EXTENDS Ethernet, TLAPS

\* Where the code has a socket in hand, it is one of the chip.
Handless == {"sketch", "accept", "begin", "find", "findClosing", "findData", "each", "pick",
             "polling", "failed"}
HandTypes == (At("sketch") => after = "none") /\ (ethPc \in Handless \/ sock \in Socks)

EthTypes == EthTypeOK /\ broken \in BOOLEAN /\ HandTypes

\* Those of the chip, and those of the sketch and its call.
ChipTypes == /\ SnSR \in [Socks -> States] /\ peer \in [Socks -> Clients \cup {Host, NOBODY}]
             /\ rx \in [Socks -> BOOLEAN] /\ tx \in [Socks -> {"empty", "full", "sent"}]
             /\ SEND_OK \in [Socks -> BOOLEAN]
             /\ host \in [Clients \cup {Host} -> {"idle", "syn", "open", "sent"}]
             /\ broken \in BOOLEAN

CallTypes == /\ HandTypes /\ server_port \subseteq Socks
             /\ {served, client, sock} \subseteq Socks \cup {NONE}
             /\ servedPeer \in Clients \cup {Host, NOBODY}
             /\ op \in Callers /\ loop \in Socks /\ mixed \subseteq Callers
             /\ after \in {"none", "open", "sent", "stopped"}

\* The initial state has its types.
LEMMA TypesInit == ASSUME EthInit PROVE EthTypes
<1>1. ChipTypes  BY DEF EthInit, ChipInit, ChipTypes, States
<1>2. 0 \in Socks  BY SocketAssumption DEF Socks
<1> QED  BY <1>1, <1>2 DEF EthInit, ChipTypes, EthTypes, EthTypeOK, HandTypes, Handless, At, Callers, Places

\* Closing a socket, and a command that changes its state, keep the chip's types.
LEMMA TypesClose ==
  ASSUME ChipTypes, NEW s, CLOSE(s)
  PROVE  ChipTypes'
BY DEF ChipTypes, CLOSE, Closed, HangUp, States

LEMMA TypesCommand ==
  ASSUME ChipTypes, NEW s, NEW st \in States, Command(s, st)
  PROVE  ChipTypes'
BY DEF ChipTypes, Command

\* The chip and the network keep the types.
LEMMA TypesNetwork ==
  ASSUME EthTypes, Network
  PROVE  EthTypes'
<1> USE DEF EthTypes, EthTypeOK, HandTypes, Handless, At, Net, handles, callVars, chipVars, States, Open,
            Establish, HangUp, Closed
<1>1. ASSUME NEW s \in Socks, Net(Answer(s)) PROVE EthTypes'  BY <1>1 DEF Answer
<1>2. ASSUME NEW s \in Socks, Net(Refuse(s)) PROVE EthTypes'  BY <1>2 DEF Refuse
<1>3. ASSUME NEW s \in Socks, Net(Arrive(s)) PROVE EthTypes'  BY <1>3 DEF Arrive
<1>4. ASSUME NEW s \in Socks, Net(Fin(s)) PROVE EthTypes'  BY <1>4 DEF Fin
<1>5. ASSUME NEW s \in Socks, Net(Finish(s)) PROVE EthTypes'  BY <1>5 DEF Finish
<1>6. ASSUME NEW s \in Socks, Net(Transmit(s)) PROVE EthTypes'  BY <1>6 DEF Transmit
<1>7. ASSUME NEW s \in Socks, Net(Acked(s)) PROVE EthTypes'  BY <1>7 DEF Acked
<1>8. ASSUME NEW s \in Socks, Net(Reset(s)) PROVE EthTypes'  BY <1>8 DEF Reset
<1>9. ASSUME NEW p \in Clients, Net(Dial(p)) PROVE EthTypes'  BY <1>9 DEF Dial
<1>10. ASSUME NEW p \in Clients, NEW s \in Socks, Net(Accept(s, p)) PROVE EthTypes'  BY <1>10 DEF Accept
<1> QED  BY <1>1, <1>2, <1>3, <1>4, <1>5, <1>6, <1>7, <1>8, <1>9, <1>10 DEF Network

\* A step inside a call keeps them.
LEMMA TypesInCall ==
  ASSUME EthTypes, InCall
  PROVE  EthTypes'
<1>1. ChipTypes /\ CallTypes  BY DEF EthTypes, EthTypeOK, ChipTypes, CallTypes
<1>2. ChipTypes'
  <2> USE <1>1 DEF chipVars
  <2>1. CASE UNCHANGED chipVars  BY <2>1 DEF ChipTypes
  <2>2. CASE SendData  BY <2>2 DEF SendData, SEND, ChipTypes
  <2>3. CASE SendOk \/ SockClear  BY <2>3 DEF SendOk, SockClear, ClearIR, ChipTypes
  <2>4. CASE Recv  BY <2>4 DEF Recv, RECV, ChipTypes
  <2>5. CASE SockClose  BY <2>5, TypesClose DEF SockClose
  <2>6. CASE StopDiscon
    <3> DEFINE st == CASE SnSR[sock] = "ESTABLISHED" -> "FIN_WAIT"
                       [] SnSR[sock] = "CLOSE_WAIT"  -> "LAST_ACK"
                       [] OTHER                      -> SnSR[sock]
    <3>1. Command(sock, st)  BY <2>6 DEF StopDiscon, DISCON
    <3>2. CASE sock \in Socks
      <4>1. st \in States  BY <3>2 DEF ChipTypes, States
      <4> QED  BY <3>1, <4>1, TypesCommand
    <3>3. CASE sock \notin Socks  BY <3>1, <3>3 DEF Command, ChipTypes
    <3> QED  BY <3>2, <3>3
  <2>7. CASE SockOpen \/ ListenCmd \/ ConnectCmd
    <3>1. {"INIT", "LISTEN", "SYNSENT"} \subseteq States  BY DEF States
    <3> QED  BY <2>1, <2>7, <3>1, TypesCommand DEF SockOpen, ListenCmd, ConnectCmd, OPEN, LISTEN, CONNECT
  <2>8. CASE AcceptScan \/ BeginScan \/ FindScan \/ FindData \/ EachScan
    BY <2>1, <2>8 DEF AcceptScan, AcceptListen, AcceptClosing, AcceptUnread, BeginScan, FindScan, FindData,
                      EachScan, Reads
  <2>9. CASE SendRoom \/ SendStatus \/ SendTest \/ SendClosed \/ ConnectedData
    BY <2>1, <2>9 DEF SendRoom, SendStatus, SendTest, SendClosed, ConnectedData, Reads
  <2>10. CASE ListenTest \/ StopTest \/ ConnectScan \/ ConnectPoll \/ ConnectFailed
    BY <2>1, <2>10 DEF ListenTest, StopTest, ConnectScan, ConnectPoll, ConnectFailed, Reads
  <2> QED  BY <2>2, <2>3, <2>4, <2>5, <2>6, <2>7, <2>8, <2>9, <2>10 DEF InCall
<1>3. ethPc' \in Places
  <2> USE DEF Places, Leave, Goto, Take, Close, At, Round, Restart, Resume
  <2>1. CASE AcceptScan \/ BeginScan \/ FindScan \/ FindData \/ EachScan
    BY <2>1 DEF AcceptScan, AcceptListen, AcceptClosing, AcceptUnread, AcceptNext, BeginScan, FindScan,
                FindData, EachScan
  <2>2. CASE SockClose \/ SockOpen \/ ListenTest \/ ListenCmd
    BY <2>2 DEF SockClose, SockOpen, ListenTest, ListenCmd, Begun
  <2>3. CASE SockClear \/ StopTest \/ SendOk \/ SendClosed
    BY <2>3 DEF SockClear, StopTest, Stopped, StopDone, AcceptNext, SendOk, SendDone, SendClosed
  <2>4. CASE SendRoom \/ SendStatus \/ SendData \/ SendTest
    BY <2>4 DEF SendRoom, SendStatus, SendData, SendTest
  <2>5. CASE Recv \/ ConnectedData \/ StopDiscon  BY <1>1, <2>5 DEF Recv, ConnectedData, StopDiscon
  <2>6. CASE ConnectScan \/ ConnectCmd \/ ConnectPoll \/ ConnectFailed
    BY <2>6 DEF ConnectScan, ConnectCmd, ConnectPoll, ConnectFailed
  <2> QED  BY <2>1, <2>2, <2>3, <2>4, <2>5, <2>6 DEF InCall
<1>4. CallTypes'
  <2> USE <1>1, SocketAssumption
      DEF CallTypes, HandTypes, Handless, handles, callVars, Callers, Reads, Commands, Leave, Goto, Take,
          Close, Keep, Drop, At, Round, Restart, Resume, Socks
  <2>1. CASE AcceptScan
    <3>1. ASSUME NEW l, AcceptNext(l), Reads PROVE CallTypes'  BY <3>1 DEF AcceptNext
    <3>2. ASSUME NEW s \in Socks, NEW pc \in {"closing", "unread", "stop"}, Take(s, pc), Reads PROVE CallTypes'
      BY <3>2
    <3>3. loop \in Socks /\ (At("closing") \/ At("unread") => sock \in Socks)  OBVIOUS
    <3> QED  BY ONLY <2>1, <3>1, <3>2, <3>3 DEF AcceptScan, AcceptListen, AcceptClosing, AcceptUnread
  <2>2. CASE BeginScan  BY <2>2 DEF BeginScan
  <2>3. CASE FindScan \/ EachScan
    <3>1. ASSUME NEW pc \in {"find", "each"}, Round(pc, Leave), Reads PROVE CallTypes'
      BY <3>1
    <3>2. ASSUME NEW pc \in {"findData", "findClosing"}, Goto(pc), Reads PROVE CallTypes'
      BY <3>2
    <3>3. CASE FindScan  BY ONLY <3>1, <3>2, <3>3 DEF FindScan
    <3>4. CASE EachScan  BY <3>1, <3>4 DEF EachScan
    <3> QED  BY <2>3, <3>3, <3>4
  <2>4. CASE FindData  BY <2>4 DEF FindData, ChipTypes
  <2>5. CASE SockClose \/ SockOpen  BY <2>5 DEF SockClose, SockOpen
  <2>6. \/ StopTest /\ SnSR[sock] # "CLOSED"
        \/ SockClear /\ after = "open"  => CallTypes'  BY DEF StopTest, SockClear
  <2>7. ASSUME SendDone, Commands PROVE CallTypes'  BY <2>7 DEF SendDone
  <2>8. ASSUME Stopped PROVE CallTypes'
    <3>1. server_port' \subseteq Socks /\ mixed' = mixed  BY <2>8 DEF Stopped
    <3>2. op' \in Callers /\ sock' \in Socks \cup {NONE} /\ loop' \in Socks /\ after' = "none" /\ HandTypes'
      BY <2>8 DEF Stopped, StopDone, AcceptNext
    <3>3. served' \in {served, NONE} /\ client' \in {client, NONE} /\ servedPeer' \in {servedPeer, NOBODY}
      BY <2>8 DEF Stopped, StopDone
    <3> QED  BY <3>1, <3>2, <3>3
  <2>9. CASE SockClear \/ StopTest \/ SendOk
    BY <2>6, <2>7, <2>8, <2>9 DEF SockClear, StopTest, SendOk
  <2>10. CASE ListenTest \/ ListenCmd
    <3>1. UNCHANGED <<handles, mixed>> /\ server_port' \in {server_port, server_port \cup {sock}} /\ sock \in Socks
      BY <2>10 DEF ListenTest, ListenCmd, Begun
    <3>2. CASE Goto("listenCmd")  BY <3>1, <3>2
    <3>3. CASE Begun  BY <3>1, <3>3 DEF Begun
    <3> QED  BY <2>10, <3>2, <3>3 DEF ListenTest, ListenCmd
  <2>11. CASE SendRoom \/ SendStatus \/ SendTest \/ SendClosed
    BY <2>11 DEF SendRoom, SendStatus, SendTest, SendClosed
  <2>12. CASE SendData
    <3>1. mixed' \subseteq Callers  BY <2>12 DEF SendData
    <3> QED  BY <2>12, <3>1 DEF SendData
  <2>13. CASE Recv
    <3>1. mixed' \subseteq Callers  BY <2>13 DEF Recv
    <3> QED  BY <2>13, <3>1 DEF Recv
  <2>14. CASE ConnectedData \/ StopDiscon
    <3>1. ASSUME NEW pc \in {"room", "stopping"}, Goto(pc), Commands, sock \in Socks PROVE CallTypes'  BY <3>1
    <3>2. ASSUME Leave, Commands PROVE CallTypes'  BY <3>2
    <3> QED  BY <2>14, <3>1, <3>2 DEF ConnectedData, StopDiscon
  <2>15. CASE ConnectScan
    <3>1. client' \in {client, loop}  BY <2>15 DEF ConnectScan
    <3> QED  BY <2>15, <3>1 DEF ConnectScan
  <2>16. CASE ConnectCmd  BY <2>16 DEF ConnectCmd
  <2>17. CASE ConnectPoll \/ ConnectFailed
    <3>1. UNCHANGED <<server_port, mixed, served, servedPeer>> /\ client' \in {client, NONE}
      BY <2>17 DEF ConnectPoll, ConnectFailed
    <3>2. Goto("failed") \/ Goto("polling") \/ Leave  BY <2>17 DEF ConnectPoll, ConnectFailed
    <3> QED  BY <3>1, <3>2
  <2> QED  BY <2>1, <2>2, <2>3, <2>4, <2>5, <2>9, <2>10, <2>11, <2>12, <2>13, <2>14, <2>15, <2>16, <2>17 DEF
            InCall
<1> QED  BY <1>2, <1>3, <1>4 DEF EthTypes, EthTypeOK, ChipTypes, CallTypes

\* A call of the sketch keeps them.
LEMMA TypesSketch ==
  ASSUME EthTypes,
         \/ ServerAvailable \/ ServerWrite \/ Connect
         \/ \E o \in {"served", "client"} : Read(o) \/ Write(o) \/ Stop(o)
  PROVE  EthTypes'
<1> USE DEF EthTypes, EthTypeOK, HandTypes, Handless, handles, callVars, chipVars, Callers, Places, Call,
            Keep, Drop, At, handle
<1>1. CASE ServerAvailable \/ ServerWrite \/ Connect
  BY <1>1 DEF ServerAvailable, ServerWrite, Connect
<1>2. ASSUME NEW o \in {"served", "client"}, Read(o) PROVE EthTypes'  BY <1>2 DEF Read
<1>3. ASSUME NEW o \in {"served", "client"}, Write(o) PROVE EthTypes'  BY <1>3 DEF Write
<1>4. ASSUME NEW o \in {"served", "client"}, Stop(o) PROVE EthTypes'  BY <1>4 DEF Stop
<1> QED  BY <1>1, <1>2, <1>3, <1>4

\* Every variable keeps the type of its declaration.
THEOREM TypeCorrect == EthSpec => []EthTypeOK
<1>1. EthInit => EthTypes  BY TypesInit
<1>2. EthTypes /\ [EthNext]_ethVars => EthTypes'
  <2>1. CASE UNCHANGED ethVars
    BY <2>1 DEF ethVars, chipVars, handles, callVars, EthTypes, EthTypeOK, HandTypes, Handless, At
  <2>2. CASE EthNext  BY <2>2, TypesNetwork, TypesInCall, TypesSketch DEF EthNext
  <2> QED  BY <2>1, <2>2
<1> QED  BY <1>1, <1>2, PTL DEF EthSpec, EthTypes
-----------------------------------------------------------------------------
(***** why the connections do not mix *****)

Own == op \in {"available", "broadcast"}

\* close() is under way before socket() opens the socket in hand, or at the end of stop().
Opening  == At("open") \/ after = "open"
Stopping == At("stopping") \/ after = "stopped"
Sending  == ethPc \in {"room", "noRoom", "status", "send", "sendNone", "sending", "sendTest", "sent"}

\* The server's sockets are not the sketch's, lead to no one but clients, and
\* only leave these states while they are being stopped.
ServerOwns ==
    \A s \in server_port :
      /\ s # client /\ peer[s] # Host
      /\ \/ SnSR[s] \in {"LISTEN", "ESTABLISHED", "CLOSE_WAIT"}
         \/ Stopping /\ sock = s /\ SnSR[s] \in {"FIN_WAIT", "LAST_ACK", "CLOSED"}

\* The sketch's own socket leads to Host, and is closed only where the call it
\* is in knows of it.
ClientOwns ==
    client # NONE =>
      \/ SnSR[client] \in {"ESTABLISHED", "CLOSE_WAIT"} /\ peer[client] = Host
      \/ (At("polling") \/ At("failed")) /\ SnSR[client] \in {"SYNSENT", "CLOSED"}
      \/ (Opening \/ At("connect")) /\ op = "client" /\ sock = client
      \/ Stopping /\ sock = client /\ SnSR[client] \in {"FIN_WAIT", "LAST_ACK", "CLOSED"}

\* What the sketch got from available() is one of the server's connections, still
\* that with the client it was got for.
ServedOwned ==
    served # NONE =>
      /\ served \in server_port /\ ~Own
      /\ \/ SnSR[served] \in {"ESTABLISHED", "CLOSE_WAIT"} /\ peer[served] = servedPeer
         \/ Stopping /\ sock = served

\* A socket that is being opened is nobody's yet, or the sketch's.
Opened ==
    /\ Opening \/ At("listen") \/ At("listenCmd") \/ At("connect") =>
         /\ sock \in Socks \ server_port
         /\ (op = "client" /\ sock = client) \/ (Own /\ sock # client)
    /\ At("open") \/ (At("clear") /\ after = "open") => SnSR[sock] = "CLOSED" /\ peer[sock] # Host
    /\ At("listen") \/ At("listenCmd") \/ At("connect") => SnSR[sock] = "INIT" /\ peer[sock] # Host

\* Where the code is tells what it is in, and the socket in hand is that of the call.
InHand ==
    /\ At("sketch") <=> op = "none"
    /\ after # "none" <=> At("close") \/ At("clear")
    /\ after # "sent"
    /\ ethPc \in {"accept", "closing", "unread", "begin", "listen", "listenCmd"} => Own
    /\ ethPc \in {"find", "findClosing", "findData"} => op = "available"
    /\ At("findClosing") => loop \in server_port
    /\ At("findData") => loop \in server_port /\ SnSR[loop] \in {"ESTABLISHED", "CLOSE_WAIT"}
    /\ At("each") => op = "broadcast"
    /\ At("pick") => op = "client" /\ client = NONE
    /\ ethPc \in {"connect", "polling", "failed"} => op = "client" /\ client # NONE
    /\ Sending => op # "available"
    /\ Sending \/ Stopping \/ ethPc \in {"closing", "unread", "recv", "connected", "stop"} =>
         \/ Own /\ sock \in server_port
         \/ op = "served" /\ served # NONE /\ sock = served
         \/ op = "client" /\ client # NONE /\ sock = client
    /\ ethPc \in {"recv", "connected"} => ~Own

\* None of it is promised once a connection has broken.
Owned == ~broken => ServerOwns /\ ClientOwns /\ ServedOwned /\ Opened /\ InHand
CrossInv == Owned /\ NoCrossTalk

\* It holds after reset, when no object has a socket.
LEMMA CrossInit == ASSUME EthInit PROVE CrossInv
BY DEF EthInit, CrossInv, Owned, NoCrossTalk, ServerOwns, ClientOwns, ServedOwned, Opened, InHand, Opening,
       Stopping, Sending, At

\* What the chip and the network may do to a socket while nothing breaks.
Moves(s) ==
    \/ SnSR'[s] = SnSR[s] /\ peer'[s] = peer[s]
    \/ SnSR[s] = "LISTEN" /\ SnSR'[s] = "ESTABLISHED" /\ peer'[s] \in Clients
    \/ SnSR[s] = "SYNSENT" /\ SnSR'[s] = "ESTABLISHED" /\ peer'[s] = Host
    \/ SnSR[s] = "SYNSENT" /\ SnSR'[s] = "CLOSED"
    \/ SnSR[s] = "ESTABLISHED" /\ SnSR'[s] = "CLOSE_WAIT" /\ peer'[s] = peer[s]
    \/ SnSR[s] \in {"FIN_WAIT", "LAST_ACK"} /\ SnSR'[s] = "CLOSED" /\ peer'[s] = NOBODY

\* Every step of the network is one of those moves, on every socket.
LEMMA NetworkMoves ==
  ASSUME EthTypes, Network, ~broken'
  PROVE  \A s \in Socks : Moves(s)
<1> USE DEF EthTypes, EthTypeOK, Net, Moves
<1>1. CASE UNCHANGED <<SnSR, peer>>  BY <1>1
<1>2. ASSUME NEW r \in Socks, Net(Answer(r)) PROVE \A s \in Socks : Moves(s)  BY <1>2 DEF Answer, Establish
<1>3. ASSUME NEW r \in Socks, Net(Refuse(r)) PROVE \A s \in Socks : Moves(s)  BY <1>3 DEF Refuse
<1>4. ASSUME NEW r \in Socks, Net(Fin(r)) PROVE \A s \in Socks : Moves(s)  BY <1>4 DEF Fin
<1>5. ASSUME NEW r \in Socks, Net(Finish(r)) PROVE \A s \in Socks : Moves(s)  BY <1>5 DEF Finish, Closed
<1>6. ASSUME NEW r \in Socks, NEW p \in Clients, Net(Accept(r, p)) PROVE \A s \in Socks : Moves(s)
  BY <1>6 DEF Accept, Establish
<1>7. ASSUME NEW r \in Socks, Net(Arrive(r) \/ Transmit(r) \/ Acked(r) \/ Reset(r)) PROVE UNCHANGED <<SnSR, peer>>
  BY <1>7 DEF Arrive, Transmit, Acked, Reset
<1>8. ASSUME NEW p \in Clients, Net(Dial(p)) PROVE UNCHANGED <<SnSR, peer>>  BY <1>8 DEF Dial
<1> QED  BY <1>1, <1>2, <1>3, <1>4, <1>5, <1>6, <1>7, <1>8 DEF Network

\* They keep the invariant.
LEMMA CrossNetwork ==
  ASSUME EthTypes, CrossInv, Network
  PROVE  CrossInv'
<1>1. UNCHANGED <<server_port, handles, callVars, mixed>> /\ (broken => broken')
  BY DEF Network, Net, Answer, Refuse, Arrive, Fin, Finish, Transmit, Acked, Reset, Dial, Accept, Establish,
         Closed
<1>2. ASSUME ~broken' PROVE (ServerOwns /\ ClientOwns /\ ServedOwned /\ Opened /\ InHand)'
  <2> USE <1>1, <1>2 DEF handles, callVars, At, Own, Opening, Stopping, Sending
  <2>1. ServerOwns /\ ClientOwns /\ ServedOwned /\ Opened /\ InHand  BY DEF CrossInv, Owned
  <2>2. \A s \in Socks : Moves(s)  BY NetworkMoves
  <2>3. ServerOwns'  BY <2>1, <2>2, HostAssumption DEF ServerOwns, Moves, EthTypes, EthTypeOK
  <2>4. ClientOwns'  BY <2>1, <2>2 DEF ClientOwns, Moves, EthTypes, EthTypeOK
  <2>5. ServedOwned'  BY <2>1, <2>2 DEF ServedOwned, Moves, EthTypes, EthTypeOK
  <2>6. Opened'  BY <2>1, <2>2 DEF Opened, Moves
  <2>7. InHand'  BY <2>1, <2>2 DEF InHand, Moves, EthTypes, EthTypeOK
  <2> QED  BY <2>3, <2>4, <2>5, <2>6, <2>7
<1> QED  BY <1>1, <1>2 DEF CrossInv, Owned, NoCrossTalk

\* A step inside a call breaks nothing.
LEMMA InCallBroken == ASSUME InCall PROVE UNCHANGED broken
<1> USE DEF chipVars, Reads
<1>1. CASE AcceptScan \/ BeginScan \/ FindScan \/ FindData \/ EachScan
  BY <1>1 DEF AcceptScan, AcceptListen, AcceptClosing, AcceptUnread, BeginScan, FindScan, FindData, EachScan
<1>2. CASE SockClose \/ SockClear \/ SockOpen \/ ListenTest \/ ListenCmd
  BY <1>2 DEF SockClose, CLOSE, Closed, SockClear, ClearIR, SockOpen, OPEN, ListenTest, ListenCmd, LISTEN,
              Command
<1>3. CASE SendRoom \/ SendStatus \/ SendData \/ SendTest \/ SendClosed \/ SendOk
  BY <1>3 DEF SendRoom, SendStatus, SendData, SEND, SendTest, SendClosed, SendOk, ClearIR
<1>4. CASE Recv \/ ConnectedData \/ StopDiscon \/ StopTest
  BY <1>4 DEF Recv, RECV, ConnectedData, StopDiscon, DISCON, Command, StopTest
<1>5. CASE ConnectScan \/ ConnectCmd \/ ConnectPoll \/ ConnectFailed
  BY <1>5 DEF ConnectScan, ConnectCmd, CONNECT, Command, ConnectPoll, ConnectFailed
<1> QED  BY <1>1, <1>2, <1>3, <1>4, <1>5 DEF InCall

\* So does a step inside a call.
LEMMA CrossInCall ==
  ASSUME EthTypes, CrossInv, InCall, HoldsOn = FALSE
  PROVE  CrossInv'
<1>1. UNCHANGED broken  BY InCallBroken
<1>2. CASE broken
  <2>1. CASE SendData  BY <1>1, <1>2, <2>1 DEF CrossInv, Owned, NoCrossTalk, SendData, Stranger
  <2>2. CASE Recv  BY <1>1, <1>2, <2>2 DEF CrossInv, Owned, NoCrossTalk, Recv, Stranger
  <2>3. mixed' = mixed \/ SendData \/ Recv
    BY DEF InCall, AcceptScan, AcceptListen, AcceptClosing, AcceptUnread, BeginScan, FindScan, FindData,
           EachScan, SockClose, SockClear, SockOpen, ListenTest, ListenCmd, Begun, SendRoom, SendStatus,
           SendTest, SendClosed, SendOk, ConnectedData, StopDiscon, StopTest, Stopped, ConnectScan,
           ConnectCmd, ConnectPoll, ConnectFailed, Reads, Commands
  <2> QED  BY <1>1, <1>2, <2>1, <2>2, <2>3 DEF CrossInv, Owned, NoCrossTalk
<1>3. CASE ~broken
  <2> DEFINE Kept == ServerOwns /\ ClientOwns /\ ServedOwned /\ Opened /\ InHand
  <2>1. Kept /\ mixed = {}  BY <1>3 DEF CrossInv, Owned, NoCrossTalk
  <2> SUFFICES Kept' /\ mixed' = {}  BY DEF CrossInv, Owned, NoCrossTalk
  <2> USE <1>3, <2>1, SocketAssumption, HostAssumption
      DEF ServerOwns, ClientOwns, ServedOwned, Opened, InHand, Own, Opening, Stopping, Sending, At, EthTypes,
          EthTypeOK, HandTypes, Handless, Socks, NONE, handles, callVars, chipVars, Reads, Commands, Leave,
          Goto, Take, Close, Keep, Drop, Round, Restart, Resume
  <2>2. CASE AcceptScan
    <3>1. CASE AcceptListen("closing")  BY <2>2, <3>1 DEF AcceptListen, AcceptNext
    <3>2. CASE AcceptClosing("unread")  BY <2>2, <3>2 DEF AcceptClosing, AcceptNext
    <3>3. CASE AcceptUnread("stop")  BY <2>2, <3>3 DEF AcceptUnread, AcceptNext
    <3> QED  BY <2>2, <3>1, <3>2, <3>3 DEF AcceptScan
  <2>3. CASE BeginScan  BY <2>3 DEF BeginScan
  <2>4. CASE FindScan  BY <2>4 DEF FindScan
  <2>5. CASE FindData  BY <2>5 DEF FindData
  <2>6. CASE EachScan  BY <2>6 DEF EachScan
  <2>7. CASE SockClose  BY <2>7 DEF SockClose, CLOSE, Closed
  <2>stopped. ASSUME Stopped, Stopping, UNCHANGED <<SnSR, peer>>, broken' = broken PROVE Kept' /\ mixed' = {}
    <3>1. server_port' = server_port \ {sock} /\ mixed' = {}  BY <2>stopped DEF Stopped
    <3>2. CASE Own
      <4>1. AcceptNext(listening) /\ UNCHANGED handles  BY <2>stopped, <3>2 DEF Stopped, StopDone
      <4>2. after' = "none" /\ op' = op /\ ethPc' \in {"accept", "find", "each", "begin"}
        BY <3>2, <4>1 DEF AcceptNext
      <4>3. op = "available" => ethPc' # "each"  BY <4>1 DEF AcceptNext
      <4>4. op = "broadcast" => ethPc' # "find"  BY <4>1 DEF AcceptNext
      <4> QED  BY <2>stopped, <3>1, <3>2, <4>1, <4>2, <4>3, <4>4
    <3>3. CASE op = "served"  BY <2>stopped, <3>1, <3>3 DEF Stopped, StopDone
    <3>4. CASE op = "client"  BY <2>stopped, <3>1, <3>4 DEF Stopped, StopDone
    <3> QED  BY <2>stopped, <3>2, <3>3, <3>4 DEF Stopped, StopDone
  <2>8. CASE SockClear
    <3>1. CASE after = "open"  BY <2>8, <3>1 DEF SockClear, ClearIR
    <3>2. CASE after = "stopped"  BY ONLY <2>8, <3>2, <2>stopped, <1>1 DEF SockClear, ClearIR, Stopping
    <3> QED  BY <2>8, <3>1, <3>2 DEF SockClear
  <2>9. CASE SockOpen  BY <2>9 DEF SockOpen, OPEN, Command
  <2>10. CASE ListenTest  BY <2>10 DEF ListenTest
  <2>11. CASE ListenCmd  BY <2>11 DEF ListenCmd, LISTEN, Command, Begun
  <2>12. CASE SendRoom  BY <2>12 DEF SendRoom
  <2>13. CASE SendStatus  BY <2>13 DEF SendStatus
  <2>14. CASE SendData  BY <2>14 DEF SendData, SEND, Stranger, Open
  <2>15. CASE SendTest  BY <2>15 DEF SendTest
  <2>16. CASE SendClosed  BY <2>16 DEF SendClosed
  <2>17. CASE SendOk  BY <2>17 DEF SendOk, ClearIR, SendDone
  <2>18. CASE Recv  BY <2>18 DEF Recv, RECV, Stranger, Open
  <2>19. CASE ConnectedData  BY <2>19 DEF ConnectedData
  <2>20. CASE StopDiscon  BY <2>20 DEF StopDiscon, DISCON, Command
  <2>21. CASE StopTest
    <3>1. CASE SnSR[sock] = "CLOSED"  BY ONLY <2>21, <3>1, <2>stopped, <1>1 DEF StopTest, chipVars, Stopping, At
    <3>2. CASE SnSR[sock] # "CLOSED"  BY <2>21, <3>2 DEF StopTest
    <3> QED  BY <3>1, <3>2
  <2>22. CASE ConnectScan  BY <2>22 DEF ConnectScan
  <2>23. CASE ConnectCmd  BY <2>23 DEF ConnectCmd, CONNECT, Command
  <2>24. CASE ConnectPoll  BY <2>24 DEF ConnectPoll
  <2>25. CASE ConnectFailed  BY <2>25 DEF ConnectFailed
  <2> QED  BY <2>2, <2>3, <2>4, <2>5, <2>6, <2>7, <2>8, <2>9, <2>10, <2>11, <2>12, <2>13, <2>14, <2>15, <2>16,
              <2>17, <2>18, <2>19, <2>20, <2>21, <2>22, <2>23, <2>24, <2>25 DEF InCall
<1> QED  BY <1>2, <1>3

\* So does a call of the sketch.
LEMMA CrossSketch ==
  ASSUME EthTypes, CrossInv, HoldsOn = FALSE,
         \/ ServerAvailable \/ ServerWrite \/ Connect
         \/ \E o \in {"served", "client"} : Read(o) \/ Write(o) \/ Stop(o)
  PROVE  CrossInv'
<1> USE SocketAssumption, HostAssumption
    DEF CrossInv, Owned, NoCrossTalk, ServerOwns, ClientOwns, ServedOwned, Opened, InHand, Own, Opening,
        Stopping, Sending, At, EthTypes, EthTypeOK, HandTypes, Handless, Socks, NONE, handles, callVars,
        chipVars, Call, Keep, Drop, handle
<1>1. CASE ServerAvailable  BY <1>1 DEF ServerAvailable
<1>2. CASE ServerWrite  BY <1>2 DEF ServerWrite
<1>3. CASE Connect  BY <1>3 DEF Connect
<1>4. ASSUME NEW o \in {"served", "client"}, Read(o) PROVE CrossInv'  BY <1>4 DEF Read
<1>5. ASSUME NEW o \in {"served", "client"}, Write(o) PROVE CrossInv'  BY <1>5 DEF Write
<1>6. ASSUME NEW o \in {"served", "client"}, Stop(o) PROVE CrossInv'  BY <1>6 DEF Stop
<1> QED  BY <1>1, <1>2, <1>3, <1>4, <1>5, <1>6

\* As long as sketches let go of a client before they write to the server, no
\* byte goes to, or comes from, the wrong end of the shared sockets.
THEOREM ConnectionsApart == HoldsOn = FALSE => (EthSpec => []NoCrossTalk)
<1> SUFFICES ASSUME HoldsOn = FALSE PROVE EthSpec => []NoCrossTalk
  OBVIOUS
<1>1. EthInit => EthTypes /\ CrossInv  BY TypesInit, CrossInit
<1>2. EthTypes /\ CrossInv /\ [EthNext]_ethVars => (EthTypes /\ CrossInv)'
  <2> SUFFICES ASSUME EthTypes, CrossInv, [EthNext]_ethVars PROVE (EthTypes /\ CrossInv)'
    OBVIOUS
  <2>1. CASE UNCHANGED ethVars
    BY <2>1 DEF ethVars, chipVars, handles, callVars, EthTypes, EthTypeOK, HandTypes, Handless, CrossInv,
                Owned, NoCrossTalk, ServerOwns, ClientOwns, ServedOwned, Opened, InHand, Own, Opening,
                Stopping, Sending, At
  <2>2. CASE EthNext
    BY <2>2, TypesNetwork, TypesInCall, TypesSketch, CrossNetwork, CrossInCall, CrossSketch DEF EthNext
  <2> QED  BY <2>1, <2>2
<1>3. CrossInv => NoCrossTalk  BY DEF CrossInv
<1> QED  BY <1>1, <1>2, <1>3, PTL DEF EthSpec
-----------------------------------------------------------------------------
(***** why no byte is thrown away *****)

\* A byte waits only on a connection; a connection that is ending is in hand; one that
\* accept() stops is at its end and has been read; and close() meets such sockets only.
NothingWaits ==
    /\ At("sketch") => op = "none"
    /\ At("recv") => ~Own
    /\ after # "none" <=> At("close") \/ At("clear")
    /\ \A s \in Socks : SnSR[s] \in {"CLOSED", "INIT", "LISTEN", "SYNSENT"} => ~rx[s]
    /\ \A s \in Socks : SnSR[s] \in {"FIN_WAIT", "LAST_ACK"} => Stopping /\ s = sock
    /\ Own /\ At("unread") => SnSR[sock] = "CLOSE_WAIT"
    /\ Own /\ At("stop") => SnSR[sock] = "CLOSE_WAIT" /\ ~rx[sock]
    /\ Own /\ Stopping => SnSR[sock] \in {"LAST_ACK", "CLOSED"} /\ ~rx[sock]
    /\ Opening \/ after = "sent" \/ At("clear") => SnSR[sock] = "CLOSED"
    /\ ethPc \in {"listen", "listenCmd", "connect"} => SnSR[sock] = "INIT"

WaitInv == ~broken => NothingWaits

\* The bytes that wait are still there after the step.
Spared == Own => \A s \in Socks : rx[s] => rx'[s]

\* The chip and the network spare them and keep the invariant.
LEMMA WaitNetwork ==
  ASSUME EthTypes, NothingWaits, Network, ~broken'
  PROVE  NothingWaits' /\ Spared
<1> USE DEF EthTypes, EthTypeOK, Net, handles, callVars, NothingWaits, Spared, Own, Opening, Stopping, At
<1>1. ASSUME NEW s \in Socks, Net(Answer(s)) PROVE NothingWaits' /\ Spared  BY <1>1 DEF Answer, Establish
<1>2. ASSUME NEW s \in Socks, Net(Refuse(s)) PROVE NothingWaits' /\ Spared  BY <1>2 DEF Refuse
<1>3. ASSUME NEW s \in Socks, Net(Arrive(s)) PROVE NothingWaits' /\ Spared  BY <1>3 DEF Arrive
<1>4. ASSUME NEW s \in Socks, Net(Fin(s)) PROVE NothingWaits' /\ Spared  BY <1>4 DEF Fin
<1>5. ASSUME NEW s \in Socks, Net(Finish(s)) PROVE NothingWaits' /\ Spared  BY <1>5 DEF Finish, Closed
<1>6. ASSUME NEW s \in Socks, NEW p \in Clients, Net(Accept(s, p)) PROVE NothingWaits' /\ Spared
  BY <1>6 DEF Accept, Establish
<1>7. ASSUME NEW s \in Socks, Net(Transmit(s) \/ Acked(s)) PROVE NothingWaits' /\ Spared
  BY <1>7 DEF Transmit, Acked
<1>8. ASSUME NEW s \in Socks, Net(Reset(s)) PROVE FALSE  BY <1>8 DEF Reset
<1>9. ASSUME NEW p \in Clients, Net(Dial(p)) PROVE NothingWaits' /\ Spared  BY <1>9 DEF Dial
<1> QED  BY <1>1, <1>2, <1>3, <1>4, <1>5, <1>6, <1>7, <1>8, <1>9 DEF Network

\* So does a step inside a call.
LEMMA WaitInCall ==
  ASSUME EthTypes, NothingWaits, InCall
  PROVE  NothingWaits' /\ Spared
<1> USE SocketAssumption
    DEF EthTypes, EthTypeOK, HandTypes, Handless, Socks, handles, callVars, chipVars, NothingWaits, Spared,
        Own, Opening, Stopping, At, Reads, Commands, Leave, Goto, Take, Close, Keep, Drop, Round, Restart,
        Resume
<1>1. CASE AcceptScan
  <2>1. CASE AcceptListen("closing")  BY <1>1, <2>1 DEF AcceptListen, AcceptNext
  <2>2. CASE AcceptClosing("unread")  BY <1>1, <2>2 DEF AcceptClosing, AcceptNext
  <2>3. CASE AcceptUnread("stop")  BY <1>1, <2>3 DEF AcceptUnread, AcceptNext
  <2> QED  BY <1>1, <2>1, <2>2, <2>3 DEF AcceptScan
<1>2. CASE BeginScan  BY <1>2 DEF BeginScan
<1>3. CASE FindScan  BY <1>3 DEF FindScan
<1>4. CASE FindData  BY <1>4 DEF FindData
<1>5. CASE EachScan  BY <1>5 DEF EachScan
<1>6. CASE SockClose  BY <1>6 DEF SockClose, CLOSE, Closed
<1>stopped. ASSUME Stopped, Stopping, SnSR[sock] = "CLOSED", UNCHANGED <<SnSR, rx>>
            PROVE  NothingWaits' /\ Spared
  <2>1. after' = "none" /\ ethPc' \in {"accept", "find", "each", "begin", "sketch"}
        /\ (ethPc' = "sketch" => op' = "none")
    BY <1>stopped DEF Stopped, StopDone, AcceptNext
  <2> QED  BY <1>stopped, <2>1
<1>7. CASE SockClear
  <2>1. CASE after = "open"  BY <1>7, <2>1 DEF SockClear, ClearIR
  <2>2. CASE after = "sent"  BY <1>7, <2>2 DEF SockClear, ClearIR, SendDone
  <2>3. CASE after = "stopped"
    <3>1. SnSR[sock] = "CLOSED" /\ Stopping  BY <1>7, <2>3 DEF SockClear
    <3> QED  BY ONLY <1>7, <2>3, <3>1, <1>stopped DEF SockClear, ClearIR
  <2> QED  BY <1>7, <2>1, <2>2, <2>3 DEF SockClear
<1>8. CASE SockOpen  BY <1>8 DEF SockOpen, OPEN, Command
<1>9. CASE ListenTest  BY <1>9 DEF ListenTest, Begun
<1>10. CASE ListenCmd  BY <1>10 DEF ListenCmd, LISTEN, Command, Begun
<1>11. CASE SendRoom  BY <1>11 DEF SendRoom
<1>12. CASE SendStatus  BY <1>12 DEF SendStatus
<1>13. CASE SendData  BY <1>13 DEF SendData, SEND
<1>14. CASE SendTest  BY <1>14 DEF SendTest
<1>15. CASE SendClosed  BY <1>15 DEF SendClosed
<1>16. CASE SendOk  BY <1>16 DEF SendOk, ClearIR, SendDone
<1>17. CASE Recv  BY <1>17 DEF Recv, RECV
<1>18. CASE ConnectedData  BY <1>18 DEF ConnectedData
<1>19. CASE StopDiscon  BY <1>19 DEF StopDiscon, DISCON, Command
<1>20. CASE StopTest
  <2>1. CASE SnSR[sock] = "CLOSED"  BY ONLY <1>20, <2>1, <1>stopped DEF StopTest, chipVars, Stopping, At
  <2>2. CASE SnSR[sock] # "CLOSED"  BY <1>20, <2>2 DEF StopTest
  <2> QED  BY <2>1, <2>2
<1>21. CASE ConnectScan  BY <1>21 DEF ConnectScan
<1>22. CASE ConnectCmd  BY <1>22 DEF ConnectCmd, CONNECT, Command
<1>23. CASE ConnectPoll  BY <1>23 DEF ConnectPoll
<1>24. CASE ConnectFailed  BY <1>24 DEF ConnectFailed
<1> QED  BY <1>1, <1>2, <1>3, <1>4, <1>5, <1>6, <1>7, <1>8, <1>9, <1>10, <1>11, <1>12, <1>13, <1>14, <1>15,
            <1>16, <1>17, <1>18, <1>19, <1>20, <1>21, <1>22, <1>23, <1>24 DEF InCall

\* A call of the sketch takes no byte at once.
LEMMA WaitSketch ==
  ASSUME EthTypes, NothingWaits,
         \/ ServerAvailable \/ ServerWrite \/ Connect
         \/ \E o \in {"served", "client"} : Read(o) \/ Write(o) \/ Stop(o)
  PROVE  NothingWaits' /\ Spared
<1> USE DEF EthTypes, EthTypeOK, HandTypes, Handless, handles, callVars, chipVars, NothingWaits, Spared, Own,
            Opening, Stopping, At, Call
<1>1. CASE ServerAvailable \/ ServerWrite \/ Connect  BY <1>1 DEF ServerAvailable, ServerWrite, Connect
<1>2. ASSUME NEW o \in {"served", "client"}, Read(o) PROVE NothingWaits' /\ Spared  BY <1>2 DEF Read
<1>3. ASSUME NEW o \in {"served", "client"}, Write(o) \/ Stop(o) PROVE NothingWaits' /\ Spared
  BY <1>3 DEF Write, Stop
<1> QED  BY <1>1, <1>2, <1>3

\* As long as nothing breaks, all of them do.
LEMMA WaitStep ==
  ASSUME EthTypes, WaitInv, [EthNext]_ethVars
  PROVE  WaitInv' /\ (~broken' => Spared)
<1> SUFFICES ASSUME ~broken' PROVE NothingWaits' /\ Spared  BY DEF WaitInv
<1>1. CASE UNCHANGED ethVars
  BY <1>1 DEF ethVars, chipVars, handles, callVars, WaitInv, NothingWaits, Spared, Own, Opening, Stopping, At
<1>2. CASE EthNext
  <2>1. ~broken
    <3>1. CASE InCall  BY <3>1, InCallBroken
    <3>2. CASE Network
      BY <3>2 DEF EthTypes, Network, Net, Answer, Refuse, Arrive, Fin, Finish, Closed, Transmit, Acked, Reset,
                  Dial, Accept, Establish
    <3> QED  BY <1>2, <3>1, <3>2 DEF EthNext, ServerAvailable, ServerWrite, Connect, Read, Write, Stop, Call,
                                     chipVars
  <2>2. NothingWaits  BY <2>1 DEF WaitInv
  <2> QED  BY <1>2, <2>2, WaitNetwork, WaitInCall, WaitSketch DEF EthNext
<1> QED  BY <1>1, <1>2

\* While no connection has broken, available() and write() of the server stop no
\* connection, and open no socket, with a byte in it that the sketch has not read, also
\* when the last byte or the end of a connection comes between two of their reads of the
\* chip: accept() reads the status before the size, and nothing comes after the end.
THEOREM BytesKept == EthSpec => NothingUnread
<1>1. EthInit => EthTypes /\ WaitInv
  BY TypesInit DEF EthInit, ChipInit, WaitInv, NothingWaits, Own, Opening, Stopping, At
<1>2. EthTypes /\ WaitInv /\ [EthNext]_ethVars => (EthTypes /\ WaitInv)'
  <2>1. CASE UNCHANGED ethVars
    BY <2>1, WaitStep DEF ethVars, chipVars, handles, callVars, EthTypes, EthTypeOK, HandTypes, Handless, At
  <2>2. CASE EthNext  BY <2>2, TypesNetwork, TypesInCall, TypesSketch, WaitStep DEF EthNext
  <2> QED  BY <2>1, <2>2
<1>3. EthTypes /\ WaitInv /\ [EthNext]_ethVars =>
        [~broken' /\ op \in {"available", "broadcast"} => \A s \in Socks : rx[s] => rx'[s]]_ethVars
  BY WaitStep DEF Spared, Own
<1> QED  BY <1>1, <1>2, <1>3, PTL DEF EthSpec, NothingUnread
=============================================================================
