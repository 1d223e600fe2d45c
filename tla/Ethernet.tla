----------------------------- MODULE Ethernet ------------------------------
(***************************************************************************)
(* libraries/Ethernet: the Server and Client classes and the socket calls  *)
(* under them, for a sketch that serves clients on one port and also has a *)
(* Client of its own for Host.  A step is one access to the chip, a read   *)
(* of one register or a command; the chip and the network move between any *)
(* two of them.  A size, which the code reads until two reads agree, is    *)
(* the last read; the polls of stop() that only let time pass are none.    *)
(***************************************************************************)
EXTENDS W5100

CONSTANTS HoldsOn,       \* sketches use the Client of available() after they write to the server
          BadAddress     \* sketches dial addresses that connect() refuses
ASSUME SketchAssumption == {HoldsOn, BadAddress} \subseteq BOOLEAN

NONE == MAX_SOCK_NUM     \* _sock of a Client without a connection

VARIABLES server_port,   \* sockets with _server_port set to the server's port
          served,        \* the sketch's copy of what server.available() returned
          servedPeer,    \* and who was at the other end then
          client,        \* the sketch's own Client
          op, ethPc,     \* the call the sketch is in, and where
          sock, loop,    \* socket in hand, and index of the loop over the sockets
          after,         \* what goes on after close(): "open", "sent" or "stopped"
          listening,     \* accept() has seen a listening socket
          mixed          \* handles that data went through to or from a stranger with nothing broken

handles  == <<served, servedPeer, client>>
callVars == <<op, ethPc, sock, loop, after, listening>>
ethVars  == <<chipVars, server_port, handles, callVars, mixed>>
-----------------------------------------------------------------------------
EthInit == /\ ChipInit
           /\ server_port = {} /\ served = NONE /\ servedPeer = NOBODY /\ client = NONE
           /\ op = "none" /\ ethPc = "sketch" /\ sock = NONE /\ loop = 0 /\ after = "none"
           /\ listening = FALSE /\ mixed = {}

At(pc) == ethPc = pc

\* A step that only reads the chip, or at most gives it a command.
Reads    == UNCHANGED <<chipVars, server_port, handles, mixed>>
Commands == UNCHANGED <<server_port, handles, mixed>>

Call(o, pc, s) == /\ At("sketch") /\ op' = o /\ ethPc' = pc /\ sock' = s
                  /\ UNCHANGED <<chipVars, server_port, client, loop, after, listening, mixed>>

Keep == UNCHANGED <<served, servedPeer>>
Drop == served' = NONE /\ servedPeer' = NOBODY

Goto(pc) == ethPc' = pc /\ UNCHANGED <<op, sock, loop, after, listening>>

\* The call goes on with socket s.
Take(s, pc) == ethPc' = pc /\ sock' = s /\ UNCHANGED <<op, loop, after, listening>>

\* close(s), and after it what t names.
Close(s, t) == ethPc' = "close" /\ sock' = s /\ after' = t /\ UNCHANGED <<op, loop, listening>>

Leave == /\ op' = "none" /\ ethPc' = "sketch" /\ sock' = NONE /\ loop' = 0 /\ after' = "none"
         /\ UNCHANGED listening

\* The next round of a loop over the sockets, or End after the last.
Round(pc, End) == \/ /\ loop + 1 \in Socks
                     /\ loop' = loop + 1 /\ ethPc' = pc /\ sock' = NONE /\ after' = "none"
                     /\ UNCHANGED <<op, listening>>
                  \/ loop + 1 \notin Socks /\ End

(***** Server::accept() *****)

\* Where available() or write() goes on after accept().
Resume == IF op = "available" THEN "find" ELSE "each"

Restart(pc) == loop' = 0 /\ ethPc' = pc /\ sock' = NONE /\ after' = "none" /\ UNCHANGED op

\* The next round of accept(), or begin() unless a socket listens (l).
AcceptNext(l) ==
    \/ /\ loop + 1 \in Socks
       /\ loop' = loop + 1 /\ ethPc' = "accept" /\ sock' = NONE /\ after' = "none" /\ UNCHANGED op
       /\ listening' = l
    \/ /\ loop + 1 \notin Socks
       /\ Restart(IF l THEN Resume ELSE "begin") /\ listening' = FALSE

\* The three reads accept() makes of a socket of the server, each on the way to pc:
\* is it listening, has its peer closed, is all its data read?
AcceptListen(pc) ==
    /\ At("accept") /\ Reads
    /\ LET other == loop \in server_port /\ SnSR[loop] # "LISTEN" IN
       \/ other /\ Take(loop, pc)
       \/ ~other /\ AcceptNext(listening \/ loop \in server_port)

AcceptClosing(pc) ==
    /\ At("closing") /\ Reads
    /\ \/ SnSR[sock] = "CLOSE_WAIT" /\ Take(sock, pc)
       \/ SnSR[sock] # "CLOSE_WAIT" /\ AcceptNext(listening)

AcceptUnreadMutant(pc) == At("unread") /\ Reads /\ AcceptNext(listening)   \* mutant: never stops one

AcceptUnread(pc) ==
    /\ At("unread") /\ Reads
    /\ \/ ~rx[sock] /\ Take(sock, pc)
       \/ rx[sock] /\ AcceptNext(listening)

AcceptScanMutant ==   \* mutant: the size is read before the status
    AcceptListen("unread") \/ AcceptUnread("closing") \/ AcceptClosing("stop")

AcceptScan == AcceptListen("closing") \/ AcceptClosing("unread") \/ AcceptUnread("stop")

(***** Server::begin(), and close() and socket() for all callers *****)

\* The first closed socket listens; with none closed, none does for now.
BeginScan ==
    /\ At("begin") /\ Reads
    /\ \/ SnSR[loop] = "CLOSED" /\ Close(loop, "open")
       \/ SnSR[loop] # "CLOSED" /\ Round("begin", Restart(Resume) /\ UNCHANGED listening)

SockClose == At("close") /\ CLOSE(sock) /\ Goto("clear") /\ Commands

SockOpen == At("open") /\ OPEN(sock) /\ Goto(IF op = "client" THEN "connect" ELSE "listen") /\ Commands

Begun == server_port' = server_port \cup {sock} /\ Restart(Resume) /\ UNCHANGED <<handles, mixed, listening>>

\* listen() asks whether the socket is open; its result is ignored.
ListenTest == /\ At("listen") /\ UNCHANGED chipVars
              /\ IF SnSR[sock] = "INIT" THEN Goto("listenCmd") /\ Commands ELSE Begun

ListenCmd == At("listenCmd") /\ LISTEN(sock) /\ Begun

(***** Server::available() and write() *****)

ServerAvailable == served = NONE /\ Call("available", "accept", NONE) /\ Keep

ServerWrite == Call("broadcast", "accept", NONE) /\ IF HoldsOn THEN Keep ELSE Drop

\* The first of the server's connections, found in two reads of the status ...
FindScan ==
    /\ Reads
    /\ LET member == loop \in server_port IN
       \/ At("find") /\ member /\ SnSR[loop] = "ESTABLISHED" /\ Goto("findData")
       \/ At("find") /\ member /\ SnSR[loop] # "ESTABLISHED" /\ Goto("findClosing")
       \/ At("find") /\ ~member /\ Round("find", Leave)
       \/ At("findClosing") /\ SnSR[loop] = "CLOSE_WAIT" /\ Goto("findData")
       \/ At("findClosing") /\ SnSR[loop] # "CLOSE_WAIT" /\ Round("find", Leave)

\* ... with data is returned, or none.
FindData ==
    /\ At("findData")
    /\ \/ rx[loop] /\ Leave /\ served' = loop /\ servedPeer' = peer[loop]
       \/ ~rx[loop] /\ Round("find", Leave) /\ Keep
    /\ UNCHANGED <<chipVars, server_port, client, mixed>>

EachScan ==
    /\ At("each") /\ Reads
    /\ LET member == loop \in server_port /\ SnSR[loop] = "ESTABLISHED" IN
       \/ member /\ Take(loop, "room")
       \/ ~member /\ Round("each", Leave)

(***** send() *****)

\* The room for data, and then the status.
SendRoom == At("room") /\ Goto(IF tx[sock] = "empty" THEN "status" ELSE "noRoom") /\ Reads

SendStatus ==
    /\ At("status") \/ At("noRoom")
    /\ \/ Open(sock) /\ Goto(IF At("status") THEN "send" ELSE "room")
       \/ ~Open(sock) /\ Goto("sendNone")
    /\ Reads

\* Data of handle o should not reach, or come from, who is at the other end of s.
Stranger(s, o) == ~broken /\ Open(s) /\ CASE o = "client" -> peer[s] # Host
                                          [] o = "served" -> peer[s] # servedPeer
                                          [] OTHER        -> peer[s] = Host

\* The data, or none, is copied and SEND given; a socket closed by now sends nothing.
SendData ==
    /\ At("send") \/ At("sendNone")
    /\ LET full == At("send") /\ Open(sock) IN
       SEND(sock, full) /\ mixed' = mixed \cup IF full /\ Stranger(sock, op) THEN {op} ELSE {}
    /\ Goto("sending") /\ UNCHANGED <<server_port, handles>>

SendTest == At("sending") /\ Goto(IF SEND_OK[sock] THEN "sent" ELSE "sendTest") /\ Reads

SendClosedMutant == At("sendTest") /\ Reads /\ Goto("sending")   \* mutant: only SEND_OK ends the wait

SendClosed == /\ At("sendTest") /\ Reads
              /\ IF SnSR[sock] = "CLOSED" THEN Close(sock, "sent") ELSE Goto("sending")

\* Back to the sketch, or to the next connection of write().
SendDone == IF op = "broadcast" THEN Round("each", Leave) ELSE Leave

SendOk == At("sent") /\ ClearIR(sock) /\ SendDone /\ Commands
-----------------------------------------------------------------------------
(***** Client, for the handle o of the sketch: "served" or "client" *****)

handle(o) == IF o = "served" THEN served ELSE client

\* A byte is read if there is one: its size, and then its data and RECV.
Read(o) == handle(o) # NONE /\ rx[handle(o)] /\ Call(o, "recv", handle(o)) /\ Keep

Recv == /\ At("recv") /\ RECV(sock) /\ Leave
        /\ mixed' = mixed \cup IF Stranger(sock, op) THEN {op} ELSE {}
        /\ UNCHANGED <<server_port, handles>>

\* Sketches write to a Client that is connected(): its status and, if its peer has
\* closed, whether data is left.
Write(o) == LET s == handle(o) IN
    /\ s # NONE /\ SnSR[s] \notin {"LISTEN", "CLOSED", "FIN_WAIT"}
    /\ Call(o, IF SnSR[s] = "CLOSE_WAIT" THEN "connected" ELSE "room", s) /\ Keep

ConnectedData == At("connected") /\ Reads /\ IF rx[sock] THEN Goto("room") ELSE Leave

Stop(o) == handle(o) # NONE /\ Call(o, "stop", handle(o)) /\ Keep

StopDiscon == At("stop") /\ DISCON(sock) /\ Goto("stopping") /\ Commands

\* Back to the sketch, whose handle forgets the socket, or to accept().
StopDone == \/ /\ op \in {"available", "broadcast"}
               /\ AcceptNext(listening) /\ UNCHANGED handles
            \/ op = "served" /\ Leave /\ Drop /\ UNCHANGED client
            \/ op = "client" /\ Leave /\ client' = NONE /\ Keep

StoppedMutant == StopDone /\ UNCHANGED <<server_port, mixed>>   \* mutant: _server_port keeps the port

Stopped == StopDone /\ server_port' = server_port \ {sock} /\ UNCHANGED mixed

\* The last read of the status: closed, or closed by force after a second.
StopTest == /\ At("stopping") /\ UNCHANGED chipVars
            /\ \/ SnSR[sock] = "CLOSED" /\ Stopped
               \/ SnSR[sock] # "CLOSED" /\ Close(sock, "stopped") /\ Commands

\* close() clears the interrupt flags and returns to its caller.
SockClear ==
    /\ At("clear") /\ ClearIR(sock)
    /\ \/ /\ after = "open" /\ Commands
          /\ ethPc' = "open" /\ after' = "none" /\ UNCHANGED <<op, sock, loop, listening>>
       \/ after = "sent" /\ SendDone /\ Commands
       \/ after = "stopped" /\ Stopped

Connect == client = NONE /\ Call("client", "pick", NONE) /\ Keep

\* The first socket that is closed, or closing, is opened ...
ConnectScan ==
    /\ At("pick")
    /\ LET free == SnSR[loop] \in {"CLOSED", "FIN_WAIT"} IN
       \/ free /\ Close(loop, "open") /\ client' = loop
       \/ ~free /\ Round("pick", Leave) /\ UNCHANGED client
    /\ Keep /\ UNCHANGED <<chipVars, server_port, mixed>>

\* ... and told to connect, unless the address is one that connect() refuses: then it
\* stays open, and nobody's.
ConnectCmd ==
    /\ At("connect")
    /\ \/ CONNECT(sock) /\ Goto("polling") /\ UNCHANGED client
       \/ BadAddress /\ Leave /\ client' = NONE /\ UNCHANGED chipVars
    /\ Keep /\ UNCHANGED <<server_port, mixed>>

\* The two polls for these two states only.
ConnectPoll ==
    /\ At("polling") /\ Reads
    /\ IF SnSR[client] = "ESTABLISHED" THEN Leave ELSE Goto("failed")

ConnectFailed ==
    /\ At("failed")
    /\ IF SnSR[client] = "CLOSED" THEN Leave /\ client' = NONE ELSE Goto("polling") /\ UNCHANGED client
    /\ Keep /\ UNCHANGED <<chipVars, server_port, mixed>>
-----------------------------------------------------------------------------
InCall == \/ AcceptScan \/ BeginScan \/ FindScan \/ FindData \/ EachScan
          \/ SockClose \/ SockClear \/ SockOpen \/ ListenTest \/ ListenCmd
          \/ SendRoom \/ SendStatus \/ SendData \/ SendTest \/ SendClosed \/ SendOk
          \/ Recv \/ ConnectedData \/ StopDiscon \/ StopTest
          \/ ConnectScan \/ ConnectCmd \/ ConnectPoll \/ ConnectFailed

Net(A) == A /\ UNCHANGED <<server_port, handles, callVars, mixed>>

Network == \/ \E s \in Socks : \/ Net(Answer(s) \/ Refuse(s) \/ Arrive(s) \/ Fin(s) \/ Finish(s))
                               \/ Net(Transmit(s) \/ Acked(s) \/ Reset(s))
           \/ \E p \in Clients : Net(Dial(p) \/ \E s \in Socks : Accept(s, p))

EthNext == \/ ServerAvailable \/ ServerWrite \/ Connect
           \/ \E o \in {"served", "client"} : Read(o) \/ Write(o) \/ Stop(o)
           \/ InCall \/ Network

\* The sketch is done with what it got: it stops it or, when it has read what came,
\* lets it go with a write to all.
LetGo == Stop("served") \/ (served # NONE /\ ~rx[served] /\ ServerWrite)

\* A call goes on; loop() calls available() again and again, and reads or stops what
\* it got until it is done with it; the chip and the hosts do what they have to do.
EthFairness ==
    /\ WF_ethVars(InCall)
    /\ SF_ethVars(ServerAvailable) /\ SF_ethVars(Read("served") \/ Stop("served")) /\ SF_ethVars(LetGo)
    /\ \A s \in Socks :
          /\ WF_ethVars(Net(Answer(s) \/ Refuse(s) \/ Finish(s) \/ Transmit(s) \/ Acked(s)))
          /\ WF_ethVars(Net(Fin(s)))
    /\ \A p \in Clients : SF_ethVars(Net(\E s \in Socks : Accept(s, p)))

EthSpec == EthInit /\ [][EthNext]_ethVars /\ EthFairness
-----------------------------------------------------------------------------
Callers == {"none", "available", "broadcast", "served", "client"}
Places  == {"sketch", "accept", "closing", "unread", "begin", "close", "clear", "open", "listen", "listenCmd",
            "find", "findClosing", "findData", "each", "room", "noRoom", "status", "send", "sendNone",
            "sending", "sendTest", "sent", "recv", "connected", "stop", "stopping", "pick", "connect",
            "polling", "failed"}

\* Every variable has a value of its type.
EthTypeOK == /\ SnSR \in [Socks -> States] /\ peer \in [Socks -> Clients \cup {Host, NOBODY}]
             /\ rx \in [Socks -> BOOLEAN] /\ tx \in [Socks -> {"empty", "full", "sent"}]
             /\ SEND_OK \in [Socks -> BOOLEAN]
             /\ host \in [Clients \cup {Host} -> {"idle", "syn", "open", "sent"}]
             /\ server_port \subseteq Socks
             /\ {served, client, sock} \subseteq Socks \cup {NONE}
             /\ servedPeer \in Clients \cup {Host, NOBODY}
             /\ op \in Callers /\ ethPc \in Places /\ loop \in Socks /\ mixed \subseteq Callers
             /\ after \in {"none", "open", "sent", "stopped"}

\* While no connection has broken, what goes through a Client of available() goes to
\* and comes from the host it was got for, not another that has taken its socket
\* since; what the server writes to all goes to its clients; and what goes through
\* the sketch's own Client goes to and comes from Host.
NoCrossTalk == mixed = {}

\* server.available() returns a client that is connected to the server.
ServesItsClients == servedPeer \in Clients \cup {NOBODY}

\* While no connection has broken, the server's own bookkeeping throws no byte
\* away that waits in the chip, also not of a client whose last byte and whose FIN
\* come between two reads of accept().
NothingUnread == [][~broken' /\ op \in {"available", "broadcast"} => \A s \in Socks : rx[s] => rx'[s]]_ethVars

\* A host that dials the server is answered: the server always comes to listen
\* again, whatever closes or breaks, as long as sketches are done with what they
\* serve some time.
ClientsAnswered == \A p \in Clients : host[p] = "syn" ~> host[p] # "syn"

\* Every call returns.
EthCallsReturn == ethPc # "sketch" ~> ethPc = "sketch"
=============================================================================
