------------------------------ MODULE P2PClient ------------------------------
(***************************************************************************)
(* The clients: CP2PClient (P2PClient.cpp) with its two classes CP2PHost   *)
(* and CP2PGuest, driven as main.cpp drives them.                          *)
(*                                                                         *)
(* Threads and their steps.  A client runs its main thread, which waits on *)
(* three manual-reset events and handles the status it reads; a TCP        *)
(* receive thread, which writes m_eStatus and then sets an event; and a    *)
(* UDP receive thread, which reads m_eStatus and m_dwPeerid and answers.   *)
(* Every access to what two threads share is a step of its own: the read   *)
(* of m_eStatus and the ResetEvent, the check of the status and SetState,  *)
(* SetState and SetEvent, the check of a datagram and the packet sent      *)
(* because of it.  Three things are one step where the order does not      *)
(* tell: the wait that returns and the read of m_eStatus, because only     *)
(* this thread resets the event; a ResetEvent or SetState and the send     *)
(* that follows on the same thread, because a send only adds to a channel; *)
(* and in TPT_WAIT_RESULT the check and SetState, because the main thread  *)
(* does not write the status of a host before TPT_START_UDP.               *)
(*                                                                         *)
(* Locks.  m_csUDPLock is held by the main thread while it is "stopping";  *)
(* m_csRecvFunc of the UDP socket is held by the UDP thread while it is    *)
(* not "idle".                                                             *)
(*                                                                         *)
(* A client is named after its socket, which stands for its public UDP     *)
(* address too.  Error codes, names and the ENet traffic are left out.     *)
(***************************************************************************)
EXTENDS P2PProtocol

CONSTANTS
    Tcp,        \* the clients
    None,       \* no address
    MaxRetry,   \* rounds of an exchange or of a punch: 10 in the code
    Punchable,  \* whether the NATs let any datagram of a peer through
    UserSends,  \* whether the guest's program sends data once connected
    MaxC2S      \* bound: packets in flight to the server

VARIABLES
    peer,                  \* peer[t].role, peer[t].keyword; the rest is P2PServer's history
    link, c2s, udp,        \* the network to the server, as in P2PServer
    s2c,                   \* s2c[t]: packets from the server, not dispatched
    p2p,                   \* the datagrams ever sent from peer to peer
    client,                \* client[t]: the members of CP2PClient
    mainThr,               \* mainThr[t]: the main thread
    tcpThr,                \* tcpThr[t]: the TCP receive thread
    udpRecv                \* udpRecv[t]: the UDP receive thread

CommType == {"PCT_NONE", "PCT_ENET", "PCT_TCP_RELAY"}

PeerDatagram ==
    [type : {"UPT_HANDSHAKE", "UPT_KEEPALIVE"}, Peerid : Nat, from : Tcp, to : Tcp \cup {None}]

(* status is m_eStatus, change, stop and connected the three events, udpOn *)
(* whether the UDP socket has its threads and its callback.                *)
NewClient ==
    [status |-> P2P_STATUS_NONE, type |-> "PCT_NONE", Peerid |-> 0, remote |-> None,
     change |-> FALSE, stop |-> FALSE, connected |-> FALSE, udpOn |-> TRUE]

ClientInit ==
    /\ s2c = [t \in Tcp |-> <<>>]
    /\ p2p = {}
    /\ client = [t \in Tcp |-> NewClient]
    /\ mainThr = [t \in Tcp |-> [pc |-> "begin", saved |-> P2P_STATUS_NONE, retry |-> 0]]
    /\ tcpThr = [t \in Tcp |-> "idle"]
    /\ udpRecv = [t \in Tcp |-> "idle"]

netVars == <<link, c2s, udp, s2c, p2p>>

IsHost(t) == peer[t].role = "HOST"

(* m_pTCP->SendPacket; a closed socket's send list goes nowhere.           *)
SendTCP(t, type) ==
    /\ link[t] = "up" => Len(c2s[t]) < MaxC2S
    /\ c2s' = IF link[t] = "up" THEN [c2s EXCEPT ![t] = Append(@, type)] ELSE c2s

-----------------------------------------------------------------------------
(* The main thread                                                         *)

At(t, pc) == link[t] # "none" /\ mainThr[t].pc = pc

Station(pc, saved) == [pc |-> pc, saved |-> saved, retry |-> 0]

(* The status that was read matters only to the handler's first steps.     *)
Goto(t, pc) == mainThr' = [mainThr EXCEPT ![t] = Station(pc, P2P_STATUS_NONE)]

(* CP2PHost::Accept resets the stop event after Listen has started the     *)
(* receive thread that sets it; CP2PGuest::Connect resets it before.       *)
Begin(t) ==
    /\ At(t, "begin")
    /\ client' = [client EXCEPT ![t].stop = IF IsHost(t) THEN FALSE ELSE @]
    /\ Goto(t, "wait")
    /\ UNCHANGED <<netVars, tcpThr, udpRecv>>

(* The cases of the loop's switch.                                         *)
Handled(t) ==
    {P2P_TCP_CONNECTED, P2P_PUNCHING, P2P_CONNECTED, P2P_TCP_PROXY}
    \cup (IF IsHost(t) THEN {P2P_TCP_LISTENING, P2P_UDP_LISTENING} ELSE {P2P_UDP_CONNECTED})

(* The status event is the first of the three, so the others wait for it;  *)
(* in a status without a case the loop spins and the event stays set.      *)
WakeUp(t) ==
    /\ At(t, "wait")
    /\ client[t].change
    /\ client[t].status \in Handled(t)
    /\ mainThr' = [mainThr EXCEPT ![t] = Station("reset", client[t].status)]
    /\ UNCHANGED <<netVars, client, tcpThr, udpRecv>>

StopOrConnected(t) == ~client[t].change /\ (client[t].stop \/ client[t].connected)

LoopEnds(t) ==
    /\ At(t, "wait")
    /\ StopOrConnected(t)
    /\ client' = [client EXCEPT ![t].connected = FALSE]
    /\ Goto(t, "returned")
    /\ UNCHANGED <<netVars, tcpThr, udpRecv>>

(* mutant: the event stays set                                             *)
KeepEvent(c) == c

ResetEvent(c) == [c EXCEPT !.change = FALSE]

(* The handler of a status in S begins: it first resets the status event.  *)
Handle(t, S) ==
    /\ At(t, "reset")
    /\ mainThr[t].saved \in S
    /\ client' = [client EXCEPT ![t] = ResetEvent(@)]

(* The status in which a client greets the server.                         *)
Greeting(t) == IF IsHost(t) THEN P2P_TCP_LISTENING ELSE P2P_TCP_CONNECTED

(* TCPListeningEventProcess, TCPConnectEventProcess                        *)
Greet(t) ==
    /\ Handle(t, {Greeting(t)})
    /\ Goto(t, "wait")
    /\ SendTCP(t, IF IsHost(t) THEN "TPT_WAITING" ELSE "TPT_CONNECT")
    /\ UNCHANGED <<link, udp, s2c, p2p, tcpThr, udpRecv>>

(* A host that was accepted waits for a guest.                             *)
AwaitGuest(t) ==
    /\ IsHost(t)
    /\ Handle(t, {P2P_TCP_CONNECTED})
    /\ Goto(t, "wait")
    /\ UNCHANGED <<netVars, tcpThr, udpRecv>>

SendUDPToServer(t) ==
    udp' = IF client[t].udpOn
           THEN udp \cup {[type |-> IF IsHost(t) THEN "UPT_WAITING" ELSE "UPT_CONNECT",
                           keyword |-> peer[t].keyword, from |-> t]}
           ELSE udp

SendUDPToPeer(t, type) ==
    p2p' = IF Punchable
           THEN p2p \cup {[type |-> type, Peerid |-> client[t].Peerid, from |-> t,
                            to |-> client[t].remote]}
           ELSE p2p

(* UDPInfoExchangeEventProccess and UDPPunchEventProcess, up to the first  *)
(* wait.                                                                   *)
Exchange(t) ==
    /\ Handle(t, {P2P_UDP_LISTENING, P2P_UDP_CONNECTED})
    /\ Goto(t, "exchange")
    /\ SendUDPToServer(t)
    /\ UNCHANGED <<link, c2s, s2c, p2p, tcpThr, udpRecv>>

Punch(t) ==
    /\ Handle(t, {P2P_PUNCHING})
    /\ Goto(t, "punch")
    /\ SendUDPToPeer(t, "UPT_HANDSHAKE")
    /\ UNCHANGED <<link, c2s, udp, s2c, tcpThr, udpRecv>>

Signalled(t) == client[t].change \/ client[t].stop

(* Either event ends the handler, and stays set for the loop to see it.    *)
WaitSignalled(t) ==
    /\ At(t, "exchange") \/ At(t, "punch")
    /\ Signalled(t)
    /\ Goto(t, "wait")
    /\ UNCHANGED <<netVars, client, tcpThr, udpRecv>>

(* mutant: one round more                                                  *)
RoundMore(t, pc, last) ==
    /\ At(t, pc)
    /\ ~Signalled(t)
    /\ IF mainThr[t].retry < MaxRetry
       THEN mainThr' = [mainThr EXCEPT ![t].retry = @ + 1]
       ELSE Goto(t, last)
    /\ UNCHANGED <<link, c2s, s2c, client, tcpThr, udpRecv>>

(* A round of 200 ms ends without an event: the next one sends again.      *)
Round(t, pc, last) ==
    /\ At(t, pc)
    /\ ~Signalled(t)
    /\ IF mainThr[t].retry + 1 < MaxRetry
       THEN mainThr' = [mainThr EXCEPT ![t].retry = @ + 1]
       ELSE Goto(t, last)
    /\ UNCHANGED <<link, c2s, s2c, client, tcpThr, udpRecv>>

ExchangeTimeout(t) ==
    /\ Round(t, "exchange", "giveup")
    /\ IF mainThr'[t].pc = "exchange" THEN SendUDPToServer(t) ELSE UNCHANGED udp
    /\ UNCHANGED p2p

(* The test that ends UDPPunchEventProcess early, "Ret != WAIT_OBJECT_0 || *)
(* Ret != WAIT_TIMEOUT": no value of Ret fails it.                         *)
PunchReturns(Ret) == Ret # "WAIT_OBJECT_0" \/ Ret # "WAIT_TIMEOUT"

PunchTimeout(t) ==
    /\ Round(t, "punch", IF PunchReturns("WAIT_TIMEOUT") THEN "wait" ELSE "giveup")
    /\ IF mainThr'[t].pc = "punch" THEN SendUDPToPeer(t, "UPT_HANDSHAKE") ELSE UNCHANGED p2p
    /\ UNCHANGED udp

(* mutant: the status changes and nothing is sent                          *)
TurnSilently(t) ==
    /\ At(t, "giveup")
    /\ client' = [client EXCEPT ![t].status = P2P_TCP_PROXY_REQUEST]
    /\ Goto(t, "wait")
    /\ UNCHANGED <<netVars, tcpThr, udpRecv>>

(* "turn to TCP Relay": the status is overwritten, whatever it is by now.  *)
TurnToRelay(t) ==
    /\ At(t, "giveup")
    /\ client' = [client EXCEPT ![t].status = P2P_TCP_PROXY_REQUEST]
    /\ SendTCP(t, "TPT_PROXY_REQUEST")
    /\ Goto(t, "wait")
    /\ UNCHANGED <<link, udp, s2c, p2p, tcpThr, udpRecv>>

(* P2PConnectEventProcess and TCPProxyEventProcess take m_csUDPLock and,   *)
(* holding it, wait in CUDPBase::Stop for m_csRecvFunc.                    *)
EnterUDPLock(t) ==
    /\ Handle(t, {P2P_CONNECTED, P2P_TCP_PROXY})
    /\ mainThr' = [mainThr EXCEPT ![t].pc = "stopping"]
    /\ UNCHANGED <<netVars, tcpThr, udpRecv>>

Started(c, status) ==
    CASE status = P2P_CONNECTED -> [c EXCEPT !.type = "PCT_ENET", !.connected = TRUE]
      [] status = P2P_TCP_PROXY -> [c EXCEPT !.type = "PCT_TCP_RELAY", !.connected = TRUE]
      [] OTHER -> c

StopUDP(t) ==
    /\ At(t, "stopping")
    /\ udpRecv[t] = "idle"
    /\ client' = [client EXCEPT ![t] = Started([@ EXCEPT !.udpOn = FALSE], mainThr[t].saved)]
    /\ Goto(t, IF mainThr[t].saved = P2P_STATUS_NONE THEN "closed" ELSE "wait")
    /\ UNCHANGED <<netVars, tcpThr, udpRecv>>

(* WaitForStop and Close, which main.cpp calls on a host whose Accept has  *)
(* returned: the TCP callbacks are removed, the socket closed, then the    *)
(* UDP socket stopped.                                                     *)
Close(t) ==
    /\ At(t, "returned")
    /\ IsHost(t)
    /\ client[t].stop
    /\ tcpThr[t] \in {"idle", "ended"}
    /\ link' = [link EXCEPT ![t] = "shut"]
    /\ tcpThr' = [tcpThr EXCEPT ![t] = "ended"]
    /\ Goto(t, "stopping")
    /\ UNCHANGED <<c2s, udp, s2c, p2p, client, udpRecv>>

(* SendPacket of main.cpp's guest, over the relay.                         *)
SendPacket(t) ==
    /\ At(t, "returned")
    /\ ~IsHost(t)
    /\ UserSends
    /\ client[t].type = "PCT_TCP_RELAY"
    /\ SendTCP(t, "TPT_DATA_PROXY")
    /\ UNCHANGED <<link, udp, s2c, p2p, client, mainThr, tcpThr, udpRecv>>

-----------------------------------------------------------------------------
(* The TCP receive thread                                                  *)

Dispatch(t, type) ==
    /\ tcpThr[t] = "idle"
    /\ s2c[t] # <<>>
    /\ Head(s2c[t]).type = type
    /\ s2c' = [s2c EXCEPT ![t] = Tail(@)]

(* SetState(c.status); SetEvent(m_hStatusChange) is the thread's next step.*)
SetState(t, c) ==
    /\ client' = [client EXCEPT ![t] = c]
    /\ tcpThr' = [tcpThr EXCEPT ![t] = "signal"]
    /\ UNCHANGED <<link, c2s, udp, p2p, mainThr, udpRecv>>

SetStopEvent(t) ==
    /\ client' = [client EXCEPT ![t].stop = TRUE]
    /\ UNCHANGED <<link, c2s, udp, p2p, mainThr, tcpThr, udpRecv>>

Skip(t) == UNCHANGED <<link, c2s, udp, p2p, client, mainThr, tcpThr, udpRecv>>

SetStatusEvent(t) ==
    /\ tcpThr[t] = "signal"
    /\ client' = [client EXCEPT ![t].change = TRUE]
    /\ tcpThr' = [tcpThr EXCEPT ![t] = "idle"]
    /\ UNCHANGED <<netVars, mainThr, udpRecv>>

RecvInit(t) ==
    /\ Dispatch(t, "TPT_INIT")
    /\ SetState(t, [client[t] EXCEPT !.Peerid = 0, !.type = "PCT_NONE",
                      !.status = IF IsHost(t) THEN P2P_TCP_LISTENING ELSE P2P_TCP_CONNECTED])

(* Only a host has a case for the result of its own request: a guest skips *)
(* TPT_CONNECT_RESULT, be it an error or not.                              *)
RecvWaitResult(t) ==
    LET result == Head(s2c[t]).result
    IN  /\ Dispatch(t, "TPT_WAIT_RESULT")
        /\ \/ result # "NONE" /\ SetStopEvent(t)
           \/ /\ result = "NONE"
              /\ client[t].status = P2P_TCP_LISTENING
              /\ SetState(t, [client[t] EXCEPT !.status = P2P_TCP_CONNECTED])
           \/ /\ result = "NONE"
              /\ client[t].status # P2P_TCP_LISTENING
              /\ Skip(t)

RecvConnectResult(t) == Dispatch(t, "TPT_CONNECT_RESULT") /\ Skip(t)

(* The status in which an exchange runs.                                   *)
Exchanging(t) == IF IsHost(t) THEN P2P_UDP_LISTENING ELSE P2P_UDP_CONNECTED

RecvStartUDP(t) ==
    /\ Dispatch(t, "TPT_START_UDP")
    /\ SetState(t, [client[t] EXCEPT !.status = Exchanging(t)])

RecvClientInfo(t) ==
    LET Data == Head(s2c[t])
    IN  /\ Dispatch(t, "TPT_CLIENT_INFO")
        /\ IF client[t].status = Exchanging(t)
           THEN /\ client' = [client EXCEPT ![t].Peerid = Data.Peerid, ![t].remote = Data.ClientInfo]
                /\ tcpThr' = [tcpThr EXCEPT ![t] = "punching"]
                /\ UNCHANGED <<link, c2s, udp, p2p, mainThr, udpRecv>>
           ELSE Skip(t)

RecvP2PResult(t) ==
    /\ Dispatch(t, "TPT_P2P_RESULT")
    /\ IF client[t].status = P2P_PUNCHING
       THEN /\ tcpThr' = [tcpThr EXCEPT ![t] = "connected"]
            /\ UNCHANGED <<link, c2s, udp, p2p, client, mainThr, udpRecv>>
       ELSE Skip(t)

(* The SetState of the two cases above, which the main thread may precede  *)
(* with its own.                                                           *)
SetPunching(t) ==
    /\ tcpThr[t] = "punching"
    /\ SetState(t, [client[t] EXCEPT !.status = P2P_PUNCHING])
    /\ UNCHANGED s2c

SetConnected(t) ==
    /\ tcpThr[t] = "connected"
    /\ SetState(t, [client[t] EXCEPT !.status = P2P_CONNECTED])
    /\ UNCHANGED s2c

RecvProxyResult(t) ==
    LET Result == Head(s2c[t]).Result
    IN  /\ Dispatch(t, "TPT_PROXY_RESULT")
        /\ IF Result # "NONE"
           THEN SetStopEvent(t)
           ELSE SetState(t, [client[t] EXCEPT !.status = P2P_TCP_PROXY])

(* mutant: a host has none either                                          *)
RecvResetAsGuest(t) == Dispatch(t, "TPT_RESET") /\ Skip(t)

(* A guest has no case for TPT_RESET.                                      *)
RecvReset(t) ==
    /\ Dispatch(t, "TPT_RESET")
    /\ IF IsHost(t) THEN SetStopEvent(t) ELSE Skip(t)

(* The socket was closed by either side; what it still held is lost.       *)
TCPEndProcess(t) ==
    /\ tcpThr[t] = "idle"
    /\ link[t] = "shut"
    /\ client' = [client EXCEPT ![t].stop = TRUE]
    /\ tcpThr' = [tcpThr EXCEPT ![t] = "ended"]
    /\ s2c' = [s2c EXCEPT ![t] = <<>>]
    /\ UNCHANGED <<link, c2s, udp, p2p, mainThr, udpRecv>>

-----------------------------------------------------------------------------
(* The UDP receive thread                                                  *)

(* A datagram of this type has reached t and carries t's peer id; one that *)
(* carries another is skipped.                                             *)
ForMe(t, type) ==
    \E d \in p2p : d.to = t /\ d.type = type /\ d.Peerid = client[t].Peerid

RecvHandshake(t) ==
    /\ client[t].udpOn
    /\ udpRecv[t] = "idle"
    /\ ForMe(t, "UPT_HANDSHAKE")
    /\ udpRecv' = [udpRecv EXCEPT ![t] = "reply"]
    /\ UNCHANGED <<netVars, client, mainThr, tcpThr>>

(* SendUDPToPeer needs m_csUDPLock.                                        *)
SendKeepalive(t) ==
    /\ udpRecv[t] = "reply"
    /\ mainThr[t].pc # "stopping"
    /\ SendUDPToPeer(t, "UPT_KEEPALIVE")
    /\ udpRecv' = [udpRecv EXCEPT ![t] = "idle"]
    /\ UNCHANGED <<link, c2s, udp, s2c, client, mainThr, tcpThr>>

RecvKeepalive(t) ==
    /\ client[t].udpOn
    /\ udpRecv[t] = "idle"
    /\ ForMe(t, "UPT_KEEPALIVE")
    /\ client[t].status = P2P_PUNCHING
    /\ udpRecv' = [udpRecv EXCEPT ![t] = "confirm"]
    /\ UNCHANGED <<netVars, client, mainThr, tcpThr>>

SendP2PResult(t) ==
    /\ udpRecv[t] = "confirm"
    /\ SendTCP(t, "TPT_P2P_RESULT")
    /\ udpRecv' = [udpRecv EXCEPT ![t] = "idle"]
    /\ UNCHANGED <<link, udp, s2c, p2p, client, mainThr, tcpThr>>

-----------------------------------------------------------------------------
MainThread(t) ==
    \/ Begin(t) \/ WakeUp(t) \/ LoopEnds(t) \/ Greet(t) \/ AwaitGuest(t)
    \/ Exchange(t) \/ Punch(t) \/ WaitSignalled(t) \/ ExchangeTimeout(t) \/ PunchTimeout(t)
    \/ TurnToRelay(t) \/ EnterUDPLock(t) \/ StopUDP(t) \/ Close(t)

TCPRecvThread(t) ==
    \/ SetPunching(t) \/ SetConnected(t) \/ SetStatusEvent(t)
    \/ RecvInit(t) \/ RecvWaitResult(t) \/ RecvConnectResult(t) \/ RecvStartUDP(t)
    \/ RecvClientInfo(t) \/ RecvP2PResult(t) \/ RecvProxyResult(t) \/ RecvReset(t)
    \/ TCPEndProcess(t)

(* What the UDP thread does once it has a datagram.                        *)
UDPCallback(t) == SendKeepalive(t) \/ SendP2PResult(t)

ClientNext(t) ==
    \/ MainThread(t) \/ SendPacket(t)
    \/ TCPRecvThread(t)
    \/ RecvHandshake(t) \/ RecvKeepalive(t) \/ UDPCallback(t)

(* Every member has its type.                                              *)
ClientTypeOK(id) ==
    /\ client \in [Tcp -> [status : P2P_STATUS, type : CommType, Peerid : id,
                           remote : Tcp \cup {None}, change : BOOLEAN, stop : BOOLEAN,
                           connected : BOOLEAN, udpOn : BOOLEAN]]
    /\ p2p \subseteq PeerDatagram
    /\ mainThr \in [Tcp -> [pc : {"begin", "wait", "reset", "exchange", "punch", "giveup",
                                  "stopping", "returned", "closed"},
                            saved : P2P_STATUS, retry : 0 .. MaxRetry - 1]]
    /\ tcpThr \in [Tcp -> {"idle", "punching", "connected", "signal", "ended"}]
    /\ udpRecv \in [Tcp -> {"idle", "reply", "confirm"}]
=============================================================================
