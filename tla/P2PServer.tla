------------------------------ MODULE P2PServer ------------------------------
(***************************************************************************)
(* The rendezvous server: CP2PServer (P2PServer.cpp), the session object   *)
(* CP2PConnection (P2PConnection.cpp) and the life of one CTCPServer       *)
(* (TCPBase.cpp, TCPServer.cpp) per accepted socket.                       *)
(*                                                                         *)
(* Threads and their steps.  The server runs one listen thread, one        *)
(* receive thread per accepted socket and one UDP receive thread.  An      *)
(* action is what a thread does while it holds a critical section:         *)
(* m_csTCPList, m_csP2PConnection, or the m_csLock of one session.  A      *)
(* session pointer that FindP2PConnection returned is used after           *)
(* m_csP2PConnection is released, so "find" and "apply" are two steps and  *)
(* any other thread may run in between.                                    *)
(*                                                                         *)
(* Identities.  A member of Tcp is one CTCPServer object, that is one      *)
(* accepted socket; a client that reconnects is another member.  A session *)
(* is named after the Tcp whose TPT_WAITING created it (its host), which   *)
(* is unique because a host sends TPT_WAITING once per socket.             *)
(*                                                                         *)
(* Channels.  c2s[t] is the byte stream from client t, as the packets the  *)
(* receive thread has not dispatched yet; sent[t] is the log of everything *)
(* pushed on t's m_SendList, so a client has read some prefix of it; udp   *)
(* is the set of datagrams ever sent to the server: the receive action     *)
(* never removes one, so datagrams are lost, delayed, reordered and        *)
(* duplicated at will.                                                     *)
(*                                                                         *)
(* The clients of this module are the weakest ones P2PHost.cpp and         *)
(* P2PGuest.cpp allow: a client sends a packet once the packet that makes  *)
(* its code send it has been pushed to it.                                 *)
(***************************************************************************)
EXTENDS P2PProtocol, FiniteSets, Bags

Ext == INSTANCE BagsExt

CONSTANTS
    Tcp,       \* the sockets that may be accepted
    Keyword,   \* the keywords clients register or look for
    IdCount,   \* tcpids are DWORDs: 2^32 in the code, a few in a run
    MaxC2S,    \* bound: packets in flight from one client
    MaxAsk,    \* bound: TPT_PROXY_REQUESTs one client sends
    None       \* the NULL pointer

ASSUME IdCountAssumption == IdCount \in Nat \ {0}
ASSUME NoneAssumption == None \notin Tcp \cup Keyword

Id == 0 .. IdCount - 1

VARIABLES
    (* the clients and the network *)
    link,              \* link[t]: the state of t's socket
    peer,              \* peer[t]: role and keyword of the client, what it sent
    c2s, sent, udp,     \* the channels
    (* CP2PServer *)
    m_TCPList,         \* tcpid -> CTCPServer
    m_dwTCPid,         \* the next tcpid to try
    m_P2PConnectList,  \* tcpid of the host -> CP2PConnection
    (* CP2PConnection *)
    conn,              \* conn[h]: the session h's TPT_WAITING created
    (* threads *)
    accepting,         \* the socket between Init() and CreateTCPID, or None
    thr,               \* thr[t]: the receive thread of t
    udpThr,            \* the UDP receive thread
    fault,             \* the access violation that ended the process, or "no"
    (* history *)
    past               \* past[h]: who confirmed in h's current session, and
                       \* whether it began with flags of an earlier one

netVars    == <<link, peer, c2s, sent, udp>>
serverVars == <<m_TCPList, m_dwTCPid, m_P2PConnectList>>
vars == <<netVars, serverVars, conn, accepting, thr, udpThr, fault, past>>

-----------------------------------------------------------------------------
(* Shapes                                                                  *)

Role == {"HOST", "GUEST"}

NoConnection ==
    [keyword |-> None, status |-> P2P_STATUS_NONE,
     main |-> None, mainId |-> 0, mainOK |-> FALSE, mainUDP |-> None,
     guest |-> None, guestOK |-> FALSE, guestUDP |-> None]

Connection ==
    [keyword : Keyword \cup {None}, status : P2P_STATUS,
     main : Tcp \cup {None}, mainId : Id, mainOK : BOOLEAN, mainUDP : Tcp \cup {None},
     guest : Tcp \cup {None}, guestOK : BOOLEAN, guestUDP : Tcp \cup {None}]

Datagram == [type : ServerUDPType, keyword : Keyword, from : Tcp]

(* The stations of a receive thread: not started, between two packets,     *)
(* holding a session pointer, about to push a reply; and after its last    *)
(* read, out of the sessions but still in m_TCPList, gone.                 *)
ThreadPC == {"none", "idle", "apply", "reply", "removing", "stopped"}

Thread == [pc : ThreadPC, pkt : ClientTCPType \cup {None},
           p2p : Tcp \cup {None}, result : P2P_ERROR]

Idle == [pc |-> "idle", pkt |-> None, p2p |-> None, result |-> "NONE"]

Replying(type, result) == [Idle EXCEPT !.pc = "reply", !.pkt = type, !.result = result]

UDPThread == [pkt : Datagram \cup {None}, p2p : Tcp \cup {None}]

UDPIdle == [pkt |-> None, p2p |-> None]

Init ==
    /\ link = [t \in Tcp |-> "none"]
    /\ peer = [t \in Tcp |-> [role |-> None, keyword |-> None, greeted |-> FALSE, asked |-> 0]]
    /\ c2s = [t \in Tcp |-> <<>>]
    /\ sent = [t \in Tcp |-> EmptyBag]
    /\ udp = {}
    /\ m_TCPList = [i \in Id |-> None]
    /\ m_dwTCPid = 1 % IdCount
    /\ m_P2PConnectList = [i \in Id |-> None]
    /\ conn = [t \in Tcp |-> NoConnection]
    /\ accepting = None
    /\ thr = [t \in Tcp |-> [Idle EXCEPT !.pc = "none"]]
    /\ udpThr = UDPIdle
    /\ fault = "no"
    /\ past = [t \in Tcp |-> [confirmed |-> {}, leftover |-> FALSE]]

-----------------------------------------------------------------------------
(* Helpers                                                                 *)

Listed(h) == \E i \in Id : m_P2PConnectList[i] = h

(* CTCPBase::SendPacket pushes on the send list whatever the state of the  *)
(* socket.                                                                 *)
SendPacket(t, pkt) == sent' = [sent EXCEPT ![t] = Ext!BagAdd(@, pkt)]

SendPackets(t, pkt, u, qkt) ==
    sent' = [[sent EXCEPT ![t] = Ext!BagAdd(@, pkt)] EXCEPT ![u] = Ext!BagAdd(@, qkt)]

Hit(k, i) == m_P2PConnectList[i] # None /\ conn[m_P2PConnectList[i]].keyword = k

(* mutant: only sessions that still wait for a guest are searched          *)
FindListening(k, h) ==
    LET Open(i) == Hit(k, i) /\ conn[m_P2PConnectList[i]].status = P2P_TCP_LISTENING
    IN  \/ h = None /\ \A i \in Id : ~Open(i)
        \/ \E i \in Id : Open(i) /\ h = m_P2PConnectList[i]

(* h is what FindP2PConnection(k) returns: the last listed session with    *)
(* that keyword (the loop does not stop at the first one), or NULL.        *)
FindP2PConnection(k, h) ==
    \/ h = None /\ \A i \in Id : ~Hit(k, i)
    \/ \E i \in Id : /\ Hit(k, i)
                     /\ h = m_P2PConnectList[i]
                     /\ \A j \in Id : Hit(k, j) => j <= i

(* The access violation DumpP2PConnection meets in session state c: it     *)
(* reads through m_pMainTCPServer always and through m_pConnTCPServer from *)
(* P2P_TCP_CONNECTED on.                                                   *)
DumpP2PConnection(c) ==
    IF c.main = None THEN "null_main"
    ELSE IF c.status >= P2P_TCP_CONNECTED /\ c.guest = None THEN "null_guest"
    ELSE "no"

(* The process is gone and the system closes its sockets.                  *)
Crash(why) ==
    /\ fault' = why
    /\ link' = [t \in Tcp |-> IF link[t] = "up" THEN "shut" ELSE link[t]]
    /\ c2s' = [t \in Tcp |-> <<>>]
    /\ UNCHANGED <<peer, sent, udp, serverVars, conn, accepting, thr, udpThr, past>>

Alive == fault = "no"

InStateOrLater(h, status) == conn[h].status >= status   \* mutant: a guard with >=

(* The guard every session operation begins with.                          *)
InState(h, status) == conn[h].status = status

-----------------------------------------------------------------------------
(* The listen thread                                                       *)

(* CTCPService::ListenProcess accepts a client's socket and calls          *)
(* AcceptTCPSocketProcess, whose Init() starts the receive thread before   *)
(* the socket has a tcpid.  Fewer sockets than tcpids are in use: the run  *)
(* does not exhaust the 2^32 ids.                                          *)
AcceptTCPSocketProcess(t) ==
    /\ Alive
    /\ accepting = None
    /\ link[t] = "none"
    /\ \E i \in Id : m_TCPList[i] = None
    /\ \E r \in Role, k \in Keyword :
         peer' = [peer EXCEPT ![t].role = r, ![t].keyword = k]
    /\ link' = [link EXCEPT ![t] = "up"]
    /\ thr' = [thr EXCEPT ![t] = Idle]
    /\ accepting' = t
    /\ UNCHANGED <<c2s, sent, udp, serverVars, conn, udpThr, fault, past>>

NextIdNoWrap(i) == i + 1   \* mutant: the counter never wraps

NextId(i) == (i + 1) % IdCount

(* CreateTCPID takes the first tcpid from m_dwTCPid on that is not in use, *)
(* then TPT_INIT is pushed.                                                *)
CreateTCPID ==
    /\ Alive
    /\ accepting # None
    /\ \E d \in 0 .. IdCount - 1 :
         LET i == (m_dwTCPid + d) % IdCount
         IN  /\ m_TCPList[i] = None
             /\ \A e \in 0 .. d - 1 : m_TCPList[(m_dwTCPid + e) % IdCount] # None
             /\ m_TCPList' = [m_TCPList EXCEPT ![i] = accepting]
             /\ m_dwTCPid' = NextId(i)
             /\ SendPacket(accepting, CreateTCPInitPkt(i))
    /\ accepting' = None
    /\ UNCHANGED <<link, peer, c2s, udp, m_P2PConnectList, conn, thr, udpThr, fault, past>>

-----------------------------------------------------------------------------
(* A receive thread: one packet                                            *)

(* CTCPBase::RecvProcess dispatches the next packet of the stream and      *)
(* GetTCPServer(tcpid) finds the sender; both concern only t, whose entry  *)
(* no other thread removes, so they are part of the step that follows.     *)
Dispatch(t, type) ==
    /\ Alive
    /\ thr[t].pc = "idle"
    /\ c2s[t] # <<>>
    /\ Head(c2s[t]) = type
    /\ c2s' = [c2s EXCEPT ![t] = Tail(@)]

(* TPT_WAITING: search and creation happen under one hold of               *)
(* m_csP2PConnection.  The reply is pushed after the section, when a guest *)
(* may already have found the session.                                     *)
Waiting(t) ==
    /\ Dispatch(t, "TPT_WAITING")
    /\ \E i \in Id :
         /\ m_TCPList[i] = t
         /\ \/ /\ FindP2PConnection(peer[t].keyword, None)
               /\ m_P2PConnectList' = [m_P2PConnectList EXCEPT ![i] = t]
               /\ conn' = [conn EXCEPT ![t] =
                    [NoConnection EXCEPT !.keyword = peer[t].keyword, !.main = t,
                                         !.mainId = i, !.status = P2P_TCP_LISTENING]]
               /\ thr' = [thr EXCEPT ![t] = Replying("TPT_WAITING", "NONE")]
            \/ /\ ~FindP2PConnection(peer[t].keyword, None)
               /\ thr' = [thr EXCEPT ![t] = Replying("TPT_WAITING", "KEYWORD_DUPLICATE")]
               /\ UNCHANGED <<m_P2PConnectList, conn>>
    /\ UNCHANGED <<link, peer, sent, udp, m_TCPList, m_dwTCPid, accepting, udpThr, fault, past>>

(* TPT_CONNECT, TPT_P2P_RESULT and TPT_PROXY_REQUEST search the list by    *)
(* keyword and let go of it before they use what they found.               *)
AnswersConnectOnly(type) == type = "TPT_CONNECT"       \* mutant: PROXY_REQUEST fails silently

(* The packets whose failure is reported to the sender.                    *)
AnswersError(type) == type \in {"TPT_CONNECT", "TPT_PROXY_REQUEST"}

SessionPacket == {"TPT_CONNECT", "TPT_P2P_RESULT", "TPT_PROXY_REQUEST"}

FindSession(t, type) ==
    /\ Dispatch(t, type)
    /\ \E i \in Id : m_TCPList[i] = t
    /\ \E h \in Tcp \cup {None} :
         /\ FindP2PConnection(peer[t].keyword, h)
         /\ thr' = [thr EXCEPT ![t] =
              IF h # None THEN [Idle EXCEPT !.pc = "apply", !.pkt = type, !.p2p = h]
              ELSE IF AnswersError(type) THEN Replying(type, "KEYWORD_NOT_FOUND")
              ELSE Idle]
    /\ UNCHANGED <<link, peer, sent, udp, serverVars, conn, accepting, udpThr, fault, past>>

(* TPT_DATA_PROXY calls FindP2PConnection with Data->Peerid cast to a      *)
(* string pointer: the cast picks the overload that takes a keyword, with  *)
(* the peerid as its address.  The first strcmp faults; with an empty list *)
(* there is none and the packet is dropped.                                *)
DataProxy(t) ==
    \/ /\ Alive
       /\ thr[t].pc = "idle"
       /\ c2s[t] # <<>>
       /\ Head(c2s[t]) = "TPT_DATA_PROXY"
       /\ \E i \in Id : m_P2PConnectList[i] # None
       /\ Crash("keyword_pointer")
    \/ /\ Dispatch(t, "TPT_DATA_PROXY")
       /\ \A i \in Id : m_P2PConnectList[i] = None
       /\ UNCHANGED <<link, peer, sent, udp, serverVars, conn, accepting, thr, udpThr, fault, past>>

At(t, type) == Alive /\ thr[t].pc = "apply" /\ thr[t].pkt = type

(* mutant: a guest that finds the session in another state is dropped      *)
RefuseSilently(t, e) ==
    /\ thr' = [thr EXCEPT ![t] = IF thr[t].pkt = "TPT_PROXY_REQUEST"
                                 THEN Replying(thr[t].pkt, e) ELSE Idle]
    /\ UNCHANGED <<netVars, serverVars, conn, accepting, udpThr, fault, past>>

(* The session operation returned the error e.                             *)
Refuse(t, e) ==
    /\ thr' = [thr EXCEPT ![t] = IF AnswersError(thr[t].pkt) THEN Replying(thr[t].pkt, e) ELSE Idle]
    /\ UNCHANGED <<netVars, serverVars, conn, accepting, udpThr, fault, past>>

TCPConnected(t) ==
    LET h == thr[t].p2p
        c == [conn[h] EXCEPT !.guest = t, !.mainUDP = None, !.guestUDP = None,
                             !.status = P2P_TCP_CONNECTED]
    IN  /\ At(t, "TPT_CONNECT")
        /\ \/ /\ ~InState(h, P2P_TCP_LISTENING)
              /\ Refuse(t, "STATE_MISMATCH")
           \/ /\ InState(h, P2P_TCP_LISTENING)
              /\ DumpP2PConnection(c) # "no"
              /\ Crash(DumpP2PConnection(c))
           \/ /\ InState(h, P2P_TCP_LISTENING)
              /\ DumpP2PConnection(c) = "no"
              /\ conn' = [conn EXCEPT ![h] = c]
              /\ SendPackets(t, CreateTCPResultPkt("TPT_CONNECT_RESULT", "NONE"),
                             c.main, CreateTCPStartUDPPkt)
              /\ past' = [past EXCEPT ![h] =
                   [confirmed |-> {}, leftover |-> c.mainOK \/ c.guestOK]]
              /\ thr' = [thr EXCEPT ![t] = Idle]
              /\ UNCHANGED <<link, peer, c2s, udp, serverVars, accepting, udpThr, fault>>

OneOK(c) == c.mainOK \/ c.guestOK   \* mutant: one confirmation is enough

BothOK(c) == c.mainOK /\ c.guestOK

SetP2POK(t) ==
    LET h == thr[t].p2p
        f == [conn[h] EXCEPT !.mainOK = @ \/ conn[h].main = t,
                             !.guestOK = @ \/ conn[h].guest = t]
        c == [f EXCEPT !.status = IF BothOK(f) THEN P2P_CONNECTED ELSE @]
    IN  /\ At(t, "TPT_P2P_RESULT")
        /\ \/ /\ ~InState(h, P2P_PUNCHING)
              /\ Refuse(t, "STATE_MISMATCH")
           \/ /\ InState(h, P2P_PUNCHING)
              /\ DumpP2PConnection(c) # "no"
              /\ Crash(DumpP2PConnection(c))
           \/ /\ InState(h, P2P_PUNCHING)
              /\ DumpP2PConnection(c) = "no"
              /\ conn' = [conn EXCEPT ![h] = c]
              /\ IF BothOK(c) THEN SendPackets(c.main, CreateP2PSuccessPkt,
                                              c.guest, CreateP2PSuccessPkt)
                             ELSE UNCHANGED sent
              /\ past' = [past EXCEPT ![h].confirmed = @ \cup ({t} \cap {c.main, c.guest})]
              /\ thr' = [thr EXCEPT ![t] = Idle]
              /\ UNCHANGED <<link, peer, c2s, udp, serverVars, accepting, udpThr, fault>>

TCPProxyRequest(t) ==
    LET c == conn[thr[t].p2p]
    IN  /\ At(t, "TPT_PROXY_REQUEST")
        /\ \/ /\ c.guest = None
              /\ Refuse(t, "PROXY_FAIL")
           \/ /\ c.guest # None
              /\ IF c.main = None
                 THEN Crash("null_main")
                 ELSE /\ SendPackets(c.main, CreateTCPProxyResultPkt("NONE"),
                                     c.guest, CreateTCPProxyResultPkt("NONE"))
                      /\ thr' = [thr EXCEPT ![t] = Idle]
                      /\ UNCHANGED <<link, peer, c2s, udp, serverVars, conn,
                                     accepting, udpThr, fault, past>>

(* mutant: the case of TPT_WAITING falls through to that of TPT_CONNECT    *)
FallThrough(t) ==
    IF thr[t].pkt = "TPT_WAITING" /\ thr[t].result = "NONE"
    THEN [Idle EXCEPT !.pc = "apply", !.pkt = "TPT_CONNECT", !.p2p = t]
    ELSE Idle

(* The break that ends every case of the switch.                           *)
Break(t) == Idle

(* Server->SendPacket(Reply), after every lock is released.                *)
Reply(t) ==
    /\ Alive
    /\ thr[t].pc = "reply"
    /\ SendPacket(t, CASE thr[t].pkt = "TPT_WAITING" ->
                            CreateTCPResultPkt("TPT_WAIT_RESULT", thr[t].result)
                       [] thr[t].pkt = "TPT_CONNECT" ->
                            CreateTCPResultPkt("TPT_CONNECT_RESULT", thr[t].result)
                       [] OTHER -> CreateTCPProxyResultPkt(thr[t].result))
    /\ thr' = [thr EXCEPT ![t] = Break(t)]
    /\ UNCHANGED <<link, peer, c2s, udp, serverVars, conn, accepting, udpThr, fault, past>>

-----------------------------------------------------------------------------
(* A receive thread: its end                                               *)

(* mutant: m_eStatus is not reset                                          *)
WithoutGuestKeepStatus(c) == [c EXCEPT !.guest = None, !.mainUDP = None, !.guestUDP = None]

(* mutant: m_pConnTCPServer is not reset                                   *)
WithoutGuestKeepPointer(c) == [c EXCEPT !.mainUDP = None, !.guestUDP = None,
                                        !.status = P2P_TCP_LISTENING]

(* The flags m_bMainUDPOK and m_bConnUDPOK survive.                        *)
WithoutGuest(c) == [c EXCEPT !.guest = None, !.mainUDP = None, !.guestUDP = None,
                             !.status = P2P_TCP_LISTENING]

ConnTCPDisconnect(h) ==
    LET c == WithoutGuest(conn[h])
    IN  IF DumpP2PConnection(c) # "no"
        THEN fault' = DumpP2PConnection(c) /\ UNCHANGED <<sent, conn>>
        ELSE /\ conn' = [conn EXCEPT ![h] = c]
             /\ SendPacket(c.main, CreateTCPResultPkt("TPT_RESET", "NONE"))
             /\ UNCHANGED fault

NoDone(t) == UNCHANGED link   \* mutant: the guest's socket stays open

(* CTCPServer::Done: stop event, shutdown, closesocket.                    *)
Done(t) == link' = [u \in Tcp |-> IF u = t THEN "shut" ELSE link[u]]

(* m_eStatus survives.                                                     *)
WithoutHost(c) == [c EXCEPT !.main = None, !.mainId = 0, !.guest = None,
                            !.mainUDP = None, !.guestUDP = None]

(* The guest's socket is closed by the server.                             *)
MainTCPDisconnect(h) ==
    /\ conn' = [conn EXCEPT ![h] = WithoutHost(@)]
    /\ Done(conn[h].guest)

GuestOf(t, h) == t = conn[h].guest   \* mutant: only IsConnTCPServer is asked

(* IsConnTCPServer or IsMainTCPServer.                                     *)
PartyOf(t, h) == t \in {conn[h].guest, conn[h].main}

(* The socket is closed or the stop event set: TCPSocketRead fails, what   *)
(* was not dispatched is lost, and RecvProc calls the end callback.  This  *)
(* is its section that holds m_csP2PConnection: the loop over the sessions *)
(* stops at the first one t takes part in.                                 *)
TCPEndProcess(t) ==
    LET h(i) == m_P2PConnectList[i]
        InSession(i) == h(i) # None /\ PartyOf(t, h(i))
    IN  /\ Alive
        /\ thr[t].pc = "idle"
        /\ link[t] = "shut"
        /\ c2s' = [c2s EXCEPT ![t] = <<>>]
        /\ \/ /\ \A i \in Id : ~InSession(i)
              /\ UNCHANGED <<link, sent, m_P2PConnectList, conn, fault>>
           \/ \E i \in Id :
                /\ InSession(i)
                /\ \A j \in Id : InSession(j) => i <= j
                /\ \/ /\ conn[h(i)].guest = t
                      /\ ConnTCPDisconnect(h(i))
                      /\ UNCHANGED <<link, m_P2PConnectList>>
                   \/ /\ conn[h(i)].guest # t
                      /\ MainTCPDisconnect(h(i))
                      /\ m_P2PConnectList' = [m_P2PConnectList EXCEPT ![i] = None]
                      /\ UNCHANGED <<sent, fault>>
        /\ thr' = [thr EXCEPT ![t].pc = "removing"]
        /\ UNCHANGED <<peer, udp, m_TCPList, m_dwTCPid, accepting, udpThr, past>>

EntryKept(t) == m_TCPList   \* mutant: the entry is never erased

EntryErased(t) == [i \in Id |-> IF m_TCPList[i] = t THEN None ELSE m_TCPList[i]]

(* The tcpid becomes free only now, after the session left the list.  A    *)
(* socket that ended before CreateTCPID is not found.                      *)
RemoveTCPID(t) ==
    /\ Alive
    /\ thr[t].pc = "removing"
    /\ m_TCPList' = EntryErased(t)
    /\ thr' = [thr EXCEPT ![t].pc = "stopped"]
    /\ UNCHANGED <<netVars, m_dwTCPid, m_P2PConnectList, conn, accepting, udpThr, fault, past>>

-----------------------------------------------------------------------------
(* The UDP receive thread                                                  *)

RecvUDPPacketProcess ==
    /\ Alive
    /\ udpThr.pkt = None
    /\ \E d \in udp, h \in Tcp \cup {None} :
         /\ FindP2PConnection(d.keyword, h)
         /\ h # None
         /\ udpThr' = [pkt |-> d, p2p |-> h]
    /\ UNCHANGED <<netVars, serverVars, conn, accepting, thr, fault, past>>

HoldsDatagram(type) == udpThr.pkt # None   \* mutant: the case falls through

(* The switch of RecvUDPPacketProcess.                                     *)
Holds(type) == udpThr.pkt # None /\ udpThr.pkt.type = type

(* The session is not in the state the datagram belongs to.                *)
IgnoreDatagram ==
    /\ udpThr' = UDPIdle
    /\ UNCHANGED <<netVars, serverVars, conn, accepting, thr, fault, past>>

UDPListening ==
    LET h == udpThr.p2p
        c == [conn[h] EXCEPT !.mainUDP = udpThr.pkt.from, !.status = P2P_UDP_LISTENING]
    IN  /\ Alive
        /\ Holds("UPT_WAITING")
        /\ \/ /\ ~InState(h, P2P_TCP_CONNECTED)
              /\ IgnoreDatagram
           \/ /\ InState(h, P2P_TCP_CONNECTED)
              /\ DumpP2PConnection(c) # "no"
              /\ Crash(DumpP2PConnection(c))
           \/ /\ InState(h, P2P_TCP_CONNECTED)
              /\ DumpP2PConnection(c) = "no"
              /\ conn' = [conn EXCEPT ![h] = c]
              /\ SendPacket(c.guest, CreateTCPStartUDPPkt)
              /\ udpThr' = UDPIdle
              /\ UNCHANGED <<link, peer, c2s, udp, serverVars, accepting, thr, fault, past>>

UDPConnected ==
    LET h == udpThr.p2p
        c == [conn[h] EXCEPT !.guestUDP = udpThr.pkt.from, !.status = P2P_PUNCHING]
    IN  /\ Alive
        /\ Holds("UPT_CONNECT")
        /\ \/ /\ ~InState(h, P2P_UDP_LISTENING)
              /\ IgnoreDatagram
           \/ /\ InState(h, P2P_UDP_LISTENING)
              /\ DumpP2PConnection(c) # "no"
              /\ Crash(DumpP2PConnection(c))
           \/ /\ InState(h, P2P_UDP_LISTENING)
              /\ DumpP2PConnection(c) = "no"
              /\ conn' = [conn EXCEPT ![h] = c]
              /\ SendPackets(c.main, CreateTCPStartPunchingPkt(c.mainId, c.guestUDP),
                             c.guest, CreateTCPStartPunchingPkt(c.mainId, c.mainUDP))
              /\ udpThr' = UDPIdle
              /\ UNCHANGED <<link, peer, c2s, udp, serverVars, accepting, thr, fault, past>>

-----------------------------------------------------------------------------
(* The clients                                                             *)

Told(t, type) == \E p \in BagToSet(sent[t]) : p.type = type

(* How many packets of a type t has been sent: every copy counts.          *)
Copies(bag, type) ==
    UNION {{p} \X (1 .. bag[p]) : p \in {q \in BagToSet(bag) : q.type = type}}

Count(t, type) == Cardinality(Copies(sent[t], type))

Greeting(t) == IF peer[t].role = "HOST" THEN "TPT_WAITING" ELSE "TPT_CONNECT"

(* What the code of a client sends on its TCP stream, and when: WAITING or *)
(* CONNECT once, on TPT_INIT; P2P_RESULT for each keepalive received while *)
(* punching; PROXY_REQUEST when an address exchange, which a START_UDP     *)
(* began, timed out; DATA_PROXY in relay mode.                             *)
ClientMaySend(t, type) ==
    \/ /\ type = Greeting(t)
       /\ ~peer[t].greeted
       /\ Told(t, "TPT_INIT")
    \/ type = "TPT_P2P_RESULT" /\ Told(t, "TPT_CLIENT_INFO")
    \/ /\ type = "TPT_PROXY_REQUEST"
       /\ Told(t, "TPT_START_UDP")
       /\ peer[t].asked < Count(t, "TPT_START_UDP")
       /\ peer[t].asked < MaxAsk
    \/ /\ type = "TPT_DATA_PROXY"
       /\ BagIn(CreateTCPProxyResultPkt("NONE"), sent[t])

ClientSend(t, type) ==
    /\ link[t] = "up"
    /\ Len(c2s[t]) < MaxC2S
    /\ ClientMaySend(t, type)
    /\ c2s' = [c2s EXCEPT ![t] = Append(@, type)]
    /\ peer' = [peer EXCEPT ![t].greeted = @ \/ type \in {"TPT_WAITING", "TPT_CONNECT"},
                            ![t].asked = IF type = "TPT_PROXY_REQUEST" THEN @ + 1 ELSE @]
    /\ UNCHANGED <<link, sent, udp, serverVars, conn, accepting, thr, udpThr, fault, past>>

(* CP2PClient::SendUDPToServer, which does not care for the TCP socket;    *)
(* one member of udp stands for every copy.                                *)
SendUDPToServer(t) ==
    /\ link[t] # "none"
    /\ Told(t, "TPT_START_UDP")
    /\ udp' = udp \cup {[type |-> IF peer[t].role = "HOST" THEN "UPT_WAITING" ELSE "UPT_CONNECT",
                         keyword |-> peer[t].keyword, from |-> t]}
    /\ udp' # udp
    /\ UNCHANGED <<link, peer, c2s, sent, serverVars, conn, accepting, thr, udpThr, fault, past>>

(* The client closes its socket, exits or is cut off, at any time.         *)
ClientGone(t) ==
    /\ link[t] = "up"
    /\ link' = [link EXCEPT ![t] = "shut"]
    /\ UNCHANGED <<peer, c2s, sent, udp, serverVars, conn, accepting, thr, udpThr, fault, past>>

-----------------------------------------------------------------------------
(* The specification                                                       *)

RecvThread(t) ==
    \/ Waiting(t)
    \/ \E type \in SessionPacket : FindSession(t, type)
    \/ DataProxy(t)
    \/ TCPConnected(t)
    \/ SetP2POK(t)
    \/ TCPProxyRequest(t)
    \/ Reply(t)
    \/ TCPEndProcess(t)
    \/ RemoveTCPID(t)

Client(t) ==
    \/ \E type \in ClientTCPType : ClientSend(t, type)
    \/ SendUDPToServer(t)
    \/ ClientGone(t)

Next ==
    \/ \E t \in Tcp : AcceptTCPSocketProcess(t) \/ RecvThread(t) \/ Client(t)
    \/ CreateTCPID
    \/ RecvUDPPacketProcess
    \/ UDPListening
    \/ UDPConnected

(* Every thread that can take a step takes one in the end; clients and     *)
(* datagrams owe nothing.                                                  *)
Fairness ==
    /\ \A t \in Tcp : WF_vars(RecvThread(t))
    /\ WF_vars(CreateTCPID)
    /\ WF_vars(UDPListening)
    /\ WF_vars(UDPConnected)

Spec == Init /\ [][Next]_vars

FairSpec == Spec /\ Fairness

-----------------------------------------------------------------------------
(* Properties                                                              *)

PacketBags(f) ==
    /\ DOMAIN f = Tcp
    /\ f = [t \in Tcp |-> f[t]]
    /\ \A t \in Tcp : IsABag(f[t]) /\ BagToSet(f[t]) \subseteq ServerPacket(Id, Tcp)

(* Every variable has its type.                                            *)
TypeOK ==
    /\ link \in [Tcp -> {"none", "up", "shut"}]
    /\ peer \in [Tcp -> [role : Role \cup {None}, keyword : Keyword \cup {None},
                         greeted : BOOLEAN, asked : Nat]]
    /\ c2s \in [Tcp -> Seq(ClientTCPType)]
    /\ PacketBags(sent)
    /\ udp \subseteq Datagram
    /\ m_TCPList \in [Id -> Tcp \cup {None}]
    /\ m_dwTCPid \in Id
    /\ m_P2PConnectList \in [Id -> Tcp \cup {None}]
    /\ conn \in [Tcp -> Connection]
    /\ accepting \in Tcp \cup {None}
    /\ thr \in [Tcp -> Thread]
    /\ udpThr \in UDPThread
    /\ fault \in {"no", "null_main", "null_guest", "keyword_pointer"}
    /\ past \in [Tcp -> [confirmed : SUBSET Tcp, leftover : BOOLEAN]]

(* A keyword names at most one session: the search and the creation of     *)
(* P2PServer.cpp:296-309 are one critical section, so two hosts cannot     *)
(* both find their common keyword free.                                    *)
UniqueKeyword ==
    \A i, j \in Id :
        /\ m_P2PConnectList[i] # None
        /\ m_P2PConnectList[j] # None
        /\ conn[m_P2PConnectList[i]].keyword = conn[m_P2PConnectList[j]].keyword
        => i = j

(* A listed session is filed under the tcpid its host still owns, and      *)
(* announces that id as peerid: TCPEndProcess erases the session before    *)
(* RemoveTCPID frees the id, so an id that wraps around is never given to  *)
(* a new socket while an old session answers to it.                        *)
ListedUnderLiveId ==
    \A i \in Id : LET h == m_P2PConnectList[i] IN
        h # None => /\ m_TCPList[i] = h
                    /\ conn[h].main = h
                    /\ conn[h].mainId = i

(* A listed session has a guest exactly in the states that use one, and    *)
(* its two sockets still have threads that will end the session: no state  *)
(* the other threads can meet makes them follow m_pConnTCPServer to NULL   *)
(* or to a socket that will never report its end.                          *)
SessionMembersLive ==
    \A i \in Id : LET h == m_P2PConnectList[i] IN
        h # None =>
          /\ (conn[h].guest # None) = (conn[h].status >= P2P_TCP_CONNECTED)
          /\ \A t \in {conn[h].main, conn[h].guest} \ {None} :
               thr[t].pc \notin {"none", "removing", "stopped"}

(* TCPEndProcess leaves its loop at the first session the socket takes     *)
(* part in (P2PServer.cpp:148-164): that is enough because no socket is a  *)
(* party of two listed sessions, nor both parties of one.                  *)
OneSessionPerSocket ==
    \A i, j \in Id : LET g == m_P2PConnectList[i]
                         h == m_P2PConnectList[j] IN
        g # None /\ h # None =>
          /\ conn[g].guest # conn[h].main
          /\ (i # j /\ conn[g].guest # None) => conn[g].guest # conn[h].guest

(* The server dies of a NULL m_pMainTCPServer only on a session its host   *)
(* left between another thread's search and its use (the pointer was valid *)
(* when FindP2PConnection returned it), and never of a NULL                *)
(* m_pConnTCPServer.                                                       *)
FaultOnlyOnOrphan ==
    /\ fault # "null_guest"
    /\ fault = "null_main" =>
         \E h \in {thr[t].p2p : t \in Tcp} \cup {udpThr.p2p} :
            h # None /\ ~Listed(h) /\ conn[h].main = None /\ thr[h].pc \in {"removing", "stopped"}

(* P2P_CONNECTED is announced after both ends of the current session       *)
(* reported TPT_P2P_RESULT, provided the session did not begin with the    *)
(* flags of an earlier guest's session, which ConnTCPDisconnect leaves set.*)
ConnectedMeansConfirmed ==
    \A h \in Tcp : conn[h].status = P2P_CONNECTED /\ Listed(h) /\ ~past[h].leftover
                   => past[h].confirmed = {conn[h].main, conn[h].guest}

(* The address each side is told to punch to was sent by a client of the   *)
(* other role under the session's own keyword, whatever was lost, delayed  *)
(* or duplicated.                                                          *)
PunchAddresses ==
    \A h \in Tcp : LET c == conn[h] IN Listed(h) =>
        /\ c.status \in P2P_UDP_LISTENING .. P2P_CONNECTED =>
             c.mainUDP # None /\ peer[c.mainUDP].role = "HOST"
                              /\ peer[c.mainUDP].keyword = c.keyword
        /\ c.status \in P2P_UDP_CONNECTED .. P2P_CONNECTED =>
             c.guestUDP # None /\ peer[c.guestUDP].role = "GUEST"
                               /\ peer[c.guestUDP].keyword = c.keyword

(* A client is sent a CLIENT_INFO only after a START_UDP of its own, and a *)
(* guest its START_UDP only after its CONNECT_RESULT: the clients skip a   *)
(* CLIENT_INFO that arrives in any other state.                            *)
StreamOrder ==
    \A t \in Tcp :
        /\ Count(t, "TPT_CLIENT_INFO") <= Count(t, "TPT_START_UDP")
        /\ peer[t].role = "GUEST" /\ Count(t, "TPT_START_UDP") > 0
             => Count(t, "TPT_CONNECT_RESULT") = 1

(* A socket that ended before CreateTCPID keeps its tcpid for good, but it *)
(* never takes part in a session and never was sent more than TPT_INIT.    *)
DeadEntryInert ==
    \A i \in Id : LET t == m_TCPList[i] IN
        t # None /\ thr[t].pc = "stopped" =>
          /\ \A p \in BagToSet(sent[t]) : p.type = "TPT_INIT"
          /\ \A h \in Tcp : t \notin {conn[h].main, conn[h].guest}

(* The inductive invariant behind the safety properties above, in parts.   *)

Live(t) == thr[t].pc \in {"idle", "apply", "reply"}

(* A thread exists from accept on, a client sends what its role sends, and *)
(* a session pointer found by keyword stays one of that keyword.           *)
ThreadInv ==
    \A t \in Tcp :
        /\ (thr[t].pc = "none") = (link[t] = "none")
        /\ thr[t].pc = "none" => c2s[t] = <<>>
        /\ thr[t].pc # "none" => peer[t].role \in Role /\ peer[t].keyword \in Keyword
        /\ thr[t].pc \in {"removing", "stopped"} => link[t] = "shut"
        /\ \A n \in 1 .. Len(c2s[t]) :
             /\ c2s[t][n] = "TPT_WAITING" => peer[t].role = "HOST"
             /\ c2s[t][n] = "TPT_CONNECT" => peer[t].role = "GUEST"
        /\ thr[t].pc = "apply" =>
             /\ thr[t].pkt = "TPT_CONNECT" => peer[t].role = "GUEST"
             /\ thr[t].p2p \in Tcp
             /\ conn[thr[t].p2p].keyword = peer[t].keyword

(* A datagram names its sender, with the sender's role and keyword.        *)
FromClient(d) ==
    /\ thr[d.from].pc # "none"
    /\ peer[d.from].keyword = d.keyword
    /\ peer[d.from].role = IF d.type = "UPT_WAITING" THEN "HOST" ELSE "GUEST"

UDPInv ==
    /\ \A d \in udp : FromClient(d)
    /\ udpThr.pkt # None => /\ udpThr.pkt \in Datagram
                            /\ FromClient(udpThr.pkt)
                            /\ udpThr.p2p \in Tcp
                            /\ conn[udpThr.p2p].keyword = udpThr.pkt.keyword

(* What a session object is before, while and after it is listed.          *)
SessionInv ==
    \A h \in Tcp :
        /\ conn[h].keyword = None => conn[h] = NoConnection
        /\ conn[h].keyword # None =>
             /\ thr[h].pc # "none"
             /\ conn[h].keyword = peer[h].keyword
             /\ peer[h].role = "HOST"
             /\ conn[h].main = None => thr[h].pc \in {"removing", "stopped"}
        /\ conn[h].main \in {None, h}
        /\ conn[h].main = None => conn[h].guest = None
        /\ conn[h].main = h =>
             /\ Live(h)
             /\ m_P2PConnectList[conn[h].mainId] = h
             /\ (conn[h].guest # None) = (conn[h].status >= P2P_TCP_CONNECTED)
        /\ conn[h].guest # None =>
             /\ Live(conn[h].guest)
             /\ peer[conn[h].guest].role = "GUEST"
             /\ peer[conn[h].guest].keyword = conn[h].keyword

(* The addresses of a listed session, from the status that needs them on.  *)
AddressInv ==
    \A h \in Tcp :
        /\ conn[h].main = h /\ conn[h].status >= P2P_UDP_LISTENING =>
             /\ conn[h].mainUDP # None
             /\ thr[conn[h].mainUDP].pc # "none"
             /\ peer[conn[h].mainUDP].role = "HOST"
             /\ peer[conn[h].mainUDP].keyword = conn[h].keyword
        /\ conn[h].main = h /\ conn[h].status >= P2P_UDP_CONNECTED =>
             /\ conn[h].guestUDP # None
             /\ thr[conn[h].guestUDP].pc # "none"
             /\ peer[conn[h].guestUDP].role = "GUEST"
             /\ peer[conn[h].guestUDP].keyword = conn[h].keyword

FaultInv ==
    /\ fault # "null_guest"
    /\ fault = "null_main" =>
         \E h \in {thr[t].p2p : t \in Tcp} \cup {udpThr.p2p} :
            h # None /\ conn[h].main = None /\ conn[h].keyword # None

IInv ==
    /\ TypeOK
    /\ ThreadInv
    /\ UDPInv
    /\ SessionInv
    /\ AddressInv
    /\ UniqueKeyword
    /\ ListedUnderLiveId
    /\ FaultInv

(* A keyword whose host has gone becomes free again.                       *)
KeywordFreed ==
    \A h \in Tcp : link[h] = "shut" /\ Listed(h) ~> ~Listed(h) \/ ~Alive

(* The guest of a host that has gone is disconnected.                      *)
GuestEvicted ==
    \A g \in Tcp : (\E h \in Tcp : link[h] = "shut" /\ Listed(h) /\ conn[h].guest = g)
                   ~> link[g] = "shut" \/ ~Alive

(* A client that asks for a keyword, as host or as guest, and stays gets   *)
(* an answer: TPT_WAIT_RESULT or TPT_CONNECT_RESULT.                       *)
Answered ==
    \A t \in Tcp : peer[t].greeted
                   ~> \/ Count(t, "TPT_WAIT_RESULT") + Count(t, "TPT_CONNECT_RESULT") > 0
                      \/ link[t] = "shut"
                      \/ ~Alive

(* A client that asks for the relay and stays gets an answer.              *)
ProxyAnswered ==
    \A t \in Tcp : peer[t].asked > 0
                   ~> \/ Count(t, "TPT_PROXY_RESULT") > 0
                      \/ link[t] = "shut"
                      \/ ~Alive
=============================================================================
