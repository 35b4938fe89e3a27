--------------------------- MODULE P2PServer_proofs ---------------------------
(***************************************************************************)
(* Proofs about P2PServer for every set of sockets and keywords, every     *)
(* number of tcpids and every bound on the clients: the inductive          *)
(* invariant with the safety properties it gives, and the refinement of    *)
(* Rendezvous.                                                             *)
(***************************************************************************)
EXTENDS P2PServerRendezvous, TLAPS

(* Ext!BagAdd keeps a bag of packets a bag of packets.                     *)
LEMMA BagAddType ==
    ASSUME NEW S, NEW b, IsABag(b), BagToSet(b) \subseteq S, NEW p \in S
    PROVE  IsABag(Ext!BagAdd(b, p)) /\ BagToSet(Ext!BagAdd(b, p)) \subseteq S
BY DEF IsABag, BagToSet, Ext!BagAdd

(* What SendPacket and SendPackets preserve.                               *)
LEMMA SendPacketType ==
    ASSUME PacketBags(sent), NEW t \in Tcp, NEW p \in ServerPacket(Id, Tcp), SendPacket(t, p)
    PROVE  PacketBags(sent')
BY BagAddType DEF PacketBags, SendPacket

LEMMA SendPacketsType ==
    ASSUME PacketBags(sent), NEW t \in Tcp, NEW p \in ServerPacket(Id, Tcp),
           NEW u \in Tcp, NEW q \in ServerPacket(Id, Tcp), SendPackets(t, p, u, q)
    PROVE  PacketBags(sent')
<1> DEFINE f == [sent EXCEPT ![t] = Ext!BagAdd(@, p)]
<1>1. PacketBags(f)
  BY BagAddType DEF PacketBags
<1>2. sent' = [f EXCEPT ![u] = Ext!BagAdd(@, q)]
  BY DEF SendPackets
<1>3. QED
  <2> HIDE DEF f
  <2> QED BY <1>1, <1>2, BagAddType DEF PacketBags

-----------------------------------------------------------------------------
(* Type correctness                                                        *)

LEMMA NoConnectionType == NoConnection \in Connection
BY IdCountAssumption
DEF NoConnection, Connection, P2P_STATUS, P2P_STATUS_NONE, P2P_TCP_PROXY, Id

LEMMA StatusType ==
    /\ P2P_STATUS \subseteq Nat
    /\ P2P_STATUS_NONE \in P2P_STATUS
    /\ P2P_TCP_LISTENING \in P2P_STATUS
    /\ P2P_TCP_CONNECTED \in P2P_STATUS
    /\ P2P_UDP_LISTENING \in P2P_STATUS
    /\ P2P_UDP_CONNECTED \in P2P_STATUS
    /\ P2P_PUNCHING \in P2P_STATUS
    /\ P2P_CONNECTED \in P2P_STATUS
BY DEF P2P_STATUS, P2P_STATUS_NONE, P2P_TCP_LISTENING, P2P_TCP_CONNECTED, P2P_UDP_LISTENING,
       P2P_UDP_CONNECTED, P2P_PUNCHING, P2P_CONNECTED, P2P_TCP_PROXY

LEMMA TypeInit == Init => TypeOK
BY IdCountAssumption, NoneAssumption
DEF Init, TypeOK, Id, NoConnection, Connection, P2P_STATUS, P2P_STATUS_NONE, P2P_TCP_PROXY,
    Thread, ThreadPC, Idle, P2P_ERROR, UDPThread, UDPIdle, Role, EmptyBag, SetToBag, IsABag, BagToSet, PacketBags

(* The packets the server sends, as members of ServerPacket.               *)
LEMMA PacketTypes ==
    /\ \A i \in Id : CreateTCPInitPkt(i) \in ServerPacket(Id, Tcp)
    /\ \A r \in P2P_ERROR :
         /\ CreateTCPResultPkt("TPT_WAIT_RESULT", r) \in ServerPacket(Id, Tcp)
         /\ CreateTCPResultPkt("TPT_CONNECT_RESULT", r) \in ServerPacket(Id, Tcp)
         /\ CreateTCPResultPkt("TPT_RESET", r) \in ServerPacket(Id, Tcp)
         /\ CreateTCPProxyResultPkt(r) \in ServerPacket(Id, Tcp)
    /\ CreateTCPStartUDPPkt \in ServerPacket(Id, Tcp)
    /\ CreateP2PSuccessPkt \in ServerPacket(Id, Tcp)
    /\ \A i \in Id, a \in Tcp : CreateTCPStartPunchingPkt(i, a) \in ServerPacket(Id, Tcp)
BY DEF ServerPacket

LEMMA IdleType == Idle \in Thread
BY DEF Idle, Thread, ThreadPC, P2P_ERROR

LEMMA ModId == \A a \in Nat : a % IdCount \in Id
BY IdCountAssumption DEF Id

LEMMA Updated ==
    ASSUME NEW D, NEW V, NEW f \in [D -> V], NEW d \in D, NEW v \in V
    PROVE  [f EXCEPT ![d] = v] \in [D -> V]
OBVIOUS

LEMMA TypeListen ==
    ASSUME TypeOK, NEW t \in Tcp, AcceptTCPSocketProcess(t) \/ CreateTCPID
    PROVE  TypeOK'
<1>1. CASE AcceptTCPSocketProcess(t)
  <2>1. PICK r \in Role, k \in Keyword : peer' = [peer EXCEPT ![t].role = r, ![t].keyword = k]
    BY <1>1 DEF AcceptTCPSocketProcess
  <2>2. peer' \in [Tcp -> [role : Role \cup {None}, keyword : Keyword \cup {None},
                          greeted : BOOLEAN, asked : Nat]]
    <3>1. peer[t] \in [role : Role \cup {None}, keyword : Keyword \cup {None},
                       greeted : BOOLEAN, asked : Nat]
      BY DEF TypeOK
    <3>2. peer' = [peer EXCEPT ![t] = [peer[t] EXCEPT !.role = r, !.keyword = k]]
      BY <2>1
    <3>3. [peer[t] EXCEPT !.role = r, !.keyword = k] \in
             [role : Role \cup {None}, keyword : Keyword \cup {None},
              greeted : BOOLEAN, asked : Nat]
      BY <3>1
    <3>4. QED
      BY <3>2, <3>3, Updated DEF TypeOK
  <2>3. link' \in [Tcp -> {"none", "up", "shut"}]
    BY <1>1 DEF AcceptTCPSocketProcess, TypeOK
  <2>4. thr' \in [Tcp -> Thread]
    BY <1>1, IdleType DEF AcceptTCPSocketProcess, TypeOK
  <2>5. QED
    BY <1>1, <2>2, <2>3, <2>4 DEF AcceptTCPSocketProcess, TypeOK, serverVars
<1>2. CASE CreateTCPID
  <2>1. PICK i \in Id : /\ m_TCPList' = [m_TCPList EXCEPT ![i] = accepting]
                       /\ m_dwTCPid' = NextId(i)
                       /\ SendPacket(accepting, CreateTCPInitPkt(i))
    <3>1. PICK d \in 0 .. IdCount - 1 :
             LET i == (m_dwTCPid + d) % IdCount
             IN  /\ m_TCPList' = [m_TCPList EXCEPT ![i] = accepting]
                 /\ m_dwTCPid' = NextId(i)
                 /\ SendPacket(accepting, CreateTCPInitPkt(i))
      BY <1>2 DEF CreateTCPID
    <3>2. m_dwTCPid + d \in Nat
      BY IdCountAssumption DEF TypeOK, Id
    <3>3. (m_dwTCPid + d) % IdCount \in Id
      BY <3>2, ModId
    <3>4. QED
      BY <3>1, <3>3
  <2>2. accepting \in Tcp
    BY <1>2 DEF CreateTCPID, TypeOK
  <2>3. PacketBags(sent')
    BY <2>1, <2>2, SendPacketType, PacketTypes DEF TypeOK
  <2>4. m_dwTCPid' \in Id
    BY <2>1, ModId, IdCountAssumption DEF NextId, Id
  <2>5. QED
    BY <1>2, <2>1, <2>2, <2>3, <2>4 DEF CreateTCPID, TypeOK
<1>3. QED BY <1>1, <1>2

LEMMA ReplyingType ==
    ASSUME NEW type \in ClientTCPType, NEW r \in P2P_ERROR
    PROVE  Replying(type, r) \in Thread
BY DEF Replying, Idle, Thread, ThreadPC, P2P_ERROR

LEMMA CrashType ==
    ASSUME TypeOK, NEW why \in {"null_main", "null_guest", "keyword_pointer"}, Crash(why)
    PROVE  TypeOK'
BY DEF TypeOK, Crash, serverVars

LEMMA DispatchType ==
    ASSUME TypeOK, NEW t \in Tcp, NEW type, Dispatch(t, type)
    PROVE  /\ c2s' \in [Tcp -> Seq(ClientTCPType)]
           /\ type \in ClientTCPType
BY DEF TypeOK, Dispatch

LEMMA TypeFind ==
    ASSUME TypeOK, NEW t \in Tcp,
           \/ Waiting(t)
           \/ \E type \in SessionPacket : FindSession(t, type)
           \/ DataProxy(t)
    PROVE  TypeOK'
<1>1. CASE Waiting(t)
  <2>1. PICK i \in Id :
           \/ /\ FindP2PConnection(peer[t].keyword, None)
              /\ m_P2PConnectList' = [m_P2PConnectList EXCEPT ![i] = t]
              /\ conn' = [conn EXCEPT ![t] =
                    [NoConnection EXCEPT !.keyword = peer[t].keyword, !.main = t,
                                         !.mainId = i, !.status = P2P_TCP_LISTENING]]
              /\ thr' = [thr EXCEPT ![t] = Replying("TPT_WAITING", "NONE")]
           \/ /\ thr' = [thr EXCEPT ![t] = Replying("TPT_WAITING", "KEYWORD_DUPLICATE")]
              /\ UNCHANGED <<m_P2PConnectList, conn>>
    BY <1>1 DEF Waiting
  <2>2. c2s' \in [Tcp -> Seq(ClientTCPType)]
    BY <1>1, DispatchType DEF Waiting
  <2>3. thr' \in [Tcp -> Thread]
    <3>1. /\ Replying("TPT_WAITING", "NONE") \in Thread
          /\ Replying("TPT_WAITING", "KEYWORD_DUPLICATE") \in Thread
      BY ReplyingType DEF ClientTCPType, P2P_ERROR
    <3>2. QED BY <2>1, <3>1 DEF TypeOK
  <2>4. conn' \in [Tcp -> Connection]
    <3>1. peer[t].keyword \in Keyword \cup {None}
      BY DEF TypeOK
    <3>2. [NoConnection EXCEPT !.keyword = peer[t].keyword, !.main = t,
                               !.mainId = i, !.status = P2P_TCP_LISTENING] \in Connection
      BY <3>1, NoConnectionType, StatusType DEF Connection
    <3>3. QED BY <2>1, <3>2 DEF TypeOK
  <2>5. m_P2PConnectList' \in [Id -> Tcp \cup {None}]
    <3>1. \/ m_P2PConnectList' = [m_P2PConnectList EXCEPT ![i] = t]
          \/ m_P2PConnectList' = m_P2PConnectList
      BY <2>1
    <3>2. m_P2PConnectList \in [Id -> Tcp \cup {None}]
      BY DEF TypeOK
    <3>3. QED
      BY <3>1, <3>2
  <2>6. UNCHANGED <<link, peer, sent, udp, m_TCPList, m_dwTCPid, accepting, udpThr, fault, past>>
    BY <1>1 DEF Waiting
  <2>7. QED
    BY <2>2, <2>3, <2>4, <2>5, <2>6 DEF TypeOK
<1>2. ASSUME NEW type \in SessionPacket, FindSession(t, type) PROVE TypeOK'
  <2>1. thr' \in [Tcp -> Thread]
    <3>1. PICK h \in Tcp \cup {None} : thr' = [thr EXCEPT ![t] =
              IF h # None THEN [Idle EXCEPT !.pc = "apply", !.pkt = type, !.p2p = h]
              ELSE IF AnswersError(type) THEN Replying(type, "KEYWORD_NOT_FOUND")
              ELSE Idle]
      BY <1>2 DEF FindSession
    <3>2. type \in ClientTCPType /\ "KEYWORD_NOT_FOUND" \in P2P_ERROR
      BY DEF SessionPacket, ClientTCPType, P2P_ERROR
    <3>3. [Idle EXCEPT !.pc = "apply", !.pkt = type, !.p2p = h] \in Thread
      BY <3>2 DEF Thread, Idle, P2P_ERROR, ThreadPC
    <3>4. QED
      BY <3>1, <3>2, <3>3, ReplyingType, IdleType DEF TypeOK
  <2>2. c2s' \in [Tcp -> Seq(ClientTCPType)]
    BY <1>2, DispatchType DEF FindSession
  <2>3. QED
    BY <1>2, <2>1, <2>2 DEF FindSession, TypeOK, serverVars
<1>3. CASE DataProxy(t)
  BY <1>3, CrashType, DispatchType DEF DataProxy, TypeOK, serverVars
<1>4. QED BY <1>1, <1>2, <1>3

(* A session operation that succeeded: the new state of the session.       *)
LEMMA ConnType ==
    ASSUME TypeOK, NEW h \in Tcp, NEW c \in Connection, conn' = [conn EXCEPT ![h] = c]
    PROVE  conn' \in [Tcp -> Connection]
BY DEF TypeOK

LEMMA RefuseType ==
    ASSUME TypeOK, NEW t \in Tcp, NEW e \in P2P_ERROR, thr[t].pkt \in ClientTCPType, Refuse(t, e)
    PROVE  TypeOK'
<1>1. thr' \in [Tcp -> Thread]
  BY ReplyingType, IdleType DEF Refuse, TypeOK
<1>2. QED
  BY <1>1 DEF Refuse, TypeOK, netVars, serverVars

(* The fault DumpP2PConnection may return, and what it rules out.          *)
LEMMA DumpResult ==
    ASSUME NEW c
    PROVE  /\ DumpP2PConnection(c) # "no" => DumpP2PConnection(c) \in {"null_main", "null_guest"}
           /\ DumpP2PConnection(c) = "no" =>
                /\ c.main # None
                /\ c.status >= P2P_TCP_CONNECTED => c.guest # None
BY DEF DumpP2PConnection

LEMMA TypeApply ==
    ASSUME TypeOK, NEW t \in Tcp, thr[t].p2p \in Tcp,
           TCPConnected(t) \/ SetP2POK(t) \/ TCPProxyRequest(t)
    PROVE  TypeOK'
<1> DEFINE h == thr[t].p2p
<1>0. /\ conn[h] \in Connection
      /\ {"STATE_MISMATCH", "PROXY_FAIL", "NONE"} \subseteq P2P_ERROR
      /\ {"TPT_CONNECT", "TPT_P2P_RESULT", "TPT_PROXY_REQUEST"} \subseteq ClientTCPType
      /\ conn[h].main \in Tcp \cup {None}
      /\ conn[h].guest \in Tcp \cup {None}
  BY DEF TypeOK, P2P_ERROR, ClientTCPType, Connection
<1>1. CASE TCPConnected(t)
  <2> DEFINE c == [conn[h] EXCEPT !.guest = t, !.mainUDP = None, !.guestUDP = None,
                                  !.status = P2P_TCP_CONNECTED]
  <2>1. c \in Connection /\ c.main = conn[h].main
    BY <1>0, StatusType DEF Connection
  <2>2. CASE Refuse(t, "STATE_MISMATCH")
    BY <1>0, <1>1, <2>2, RefuseType DEF TCPConnected, At
  <2>3. CASE DumpP2PConnection(c) # "no" /\ Crash(DumpP2PConnection(c))
    BY <2>3, CrashType, DumpResult
  <2>4. CASE /\ DumpP2PConnection(c) = "no"
             /\ conn' = [conn EXCEPT ![h] = c]
             /\ SendPackets(t, CreateTCPResultPkt("TPT_CONNECT_RESULT", "NONE"),
                            c.main, CreateTCPStartUDPPkt)
             /\ past' = [past EXCEPT ![h] =
                  [confirmed |-> {}, leftover |-> c.mainOK \/ c.guestOK]]
             /\ thr' = [thr EXCEPT ![t] = Idle]
             /\ UNCHANGED <<link, peer, c2s, udp, serverVars, accepting, udpThr, fault>>
    <3>1. c.main \in Tcp
      BY <1>0, <2>1, <2>4, DumpResult
    <3>2. PacketBags(sent')
      BY <1>0, <2>4, <3>1, SendPacketsType, PacketTypes DEF TypeOK
    <3>3. conn' \in [Tcp -> Connection]
      BY <2>1, <2>4, ConnType
    <3>4. past' \in [Tcp -> [confirmed : SUBSET Tcp, leftover : BOOLEAN]]
      <4>1. (c.mainOK \/ c.guestOK) \in BOOLEAN
        OBVIOUS
      <4>2. [confirmed |-> {}, leftover |-> c.mainOK \/ c.guestOK]
              \in [confirmed : SUBSET Tcp, leftover : BOOLEAN]
        BY <4>1
      <4>3. QED
        BY <2>4, <4>2 DEF TypeOK
    <3>5. thr' \in [Tcp -> Thread]
      BY <2>4, IdleType DEF TypeOK
    <3>6. QED
      BY <2>4, <3>2, <3>3, <3>4, <3>5 DEF TypeOK, serverVars
  <2>5. QED
    BY <1>1, <2>2, <2>3, <2>4 DEF TCPConnected
<1>2. CASE SetP2POK(t)
  <2> DEFINE f == [conn[h] EXCEPT !.mainOK = @ \/ conn[h].main = t,
                                  !.guestOK = @ \/ conn[h].guest = t]
             c == [f EXCEPT !.status = IF BothOK(f) THEN P2P_CONNECTED ELSE @]
  <2>1. c \in Connection /\ c.main = conn[h].main /\ c.guest = conn[h].guest
    <3>1. f \in Connection /\ f.main = conn[h].main /\ f.guest = conn[h].guest
      <4>1. /\ (conn[h].mainOK \/ conn[h].main = t) \in BOOLEAN
            /\ (conn[h].guestOK \/ conn[h].guest = t) \in BOOLEAN
        OBVIOUS
      <4>2. QED
        BY <1>0, <4>1 DEF Connection
    <3>2. (IF BothOK(f) THEN P2P_CONNECTED ELSE f.status) \in P2P_STATUS
      BY <3>1, StatusType DEF Connection
    <3>3. QED
      <4> HIDE DEF f
      <4> QED BY <3>1, <3>2 DEF Connection
  <2> HIDE DEF f
  <2>2. CASE Refuse(t, "STATE_MISMATCH")
    BY <1>0, <1>2, <2>2, RefuseType DEF SetP2POK, At
  <2>3. CASE DumpP2PConnection(c) # "no" /\ Crash(DumpP2PConnection(c))
    BY <2>3, CrashType, DumpResult
  <2>4. CASE /\ InState(h, P2P_PUNCHING)
             /\ DumpP2PConnection(c) = "no"
             /\ conn' = [conn EXCEPT ![h] = c]
             /\ IF BothOK(c) THEN SendPackets(c.main, CreateP2PSuccessPkt,
                                              c.guest, CreateP2PSuccessPkt)
                             ELSE UNCHANGED sent
             /\ past' = [past EXCEPT ![h].confirmed = @ \cup ({t} \cap {c.main, c.guest})]
             /\ thr' = [thr EXCEPT ![t] = Idle]
             /\ UNCHANGED <<link, peer, c2s, udp, serverVars, accepting, udpThr, fault>>
    <3>1. c.main \in Tcp /\ c.guest \in Tcp
      <4>1. c.status >= P2P_TCP_CONNECTED
        BY <2>4 DEF f, InState, P2P_PUNCHING, P2P_CONNECTED, P2P_TCP_CONNECTED, BothOK
      <4>2. QED
        BY <1>0, <2>1, <2>4, <4>1, DumpResult
    <3>2. PacketBags(sent')
      <4> HIDE DEF c
      <4> QED BY <2>4, <3>1, SendPacketsType, PacketTypes DEF TypeOK
    <3>3. conn' \in [Tcp -> Connection]
      BY <2>1, <2>4, ConnType
    <3>4. past' \in [Tcp -> [confirmed : SUBSET Tcp, leftover : BOOLEAN]]
      <4> HIDE DEF c
      <4>1. PICK x : past' = [past EXCEPT ![h] =
                          [past[h] EXCEPT !.confirmed = @ \cup x]] /\ x \subseteq Tcp
        BY <2>4
      <4>2. past[h] \in [confirmed : SUBSET Tcp, leftover : BOOLEAN]
        BY <2>1 DEF TypeOK
      <4>3. [past[h] EXCEPT !.confirmed = @ \cup x]
              \in [confirmed : SUBSET Tcp, leftover : BOOLEAN]
        BY <4>1, <4>2
      <4>4. QED
        BY <2>1, <4>1, <4>3, Updated DEF TypeOK
    <3>5. thr' \in [Tcp -> Thread]
      BY <2>4, IdleType DEF TypeOK
    <3>6. QED
      BY <2>4, <3>2, <3>3, <3>4, <3>5 DEF TypeOK, serverVars
  <2>5. QED
    BY <1>2, <2>2, <2>3, <2>4 DEF SetP2POK, f
<1>3. CASE TCPProxyRequest(t)
  <2> DEFINE c == conn[h]
  <2>1. CASE Refuse(t, "PROXY_FAIL")
    BY <1>0, <1>3, <2>1, RefuseType DEF TCPProxyRequest, At
  <2>2. CASE Crash("null_main")
    BY <2>2, CrashType
  <2>3. CASE /\ c.guest # None
             /\ c.main # None
             /\ SendPackets(c.main, CreateTCPProxyResultPkt("NONE"),
                            c.guest, CreateTCPProxyResultPkt("NONE"))
             /\ thr' = [thr EXCEPT ![t] = Idle]
             /\ UNCHANGED <<link, peer, c2s, udp, serverVars, conn, accepting, udpThr, fault, past>>
    <3>1. PacketBags(sent')
      BY <1>0, <2>3, SendPacketsType, PacketTypes DEF TypeOK
    <3>2. QED
      BY <2>3, <3>1, IdleType DEF TypeOK, serverVars
  <2>4. QED
    BY <1>3, <2>1, <2>2, <2>3 DEF TCPProxyRequest
<1>4. QED BY <1>1, <1>2, <1>3

LEMMA TypeReply ==
    ASSUME TypeOK, NEW t \in Tcp, Reply(t)
    PROVE  TypeOK'
<1>1. thr[t].result \in P2P_ERROR
  BY DEF TypeOK, Thread
<1>2. PacketBags(sent')
  BY <1>1, SendPacketType, PacketTypes DEF Reply, TypeOK
<1>3. thr' \in [Tcp -> Thread]
  BY IdleType DEF Reply, Break, TypeOK
<1>4. QED
  BY <1>2, <1>3 DEF Reply, TypeOK, serverVars

LEMMA TypeEnd ==
    ASSUME TypeOK, NEW t \in Tcp, TCPEndProcess(t) \/ RemoveTCPID(t)
    PROVE  TypeOK'
<1>1. CASE TCPEndProcess(t)
  <2>1. /\ thr' \in [Tcp -> Thread]
        /\ c2s' \in [Tcp -> Seq(ClientTCPType)]
    <3>1. thr[t] \in Thread /\ [thr[t] EXCEPT !.pc = "removing"] \in Thread
      <4>1. thr[t] \in Thread
        BY DEF TypeOK
      <4>2. QED
        BY <4>1 DEF Thread, ThreadPC
    <3>2. thr' = [thr EXCEPT ![t] = [thr[t] EXCEPT !.pc = "removing"]]
      BY <1>1 DEF TCPEndProcess, TypeOK
    <3>3. <<>> \in Seq(ClientTCPType) /\ c2s' = [c2s EXCEPT ![t] = <<>>]
      BY <1>1 DEF TCPEndProcess
    <3>4. QED
      BY <3>1, <3>2, <3>3 DEF TypeOK
  <2>2. /\ link' \in [Tcp -> {"none", "up", "shut"}]
        /\ PacketBags(sent')
        /\ m_P2PConnectList' \in [Id -> Tcp \cup {None}]
        /\ conn' \in [Tcp -> Connection]
        /\ fault' \in {"no", "null_main", "null_guest", "keyword_pointer"}
    <3>1. CASE UNCHANGED <<link, sent, m_P2PConnectList, conn, fault>>
      BY <3>1 DEF TypeOK
    <3>2. ASSUME NEW i \in Id, m_P2PConnectList[i] \in Tcp,
                 ConnTCPDisconnect(m_P2PConnectList[i]),
                 UNCHANGED <<link, m_P2PConnectList>>
          PROVE  <2>2!1 /\ <2>2!2 /\ <2>2!3 /\ <2>2!4 /\ <2>2!5
      <4> DEFINE h == m_P2PConnectList[i]
                 c == WithoutGuest(conn[h])
      <4>1. conn[h] \in Connection
        BY <3>2 DEF TypeOK
      <4>2. c \in Connection
        BY <4>1, StatusType DEF WithoutGuest, Connection
      <4>3. CASE DumpP2PConnection(c) # "no"
        BY <3>2, <4>3, DumpResult DEF ConnTCPDisconnect, TypeOK
      <4>4. CASE DumpP2PConnection(c) = "no"
        <5>1. c.main \in Tcp
          BY <4>2, <4>4, DumpResult DEF Connection
        <5>2. /\ conn' = [conn EXCEPT ![h] = c]
              /\ SendPacket(c.main, CreateTCPResultPkt("TPT_RESET", "NONE"))
              /\ UNCHANGED fault
          BY <3>2, <4>4 DEF ConnTCPDisconnect
        <5>3. PacketBags(sent')
          BY <5>1, <5>2, SendPacketType, PacketTypes DEF TypeOK, P2P_ERROR
        <5>4. conn' \in [Tcp -> Connection]
          BY <3>2, <4>2, <5>2, ConnType
        <5>5. QED
          BY <3>2, <5>2, <5>3, <5>4 DEF TypeOK
      <4>5. QED BY <4>3, <4>4
    <3>3. ASSUME NEW i \in Id, m_P2PConnectList[i] \in Tcp,
                 MainTCPDisconnect(m_P2PConnectList[i]),
                 m_P2PConnectList' = [m_P2PConnectList EXCEPT ![i] = None],
                 UNCHANGED <<sent, fault>>
          PROVE  <2>2!1 /\ <2>2!2 /\ <2>2!3 /\ <2>2!4 /\ <2>2!5
      <4> DEFINE h == m_P2PConnectList[i]
      <4>1. conn[h] \in Connection
        BY <3>3 DEF TypeOK
      <4>2. conn' \in [Tcp -> Connection]
        <5>1. WithoutHost(conn[h]) \in Connection
          <6>1. 0 \in Id
            BY IdCountAssumption DEF Id
          <6>2. QED
            BY <4>1, <6>1 DEF WithoutHost, Connection
        <5>2. QED
          BY <3>3, <5>1 DEF MainTCPDisconnect, TypeOK
      <4>3. link' \in [Tcp -> {"none", "up", "shut"}]
        BY <3>3 DEF MainTCPDisconnect, Done, TypeOK
      <4>4. QED
        BY <3>3, <4>2, <4>3 DEF TypeOK
    <3>4. \A i \in Id : m_P2PConnectList[i] # None => m_P2PConnectList[i] \in Tcp
      BY DEF TypeOK
    <3>5. QED
      BY <1>1, <3>1, <3>2, <3>3, <3>4 DEF TCPEndProcess
  <2>3. QED
    BY <1>1, <2>1, <2>2 DEF TCPEndProcess, TypeOK
<1>2. CASE RemoveTCPID(t)
  <2>1. m_TCPList' \in [Id -> Tcp \cup {None}]
    BY <1>2 DEF RemoveTCPID, EntryErased, TypeOK
  <2>2. thr' \in [Tcp -> Thread]
    <3>1. thr[t] \in Thread
      BY DEF TypeOK
    <3>2. [thr[t] EXCEPT !.pc = "stopped"] \in Thread
      BY <3>1 DEF Thread, ThreadPC
    <3>3. thr' = [thr EXCEPT ![t] = [thr[t] EXCEPT !.pc = "stopped"]]
      BY <1>2 DEF RemoveTCPID
    <3>4. QED
      BY <3>2, <3>3, Updated DEF TypeOK
  <2>3. UNCHANGED <<netVars, m_dwTCPid, m_P2PConnectList, conn, accepting, udpThr, fault, past>>
    BY <1>2 DEF RemoveTCPID
  <2>4. QED
    BY <2>1, <2>2, <2>3 DEF TypeOK, netVars
<1>3. QED BY <1>1, <1>2

LEMMA TypeUDP ==
    ASSUME TypeOK, UDPInv, AddressInv, \A h \in Tcp : conn[h].main \in {None, h},
           RecvUDPPacketProcess \/ UDPListening \/ UDPConnected
    PROVE  TypeOK'
<1> DEFINE h == udpThr.p2p
<1>1. CASE RecvUDPPacketProcess
  <2>1. udpThr' \in UDPThread
    BY <1>1 DEF RecvUDPPacketProcess, TypeOK, UDPThread
  <2>2. QED
    BY <1>1, <2>1 DEF RecvUDPPacketProcess, TypeOK, netVars, serverVars
<1>2. UDPIdle \in UDPThread
  BY DEF UDPIdle, UDPThread
<1>3. CASE IgnoreDatagram
  BY <1>2, <1>3 DEF IgnoreDatagram, TypeOK, netVars, serverVars
<1>4. CASE UDPListening
  <2> DEFINE c == [conn[h] EXCEPT !.mainUDP = udpThr.pkt.from, !.status = P2P_UDP_LISTENING]
  <2>1. h \in Tcp /\ udpThr.pkt \in Datagram
    BY <1>4 DEF UDPListening, Holds, UDPInv
  <2>2. conn[h] \in Connection /\ udpThr.pkt.from \in Tcp
    BY <2>1 DEF TypeOK, Datagram
  <2>3. c \in Connection /\ c.status = P2P_UDP_LISTENING
    BY <2>2, StatusType DEF Connection
  <2>4. CASE Crash(DumpP2PConnection(c)) /\ DumpP2PConnection(c) # "no"
    BY <2>4, CrashType, DumpResult
  <2>5. CASE /\ DumpP2PConnection(c) = "no"
             /\ conn' = [conn EXCEPT ![h] = c]
             /\ SendPacket(c.guest, CreateTCPStartUDPPkt)
             /\ udpThr' = UDPIdle
             /\ UNCHANGED <<link, peer, c2s, udp, serverVars, accepting, thr, fault, past>>
    <3>1. c.guest \in Tcp
      <4> HIDE DEF c
      <4>1. c.status >= P2P_TCP_CONNECTED
        BY <2>3 DEF P2P_UDP_LISTENING, P2P_TCP_CONNECTED
      <4>2. QED
        BY <2>3, <2>5, <4>1, DumpResult DEF Connection
    <3>2. PacketBags(sent')
      BY <2>5, <3>1, SendPacketType, PacketTypes DEF TypeOK
    <3>3. conn' \in [Tcp -> Connection]
      BY <2>1, <2>3, <2>5, ConnType
    <3>4. QED
      BY <1>2, <2>5, <3>2, <3>3 DEF TypeOK, serverVars
  <2>6. QED
    BY <1>3, <1>4, <2>4, <2>5 DEF UDPListening
<1>5. CASE UDPConnected
  <2> DEFINE c == [conn[h] EXCEPT !.guestUDP = udpThr.pkt.from, !.status = P2P_PUNCHING]
  <2>1. h \in Tcp /\ udpThr.pkt \in Datagram
    BY <1>5 DEF UDPConnected, Holds, UDPInv
  <2>2. conn[h] \in Connection /\ udpThr.pkt.from \in Tcp
    BY <2>1 DEF TypeOK, Datagram
  <2>3. c \in Connection /\ c.status = P2P_PUNCHING /\ c.guestUDP = udpThr.pkt.from
    BY <2>2, StatusType DEF Connection
  <2>4. CASE Crash(DumpP2PConnection(c)) /\ DumpP2PConnection(c) # "no"
    BY <2>4, CrashType, DumpResult
  <2>5. CASE /\ InState(h, P2P_UDP_LISTENING)
             /\ DumpP2PConnection(c) = "no"
             /\ conn' = [conn EXCEPT ![h] = c]
             /\ SendPackets(c.main, CreateTCPStartPunchingPkt(c.mainId, c.guestUDP),
                            c.guest, CreateTCPStartPunchingPkt(c.mainId, c.mainUDP))
             /\ udpThr' = UDPIdle
             /\ UNCHANGED <<link, peer, c2s, udp, serverVars, accepting, thr, fault, past>>
    <3>1. c.main \in Tcp /\ c.guest \in Tcp
      <4> HIDE DEF c
      <4>1. c.status >= P2P_TCP_CONNECTED
        BY <2>3 DEF P2P_PUNCHING, P2P_TCP_CONNECTED
      <4>2. QED
        BY <2>3, <2>5, <4>1, DumpResult DEF Connection
    <3>2. /\ CreateTCPStartPunchingPkt(c.mainId, c.guestUDP) \in ServerPacket(Id, Tcp)
          /\ CreateTCPStartPunchingPkt(c.mainId, c.mainUDP) \in ServerPacket(Id, Tcp)
      <4>1. c.mainUDP \in Tcp
        <5>1. c.mainUDP = conn[h].mainUDP /\ c.main = conn[h].main
          BY <2>2 DEF Connection
        <5>2. conn[h].main = h /\ conn[h].status >= P2P_UDP_LISTENING
          BY <2>1, <2>5, <3>1, <5>1, NoneAssumption DEF InState, P2P_UDP_LISTENING
        <5>3. QED
          BY <2>1, <2>3, <5>1, <5>2 DEF AddressInv, Connection
      <4>2. QED
        <5> HIDE DEF c
        <5> QED BY <2>2, <2>3, <4>1, PacketTypes DEF Connection
    <3>3. PacketBags(sent')
      BY <2>5, <3>1, <3>2, SendPacketsType DEF TypeOK
    <3>4. conn' \in [Tcp -> Connection]
      BY <2>1, <2>3, <2>5, ConnType
    <3>5. QED
      BY <1>2, <2>5, <3>3, <3>4 DEF TypeOK, serverVars
  <2>6. QED
    BY <1>3, <1>5, <2>4, <2>5 DEF UDPConnected
<1>6. QED BY <1>1, <1>4, <1>5

LEMMA TypeClient ==
    ASSUME TypeOK, ThreadInv, NEW t \in Tcp, Client(t)
    PROVE  TypeOK'
<1>1. ASSUME NEW type \in ClientTCPType, ClientSend(t, type) PROVE TypeOK'
  <2>1. c2s' \in [Tcp -> Seq(ClientTCPType)]
    BY <1>1 DEF ClientSend, TypeOK
  <2>2. peer' \in [Tcp -> [role : Role \cup {None}, keyword : Keyword \cup {None},
                          greeted : BOOLEAN, asked : Nat]]
    <3> DEFINE g == peer[t].greeted \/ type \in {"TPT_WAITING", "TPT_CONNECT"}
               a == IF type = "TPT_PROXY_REQUEST" THEN peer[t].asked + 1 ELSE peer[t].asked
    <3>1. peer' = [peer EXCEPT ![t].greeted = g, ![t].asked = a]
      BY <1>1 DEF ClientSend
    <3>2. g \in BOOLEAN /\ a \in Nat
      BY DEF TypeOK
    <3>3. peer[t] \in [role : Role \cup {None}, keyword : Keyword \cup {None},
                       greeted : BOOLEAN, asked : Nat]
      BY DEF TypeOK
    <3> HIDE DEF g, a
    <3>4. [peer[t] EXCEPT !.greeted = g, !.asked = a] \in
             [role : Role \cup {None}, keyword : Keyword \cup {None},
              greeted : BOOLEAN, asked : Nat]
      BY <3>2, <3>3
    <3>5. peer' = [peer EXCEPT ![t] = [peer[t] EXCEPT !.greeted = g, !.asked = a]]
      BY <3>1
    <3>6. QED
      BY <3>4, <3>5, Updated DEF TypeOK
  <2>3. QED
    BY <1>1, <2>1, <2>2 DEF ClientSend, TypeOK, serverVars
<1>2. CASE SendUDPToServer(t)
  <2>1. peer[t].keyword \in Keyword
    BY <1>2 DEF SendUDPToServer, ThreadInv
  <2>2. udp' \subseteq Datagram
    BY <1>2, <2>1 DEF SendUDPToServer, TypeOK, Datagram, ServerUDPType
  <2>3. QED
    BY <1>2, <2>2 DEF SendUDPToServer, TypeOK, serverVars
<1>3. CASE ClientGone(t)
  BY <1>3 DEF ClientGone, TypeOK, serverVars
<1>4. QED BY <1>1, <1>2, <1>3 DEF Client

-----------------------------------------------------------------------------
(* The rest of the inductive invariant                                     *)

Rest == ThreadInv /\ UDPInv /\ SessionInv /\ AddressInv /\ UniqueKeyword /\ ListedUnderLiveId /\ FaultInv

LEMMA RestInit == Init => Rest
BY NoneAssumption
DEF Init, Rest, ThreadInv, UDPInv, SessionInv, AddressInv, UniqueKeyword, ListedUnderLiveId, FaultInv,
    NoConnection, Idle, UDPIdle

LEMMA RestListen ==
    ASSUME IInv, TypeOK', NEW t \in Tcp, AcceptTCPSocketProcess(t) \/ CreateTCPID
    PROVE  Rest'
<1>1. CASE AcceptTCPSocketProcess(t)
  <2>1. PICK r \in Role, k \in Keyword : peer' = [peer EXCEPT ![t].role = r, ![t].keyword = k]
    BY <1>1 DEF AcceptTCPSocketProcess
  <2>2. /\ thr[t].pc = "none" /\ c2s[t] = <<>>
        /\ thr' = [thr EXCEPT ![t] = Idle] /\ link' = [link EXCEPT ![t] = "up"]
        /\ fault = "no"
        /\ UNCHANGED <<c2s, udp, m_TCPList, m_dwTCPid, m_P2PConnectList, conn, udpThr, fault>>
    BY <1>1 DEF AcceptTCPSocketProcess, IInv, ThreadInv, serverVars, Alive
  <2>3. /\ peer'[t].role = r /\ peer'[t].keyword = k
        /\ \A u \in Tcp \ {t} : peer'[u] = peer[u] /\ thr'[u] = thr[u] /\ link'[u] = link[u]
        /\ thr'[t] = Idle /\ link'[t] = "up"
    BY <2>1, <2>2 DEF IInv, TypeOK
  <2>4. \A h \in Tcp : conn[h].keyword # None => h # t
    BY <2>2 DEF IInv, SessionInv
  <2>5. ThreadInv'
    <3>1. ASSUME NEW u \in Tcp \ {t} PROVE ThreadInv!(u)'
      BY <2>2, <2>3, <3>1 DEF IInv, ThreadInv
    <3>2. ThreadInv!(t)'
      BY <2>2, <2>3 DEF Idle
    <3>3. QED
      BY <3>1, <3>2 DEF ThreadInv
  <2>6. UDPInv'
    BY <2>2, <2>3 DEF IInv, UDPInv, FromClient, TypeOK, Datagram
  <2>7. SessionInv'
    <3> SUFFICES ASSUME NEW h \in Tcp PROVE SessionInv!(h)'
      BY DEF SessionInv
    <3>1. /\ conn' = conn /\ m_P2PConnectList' = m_P2PConnectList
          /\ SessionInv!(h)
          /\ conn[h].main \in Tcp \cup {None} /\ conn[h].guest \in Tcp \cup {None}
      BY <2>2 DEF IInv, SessionInv, TypeOK, Connection
    <3>2. \A u \in Tcp : Live(u) => u # t /\ Live(u)' /\ peer'[u] = peer[u]
      BY <2>2, <2>3 DEF Live
    <3>3. conn[h].keyword # None => thr'[h] = thr[h] /\ peer'[h] = peer[h]
      BY <2>3, <2>4
    <3>4. QED
      BY <3>1, <3>2, <3>3
  <2>8. AddressInv'
    <3> SUFFICES ASSUME NEW h \in Tcp PROVE AddressInv!(h)'
      BY DEF AddressInv
    <3>1. /\ conn' = conn
          /\ AddressInv!(h)
          /\ conn[h].mainUDP \in Tcp \cup {None} /\ conn[h].guestUDP \in Tcp \cup {None}
      BY <2>2 DEF IInv, AddressInv, TypeOK, Connection
    <3>2. \A u \in Tcp : thr[u].pc # "none" => thr'[u] = thr[u] /\ peer'[u] = peer[u]
      BY <2>2, <2>3
    <3>3. QED
      BY <3>1, <3>2
  <2>9. QED
    BY <2>2, <2>5, <2>6, <2>7, <2>8 DEF Rest, IInv, UniqueKeyword, ListedUnderLiveId, FaultInv
<1>2. CASE CreateTCPID
  <2>1. PICK i \in Id : m_TCPList[i] = None /\ m_TCPList' = [m_TCPList EXCEPT ![i] = accepting]
    <3>1. \A d \in 0 .. IdCount - 1 : (m_dwTCPid + d) % IdCount \in Id
      <4>1. \A d \in 0 .. IdCount - 1 : m_dwTCPid + d \in Nat
        BY IdCountAssumption DEF IInv, TypeOK, Id
      <4>2. QED BY <4>1, ModId
    <3>2. QED
      BY <1>2, <3>1 DEF CreateTCPID
  <2>2. UNCHANGED <<link, peer, c2s, udp, m_P2PConnectList, conn, thr, udpThr, fault>>
    BY <1>2 DEF CreateTCPID
  <2>3. ListedUnderLiveId'
    BY <2>1, <2>2, NoneAssumption DEF IInv, ListedUnderLiveId, TypeOK
  <2>4. QED
    BY <2>2, <2>3 DEF Rest, IInv, ThreadInv, UDPInv, FromClient, SessionInv, Live, AddressInv,
                      UniqueKeyword, FaultInv
<1>3. QED BY <1>1, <1>2

(* A socket that is live or stopped stays so.                              *)
SameLife ==
    \A u \in Tcp :
        /\ (thr'[u].pc = "none") = (thr[u].pc = "none")
        /\ Live(u) => Live(u)'
        /\ thr[u].pc \in {"removing", "stopped"} => thr'[u].pc \in {"removing", "stopped"}

(* A step that changes no session keeps what is true of sessions.          *)
LEMMA SessionsKept ==
    ASSUME IInv, SameLife, UNCHANGED <<peer, m_TCPList, m_P2PConnectList, conn>>
    PROVE  SessionInv' /\ AddressInv' /\ UniqueKeyword' /\ ListedUnderLiveId'
<1>1. SessionInv'
  <2> SUFFICES ASSUME NEW h \in Tcp PROVE SessionInv!(h)'
    BY DEF SessionInv
  <2>1. SessionInv!(h) /\ conn[h].guest \in Tcp \cup {None}
    BY DEF IInv, SessionInv, TypeOK, Connection
  <2>2. QED
    BY <2>1 DEF SameLife
<1>2. AddressInv'
  <2> SUFFICES ASSUME NEW h \in Tcp PROVE AddressInv!(h)'
    BY DEF AddressInv
  <2>1. /\ AddressInv!(h)
        /\ conn[h].mainUDP \in Tcp \cup {None} /\ conn[h].guestUDP \in Tcp \cup {None}
    BY DEF IInv, AddressInv, TypeOK, Connection
  <2>2. QED
    BY <2>1 DEF SameLife
<1>3. UniqueKeyword' /\ ListedUnderLiveId'
  BY DEF IInv, UniqueKeyword, ListedUnderLiveId
<1>4. QED BY <1>1, <1>2, <1>3

(* A session operation that gives the listed session h the state c keeps   *)
(* what is true of the other sessions.                                     *)
LEMMA SessionChanged ==
    ASSUME IInv, SameLife, UNCHANGED <<peer, m_TCPList, m_P2PConnectList>>,
           NEW h \in Tcp, NEW c \in Connection, conn' = [conn EXCEPT ![h] = c],
           conn[h].main = h, c.main = h, c.mainId = conn[h].mainId, c.keyword = conn[h].keyword,
           (c.guest # None) = (c.status >= P2P_TCP_CONNECTED),
           c.guest # None => /\ Live(c.guest)'
                             /\ peer[c.guest].role = "GUEST"
                             /\ peer[c.guest].keyword = c.keyword,
           c.status >= P2P_UDP_LISTENING =>
                /\ c.mainUDP # None
                /\ thr[c.mainUDP].pc # "none"
                /\ peer[c.mainUDP].role = "HOST"
                /\ peer[c.mainUDP].keyword = c.keyword,
           c.status >= P2P_UDP_CONNECTED =>
                /\ c.guestUDP # None
                /\ thr[c.guestUDP].pc # "none"
                /\ peer[c.guestUDP].role = "GUEST"
                /\ peer[c.guestUDP].keyword = c.keyword
    PROVE  SessionInv' /\ AddressInv' /\ UniqueKeyword' /\ ListedUnderLiveId'
<1>0. /\ conn'[h] = c
      /\ \A g \in Tcp \ {h} : conn'[g] = conn[g]
      /\ \A g \in Tcp : conn'[g].keyword = conn[g].keyword /\ conn'[g].main = conn[g].main
                        /\ conn'[g].mainId = conn[g].mainId
      /\ c.guest \in Tcp \cup {None} /\ c.mainUDP \in Tcp \cup {None} /\ c.guestUDP \in Tcp \cup {None}
  BY DEF IInv, TypeOK, Connection
<1>1. SessionInv'
  <2> SUFFICES ASSUME NEW g \in Tcp PROVE SessionInv!(g)'
    BY DEF SessionInv
  <2>1. SessionInv!(g) /\ conn[g].guest \in Tcp \cup {None}
    BY DEF IInv, SessionInv, TypeOK, Connection
  <2>2. CASE g = h
    <3>1. conn[h].keyword # None
      BY <2>1, <2>2, NoneAssumption DEF NoConnection
    <3>2. QED
      BY <1>0, <2>1, <2>2, <3>1, NoneAssumption DEF SameLife
  <2>3. CASE g # h
    BY <1>0, <2>1, <2>3 DEF SameLife
  <2>4. QED BY <2>2, <2>3
<1>2. AddressInv'
  <2> SUFFICES ASSUME NEW g \in Tcp PROVE AddressInv!(g)'
    BY DEF AddressInv
  <2>1. /\ AddressInv!(g)
        /\ conn[g].mainUDP \in Tcp \cup {None} /\ conn[g].guestUDP \in Tcp \cup {None}
    BY DEF IInv, AddressInv, TypeOK, Connection
  <2>2. CASE g = h
    BY <1>0, <2>2 DEF SameLife
  <2>3. CASE g # h
    BY <1>0, <2>1, <2>3 DEF SameLife
  <2>4. QED BY <2>2, <2>3
<1>3. \A i \in Id : m_P2PConnectList[i] # None => m_P2PConnectList[i] \in Tcp
  BY DEF IInv, TypeOK
<1>4. UniqueKeyword'
  BY <1>0, <1>3 DEF IInv, UniqueKeyword
<1>5. ListedUnderLiveId'
  BY <1>0, <1>3 DEF IInv, ListedUnderLiveId
<1>6. QED BY <1>1, <1>2, <1>4, <1>5

(* No operation changes the keyword of a session.                          *)
KeywordsKept == \A h \in Tcp : conn[h].keyword # None => conn'[h].keyword = conn[h].keyword

(* The UDP thread goes back to its socket, or does nothing.                *)
LEMMA UDPKept ==
    ASSUME IInv, SameLife, KeywordsKept, UNCHANGED <<peer, udp>>,
           udpThr' = udpThr \/ udpThr' = UDPIdle
    PROVE  UDPInv'
<1>1. \A d \in Datagram : FromClient(d) => FromClient(d)'
  BY DEF SameLife, FromClient, Datagram
<1>2. udp \subseteq Datagram
  BY DEF IInv, TypeOK
<1>3. CASE udpThr' = UDPIdle
  BY <1>1, <1>2, <1>3 DEF IInv, UDPInv, UDPIdle
<1>4. CASE udpThr' = udpThr
  <2>1. ASSUME udpThr.pkt # None
        PROVE  /\ udpThr.pkt \in Datagram /\ FromClient(udpThr.pkt)'
               /\ udpThr.p2p \in Tcp /\ conn'[udpThr.p2p].keyword = udpThr.pkt.keyword
    <3>1. udpThr.pkt.keyword # None
      BY <2>1, NoneAssumption DEF IInv, UDPInv, Datagram
    <3>2. QED
      BY <1>1, <1>4, <2>1, <3>1 DEF IInv, UDPInv, KeywordsKept
  <2>2. QED
    BY <1>1, <1>2, <1>4, <2>1 DEF IInv, UDPInv
<1>5. QED BY <1>3, <1>4

(* The receive thread of t handled a packet, took one or ignored one.      *)
LEMMA ThreadsKept ==
    ASSUME IInv, KeywordsKept, UNCHANGED <<link, peer>>,
           NEW t \in Tcp, Live(t), NEW x, thr' = [thr EXCEPT ![t] = x], x.pc \in {"idle", "reply"},
           \/ c2s' = c2s
           \/ c2s[t] # <<>> /\ c2s' = [c2s EXCEPT ![t] = Tail(@)]
    PROVE  ThreadInv' /\ SameLife
<1>1. SameLife
  BY DEF SameLife, Live, IInv, TypeOK
<1>2. ASSUME NEW u \in Tcp PROVE ThreadInv!(u)'
  <2>1. ThreadInv!(u)
    BY DEF IInv, ThreadInv
  <2>2. c2s[u] \in Seq(ClientTCPType)
    BY DEF IInv, TypeOK
  <2>3. \A n \in 1 .. Len(c2s'[u]) : \E m \in 1 .. Len(c2s[u]) : c2s'[u][n] = c2s[u][m]
    <3>1. CASE c2s'[u] = c2s[u]
      BY <3>1
    <3>2. CASE c2s[u] # <<>> /\ c2s'[u] = Tail(c2s[u])
      <4>1. \A n \in 1 .. Len(c2s'[u]) : c2s'[u][n] = c2s[u][n + 1] /\ n + 1 \in 1 .. Len(c2s[u])
        BY <2>2, <3>2
      <4>2. QED BY <4>1
    <3>3. QED
      BY <3>1, <3>2 DEF IInv, TypeOK
  <2>4. CASE u = t
    <3>1. /\ thr'[u] = x /\ thr'[u].pc \in {"idle", "reply"}
          /\ thr[u].pc # "none" /\ peer'[u] = peer[u] /\ link'[u] = link[u]
      BY <2>4 DEF IInv, TypeOK, Live
    <3>2. \A n \in 1 .. Len(c2s'[u]) :
             /\ c2s'[u][n] = "TPT_WAITING" => peer'[u].role = "HOST"
             /\ c2s'[u][n] = "TPT_CONNECT" => peer'[u].role = "GUEST"
      BY <2>1, <2>3, <3>1
    <3>3. QED
      BY <2>1, <3>1, <3>2
  <2>5. CASE u # t
    <3>1. thr'[u] = thr[u] /\ c2s'[u] = c2s[u]
      BY <2>5 DEF IInv, TypeOK
    <3>2. thr[u].pc = "apply" => conn'[thr[u].p2p].keyword = conn[thr[u].p2p].keyword
      BY <2>1, NoneAssumption DEF KeywordsKept
    <3>3. QED
      BY <2>1, <3>1, <3>2
  <2>6. QED BY <2>4, <2>5
<1>3. QED BY <1>1, <1>2 DEF ThreadInv

(* A crash closes the sockets and stops every thread where it is.          *)
LEMMA CrashRest ==
    ASSUME IInv, NEW why, Crash(why), why # "null_guest",
           why = "null_main" => \E h \in {thr[t].p2p : t \in Tcp} \cup {udpThr.p2p} :
                                  h # None /\ conn[h].main = None /\ conn[h].keyword # None
    PROVE  Rest'
<1>1. /\ UNCHANGED <<peer, udp, m_TCPList, m_dwTCPid, m_P2PConnectList, conn, thr, udpThr>>
      /\ fault' = why /\ c2s' = [u \in Tcp |-> <<>>]
      /\ \A u \in Tcp : /\ (link'[u] = "none") = (link[u] = "none")
                        /\ link[u] = "shut" => link'[u] = "shut"
  BY DEF Crash, serverVars
<1>2. SameLife /\ KeywordsKept
  BY <1>1 DEF SameLife, KeywordsKept, Live
<1>3. ThreadInv'
  <2> SUFFICES ASSUME NEW u \in Tcp PROVE ThreadInv!(u)'
    BY DEF ThreadInv
  <2>1. ThreadInv!(u) /\ c2s'[u] = <<>>
    BY <1>1 DEF IInv, ThreadInv
  <2>2. QED BY <1>1, <2>1
<1>4. QED
  BY <1>1, <1>2, <1>3, SessionsKept, UDPKept DEF Rest, FaultInv

LEMMA FindFacts ==
    ASSUME IInv, NEW k \in Keyword, NEW h \in Tcp, FindP2PConnection(k, h)
    PROVE  Listed(h) /\ conn[h].keyword = k
BY NoneAssumption DEF FindP2PConnection, Hit, Listed

(* A listed session is that of its host; a host has one.                   *)
LEMMA ListedFacts ==
    ASSUME IInv, NEW h \in Tcp
    PROVE  /\ conn[h].main \in {None, h}
           /\ Listed(h) => conn[h].main = h
           /\ conn[h].main = h => /\ Live(h)
                                  /\ conn[h].mainId \in Id
                                  /\ m_P2PConnectList[conn[h].mainId] = h
                                  /\ conn[h].keyword # None
                                  /\ conn[h].keyword = peer[h].keyword
                                  /\ peer[h].role = "HOST"
<1>1. SessionInv!(h) /\ conn[h] \in Connection
  BY DEF IInv, SessionInv, TypeOK
<1>2. Listed(h) => conn[h].main = h
  BY NoneAssumption DEF IInv, ListedUnderLiveId, Listed
<1>3. conn[h].main = h => conn[h].keyword # None
  BY <1>1, NoneAssumption DEF NoConnection
<1>4. QED
  BY <1>1, <1>2, <1>3 DEF Connection

(* The packet t dispatches.                                                *)
LEMMA DispatchFacts ==
    ASSUME IInv, NEW t \in Tcp, NEW type, Dispatch(t, type)
    PROVE  /\ Live(t) /\ thr[t].pc = "idle" /\ fault = "no"
           /\ peer[t].keyword \in Keyword
           /\ c2s[t] # <<>> /\ c2s' = [c2s EXCEPT ![t] = Tail(@)]
           /\ type = "TPT_WAITING" => peer[t].role = "HOST"
           /\ type = "TPT_CONNECT" => peer[t].role = "GUEST"
<1>1. ThreadInv!(t) /\ c2s[t] \in Seq(ClientTCPType)
  BY DEF IInv, ThreadInv, TypeOK
<1>2. /\ thr[t].pc = "idle" /\ c2s[t] # <<>> /\ c2s[t][1] = type /\ 1 \in 1 .. Len(c2s[t])
      /\ fault = "no" /\ c2s' = [c2s EXCEPT ![t] = Tail(@)]
  BY <1>1 DEF Dispatch, Alive
<1>3. QED
  BY <1>1, <1>2 DEF Live

LEMMA RestWaiting ==
    ASSUME IInv, NEW t \in Tcp, Waiting(t)
    PROVE  Rest'
<1>1. /\ Live(t) /\ peer[t].keyword \in Keyword /\ peer[t].role = "HOST"
      /\ c2s[t] # <<>> /\ c2s' = [c2s EXCEPT ![t] = Tail(@)]
      /\ thr[t].pc = "idle" /\ fault = "no"
  BY DispatchFacts DEF Waiting
<1>2. UNCHANGED <<link, peer, udp, m_TCPList, udpThr, fault>>
  BY DEF Waiting
<1>3. FaultInv'
  BY <1>1, <1>2 DEF FaultInv
<1>4. PICK i \in Id :
         /\ m_TCPList[i] = t
         /\ \/ /\ FindP2PConnection(peer[t].keyword, None)
               /\ m_P2PConnectList' = [m_P2PConnectList EXCEPT ![i] = t]
               /\ conn' = [conn EXCEPT ![t] =
                     [NoConnection EXCEPT !.keyword = peer[t].keyword, !.main = t,
                                          !.mainId = i, !.status = P2P_TCP_LISTENING]]
               /\ thr' = [thr EXCEPT ![t] = Replying("TPT_WAITING", "NONE")]
            \/ /\ thr' = [thr EXCEPT ![t] = Replying("TPT_WAITING", "KEYWORD_DUPLICATE")]
               /\ UNCHANGED <<m_P2PConnectList, conn>>
  BY DEF Waiting
<1>5. CASE /\ thr' = [thr EXCEPT ![t] = Replying("TPT_WAITING", "KEYWORD_DUPLICATE")]
           /\ UNCHANGED <<m_P2PConnectList, conn>>
  <2>1. KeywordsKept
    BY <1>5 DEF KeywordsKept
  <2>2. ThreadInv' /\ SameLife
    BY <1>1, <1>2, <1>5, <2>1, ThreadsKept DEF Replying, Idle
  <2>3. QED
    BY <1>2, <1>3, <1>5, <2>1, <2>2, SessionsKept, UDPKept DEF Rest
<1>6. CASE /\ FindP2PConnection(peer[t].keyword, None)
           /\ m_P2PConnectList' = [m_P2PConnectList EXCEPT ![i] = t]
           /\ conn' = [conn EXCEPT ![t] =
                 [NoConnection EXCEPT !.keyword = peer[t].keyword, !.main = t,
                                      !.mainId = i, !.status = P2P_TCP_LISTENING]]
           /\ thr' = [thr EXCEPT ![t] = Replying("TPT_WAITING", "NONE")]
  <2> DEFINE c == [NoConnection EXCEPT !.keyword = peer[t].keyword, !.main = t,
                                       !.mainId = i, !.status = P2P_TCP_LISTENING]
  <2>1. \A j \in Id : m_P2PConnectList[j] # None
                      => conn[m_P2PConnectList[j]].keyword # peer[t].keyword
    BY <1>6, NoneAssumption DEF FindP2PConnection, Hit, IInv, TypeOK
  <2>2. conn[t].main = None
    <3>1. CASE conn[t].main = t
      <4> DEFINE j == conn[t].mainId
      <4>1. j \in Id /\ m_P2PConnectList[j] = t /\ conn[t].keyword = peer[t].keyword
        BY <3>1, ListedFacts
      <4>2. QED
        BY <2>1, <4>1, NoneAssumption
    <3>2. QED BY <3>1, ListedFacts
  <2>3. conn[t].keyword = None
    BY <1>1, <2>2 DEF IInv, SessionInv
  <2>4. m_P2PConnectList[i] = None
    BY <1>4, <2>2, NoneAssumption DEF IInv, ListedUnderLiveId
  <2>5. /\ c.keyword = peer[t].keyword /\ c.main = t /\ c.mainId = i
        /\ c.status = P2P_TCP_LISTENING /\ c.guest = None
    BY DEF NoConnection
  <2>6. /\ conn'[t] = c
        /\ \A h \in Tcp \ {t} : conn'[h] = conn[h]
        /\ m_P2PConnectList'[i] = t
        /\ \A j \in Id \ {i} : m_P2PConnectList'[j] = m_P2PConnectList[j]
    BY <1>6 DEF IInv, TypeOK
  <2> HIDE DEF c
  <2>7. KeywordsKept
    BY <2>3, <2>6 DEF KeywordsKept
  <2>8. ThreadInv' /\ SameLife
    BY <1>1, <1>2, <1>6, <2>7, ThreadsKept DEF Replying, Idle
  <2>9. UDPInv'
    BY <1>2, <2>7, <2>8, UDPKept
  <2>10. UniqueKeyword'
    <3> SUFFICES ASSUME NEW j \in Id, NEW l \in Id,
                        m_P2PConnectList'[j] # None, m_P2PConnectList'[l] # None,
                        conn'[m_P2PConnectList'[j]].keyword = conn'[m_P2PConnectList'[l]].keyword
                 PROVE  j = l
      BY DEF UniqueKeyword
    <3>1. \A n \in Id \ {i} : /\ m_P2PConnectList'[n] = m_P2PConnectList[n]
                              /\ m_P2PConnectList[n] # None =>
                                   conn'[m_P2PConnectList[n]] = conn[m_P2PConnectList[n]]
      BY <2>2, <2>6, NoneAssumption DEF IInv, TypeOK, ListedUnderLiveId
    <3>2. conn'[m_P2PConnectList'[i]].keyword = peer[t].keyword
      BY <2>5, <2>6
    <3>3. QED
      BY <2>1, <3>1, <3>2 DEF IInv, UniqueKeyword
  <2>11. ListedUnderLiveId'
    <3> SUFFICES ASSUME NEW j \in Id, m_P2PConnectList'[j] # None
                 PROVE  LET h == m_P2PConnectList'[j] IN
                        /\ m_TCPList'[j] = h /\ conn'[h].main = h /\ conn'[h].mainId = j
      BY DEF ListedUnderLiveId
    <3>1. CASE j = i
      BY <1>2, <1>4, <2>5, <2>6, <3>1
    <3>2. CASE j # i
      <4>1. m_P2PConnectList[j] \in Tcp \ {t}
        BY <2>2, <2>6, <3>2, NoneAssumption DEF IInv, TypeOK, ListedUnderLiveId
      <4>2. QED
        BY <1>2, <2>6, <3>2, <4>1, NoneAssumption DEF IInv, ListedUnderLiveId
    <3>3. QED BY <3>1, <3>2
  <2>12. SessionInv'
    <3> SUFFICES ASSUME NEW h \in Tcp PROVE SessionInv!(h)'
      BY DEF SessionInv
    <3>1. SessionInv!(h) /\ conn[h].guest \in Tcp \cup {None}
      BY DEF IInv, SessionInv, TypeOK, Connection
    <3>2. CASE h = t
      <4>1. Live(t)' /\ peer'[t] = peer[t] /\ thr'[t].pc # "none"
        BY <1>1, <1>2, <2>8 DEF SameLife, Live
      <4>2. ~(P2P_TCP_LISTENING >= P2P_TCP_CONNECTED)
        BY DEF P2P_TCP_LISTENING, P2P_TCP_CONNECTED
      <4>3. QED
        BY <1>1, <2>5, <2>6, <3>2, <4>1, <4>2, NoneAssumption
    <3>3. CASE h # t
      <4>1. m_P2PConnectList[conn[h].mainId] = h => m_P2PConnectList'[conn[h].mainId] = h
        BY <2>4, <2>6, <1>6, NoneAssumption DEF IInv, TypeOK, Connection
      <4>2. QED
        BY <1>2, <2>6, <2>8, <3>1, <3>3, <4>1 DEF SameLife
    <3>4. QED BY <3>2, <3>3
  <2>13. AddressInv'
    <3> SUFFICES ASSUME NEW h \in Tcp PROVE AddressInv!(h)'
      BY DEF AddressInv
    <3>1. /\ AddressInv!(h)
          /\ conn[h].mainUDP \in Tcp \cup {None} /\ conn[h].guestUDP \in Tcp \cup {None}
      BY DEF IInv, AddressInv, TypeOK, Connection
    <3>2. CASE h = t
      BY <2>5, <2>6, <3>2
      DEF P2P_TCP_LISTENING, P2P_UDP_LISTENING, P2P_UDP_CONNECTED
    <3>3. CASE h # t
      BY <1>2, <2>6, <2>8, <3>1, <3>3 DEF SameLife
    <3>4. QED BY <3>2, <3>3
  <2>14. QED
    BY <1>3, <2>8, <2>9, <2>10, <2>11, <2>12, <2>13 DEF Rest
<1>7. QED BY <1>4, <1>5, <1>6

LEMMA RestFindSession ==
    ASSUME IInv, NEW t \in Tcp, NEW type \in SessionPacket, FindSession(t, type)
    PROVE  Rest'
<1>1. /\ Live(t) /\ peer[t].keyword \in Keyword /\ fault = "no" /\ thr[t].pc = "idle"
      /\ c2s[t] # <<>> /\ c2s' = [c2s EXCEPT ![t] = Tail(@)]
      /\ type = "TPT_CONNECT" => peer[t].role = "GUEST"
  BY DispatchFacts DEF FindSession
<1>2. UNCHANGED <<link, peer, udp, m_TCPList, m_P2PConnectList, conn, udpThr, fault>>
  BY DEF FindSession, serverVars
<1>3. KeywordsKept /\ FaultInv'
  BY <1>1, <1>2 DEF KeywordsKept, FaultInv
<1>4. PICK h \in Tcp \cup {None} :
         /\ FindP2PConnection(peer[t].keyword, h)
         /\ thr' = [thr EXCEPT ![t] =
              IF h # None THEN [Idle EXCEPT !.pc = "apply", !.pkt = type, !.p2p = h]
              ELSE IF AnswersError(type) THEN Replying(type, "KEYWORD_NOT_FOUND")
              ELSE Idle]
  BY DEF FindSession
<1>5. CASE h # None
  <2> DEFINE x == [Idle EXCEPT !.pc = "apply", !.pkt = type, !.p2p = h]
  <2>0. h \in Tcp /\ conn[h].keyword = peer[t].keyword
    BY <1>1, <1>4, <1>5, FindFacts
  <2>1. thr' = [thr EXCEPT ![t] = x] /\ x.pc = "apply" /\ x.pkt = type /\ x.p2p = h
    BY <1>4, <1>5 DEF Idle
  <2> HIDE DEF x
  <2>2. thr'[t] = x /\ \A u \in Tcp \ {t} : thr'[u] = thr[u]
    BY <2>1 DEF IInv, TypeOK
  <2>3. SameLife
    BY <1>1, <2>1, <2>2 DEF SameLife, Live
  <2>4. ThreadInv'
    <3> SUFFICES ASSUME NEW u \in Tcp PROVE ThreadInv!(u)'
      BY DEF ThreadInv
    <3>1. ThreadInv!(u) /\ c2s[u] \in Seq(ClientTCPType)
      BY DEF IInv, ThreadInv, TypeOK
    <3>2. CASE u = t
      <4>1. c2s[u] # <<>> /\ c2s'[u] = Tail(c2s[u]) /\ c2s[u] \in Seq(ClientTCPType)
        BY <1>1, <3>1, <3>2 DEF IInv, TypeOK
      <4>2. \A n \in 1 .. Len(c2s'[u]) : c2s'[u][n] = c2s[u][n + 1] /\ n + 1 \in 1 .. Len(c2s[u])
        BY <4>1
      <4>3. \A n \in 1 .. Len(c2s'[u]) :
               /\ c2s'[u][n] = "TPT_WAITING" => peer'[u].role = "HOST"
               /\ c2s'[u][n] = "TPT_CONNECT" => peer'[u].role = "GUEST"
        BY <1>2, <3>1, <4>2
      <4>4. QED
        BY <1>1, <1>2, <2>0, <2>1, <2>2, <3>1, <3>2, <4>3
    <3>3. CASE u # t
      <4>1. c2s'[u] = c2s[u]
        BY <1>1, <3>3 DEF IInv, TypeOK
      <4>2. QED
        BY <1>2, <2>2, <3>1, <3>3, <4>1
    <3>4. QED BY <3>2, <3>3
  <2>5. QED
    BY <1>2, <1>3, <2>3, <2>4, SessionsKept, UDPKept DEF Rest
<1>6. CASE h = None
  <2>1. PICK x \in {Replying(type, "KEYWORD_NOT_FOUND"), Idle} : thr' = [thr EXCEPT ![t] = x]
    BY <1>4, <1>6
  <2>2. x.pc \in {"idle", "reply"}
    <3>1. /\ Replying(type, "KEYWORD_NOT_FOUND").pc = "reply"
          /\ Idle.pc = "idle"
      BY DEF Replying, Idle
    <3>2. QED BY <3>1
  <2>3. ThreadInv' /\ SameLife
    BY <1>1, <1>2, <1>3, <2>1, <2>2, ThreadsKept
  <2>4. QED
    BY <1>2, <1>3, <2>3, SessionsKept, UDPKept DEF Rest
<1>7. QED BY <1>5, <1>6

LEMMA RestDataProxy ==
    ASSUME IInv, NEW t \in Tcp, DataProxy(t)
    PROVE  Rest'
<1>1. CASE Crash("keyword_pointer")
  BY <1>1, CrashRest
<1>2. CASE /\ Dispatch(t, "TPT_DATA_PROXY")
           /\ UNCHANGED <<link, peer, sent, udp, serverVars, conn, accepting, thr, udpThr, fault, past>>
  <2>1. /\ Live(t) /\ thr[t].pc = "idle" /\ fault = "no"
        /\ c2s[t] # <<>> /\ c2s' = [c2s EXCEPT ![t] = Tail(@)]
    BY <1>2, DispatchFacts
  <2>2. UNCHANGED <<link, peer, udp, m_TCPList, m_P2PConnectList, conn, udpThr, fault, thr>>
    BY <1>2 DEF serverVars
  <2>3. KeywordsKept /\ FaultInv'
    BY <2>1, <2>2 DEF KeywordsKept, FaultInv
  <2>4. thr' = [thr EXCEPT ![t] = thr[t]]
    BY <2>2 DEF IInv, TypeOK
  <2>5. ThreadInv' /\ SameLife
    BY <2>1, <2>2, <2>3, <2>4, ThreadsKept
  <2>6. QED
    BY <2>2, <2>3, <2>5, SessionsKept, UDPKept DEF Rest
<1>3. QED BY <1>1, <1>2 DEF DataProxy

(* The thread of t uses the session it found.                              *)
LEMMA AtFacts ==
    ASSUME IInv, NEW t \in Tcp, NEW type, At(t, type)
    PROVE  /\ Live(t) /\ fault = "no" /\ thr[t].pkt = type
           /\ thr[t].p2p \in Tcp
           /\ conn[thr[t].p2p].keyword = peer[t].keyword
           /\ peer[t].keyword \in Keyword
           /\ type = "TPT_CONNECT" => peer[t].role = "GUEST"
<1>1. ThreadInv!(t)
  BY DEF IInv, ThreadInv
<1>2. QED
  BY <1>1 DEF At, Alive, Live

LEMMA RefuseRest ==
    ASSUME IInv, NEW t \in Tcp, Live(t), fault = "no", NEW e, Refuse(t, e)
    PROVE  Rest'
<1> DEFINE x == IF AnswersError(thr[t].pkt) THEN Replying(thr[t].pkt, e) ELSE Idle
<1>1. /\ thr' = [thr EXCEPT ![t] = x]
      /\ UNCHANGED <<link, peer, c2s, udp, m_TCPList, m_P2PConnectList, conn, udpThr, fault>>
  BY DEF Refuse, netVars, serverVars
<1>2. x.pc \in {"idle", "reply"}
  <2>1. Replying(thr[t].pkt, e).pc = "reply" /\ Idle.pc = "idle"
    BY DEF Replying, Idle
  <2>2. QED BY <2>1
<1> HIDE DEF x
<1>3. KeywordsKept /\ FaultInv'
  BY <1>1 DEF KeywordsKept, FaultInv
<1>4. ThreadInv' /\ SameLife
  BY <1>1, <1>2, <1>3, ThreadsKept
<1>5. QED
  BY <1>1, <1>3, <1>4, SessionsKept, UDPKept DEF Rest

(* A session whose host is there has a guest in every state that uses one, *)
(* so DumpP2PConnection faults only where the host has gone.               *)
LEMMA DumpOrphan ==
    ASSUME IInv, NEW h \in Tcp, NEW c, c.main = conn[h].main, conn[h].keyword # None,
           c.status >= P2P_TCP_CONNECTED => c.guest # None \/ conn[h].main = None,
           DumpP2PConnection(c) # "no"
    PROVE  DumpP2PConnection(c) = "null_main" /\ conn[h].main = None
BY DEF DumpP2PConnection

LEMMA RestTCPConnected ==
    ASSUME IInv, NEW t \in Tcp, TCPConnected(t)
    PROVE  Rest'
<1> DEFINE h == thr[t].p2p
           c == [conn[h] EXCEPT !.guest = t, !.mainUDP = None, !.guestUDP = None,
                                !.status = P2P_TCP_CONNECTED]
<1>1. /\ Live(t) /\ fault = "no" /\ h \in Tcp /\ peer[t].role = "GUEST"
      /\ conn[h].keyword = peer[t].keyword /\ peer[t].keyword \in Keyword
  BY AtFacts DEF TCPConnected
<1>2. /\ c \in Connection /\ c.main = conn[h].main /\ c.mainId = conn[h].mainId
      /\ c.keyword = conn[h].keyword /\ c.guest = t /\ c.status = P2P_TCP_CONNECTED
  <2>1. conn[h] \in Connection
    BY <1>1 DEF IInv, TypeOK
  <2>2. QED
    BY <2>1, StatusType DEF Connection
<1>3. CASE Refuse(t, "STATE_MISMATCH")
  BY <1>1, <1>3, RefuseRest
<1>4. CASE DumpP2PConnection(c) # "no" /\ Crash(DumpP2PConnection(c))
  <2> HIDE DEF c
  <2>1. DumpP2PConnection(c) = "null_main" /\ conn[h].main = None
    BY <1>1, <1>2, <1>4, DumpOrphan, NoneAssumption
  <2>2. QED
    BY <1>1, <1>4, <2>1, CrashRest, NoneAssumption
<1>5. CASE /\ DumpP2PConnection(c) = "no"
           /\ conn' = [conn EXCEPT ![h] = c]
           /\ thr' = [thr EXCEPT ![t] = Idle]
           /\ UNCHANGED <<link, peer, c2s, udp, serverVars, accepting, udpThr, fault>>
  <2> HIDE DEF c
  <2>1. UNCHANGED <<link, peer, c2s, udp, m_TCPList, m_P2PConnectList, udpThr, fault>>
    BY <1>5 DEF serverVars
  <2>2. conn[h].main = h
    BY <1>1, <1>2, <1>5, DumpResult, ListedFacts
  <2>3. KeywordsKept /\ FaultInv'
    BY <1>1, <1>2, <1>5, <2>1 DEF KeywordsKept, FaultInv, IInv, TypeOK
  <2>4. ThreadInv' /\ SameLife
    BY <1>1, <1>5, <2>1, <2>3, ThreadsKept DEF Idle
  <2>5. Live(t)'
    BY <1>1, <2>4 DEF SameLife
  <2>6. /\ c.status >= P2P_TCP_CONNECTED
        /\ ~(c.status >= P2P_UDP_LISTENING) /\ ~(c.status >= P2P_UDP_CONNECTED)
    BY <1>2 DEF P2P_TCP_CONNECTED, P2P_UDP_LISTENING, P2P_UDP_CONNECTED
  <2>7. SessionInv' /\ AddressInv' /\ UniqueKeyword' /\ ListedUnderLiveId'
    BY <1>1, <1>2, <1>5, <2>1, <2>2, <2>4, <2>5, <2>6, SessionChanged, NoneAssumption
  <2>8. QED
    BY <2>1, <2>3, <2>4, <2>7, UDPKept DEF Rest
<1>6. QED BY <1>3, <1>4, <1>5 DEF TCPConnected

LEMMA RestSetP2POK ==
    ASSUME IInv, NEW t \in Tcp, SetP2POK(t)
    PROVE  Rest'
<1> DEFINE h == thr[t].p2p
           f == [conn[h] EXCEPT !.mainOK = @ \/ conn[h].main = t,
                                !.guestOK = @ \/ conn[h].guest = t]
           c == [f EXCEPT !.status = IF BothOK(f) THEN P2P_CONNECTED ELSE @]
<1>1. /\ Live(t) /\ fault = "no" /\ h \in Tcp
      /\ conn[h].keyword = peer[t].keyword /\ peer[t].keyword \in Keyword
  BY AtFacts DEF SetP2POK
<1>2. conn[h] \in Connection
  BY <1>1 DEF IInv, TypeOK
<1>3. /\ f \in Connection /\ f.main = conn[h].main /\ f.mainId = conn[h].mainId
      /\ f.keyword = conn[h].keyword /\ f.guest = conn[h].guest /\ f.status = conn[h].status
      /\ f.mainUDP = conn[h].mainUDP /\ f.guestUDP = conn[h].guestUDP
  <2>1. /\ (conn[h].mainOK \/ conn[h].main = t) \in BOOLEAN
        /\ (conn[h].guestOK \/ conn[h].guest = t) \in BOOLEAN
    OBVIOUS
  <2>2. QED
    BY <1>2, <2>1 DEF Connection
<1> HIDE DEF f
<1>4. /\ c \in Connection /\ c.main = conn[h].main /\ c.mainId = conn[h].mainId
      /\ c.keyword = conn[h].keyword /\ c.guest = conn[h].guest
      /\ c.status \in {conn[h].status, P2P_CONNECTED}
      /\ c.mainUDP = conn[h].mainUDP /\ c.guestUDP = conn[h].guestUDP
  BY <1>3, StatusType DEF Connection
<1> HIDE DEF c
<1>5. CASE Refuse(t, "STATE_MISMATCH")
  BY <1>1, <1>5, RefuseRest
<1>6. ASSUME InState(h, P2P_PUNCHING), conn[h].main = h
      PROVE  /\ c.status >= P2P_TCP_CONNECTED /\ c.guest # None
             /\ SessionInv!(h) /\ AddressInv!(h)
             /\ conn[h].status >= P2P_UDP_LISTENING /\ conn[h].status >= P2P_UDP_CONNECTED
  <2>1. SessionInv!(h) /\ AddressInv!(h)
    <3>1. SessionInv /\ AddressInv /\ h \in Tcp
      BY <1>1 DEF IInv
    <3>2. SessionInv!(h)
      BY <3>1 DEF SessionInv
    <3>3. AddressInv!(h)
      BY <3>1 DEF AddressInv
    <3>4. QED
      BY <3>2, <3>3
  <2>2. /\ conn[h].status >= P2P_TCP_CONNECTED /\ c.status >= P2P_TCP_CONNECTED
        /\ conn[h].status >= P2P_UDP_LISTENING /\ conn[h].status >= P2P_UDP_CONNECTED
    BY <1>4, <1>6 DEF InState, P2P_PUNCHING, P2P_CONNECTED, P2P_TCP_CONNECTED,
                      P2P_UDP_LISTENING, P2P_UDP_CONNECTED
  <2>3. QED
    BY <1>4, <1>6, <2>1, <2>2
<1>7. CASE /\ InState(h, P2P_PUNCHING)
           /\ DumpP2PConnection(c) # "no" /\ Crash(DumpP2PConnection(c))
  <2>1. DumpP2PConnection(c) = "null_main" /\ conn[h].main = None
    <3>1. conn[h].keyword # None /\ c.main = conn[h].main /\ c.guest = conn[h].guest
      BY <1>1, <1>4, NoneAssumption
    <3>2. conn[h].main \in {None, h}
      BY <1>1, ListedFacts
    <3>3. c.status >= P2P_TCP_CONNECTED => c.guest # None \/ conn[h].main = None
      BY <1>6, <1>7, <3>2
    <3>4. QED
      BY <1>1, <1>7, <3>1, <3>3, DumpOrphan
  <2>2. QED
    BY <1>1, <1>7, <2>1, CrashRest, NoneAssumption
<1>8. CASE /\ InState(h, P2P_PUNCHING)
           /\ DumpP2PConnection(c) = "no"
           /\ conn' = [conn EXCEPT ![h] = c]
           /\ thr' = [thr EXCEPT ![t] = Idle]
           /\ UNCHANGED <<link, peer, c2s, udp, serverVars, accepting, udpThr, fault>>
  <2>1. UNCHANGED <<link, peer, c2s, udp, m_TCPList, m_P2PConnectList, udpThr, fault>>
    BY <1>8 DEF serverVars
  <2>2. conn[h].main = h
    BY <1>1, <1>4, <1>8, DumpResult, ListedFacts
  <2>3. KeywordsKept /\ FaultInv'
    BY <1>1, <1>4, <1>8, <2>1 DEF KeywordsKept, FaultInv, IInv, TypeOK
  <2>4. ThreadInv' /\ SameLife
    BY <1>1, <1>8, <2>1, <2>3, ThreadsKept DEF Idle
  <2>5. PICK g \in Tcp : g = c.guest
    BY <1>4, <1>6, <1>8, <2>2 DEF Connection
  <2>6. /\ Live(g)' /\ peer[g].role = "GUEST" /\ peer[g].keyword = c.keyword /\ g # None
        /\ c.mainUDP # None /\ thr[c.mainUDP].pc # "none"
        /\ peer[c.mainUDP].role = "HOST" /\ peer[c.mainUDP].keyword = c.keyword
        /\ c.guestUDP # None /\ thr[c.guestUDP].pc # "none"
        /\ peer[c.guestUDP].role = "GUEST" /\ peer[c.guestUDP].keyword = c.keyword
    <3>1. SessionInv!(h) /\ AddressInv!(h) /\ conn[h].guest = g /\ g # None
          /\ conn[h].status >= P2P_UDP_LISTENING /\ conn[h].status >= P2P_UDP_CONNECTED
      BY <1>4, <1>6, <1>8, <2>2, <2>5
    <3>2. QED
      BY <1>4, <2>2, <2>4, <3>1 DEF SameLife
  <2>7. SessionInv' /\ AddressInv' /\ UniqueKeyword' /\ ListedUnderLiveId'
    BY <1>1, <1>4, <1>6, <1>8, <2>1, <2>2, <2>4, <2>5, <2>6, SessionChanged
  <2>8. QED
    BY <2>1, <2>3, <2>4, <2>7, UDPKept DEF Rest
<1>9. QED BY <1>5, <1>7, <1>8 DEF SetP2POK, c, f

LEMMA RestTCPProxyRequest ==
    ASSUME IInv, NEW t \in Tcp, TCPProxyRequest(t)
    PROVE  Rest'
<1> DEFINE h == thr[t].p2p
<1>1. /\ Live(t) /\ fault = "no" /\ h \in Tcp
      /\ conn[h].keyword = peer[t].keyword /\ peer[t].keyword \in Keyword
  BY AtFacts DEF TCPProxyRequest
<1>2. CASE Refuse(t, "PROXY_FAIL")
  BY <1>1, <1>2, RefuseRest
<1>3. CASE conn[h].main = None /\ Crash("null_main")
  BY <1>1, <1>3, CrashRest, NoneAssumption
<1>4. CASE /\ thr' = [thr EXCEPT ![t] = Idle]
           /\ UNCHANGED <<link, peer, c2s, udp, serverVars, conn, accepting, udpThr, fault, past>>
  <2>1. UNCHANGED <<link, peer, c2s, udp, m_TCPList, m_P2PConnectList, conn, udpThr, fault>>
    BY <1>4 DEF serverVars
  <2>2. KeywordsKept /\ FaultInv'
    BY <1>1, <2>1 DEF KeywordsKept, FaultInv
  <2>3. ThreadInv' /\ SameLife
    BY <1>1, <1>4, <2>1, <2>2, ThreadsKept DEF Idle
  <2>4. QED
    BY <2>1, <2>2, <2>3, SessionsKept, UDPKept DEF Rest
<1>5. QED BY <1>2, <1>3, <1>4 DEF TCPProxyRequest

LEMMA RestReply ==
    ASSUME IInv, NEW t \in Tcp, Reply(t)
    PROVE  Rest'
<1>1. /\ Live(t) /\ fault = "no"
      /\ thr' = [thr EXCEPT ![t] = Idle]
      /\ UNCHANGED <<link, peer, c2s, udp, m_TCPList, m_P2PConnectList, conn, udpThr, fault>>
  BY DEF Reply, Break, Alive, Live, serverVars
<1>2. KeywordsKept /\ FaultInv'
  BY <1>1 DEF KeywordsKept, FaultInv
<1>3. ThreadInv' /\ SameLife
  BY <1>1, <1>2, ThreadsKept DEF Idle
<1>4. QED
  BY <1>1, <1>2, <1>3, SessionsKept, UDPKept DEF Rest

(* The thread of t ends: what its last two steps keep.                     *)
LEMMA ThreadEnds ==
    ASSUME IInv, KeywordsKept, peer' = peer, NEW t \in Tcp, link[t] = "shut",
           thr'[t].pc \in {"removing", "stopped"},
           \A u \in Tcp \ {t} : thr'[u] = thr[u],
           \A u \in Tcp : link'[u] = link[u] \/ (thr[u].pc # "none" /\ link'[u] = "shut"),
           \A u \in Tcp : c2s'[u] = c2s[u] \/ c2s'[u] = <<>>
    PROVE  ThreadInv'
<1> SUFFICES ASSUME NEW u \in Tcp PROVE ThreadInv!(u)'
  BY DEF ThreadInv
<1>1. ThreadInv!(u) /\ c2s[u] \in Seq(ClientTCPType)
  BY DEF IInv, ThreadInv, TypeOK
<1>2. \A n \in 1 .. Len(c2s'[u]) :
         /\ c2s'[u][n] = "TPT_WAITING" => peer'[u].role = "HOST"
         /\ c2s'[u][n] = "TPT_CONNECT" => peer'[u].role = "GUEST"
  <2>1. CASE c2s'[u] = c2s[u]
    BY <1>1, <2>1
  <2>2. CASE c2s'[u] = <<>>
    BY <2>2
  <2>3. QED BY <2>1, <2>2
<1>3. /\ (link'[u] = "none") = (link[u] = "none")
      /\ link[u] = "shut" => link'[u] = "shut"
  BY <1>1
<1>4. CASE u = t
  BY <1>1, <1>2, <1>3, <1>4
<1>5. CASE u # t
  <2>1. thr'[u] = thr[u]
    BY <1>5 DEF IInv, TypeOK
  <2>2. thr[u].pc = "apply" => conn'[thr[u].p2p].keyword = conn[thr[u].p2p].keyword
    BY <1>1, NoneAssumption DEF KeywordsKept
  <2>3. QED
    BY <1>1, <1>2, <1>3, <2>1, <2>2
<1>6. QED BY <1>4, <1>5

(* A guest takes part in one session only: the sessions it could be in     *)
(* carry its keyword, and a keyword names one session.                     *)
LEMMA OneGuest ==
    ASSUME IInv, NEW g \in Tcp, NEW h \in Tcp, conn[g].guest # None, conn[g].guest = conn[h].guest
    PROVE  g = h
<1>1. SessionInv!(g) /\ SessionInv!(h)
  BY DEF IInv, SessionInv
<1>2. conn[g].main = g /\ conn[h].main = h /\ conn[g].keyword = conn[h].keyword
  BY <1>1
<1>3. /\ conn[g].mainId \in Id /\ m_P2PConnectList[conn[g].mainId] = g
      /\ conn[h].mainId \in Id /\ m_P2PConnectList[conn[h].mainId] = h
  BY <1>2, ListedFacts
<1>4. QED
  BY <1>2, <1>3, NoneAssumption DEF IInv, UniqueKeyword

LEMMA RestTCPEndProcess ==
    ASSUME IInv, NEW t \in Tcp, TCPEndProcess(t)
    PROVE  Rest'
<1> DEFINE x == [thr[t] EXCEPT !.pc = "removing"]
<1>1. /\ fault = "no" /\ thr[t].pc = "idle" /\ link[t] = "shut"
      /\ thr' = [thr EXCEPT ![t] = x] /\ x.pc = "removing"
      /\ c2s' = [c2s EXCEPT ![t] = <<>>]
      /\ UNCHANGED <<peer, udp, m_TCPList, udpThr>>
  <2>1. thr[t] \in Thread
    BY DEF IInv, TypeOK
  <2>2. x.pc = "removing"
    BY <2>1 DEF Thread
  <2>3. QED
    BY <2>2 DEF TCPEndProcess, Alive, IInv, TypeOK
<1> HIDE DEF x
<1>2. /\ thr'[t] = x /\ \A u \in Tcp \ {t} : thr'[u] = thr[u]
      /\ \A u \in Tcp : c2s'[u] = c2s[u] \/ c2s'[u] = <<>>
      /\ \A u \in Tcp : (thr'[u].pc = "none") = (thr[u].pc = "none")
      /\ \A u \in Tcp \ {t} : Live(u) => Live(u)'
  BY <1>1 DEF IInv, TypeOK, Live
<1>3. ASSUME KeywordsKept PROVE UDPInv'
  <2>1. \A d \in Datagram : FromClient(d) => FromClient(d)'
    BY <1>1, <1>2 DEF FromClient, Datagram
  <2>2. udp \subseteq Datagram
    BY DEF IInv, TypeOK
  <2>3. ASSUME udpThr.pkt # None
        PROVE  /\ udpThr.pkt \in Datagram /\ FromClient(udpThr.pkt)'
               /\ udpThr.p2p \in Tcp /\ conn'[udpThr.p2p].keyword = udpThr.pkt.keyword
    <3>1. udpThr.pkt.keyword # None
      BY <2>3, NoneAssumption DEF IInv, UDPInv, Datagram
    <3>2. QED
      BY <1>1, <1>3, <2>1, <2>3, <3>1 DEF IInv, UDPInv, KeywordsKept
  <2>4. QED
    BY <1>1, <2>1, <2>2, <2>3 DEF IInv, UDPInv
<1>4. CASE /\ \A i \in Id : ~(m_P2PConnectList[i] # None /\ PartyOf(t, m_P2PConnectList[i]))
           /\ UNCHANGED <<link, sent, m_P2PConnectList, conn, fault>>
  <2>1. KeywordsKept /\ FaultInv'
    BY <1>1, <1>4 DEF KeywordsKept, FaultInv
  <2>2. ThreadInv'
    <3>1. thr'[t].pc \in {"removing", "stopped"} /\ peer' = peer
      BY <1>1, <1>2
    <3>2. \A u \in Tcp : link'[u] = link[u] \/ (thr[u].pc # "none" /\ link'[u] = "shut")
      BY <1>4
    <3>3. QED
      BY <1>1, <1>2, <2>1, <3>1, <3>2, ThreadEnds
  <2>3. \A h \in Tcp : conn[h].main = h => h # t /\ conn[h].guest # t
    <3> SUFFICES ASSUME NEW h \in Tcp, conn[h].main = h PROVE h # t /\ conn[h].guest # t
      OBVIOUS
    <3>1. conn[h].mainId \in Id /\ m_P2PConnectList[conn[h].mainId] = h
      BY ListedFacts
    <3>2. QED
      BY <1>4, <3>1, NoneAssumption DEF PartyOf
  <2>4. SessionInv'
    <3> SUFFICES ASSUME NEW h \in Tcp PROVE SessionInv!(h)'
      BY DEF SessionInv
    <3>1. SessionInv!(h) /\ conn[h].guest \in Tcp \cup {None}
      BY DEF IInv, SessionInv, TypeOK, Connection
    <3>2. conn[h].main = None => thr'[h].pc \in {"removing", "stopped"} \/ conn[h].keyword = None
      BY <1>1, <1>2, <3>1
    <3>3. QED
      BY <1>1, <1>2, <1>4, <2>3, <3>1, <3>2
  <2>5. AddressInv'
    <3> SUFFICES ASSUME NEW h \in Tcp PROVE AddressInv!(h)'
      BY DEF AddressInv
    <3>1. /\ AddressInv!(h)
          /\ conn[h].mainUDP \in Tcp \cup {None} /\ conn[h].guestUDP \in Tcp \cup {None}
      BY DEF IInv, AddressInv, TypeOK, Connection
    <3>2. QED
      BY <1>1, <1>2, <1>4, <3>1
  <2>6. UniqueKeyword' /\ ListedUnderLiveId'
    BY <1>1, <1>4 DEF IInv, UniqueKeyword, ListedUnderLiveId
  <2>7. QED
    BY <1>3, <2>1, <2>2, <2>4, <2>5, <2>6 DEF Rest
<1>5. ASSUME NEW i \in Id, m_P2PConnectList[i] \in Tcp, conn[m_P2PConnectList[i]].guest = t,
             ConnTCPDisconnect(m_P2PConnectList[i]), UNCHANGED <<link, m_P2PConnectList>>
      PROVE  Rest'
  <2> DEFINE h == m_P2PConnectList[i]
             c == WithoutGuest(conn[h])
  <2>1. conn[h] \in Connection /\ conn[h].main = h /\ conn[h].mainId \in Id
        /\ m_P2PConnectList[conn[h].mainId] = h /\ conn[h].keyword # None
        /\ peer[h].role = "HOST" /\ peer[t].role = "GUEST"
    <3>1. Listed(h)
      BY <1>5 DEF Listed
    <3>2. peer[t].role = "GUEST"
      BY <1>5, NoneAssumption DEF IInv, SessionInv
    <3>3. QED
      BY <1>5, <3>1, <3>2, ListedFacts DEF IInv, TypeOK
  <2>2. /\ c.main = h /\ c.mainId = conn[h].mainId /\ c.keyword = conn[h].keyword
        /\ c.guest = None /\ c.status = P2P_TCP_LISTENING /\ c \in Connection
    BY <2>1, StatusType DEF WithoutGuest, Connection
  <2>3. ~(c.status >= P2P_TCP_CONNECTED)
        /\ ~(c.status >= P2P_UDP_LISTENING) /\ ~(c.status >= P2P_UDP_CONNECTED)
    BY <2>2 DEF P2P_TCP_LISTENING, P2P_TCP_CONNECTED, P2P_UDP_LISTENING, P2P_UDP_CONNECTED
  <2>4. DumpP2PConnection(c) = "no"
    BY <1>5, <2>2, <2>3, NoneAssumption DEF DumpP2PConnection
  <2>5. conn' = [conn EXCEPT ![h] = c] /\ fault' = fault
    BY <1>5, <2>4 DEF ConnTCPDisconnect
  <2> HIDE DEF c
  <2>6. /\ conn'[h] = c /\ \A g \in Tcp \ {h} : conn'[g] = conn[g]
        /\ \A g \in Tcp : /\ conn'[g].keyword = conn[g].keyword /\ conn'[g].main = conn[g].main
                          /\ conn'[g].mainId = conn[g].mainId
    <3>1. /\ conn'[h] = c /\ \A g \in Tcp \ {h} : conn'[g] = conn[g]
      BY <1>5, <2>5 DEF IInv, TypeOK
    <3>2. QED
      BY <2>1, <2>2, <3>1
  <2>7. KeywordsKept /\ FaultInv'
    BY <1>1, <2>5, <2>6 DEF KeywordsKept, FaultInv
  <2>8. ThreadInv'
    <3>1. thr'[t].pc \in {"removing", "stopped"} /\ peer' = peer
      BY <1>1, <1>2
    <3>2. \A u \in Tcp : link'[u] = link[u] \/ (thr[u].pc # "none" /\ link'[u] = "shut")
      BY <1>5
    <3>3. QED
      BY <1>1, <1>2, <2>7, <3>1, <3>2, ThreadEnds
  <2>9. \A g \in Tcp : conn[g].main = g => g # t
    BY <2>1, ListedFacts
  <2>10. SessionInv'
    <3> SUFFICES ASSUME NEW g \in Tcp PROVE SessionInv!(g)'
      BY DEF SessionInv
    <3>1. SessionInv!(g) /\ conn[g].guest \in Tcp \cup {None}
      BY DEF IInv, SessionInv, TypeOK, Connection
    <3>2. CASE g = h
      BY <1>1, <1>2, <1>5, <2>1, <2>2, <2>3, <2>6, <2>9, <3>1, <3>2, NoneAssumption
    <3>3. CASE g # h
      <4>1. conn[g].guest # t
        BY <1>5, <3>3, OneGuest, NoneAssumption
      <4>2. conn[g].main = None => thr'[g].pc \in {"removing", "stopped"} \/ conn[g].keyword = None
        BY <1>1, <1>2, <3>1
      <4>3. conn'[g] = conn[g]
        BY <2>6, <3>3
      <4>4. QED
        BY <1>1, <1>2, <1>5, <2>9, <3>1, <4>1, <4>2, <4>3
    <3>4. QED BY <3>2, <3>3
  <2>11. AddressInv'
    <3> SUFFICES ASSUME NEW g \in Tcp PROVE AddressInv!(g)'
      BY DEF AddressInv
    <3>1. /\ AddressInv!(g)
          /\ conn[g].mainUDP \in Tcp \cup {None} /\ conn[g].guestUDP \in Tcp \cup {None}
      BY DEF IInv, AddressInv, TypeOK, Connection
    <3>2. QED
      BY <1>1, <1>2, <2>3, <2>6, <3>1
  <2>12. UniqueKeyword' /\ ListedUnderLiveId'
    <3>1. \A j \in Id : m_P2PConnectList[j] # None => m_P2PConnectList[j] \in Tcp
      BY DEF IInv, TypeOK
    <3>2. QED
      BY <1>1, <1>5, <2>6, <3>1 DEF IInv, UniqueKeyword, ListedUnderLiveId
  <2>13. QED
    BY <1>3, <2>7, <2>8, <2>10, <2>11, <2>12 DEF Rest
<1>6. ASSUME NEW i \in Id, m_P2PConnectList[i] \in Tcp, conn[m_P2PConnectList[i]].main = t,
             MainTCPDisconnect(m_P2PConnectList[i]),
             m_P2PConnectList' = [m_P2PConnectList EXCEPT ![i] = None], UNCHANGED fault
      PROVE  Rest'
  <2> DEFINE c == WithoutHost(conn[t])
  <2>1. m_P2PConnectList[i] = t /\ conn[t].main = t /\ peer[t].role = "HOST"
        /\ conn[t] \in Connection /\ conn[t].keyword # None /\ conn[t].keyword = peer[t].keyword
    <3>1. Listed(m_P2PConnectList[i])
      BY <1>6 DEF Listed
    <3>2. QED
      BY <1>6, <3>1, ListedFacts, NoneAssumption DEF IInv, TypeOK
  <2>2. /\ c.keyword = conn[t].keyword /\ c.main = None /\ c.guest = None
    BY <2>1 DEF WithoutHost, Connection
  <2>3. conn' = [conn EXCEPT ![t] = c]
        /\ link' = [u \in Tcp |-> IF u = conn[t].guest THEN "shut" ELSE link[u]]
    BY <1>6, <2>1 DEF MainTCPDisconnect, Done
  <2> HIDE DEF c
  <2>4. /\ conn'[t] = c /\ \A g \in Tcp \ {t} : conn'[g] = conn[g]
        /\ m_P2PConnectList'[i] = None
        /\ \A j \in Id \ {i} : m_P2PConnectList'[j] = m_P2PConnectList[j]
    BY <1>6, <2>3 DEF IInv, TypeOK
  <2>5. KeywordsKept /\ FaultInv'
    BY <1>1, <1>6, <2>2, <2>4 DEF KeywordsKept, FaultInv
  <2>6. \A u \in Tcp : u = conn[t].guest => thr[u].pc # "none"
    BY NoneAssumption DEF IInv, SessionInv, Live
  <2>7. ThreadInv'
    <3>1. thr'[t].pc \in {"removing", "stopped"} /\ peer' = peer
      BY <1>1, <1>2
    <3>2. \A u \in Tcp : link'[u] = link[u] \/ (thr[u].pc # "none" /\ link'[u] = "shut")
      BY <2>3, <2>6
    <3>3. QED
      BY <1>1, <1>2, <2>5, <3>1, <3>2, ThreadEnds
  <2>8. \A g \in Tcp : conn[g].guest # t
    BY <2>1, NoneAssumption DEF IInv, SessionInv
  <2>9. \A j \in Id \ {i} : m_P2PConnectList[j] # None => m_P2PConnectList[j] \in Tcp \ {t}
    <3>1. \A j \in Id : m_P2PConnectList[j] # None =>
            m_P2PConnectList[j] \in Tcp /\ conn[m_P2PConnectList[j]].mainId = j
      BY DEF IInv, TypeOK, ListedUnderLiveId
    <3>2. conn[t].mainId = i
      BY <2>1, <3>1, NoneAssumption
    <3>3. QED
      BY <3>1, <3>2
  <2>10. SessionInv'
    <3> SUFFICES ASSUME NEW g \in Tcp PROVE SessionInv!(g)'
      BY DEF SessionInv
    <3>1. SessionInv!(g) /\ conn[g].guest \in Tcp \cup {None} /\ conn[g].mainId \in Id
      BY DEF IInv, SessionInv, TypeOK, Connection
    <3>2. CASE g = t
      BY <1>1, <1>2, <2>1, <2>2, <2>4, <3>2, NoneAssumption
    <3>3. CASE g # t
      <4>1. conn[g].main = g => m_P2PConnectList'[conn[g].mainId] = g
        BY <2>1, <2>4, <3>1, <3>3
      <4>2. QED
        BY <1>1, <1>2, <2>4, <2>8, <3>1, <3>3, <4>1, NoneAssumption
    <3>4. QED BY <3>2, <3>3
  <2>11. AddressInv'
    <3> SUFFICES ASSUME NEW g \in Tcp PROVE AddressInv!(g)'
      BY DEF AddressInv
    <3>1. /\ AddressInv!(g)
          /\ conn[g].mainUDP \in Tcp \cup {None} /\ conn[g].guestUDP \in Tcp \cup {None}
      BY DEF IInv, AddressInv, TypeOK, Connection
    <3>2. CASE g = t
      BY <2>2, <2>4, <3>2, NoneAssumption
    <3>3. CASE g # t
      BY <1>1, <1>2, <2>4, <3>1, <3>3
    <3>4. QED BY <3>2, <3>3
  <2>12. UniqueKeyword' /\ ListedUnderLiveId'
    BY <1>1, <2>4, <2>9 DEF IInv, UniqueKeyword, ListedUnderLiveId
  <2>13. QED
    BY <1>3, <2>5, <2>7, <2>10, <2>11, <2>12 DEF Rest
<1>7. \A i \in Id : m_P2PConnectList[i] # None => m_P2PConnectList[i] \in Tcp
  BY DEF IInv, TypeOK
<1>8. QED
  BY <1>4, <1>5, <1>6, <1>7 DEF TCPEndProcess, PartyOf

LEMMA RestRemoveTCPID ==
    ASSUME IInv, NEW t \in Tcp, RemoveTCPID(t)
    PROVE  Rest'
<1> DEFINE x == [thr[t] EXCEPT !.pc = "stopped"]
<1>1. /\ fault = "no" /\ thr[t].pc = "removing" /\ thr' = [thr EXCEPT ![t] = x]
      /\ x.pc = "stopped" /\ thr' = [thr EXCEPT ![t] = x]
      /\ m_TCPList' = [i \in Id |-> IF m_TCPList[i] = t THEN None ELSE m_TCPList[i]]
      /\ UNCHANGED <<link, peer, c2s, udp, m_P2PConnectList, conn, udpThr, fault>>
  <2>1. thr[t] \in Thread
    BY DEF IInv, TypeOK
  <2>2. x.pc = "stopped"
    BY <2>1 DEF Thread
  <2>3. QED
    BY <2>2 DEF RemoveTCPID, EntryErased, netVars, Alive, IInv, TypeOK
<1> HIDE DEF x
<1>2. thr'[t] = x /\ \A u \in Tcp \ {t} : thr'[u] = thr[u]
  BY <1>1 DEF IInv, TypeOK
<1>3. SameLife /\ KeywordsKept /\ FaultInv'
  BY <1>1, <1>2 DEF SameLife, KeywordsKept, FaultInv, Live
<1>4. ThreadInv'
  <2>1. link[t] = "shut"
    BY <1>1 DEF IInv, ThreadInv
  <2>2. thr'[t].pc \in {"removing", "stopped"} /\ peer' = peer
    BY <1>1, <1>2
  <2>3. /\ \A u \in Tcp : link'[u] = link[u] \/ (thr[u].pc # "none" /\ link'[u] = "shut")
        /\ \A u \in Tcp : c2s'[u] = c2s[u] \/ c2s'[u] = <<>>
    BY <1>1
  <2>4. QED
    BY <1>2, <1>3, <2>1, <2>2, <2>3, ThreadEnds
<1>5. SessionInv' /\ AddressInv' /\ UniqueKeyword'
  <2>1. SessionInv'
    <3> SUFFICES ASSUME NEW h \in Tcp PROVE SessionInv!(h)'
      BY DEF SessionInv
    <3>1. SessionInv!(h) /\ conn[h].guest \in Tcp \cup {None}
      BY DEF IInv, SessionInv, TypeOK, Connection
    <3>2. QED
      BY <1>1, <1>3, <3>1 DEF SameLife
  <2>2. AddressInv'
    <3> SUFFICES ASSUME NEW h \in Tcp PROVE AddressInv!(h)'
      BY DEF AddressInv
    <3>1. /\ AddressInv!(h)
          /\ conn[h].mainUDP \in Tcp \cup {None} /\ conn[h].guestUDP \in Tcp \cup {None}
      BY DEF IInv, AddressInv, TypeOK, Connection
    <3>2. QED
      BY <1>1, <1>3, <3>1 DEF SameLife
  <2>3. QED
    BY <1>1, <2>1, <2>2 DEF IInv, UniqueKeyword
<1>6. ListedUnderLiveId'
  <2>1. conn[t].main # t
    BY <1>1 DEF IInv, SessionInv, Live
  <2>2. QED
    BY <1>1, <2>1 DEF IInv, ListedUnderLiveId
<1>7. QED
  BY <1>1, <1>3, <1>4, <1>5, <1>6, UDPKept DEF Rest

(* A step of the UDP thread touches no receive thread.                     *)
LEMMA ThreadsUntouched ==
    ASSUME IInv, KeywordsKept, UNCHANGED <<link, peer, c2s, thr>>
    PROVE  ThreadInv' /\ SameLife
<1>1. SameLife
  BY DEF SameLife, Live
<1>2. ThreadInv'
  <2> SUFFICES ASSUME NEW u \in Tcp PROVE ThreadInv!(u)'
    BY DEF ThreadInv
  <2>1. ThreadInv!(u)
    BY DEF IInv, ThreadInv
  <2>2. thr[u].pc = "apply" => conn'[thr[u].p2p].keyword = conn[thr[u].p2p].keyword
    BY <2>1, NoneAssumption DEF KeywordsKept
  <2>3. QED
    BY <2>1, <2>2
<1>3. QED BY <1>1, <1>2

LEMMA RestRecvUDP ==
    ASSUME IInv, RecvUDPPacketProcess
    PROVE  Rest'
<1>1. /\ UNCHANGED <<link, peer, c2s, udp, m_TCPList, m_P2PConnectList, conn, thr, fault>>
      /\ fault = "no"
  BY DEF RecvUDPPacketProcess, netVars, serverVars, Alive
<1>2. KeywordsKept /\ FaultInv'
  BY <1>1 DEF KeywordsKept, FaultInv
<1>3. ThreadInv' /\ SameLife
  BY <1>1, <1>2, ThreadsUntouched
<1>4. UDPInv'
  <2>1. PICK d \in udp, h \in Tcp : FindP2PConnection(d.keyword, h) /\ udpThr' = [pkt |-> d, p2p |-> h]
    BY DEF RecvUDPPacketProcess
  <2>2. d \in Datagram /\ FromClient(d) /\ d.keyword \in Keyword
    BY <2>1 DEF IInv, TypeOK, UDPInv, Datagram
  <2>3. conn[h].keyword = d.keyword
    BY <2>1, <2>2, FindFacts
  <2>4. \A e \in Datagram : FromClient(e) => FromClient(e)'
    BY <1>1 DEF FromClient
  <2>5. /\ udpThr'.pkt = d /\ udpThr'.p2p = h /\ \A e \in udp' : FromClient(e)'
    BY <1>1, <2>1, <2>4 DEF IInv, TypeOK, UDPInv
  <2>6. udpThr'.pkt \in Datagram /\ FromClient(udpThr.pkt)'
    BY <1>1, <2>2, <2>5 DEF FromClient
  <2>7. QED
    BY <1>1, <2>1, <2>3, <2>5, <2>6 DEF UDPInv
<1>5. QED
  BY <1>1, <1>2, <1>3, <1>4, SessionsKept DEF Rest

LEMMA RestIgnoreDatagram ==
    ASSUME IInv, fault = "no", IgnoreDatagram
    PROVE  Rest'
<1>1. /\ UNCHANGED <<link, peer, c2s, udp, m_TCPList, m_P2PConnectList, conn, thr, fault>>
      /\ udpThr' = UDPIdle
  BY DEF IgnoreDatagram, netVars, serverVars
<1>2. KeywordsKept /\ FaultInv'
  BY <1>1 DEF KeywordsKept, FaultInv
<1>3. ThreadInv' /\ SameLife
  BY <1>1, <1>2, ThreadsUntouched
<1>4. QED
  BY <1>1, <1>2, <1>3, SessionsKept, UDPKept DEF Rest

(* What the UDP thread holds.                                              *)
LEMMA HoldsFacts ==
    ASSUME IInv, NEW type \in ServerUDPType, Holds(type)
    PROVE  /\ udpThr.p2p \in Tcp /\ conn[udpThr.p2p].keyword # None
           /\ udpThr.pkt.from \in Tcp
           /\ thr[udpThr.pkt.from].pc # "none"
           /\ peer[udpThr.pkt.from].keyword = conn[udpThr.p2p].keyword
           /\ peer[udpThr.pkt.from].role = IF type = "UPT_WAITING" THEN "HOST" ELSE "GUEST"
<1>1. /\ udpThr.pkt # None /\ udpThr.pkt \in Datagram /\ FromClient(udpThr.pkt)
      /\ udpThr.p2p \in Tcp /\ conn[udpThr.p2p].keyword = udpThr.pkt.keyword
      /\ udpThr.pkt.type = type
  BY DEF Holds, IInv, UDPInv
<1>2. QED
  BY <1>1, NoneAssumption DEF FromClient, Datagram

LEMMA RestUDPListening ==
    ASSUME IInv, UDPListening
    PROVE  Rest'
<1> DEFINE h == udpThr.p2p
           c == [conn[h] EXCEPT !.mainUDP = udpThr.pkt.from, !.status = P2P_UDP_LISTENING]
<1>1. /\ h \in Tcp /\ conn[h].keyword # None /\ udpThr.pkt.from \in Tcp
      /\ thr[udpThr.pkt.from].pc # "none"
      /\ peer[udpThr.pkt.from].keyword = conn[h].keyword
      /\ peer[udpThr.pkt.from].role = "HOST"
      /\ fault = "no"
  BY HoldsFacts DEF UDPListening, Alive, ServerUDPType
<1>2. conn[h] \in Connection
  BY <1>1 DEF IInv, TypeOK
<1>3. /\ c \in Connection /\ c.main = conn[h].main /\ c.mainId = conn[h].mainId
      /\ c.keyword = conn[h].keyword /\ c.guest = conn[h].guest
      /\ c.status = P2P_UDP_LISTENING /\ c.mainUDP = udpThr.pkt.from
  BY <1>1, <1>2, StatusType DEF Connection
<1> HIDE DEF c
<1>4. CASE IgnoreDatagram
  BY <1>1, <1>4, RestIgnoreDatagram
<1>5. ASSUME InState(h, P2P_TCP_CONNECTED), conn[h].main = h
      PROVE  /\ conn[h].guest # None /\ Live(conn[h].guest)
             /\ peer[conn[h].guest].role = "GUEST"
             /\ peer[conn[h].guest].keyword = conn[h].keyword
  <2>1. SessionInv!(h)
    BY <1>1 DEF IInv, SessionInv
  <2>2. conn[h].status >= P2P_TCP_CONNECTED
    BY <1>5 DEF InState, P2P_TCP_CONNECTED
  <2>3. QED BY <1>5, <2>1, <2>2
<1>6. CASE /\ InState(h, P2P_TCP_CONNECTED)
           /\ DumpP2PConnection(c) # "no" /\ Crash(DumpP2PConnection(c))
  <2>1. DumpP2PConnection(c) = "null_main" /\ conn[h].main = None
    BY <1>1, <1>3, <1>5, <1>6, DumpOrphan, ListedFacts
  <2>2. QED
    BY <1>1, <1>6, <2>1, CrashRest, NoneAssumption
<1>7. CASE /\ InState(h, P2P_TCP_CONNECTED)
           /\ DumpP2PConnection(c) = "no"
           /\ conn' = [conn EXCEPT ![h] = c]
           /\ udpThr' = UDPIdle
           /\ UNCHANGED <<link, peer, c2s, udp, serverVars, accepting, thr, fault, past>>
  <2>1. UNCHANGED <<link, peer, c2s, udp, m_TCPList, m_P2PConnectList, thr, fault>>
    BY <1>7 DEF serverVars
  <2>2. conn[h].main = h
    BY <1>1, <1>3, <1>7, DumpResult, ListedFacts
  <2>3. KeywordsKept /\ FaultInv'
    BY <1>1, <1>3, <1>7, <2>1 DEF KeywordsKept, FaultInv, IInv, TypeOK
  <2>4. ThreadInv' /\ SameLife
    BY <2>1, <2>3, ThreadsUntouched
  <2>5. PICK g \in Tcp : g = c.guest
    BY <1>3, <1>5, <1>7, <2>2 DEF Connection
  <2>6. /\ Live(g)' /\ peer[g].role = "GUEST" /\ peer[g].keyword = c.keyword /\ g # None
    BY <1>3, <1>5, <1>7, <2>2, <2>4, <2>5 DEF SameLife
  <2>7. /\ c.status >= P2P_TCP_CONNECTED /\ ~(c.status >= P2P_UDP_CONNECTED)
    BY <1>3 DEF P2P_TCP_CONNECTED, P2P_UDP_LISTENING, P2P_UDP_CONNECTED
  <2>8. /\ c.mainUDP # None /\ thr[c.mainUDP].pc # "none"
        /\ peer[c.mainUDP].role = "HOST" /\ peer[c.mainUDP].keyword = c.keyword
    BY <1>1, <1>3, NoneAssumption
  <2>9. SessionInv' /\ AddressInv' /\ UniqueKeyword' /\ ListedUnderLiveId'
    BY <1>1, <1>3, <1>7, <2>1, <2>2, <2>4, <2>5, <2>6, <2>7, <2>8, SessionChanged
  <2>10. QED
    BY <1>7, <2>1, <2>3, <2>4, <2>9, UDPKept DEF Rest
<1>8. QED BY <1>4, <1>6, <1>7 DEF UDPListening, c

LEMMA RestUDPConnected ==
    ASSUME IInv, UDPConnected
    PROVE  Rest'
<1> DEFINE h == udpThr.p2p
           c == [conn[h] EXCEPT !.guestUDP = udpThr.pkt.from, !.status = P2P_PUNCHING]
<1>1. /\ h \in Tcp /\ conn[h].keyword # None /\ udpThr.pkt.from \in Tcp
      /\ thr[udpThr.pkt.from].pc # "none"
      /\ peer[udpThr.pkt.from].keyword = conn[h].keyword
      /\ peer[udpThr.pkt.from].role = "GUEST"
      /\ fault = "no"
  BY HoldsFacts DEF UDPConnected, Alive, ServerUDPType
<1>2. conn[h] \in Connection
  BY <1>1 DEF IInv, TypeOK
<1>3. /\ c \in Connection /\ c.main = conn[h].main /\ c.mainId = conn[h].mainId
      /\ c.keyword = conn[h].keyword /\ c.guest = conn[h].guest
      /\ c.status = P2P_PUNCHING /\ c.guestUDP = udpThr.pkt.from /\ c.mainUDP = conn[h].mainUDP
  BY <1>1, <1>2, StatusType DEF Connection
<1> HIDE DEF c
<1>4. CASE IgnoreDatagram
  BY <1>1, <1>4, RestIgnoreDatagram
<1>5. ASSUME InState(h, P2P_UDP_LISTENING), conn[h].main = h
      PROVE  /\ conn[h].guest # None /\ Live(conn[h].guest)
             /\ peer[conn[h].guest].role = "GUEST"
             /\ peer[conn[h].guest].keyword = conn[h].keyword
             /\ conn[h].mainUDP # None /\ thr[conn[h].mainUDP].pc # "none"
             /\ peer[conn[h].mainUDP].role = "HOST"
             /\ peer[conn[h].mainUDP].keyword = conn[h].keyword
  <2>1. SessionInv!(h) /\ AddressInv!(h)
    BY <1>1 DEF IInv, SessionInv, AddressInv
  <2>2. conn[h].status >= P2P_TCP_CONNECTED /\ conn[h].status >= P2P_UDP_LISTENING
    BY <1>5 DEF InState, P2P_TCP_CONNECTED, P2P_UDP_LISTENING
  <2>3. QED BY <1>5, <2>1, <2>2
<1>6. CASE /\ InState(h, P2P_UDP_LISTENING)
           /\ DumpP2PConnection(c) # "no" /\ Crash(DumpP2PConnection(c))
  <2>1. DumpP2PConnection(c) = "null_main" /\ conn[h].main = None
    BY <1>1, <1>3, <1>5, <1>6, DumpOrphan, ListedFacts
  <2>2. QED
    BY <1>1, <1>6, <2>1, CrashRest, NoneAssumption
<1>7. CASE /\ InState(h, P2P_UDP_LISTENING)
           /\ DumpP2PConnection(c) = "no"
           /\ conn' = [conn EXCEPT ![h] = c]
           /\ udpThr' = UDPIdle
           /\ UNCHANGED <<link, peer, c2s, udp, serverVars, accepting, thr, fault, past>>
  <2>1. UNCHANGED <<link, peer, c2s, udp, m_TCPList, m_P2PConnectList, thr, fault>>
    BY <1>7 DEF serverVars
  <2>2. conn[h].main = h
    BY <1>1, <1>3, <1>7, DumpResult, ListedFacts
  <2>3. KeywordsKept /\ FaultInv'
    BY <1>1, <1>3, <1>7, <2>1 DEF KeywordsKept, FaultInv, IInv, TypeOK
  <2>4. ThreadInv' /\ SameLife
    BY <2>1, <2>3, ThreadsUntouched
  <2>5. PICK g \in Tcp : g = c.guest
    BY <1>3, <1>5, <1>7, <2>2 DEF Connection
  <2>6. /\ Live(g)' /\ peer[g].role = "GUEST" /\ peer[g].keyword = c.keyword /\ g # None
    BY <1>3, <1>5, <1>7, <2>2, <2>4, <2>5 DEF SameLife
  <2>7. c.status >= P2P_TCP_CONNECTED
    BY <1>3 DEF P2P_TCP_CONNECTED, P2P_PUNCHING
  <2>8. /\ c.mainUDP # None /\ thr[c.mainUDP].pc # "none"
        /\ peer[c.mainUDP].role = "HOST" /\ peer[c.mainUDP].keyword = c.keyword
        /\ c.guestUDP # None /\ thr[c.guestUDP].pc # "none"
        /\ peer[c.guestUDP].role = "GUEST" /\ peer[c.guestUDP].keyword = c.keyword
    BY <1>1, <1>3, <1>5, <1>7, <2>2, NoneAssumption
  <2>9. SessionInv' /\ AddressInv' /\ UniqueKeyword' /\ ListedUnderLiveId'
    BY <1>1, <1>3, <1>7, <2>1, <2>2, <2>4, <2>5, <2>6, <2>7, <2>8, SessionChanged
  <2>10. QED
    BY <1>7, <2>1, <2>3, <2>4, <2>9, UDPKept DEF Rest
<1>8. QED BY <1>4, <1>6, <1>7 DEF UDPConnected, c

LEMMA RestClient ==
    ASSUME IInv, NEW t \in Tcp, Client(t)
    PROVE  Rest'
<1>1. link[t] # "none" /\ UNCHANGED <<m_TCPList, m_P2PConnectList, conn, thr, udpThr, fault>>
  BY DEF Client, ClientSend, SendUDPToServer, ClientGone, serverVars
<1>2. /\ thr[t].pc # "none" /\ peer[t].role \in Role /\ peer[t].keyword \in Keyword
  BY <1>1 DEF IInv, ThreadInv
<1>3. \A u \in Tcp : peer'[u].role = peer[u].role /\ peer'[u].keyword = peer[u].keyword
  <2>1. ASSUME NEW type, ClientSend(t, type)
        PROVE  \A u \in Tcp : peer'[u].role = peer[u].role /\ peer'[u].keyword = peer[u].keyword
    BY <2>1 DEF ClientSend, IInv, TypeOK
  <2>2. QED
    BY <2>1 DEF Client, SendUDPToServer, ClientGone
<1>4. FaultInv'
  BY <1>1 DEF IInv, FaultInv
<1>5. \A d \in Datagram : FromClient(d) => FromClient(d)'
  BY <1>1, <1>3 DEF FromClient, Datagram
<1>6. UDPInv'
  <2>1. udp \subseteq Datagram
    BY DEF IInv, TypeOK
  <2>2. \A d \in udp' : FromClient(d)'
    <3>1. CASE udp' = udp
      BY <1>5, <2>1, <3>1 DEF IInv, UDPInv
    <3>2. CASE SendUDPToServer(t)
      <4> DEFINE d == [type |-> IF peer[t].role = "HOST" THEN "UPT_WAITING" ELSE "UPT_CONNECT",
                       keyword |-> peer[t].keyword, from |-> t]
      <4>1. udp' = udp \cup {d} /\ UNCHANGED <<peer, thr>>
        BY <3>2 DEF SendUDPToServer
      <4>2. /\ d.type \in ServerUDPType /\ d.keyword = peer[t].keyword /\ d.from = t
            /\ (d.type = "UPT_WAITING") = (peer[t].role = "HOST") /\ d \in Datagram
        BY <1>2 DEF ServerUDPType, Datagram
      <4> HIDE DEF d
      <4>3. FromClient(d)
        BY <1>2, <4>2 DEF FromClient, Role
      <4>4. QED
        BY <1>5, <2>1, <4>1, <4>2, <4>3 DEF IInv, UDPInv
    <3>3. QED
      BY <3>1, <3>2 DEF Client, ClientSend, ClientGone
  <2>3. udpThr.pkt # None => udpThr.pkt \in Datagram /\ FromClient(udpThr.pkt)'
    BY <1>1, <1>5 DEF IInv, UDPInv
  <2>4. QED
    BY <1>1, <2>2, <2>3 DEF IInv, UDPInv
<1>7. ThreadInv'
  <2> SUFFICES ASSUME NEW u \in Tcp PROVE ThreadInv!(u)'
    BY DEF ThreadInv
  <2>1. ThreadInv!(u) /\ c2s[u] \in Seq(ClientTCPType)
    BY DEF IInv, ThreadInv, TypeOK
  <2>2. /\ (link'[u] = "none") = (link[u] = "none")
        /\ link[u] = "shut" => link'[u] = "shut"
    <3>1. CASE link' = link
      BY <3>1
    <3>2. CASE ClientGone(t)
      BY <1>1, <3>2 DEF ClientGone, IInv, TypeOK
    <3>3. QED
      BY <3>1, <3>2 DEF Client, ClientSend, SendUDPToServer
  <2>3. /\ thr[u].pc = "none" => c2s'[u] = <<>>
        /\ \A n \in 1 .. Len(c2s'[u]) :
             /\ c2s'[u][n] = "TPT_WAITING" => peer[u].role = "HOST"
             /\ c2s'[u][n] = "TPT_CONNECT" => peer[u].role = "GUEST"
    <3>1. CASE c2s'[u] = c2s[u]
      BY <2>1, <3>1
    <3>2. ASSUME NEW type \in ClientTCPType, ClientSend(t, type), u = t
          PROVE  <2>3!1 /\ <2>3!2
      <4>1. c2s'[u] = Append(c2s[u], type)
        BY <3>2 DEF ClientSend, IInv, TypeOK
      <4>2. /\ type = "TPT_WAITING" => peer[u].role = "HOST"
            /\ type = "TPT_CONNECT" => peer[u].role = "GUEST"
        BY <1>2, <3>2 DEF ClientSend, ClientMaySend, Greeting, Role
      <4>3. \A n \in 1 .. Len(c2s'[u]) : c2s'[u][n] = IF n \in 1 .. Len(c2s[u]) THEN c2s[u][n] ELSE type
        BY <2>1, <4>1
      <4>4. QED
        BY <1>2, <2>1, <3>2, <4>2, <4>3
    <3>3. CASE u # t /\ \E type \in ClientTCPType : ClientSend(t, type)
      <4>1. c2s'[u] = c2s[u]
        BY <3>3 DEF ClientSend, IInv, TypeOK
      <4>2. QED BY <2>1, <4>1
    <3>4. QED
      BY <3>1, <3>2, <3>3 DEF Client, SendUDPToServer, ClientGone
  <2>4. QED
    BY <1>1, <1>3, <2>1, <2>2, <2>3
<1>8. SessionInv'
  <2> SUFFICES ASSUME NEW h \in Tcp PROVE SessionInv!(h)'
    BY DEF SessionInv
  <2>1. SessionInv!(h) /\ conn[h].guest \in Tcp \cup {None}
    BY DEF IInv, SessionInv, TypeOK, Connection
  <2>2. \A u \in Tcp : Live(u) => Live(u)'
    BY <1>1 DEF Live
  <2>3. QED
    BY <1>1, <1>3, <2>1, <2>2
<1>9. AddressInv'
  <2> SUFFICES ASSUME NEW h \in Tcp PROVE AddressInv!(h)'
    BY DEF AddressInv
  <2>1. /\ AddressInv!(h)
        /\ conn[h].mainUDP \in Tcp \cup {None} /\ conn[h].guestUDP \in Tcp \cup {None}
    BY DEF IInv, AddressInv, TypeOK, Connection
  <2>2. QED
    BY <1>1, <1>3, <2>1
<1>10. UniqueKeyword' /\ ListedUnderLiveId'
  BY <1>1 DEF IInv, UniqueKeyword, ListedUnderLiveId
<1>11. QED
  BY <1>4, <1>6, <1>7, <1>8, <1>9, <1>10 DEF Rest

-----------------------------------------------------------------------------
(* The theorems                                                            *)

LEMMA InvInit == Init => IInv
BY TypeInit, RestInit DEF IInv, Rest

LEMMA InvNext == IInv /\ [Next]_vars => IInv'
<1> SUFFICES ASSUME IInv, [Next]_vars PROVE IInv'
  OBVIOUS
<1>1. TypeOK /\ ThreadInv /\ UDPInv /\ AddressInv /\ \A h \in Tcp : conn[h].main \in {None, h}
  BY DEF IInv, SessionInv
<1>2. ASSUME TypeOK', Rest' PROVE IInv'
  BY <1>2 DEF IInv, Rest
<1>3. CASE UNCHANGED vars
  <2>1. /\ UNCHANGED <<link, peer, c2s, sent, udp, m_TCPList, m_dwTCPid, m_P2PConnectList, conn>>
        /\ UNCHANGED <<accepting, thr, udpThr, fault, past>>
    BY <1>3 DEF vars, netVars, serverVars
  <2>2. TypeOK'
    BY <1>1, <2>1 DEF TypeOK, PacketBags
  <2>3. KeywordsKept /\ FaultInv'
    BY <2>1 DEF KeywordsKept, FaultInv, IInv
  <2>4. ThreadInv' /\ SameLife
    BY <2>1, <2>3, ThreadsUntouched
  <2>5. Rest'
    BY <2>1, <2>3, <2>4, SessionsKept, UDPKept DEF Rest
  <2>6. QED BY <1>2, <2>2, <2>5
<1>4. ASSUME NEW t \in Tcp, AcceptTCPSocketProcess(t) PROVE IInv'
  BY <1>1, <1>2, <1>4, TypeListen, RestListen
<1>5. ASSUME NEW t \in Tcp, RecvThread(t) PROVE IInv'
  <2>1. CASE Waiting(t)
    BY <1>1, <1>2, <2>1, TypeFind, RestWaiting
  <2>2. ASSUME NEW type \in SessionPacket, FindSession(t, type) PROVE IInv'
    BY <1>1, <1>2, <2>2, TypeFind, RestFindSession
  <2>3. CASE DataProxy(t)
    BY <1>1, <1>2, <2>3, TypeFind, RestDataProxy
  <2>4. CASE TCPConnected(t)
    <3>1. thr[t].p2p \in Tcp
      BY <2>4, AtFacts DEF TCPConnected
    <3>2. QED
      BY <1>1, <1>2, <2>4, <3>1, TypeApply, RestTCPConnected
  <2>5. CASE SetP2POK(t)
    <3>1. thr[t].p2p \in Tcp
      BY <2>5, AtFacts DEF SetP2POK
    <3>2. QED
      BY <1>1, <1>2, <2>5, <3>1, TypeApply, RestSetP2POK
  <2>6. CASE TCPProxyRequest(t)
    <3>1. thr[t].p2p \in Tcp
      BY <2>6, AtFacts DEF TCPProxyRequest
    <3>2. QED
      BY <1>1, <1>2, <2>6, <3>1, TypeApply, RestTCPProxyRequest
  <2>7. CASE Reply(t)
    BY <1>1, <1>2, <2>7, TypeReply, RestReply
  <2>8. CASE TCPEndProcess(t)
    BY <1>1, <1>2, <2>8, TypeEnd, RestTCPEndProcess
  <2>9. CASE RemoveTCPID(t)
    BY <1>1, <1>2, <2>9, TypeEnd, RestRemoveTCPID
  <2>10. QED
    BY <1>5, <2>1, <2>2, <2>3, <2>4, <2>5, <2>6, <2>7, <2>8, <2>9 DEF RecvThread
<1>6. ASSUME NEW t \in Tcp, Client(t) PROVE IInv'
  BY <1>1, <1>2, <1>6, TypeClient, RestClient
<1>7. CASE CreateTCPID
  <2>1. TypeOK'
    <3>1. accepting \in Tcp
      BY <1>1, <1>7 DEF CreateTCPID, TypeOK
    <3>2. QED BY <1>1, <1>7, <3>1, TypeListen
  <2>2. accepting \in Tcp
    BY <1>1, <1>7 DEF CreateTCPID, TypeOK
  <2>3. QED
    BY <1>2, <1>7, <2>1, <2>2, RestListen
<1>8. CASE RecvUDPPacketProcess
  BY <1>1, <1>2, <1>8, TypeUDP, RestRecvUDP
<1>9. CASE UDPListening
  BY <1>1, <1>2, <1>9, TypeUDP, RestUDPListening
<1>10. CASE UDPConnected
  BY <1>1, <1>2, <1>10, TypeUDP, RestUDPConnected
<1>11. QED
  BY <1>3, <1>4, <1>5, <1>6, <1>7, <1>8, <1>9, <1>10 DEF Next

(* A receive thread that exists has existed since accept.                  *)
LEMMA ThreadStays ==
    ASSUME IInv, [Next]_vars, NEW t \in Tcp, thr'[t].pc = "none"
    PROVE  thr[t].pc = "none"
<1>1. IInv'
  BY InvNext
<1>2. link'[t] = "none" /\ ((thr[t].pc = "none") = (link[t] = "none"))
  BY <1>1 DEF IInv, ThreadInv
<1>3. link \in [Tcp -> {"none", "up", "shut"}]
  BY DEF IInv, TypeOK
<1>4. link[t] = "none"
  <2>1. CASE UNCHANGED vars
    BY <1>2, <2>1 DEF vars, netVars
  <2>2. ASSUME NEW u \in Tcp, AcceptTCPSocketProcess(u) PROVE link[t] = "none"
    BY <1>2, <1>3, <2>2 DEF AcceptTCPSocketProcess
  <2>3. ASSUME NEW u \in Tcp, Client(u) PROVE link[t] = "none"
    BY <1>2, <1>3, <2>3 DEF Client, ClientSend, SendUDPToServer, ClientGone
  <2>4. CASE \E why : Crash(why)
    BY <1>2, <2>4 DEF Crash
  <2>5. ASSUME NEW g, Done(g) PROVE link[t] = "none"
    BY <1>2, <2>5 DEF Done
  <2>6. ASSUME NEW u \in Tcp, RecvThread(u) PROVE link[t] = "none"
    <3>1. \/ UNCHANGED link
          \/ \E why : Crash(why)
          \/ \E g : Done(g)
      <4>1. CASE Waiting(u)
        BY <4>1 DEF Waiting
      <4>2. CASE \E type \in SessionPacket : FindSession(u, type)
        BY <4>2 DEF FindSession
      <4>3. CASE DataProxy(u)
        BY <4>3 DEF DataProxy
      <4>4. CASE TCPConnected(u)
        BY <4>4 DEF TCPConnected, Refuse, netVars
      <4>5. CASE SetP2POK(u)
        BY <4>5 DEF SetP2POK, Refuse, netVars
      <4>6. CASE TCPProxyRequest(u)
        BY <4>6 DEF TCPProxyRequest, Refuse, netVars
      <4>7. CASE Reply(u)
        BY <4>7 DEF Reply
      <4>8. CASE TCPEndProcess(u)
        BY <4>8 DEF TCPEndProcess, MainTCPDisconnect
      <4>9. CASE RemoveTCPID(u)
        BY <4>9 DEF RemoveTCPID, netVars
      <4>10. QED
        BY <2>6, <4>1, <4>2, <4>3, <4>4, <4>5, <4>6, <4>7, <4>8, <4>9 DEF RecvThread
    <3>2. QED
      BY <1>2, <2>4, <2>5, <3>1
  <2>7. CASE CreateTCPID
    BY <1>2, <2>7 DEF CreateTCPID
  <2>8. CASE RecvUDPPacketProcess
    BY <1>2, <2>8 DEF RecvUDPPacketProcess, netVars
  <2>9. CASE UDPListening
    BY <1>2, <2>4, <2>9 DEF UDPListening, IgnoreDatagram, netVars
  <2>10. CASE UDPConnected
    BY <1>2, <2>4, <2>10 DEF UDPConnected, IgnoreDatagram, netVars
  <2>11. QED
    BY <2>1, <2>2, <2>3, <2>6, <2>7, <2>8, <2>9, <2>10 DEF Next
<1>5. QED
  BY <1>2, <1>4

(* The inductive invariant holds in every reachable state of the server.   *)
THEOREM Invariance == Spec => []IInv
BY InvInit, InvNext, PTL DEF Spec

(* Every variable has its type: no operation of P2PServer.cpp or           *)
(* P2PConnection.cpp leaves its domain, the tcpid counter wraps.           *)
THEOREM TypeCorrectness == Spec => []TypeOK
<1>1. IInv => TypeOK
  BY DEF IInv
<1>2. QED BY <1>1, Invariance, PTL

(* Two hosts never hold the same keyword (P2PServer.cpp:296-309).          *)
THEOREM KeywordUniqueness == Spec => []UniqueKeyword
<1>1. IInv => UniqueKeyword
  BY DEF IInv
<1>2. QED BY <1>1, Invariance, PTL

(* A session is listed under the tcpid its host still owns, whatever ids   *)
(* wrap around (P2PServer.cpp:160-168, 186-211).                           *)
THEOREM LiveIds == Spec => []ListedUnderLiveId
<1>1. IInv => ListedUnderLiveId
  BY DEF IInv
<1>2. QED BY <1>1, Invariance, PTL

(* A listed session has a guest exactly when its status says so, and both  *)
(* sockets have threads that will still report their end                   *)
(* (P2PConnection.cpp:272-328).                                            *)
THEOREM MembersLive == Spec => []SessionMembersLive
<1>1. IInv => SessionMembersLive
  <2> SUFFICES ASSUME IInv, NEW i \in Id, m_P2PConnectList[i] # None
               PROVE  SessionMembersLive!(i)
    BY DEF SessionMembersLive
  <2>1. PICK h \in Tcp : h = m_P2PConnectList[i]
    BY DEF IInv, TypeOK
  <2>2. Listed(h)
    BY <2>1 DEF Listed
  <2>3. conn[h].main = h /\ Live(h) /\ SessionInv!(h)
    BY <2>2, ListedFacts DEF IInv, SessionInv
  <2>4. QED
    BY <2>1, <2>3 DEF Live
<1>2. QED BY <1>1, Invariance, PTL

(* No socket is a party of two sessions, so the loop of TCPEndProcess may  *)
(* stop at the first one (P2PServer.cpp:148-164).                          *)
THEOREM SingleSession == Spec => []OneSessionPerSocket
<1>1. IInv => OneSessionPerSocket
  <2> SUFFICES ASSUME IInv, NEW i \in Id, NEW j \in Id,
                      m_P2PConnectList[i] # None, m_P2PConnectList[j] # None
               PROVE  OneSessionPerSocket!(i, j)
    BY DEF OneSessionPerSocket
  <2>1. PICK g \in Tcp, h \in Tcp : g = m_P2PConnectList[i] /\ h = m_P2PConnectList[j]
    BY DEF IInv, TypeOK
  <2>2. /\ conn[g].main = g /\ conn[h].main = h /\ peer[h].role = "HOST"
        /\ conn[g].mainId = i /\ conn[h].mainId = j
    <3>1. Listed(g) /\ Listed(h)
      BY <2>1 DEF Listed
    <3>2. QED
      BY <2>1, <3>1, ListedFacts DEF IInv, ListedUnderLiveId
  <2>3. conn[g].guest # h
    BY <2>2, NoneAssumption DEF IInv, SessionInv
  <2>4. i # j /\ conn[g].guest # None => conn[g].guest # conn[h].guest
    BY <2>2, OneGuest
  <2>5. QED BY <2>1, <2>2, <2>3, <2>4
<1>2. QED BY <1>1, Invariance, PTL

(* The addresses both sides are told to punch to come from a client of the *)
(* other role with the session's keyword (P2PConnection.cpp:173-226).      *)
THEOREM PunchAddressesRight == Spec => []PunchAddresses
<1>1. IInv => PunchAddresses
  <2> SUFFICES ASSUME IInv, NEW h \in Tcp, Listed(h)
               PROVE  PunchAddresses!(h)
    BY DEF PunchAddresses
  <2>1. conn[h].main = h /\ AddressInv!(h) /\ conn[h].status \in Nat
    <3>1. conn[h].status \in P2P_STATUS
      BY DEF IInv, TypeOK, Connection
    <3>2. QED
      BY <3>1, ListedFacts, StatusType DEF IInv, AddressInv
  <2>2. /\ conn[h].status \in P2P_UDP_LISTENING .. P2P_CONNECTED => conn[h].status >= P2P_UDP_LISTENING
        /\ conn[h].status \in P2P_UDP_CONNECTED .. P2P_CONNECTED => conn[h].status >= P2P_UDP_CONNECTED
    BY <2>1 DEF P2P_UDP_LISTENING, P2P_UDP_CONNECTED, P2P_CONNECTED
  <2>3. QED BY <2>1, <2>2
<1>2. QED BY <1>1, Invariance, PTL

(* The server follows a NULL m_pMainTCPServer only in a session whose host *)
(* left after another thread found it (P2PServer.cpp:328, 362, 398, 437),  *)
(* and never follows a NULL m_pConnTCPServer.                              *)
THEOREM FaultsAreOrphans == Spec => []FaultOnlyOnOrphan
<1>1. IInv => FaultOnlyOnOrphan
  <2> SUFFICES ASSUME IInv, fault = "null_main"
               PROVE  \E h \in {thr[t].p2p : t \in Tcp} \cup {udpThr.p2p} :
                         h # None /\ ~Listed(h) /\ conn[h].main = None
                                  /\ thr[h].pc \in {"removing", "stopped"}
    BY DEF IInv, FaultInv, FaultOnlyOnOrphan
  <2>1. PICK h \in {thr[t].p2p : t \in Tcp} \cup {udpThr.p2p} :
                h # None /\ conn[h].main = None /\ conn[h].keyword # None
    BY DEF IInv, FaultInv
  <2>2. h \in Tcp
    BY <2>1 DEF IInv, TypeOK, Thread, UDPThread
  <2>3. SessionInv!(h)
    BY <2>2 DEF IInv, SessionInv
  <2>4. ~Listed(h)
    BY <2>1, <2>2, ListedFacts
  <2>5. QED BY <2>1, <2>3, <2>4
<1>2. QED BY <1>1, Invariance, PTL

-----------------------------------------------------------------------------
(* The server implements the table of rooms.  IInv says which rooms there  *)
(* are; each action of P2PServer is then an action of Rendezvous or leaves *)
(* the table alone.                                                        *)

(* A socket nobody connected to has no keyword yet.                        *)
Fresh == \A t \in Tcp : thr[t].pc = "none" => peer[t].keyword = None

LEMMA FreshInit == Init => Fresh
BY DEF Init, Fresh

(* Only accept gives a socket its keyword.                                 *)
LEMMA KeywordStays ==
    ASSUME IInv, Next, \A t \in Tcp : ~AcceptTCPSocketProcess(t)
    PROVE  Asks' = Asks
<1>1. CASE UNCHANGED peer
  BY <1>1 DEF Asks
<1>2. ASSUME NEW t \in Tcp, Client(t) PROVE Asks' = Asks
  <2>1. ASSUME NEW type \in ClientTCPType, ClientSend(t, type) PROVE Asks' = Asks
    <3>1. peer \in [Tcp -> [role : Role \cup {None}, keyword : Keyword \cup {None},
                            greeted : BOOLEAN, asked : Nat]]
      BY DEF IInv, TypeOK
    <3>2. PICK g, a : peer' = [peer EXCEPT ![t] = [peer[t] EXCEPT !.greeted = g, !.asked = a]]
      BY <2>1 DEF ClientSend
    <3>3. \A u \in Tcp : peer'[u].keyword = peer[u].keyword
      BY <3>1, <3>2
    <3>4. QED
      BY <3>3 DEF Asks
  <2>2. QED
    BY <1>1, <1>2, <2>1 DEF Client, SendUDPToServer, ClientGone
<1>3. ASSUME NEW t \in Tcp, RecvThread(t) PROVE UNCHANGED peer
  <2>1. CASE Waiting(t)
    BY <2>1 DEF Waiting
  <2>2. CASE \E type \in SessionPacket : FindSession(t, type)
    BY <2>2 DEF FindSession
  <2>3. CASE DataProxy(t)
    BY <2>3 DEF DataProxy, Crash
  <2>4. CASE TCPConnected(t)
    BY <2>4 DEF TCPConnected, Refuse, Crash, netVars
  <2>5. CASE SetP2POK(t)
    BY <2>5 DEF SetP2POK, Refuse, Crash, netVars
  <2>6. CASE TCPProxyRequest(t)
    BY <2>6 DEF TCPProxyRequest, Refuse, Crash, netVars
  <2>7. CASE Reply(t)
    BY <2>7 DEF Reply
  <2>8. CASE TCPEndProcess(t)
    BY <2>8 DEF TCPEndProcess
  <2>9. CASE RemoveTCPID(t)
    BY <2>9 DEF RemoveTCPID, netVars
  <2>10. QED
    BY <1>3, <2>1, <2>2, <2>3, <2>4, <2>5, <2>6, <2>7, <2>8, <2>9 DEF RecvThread
<1>4. CASE CreateTCPID \/ RecvUDPPacketProcess \/ UDPListening \/ UDPConnected
  BY <1>1, <1>4 DEF CreateTCPID, RecvUDPPacketProcess, UDPListening, UDPConnected,
                    IgnoreDatagram, Crash, netVars
<1>5. QED
  BY <1>1, <1>2, <1>3, <1>4 DEF Next

LEMMA AcceptKeyword ==
    ASSUME IInv, NEW t \in Tcp, AcceptTCPSocketProcess(t)
    PROVE  \E k \in Keyword :
              \A u \in Tcp : peer'[u].keyword = IF u = t THEN k ELSE peer[u].keyword
<1>1. PICK r \in Role, k \in Keyword : peer' = [peer EXCEPT ![t].role = r, ![t].keyword = k]
  BY DEF AcceptTCPSocketProcess
<1>2. peer \in [Tcp -> [role : Role \cup {None}, keyword : Keyword \cup {None},
                        greeted : BOOLEAN, asked : Nat]]
  BY DEF IInv, TypeOK
<1>3. peer' = [peer EXCEPT ![t] = [peer[t] EXCEPT !.role = r, !.keyword = k]]
  BY <1>1
<1>4. [peer[t] EXCEPT !.role = r, !.keyword = k].keyword = k
  BY <1>2
<1>5. QED
  BY <1>2, <1>3, <1>4

LEMMA FreshNext == IInv /\ Fresh /\ [Next]_vars => Fresh'
<1> SUFFICES ASSUME IInv, Fresh, [Next]_vars, NEW t \in Tcp, thr'[t].pc = "none"
             PROVE  peer'[t].keyword = None
  BY DEF Fresh
<1>1. thr[t].pc = "none" /\ peer[t].keyword = None
  BY ThreadStays DEF Fresh
<1>2. CASE UNCHANGED vars
  BY <1>1, <1>2 DEF vars, netVars
<1>3. ASSUME NEW u \in Tcp, AcceptTCPSocketProcess(u) PROVE peer'[t].keyword = None
  <2>1. thr' = [thr EXCEPT ![u] = Idle] /\ thr \in [Tcp -> Thread]
    BY <1>3 DEF AcceptTCPSocketProcess, IInv, TypeOK
  <2>2. t # u
    BY <2>1 DEF Idle
  <2>3. PICK k \in Keyword :
           \A v \in Tcp : peer'[v].keyword = IF v = u THEN k ELSE peer[v].keyword
    BY <1>3, AcceptKeyword
  <2>4. QED
    BY <1>1, <2>2, <2>3
<1>4. CASE Next /\ \A u \in Tcp : ~AcceptTCPSocketProcess(u)
  <2>1. Asks' = Asks
    BY <1>4, KeywordStays
  <2>2. QED
    BY <1>1, <2>1 DEF Asks
<1>5. QED
  BY <1>2, <1>3, <1>4

-----------------------------------------------------------------------------
(* The table                                                               *)

LEMMA StageValues ==
    /\ StageOf(P2P_TCP_LISTENING) = "waiting"
    /\ StageOf(P2P_TCP_CONNECTED) = "paired"
    /\ StageOf(P2P_UDP_LISTENING) = "addressed"
    /\ StageOf(P2P_PUNCHING) = "punching"
    /\ StageOf(P2P_CONNECTED) = "connected"
BY DEF StageOf, P2P_TCP_LISTENING, P2P_TCP_CONNECTED, P2P_UDP_LISTENING, P2P_PUNCHING,
       P2P_CONNECTED

LEMMA RoomsKept ==
    ASSUME UNCHANGED <<conn, m_P2PConnectList>>
    PROVE  Rooms' = Rooms
BY DEF Rooms, RoomOf, Listed

(* Two listed sessions are two rooms: each names its own host.             *)
LEMMA RoomFacts ==
    ASSUME IInv, NEW h \in Tcp
    PROVE  /\ Listed(h) <=> conn[h].main = h
           /\ Listed(h) => RoomOf(h) \in Rooms /\ RoomOf(h).host = h
<1>1. Listed(h) => conn[h].main = h
  BY ListedFacts
<1>2. conn[h].main = h => Listed(h)
  BY ListedFacts DEF Listed
<1>3. QED
  BY <1>1, <1>2 DEF Rooms, RoomOf

(* A change of one listed session changes its room alone.                  *)
LEMMA RoomChanged ==
    ASSUME IInv, NEW h \in Tcp, Listed(h), NEW c,
           conn' = [conn EXCEPT ![h] = c], UNCHANGED m_P2PConnectList
    PROVE  /\ Rooms' = (Rooms \ {RoomOf(h)}) \cup {RoomOf(h)'}
           /\ RoomOf(h)' = [keyword |-> c.keyword, host |-> c.main,
                            guest |-> c.guest, stage |-> StageOf(c.status)]
<1>1. \A u \in Tcp : Listed(u)' <=> Listed(u)
  BY DEF Listed
<1>2. conn \in [Tcp -> Connection]
  BY DEF IInv, TypeOK
<1>3. conn'[h] = c
  BY <1>2
<1>4. \A u \in Tcp \ {h} : RoomOf(u)' = RoomOf(u)
  BY <1>2 DEF RoomOf
<1>5. \A u \in Tcp \ {h} : Listed(u) => RoomOf(u) # RoomOf(h)
  <2> SUFFICES ASSUME NEW u \in Tcp \ {h}, Listed(u) PROVE RoomOf(u) # RoomOf(h)
    OBVIOUS
  <2>1. RoomOf(u).host = u /\ RoomOf(h).host = h
    BY RoomFacts
  <2>2. QED
    BY <2>1
<1>6. Rooms' = {RoomOf(u)' : u \in {v \in Tcp : Listed(v)}}
  BY <1>1 DEF Rooms
<1>7. Rooms = {RoomOf(u) : u \in {v \in Tcp : Listed(v)}}
  BY DEF Rooms
<1>8. Rooms' = (Rooms \ {RoomOf(h)}) \cup {RoomOf(h)'}
  BY <1>4, <1>5, <1>6, <1>7
<1>9. QED
  BY <1>3, <1>8 DEF RoomOf

(* Outside every room are a host that holds no session and a guest that is *)
(* in none.                                                                *)
LEMMA Outsider ==
    ASSUME IInv, NEW t \in Tcp,
           \/ peer[t].role = "HOST" /\ ~Listed(t)
           \/ peer[t].role = "GUEST" /\ \A h \in Tcp : Listed(h) => conn[h].guest # t
    PROVE  R!Outside(t)
<1> SUFFICES ASSUME NEW h \in Tcp, Listed(h)
             PROVE  t # conn[h].main /\ t # conn[h].guest
  BY DEF R!Outside, Rooms, RoomOf
<1>1. conn[h].main = h /\ peer[h].role = "HOST"
  BY ListedFacts
<1>2. conn[h].guest = t => peer[t].role = "GUEST"
  BY NoneAssumption DEF IInv, SessionInv
<1>3. QED
  BY <1>1, <1>2

(* A step that touches neither the sessions nor the keywords.              *)
LEMMA RoomsQuiet ==
    ASSUME UNCHANGED <<conn, m_P2PConnectList>>, Asks' = Asks
    PROVE  [R!Next]_(R!vars)
BY RoomsKept DEF R!vars

-----------------------------------------------------------------------------
(* The actions of the server, seen on the table                            *)

LEMMA AcceptArrives ==
    ASSUME IInv, Fresh, NEW t \in Tcp, AcceptTCPSocketProcess(t)
    PROVE  R!Arrive(t)
<1>1. /\ link[t] = "none"
      /\ UNCHANGED <<conn, m_P2PConnectList>>
  BY DEF AcceptTCPSocketProcess, serverVars
<1>2. Asks[t] = None
  <2>1. thr[t].pc = "none"
    BY <1>1 DEF IInv, ThreadInv
  <2>2. QED
    BY <2>1 DEF Fresh, Asks
<1>3. PICK k \in Keyword :
         \A u \in Tcp : peer'[u].keyword = IF u = t THEN k ELSE peer[u].keyword
  BY AcceptKeyword
<1>5. Asks' = [Asks EXCEPT ![t] = k]
  BY <1>3 DEF Asks
<1>6. Rooms' = Rooms
  BY <1>1, RoomsKept
<1>7. QED
  BY <1>2, <1>5, <1>6 DEF R!Arrive

LEMMA WaitingRegisters ==
    ASSUME IInv, NEW t \in Tcp, Waiting(t), Asks' = Asks
    PROVE  [R!Next]_(R!vars)
<1>1. peer[t].role = "HOST" /\ peer[t].keyword \in Keyword
  BY DispatchFacts DEF Waiting
<1>2. PICK i \in Id :
         \/ /\ FindP2PConnection(peer[t].keyword, None)
            /\ m_P2PConnectList' = [m_P2PConnectList EXCEPT ![i] = t]
            /\ conn' = [conn EXCEPT ![t] =
                  [NoConnection EXCEPT !.keyword = peer[t].keyword, !.main = t,
                                       !.mainId = i, !.status = P2P_TCP_LISTENING]]
            /\ m_TCPList[i] = t
         \/ UNCHANGED <<m_P2PConnectList, conn>>
  BY DEF Waiting
<1>3. CASE UNCHANGED <<m_P2PConnectList, conn>>
  BY <1>3, RoomsQuiet
<1>4. CASE /\ FindP2PConnection(peer[t].keyword, None)
           /\ m_P2PConnectList' = [m_P2PConnectList EXCEPT ![i] = t]
           /\ conn' = [conn EXCEPT ![t] =
                 [NoConnection EXCEPT !.keyword = peer[t].keyword, !.main = t,
                                      !.mainId = i, !.status = P2P_TCP_LISTENING]]
           /\ m_TCPList[i] = t
  <2> DEFINE new == [keyword |-> Asks[t], host |-> t, guest |-> None, stage |-> "waiting"]
  <2>1. Asks[t] = peer[t].keyword
    BY DEF Asks
  <2>2. \A h \in Tcp : Listed(h) => conn[h].keyword # Asks[t]
    <3>1. \A j \in Id : m_P2PConnectList[j] # None
                        => conn[m_P2PConnectList[j]].keyword # peer[t].keyword
      BY <1>4, NoneAssumption DEF FindP2PConnection, Hit, IInv, TypeOK
    <3>2. QED
      BY <2>1, <3>1, NoneAssumption DEF Listed
  <2>3. ~Listed(t)
    BY <2>1, <2>2, ListedFacts
  <2>4. R!Outside(t)
    BY <1>1, <2>3, Outsider
  <2>5. \A r \in Rooms : r.keyword # Asks[t]
    BY <2>2 DEF Rooms, RoomOf
  <2>6. m_P2PConnectList[i] = None
    <3>1. m_P2PConnectList[i] # None => m_TCPList[i] = m_P2PConnectList[i]
      BY DEF IInv, ListedUnderLiveId
    <3>2. QED
      BY <1>4, <2>3, <3>1 DEF Listed
  <2>7. \A u \in Tcp : Listed(u)' <=> Listed(u) \/ u = t
    <3>1. m_P2PConnectList \in [Id -> Tcp \cup {None}]
      BY DEF IInv, TypeOK
    <3>2. \A j \in Id : m_P2PConnectList'[j] = IF j = i THEN t ELSE m_P2PConnectList[j]
      BY <1>4, <3>1
    <3>3. QED
      BY <2>6, <3>2, NoneAssumption DEF Listed
  <2>8. RoomOf(t)' = new
    <3>1. conn'[t] = [NoConnection EXCEPT !.keyword = peer[t].keyword, !.main = t,
                                          !.mainId = i, !.status = P2P_TCP_LISTENING]
      BY <1>4 DEF IInv, TypeOK
    <3>2. /\ conn'[t].keyword = peer[t].keyword /\ conn'[t].main = t
          /\ conn'[t].guest = None /\ conn'[t].status = P2P_TCP_LISTENING
      BY <3>1 DEF NoConnection
    <3>3. QED
      BY <2>1, <3>2, StageValues DEF RoomOf
  <2>9. \A u \in Tcp \ {t} : RoomOf(u)' = RoomOf(u)
    BY <1>4 DEF RoomOf, IInv, TypeOK
  <2>10. Rooms' = Rooms \cup {new}
    <3>1. Rooms' = {RoomOf(u)' : u \in {v \in Tcp : Listed(v) \/ v = t}}
      BY <2>7 DEF Rooms
    <3>2. QED
      BY <2>3, <2>8, <2>9, <3>1 DEF Rooms
  <2>11. R!Register(t)
    BY <1>1, <2>1, <2>4, <2>5, <2>10 DEF R!Register
  <2>12. QED
    BY <2>11 DEF R!Next
<1>5. QED
  BY <1>2, <1>3, <1>4

LEMMA ConnectJoins ==
    ASSUME IInv, NEW t \in Tcp, TCPConnected(t), Asks' = Asks,
           NEW h \in Tcp, h = thr[t].p2p
    PROVE  [R!Next]_(R!vars)
<1> DEFINE c == [conn[h] EXCEPT !.guest = t, !.mainUDP = None, !.guestUDP = None,
                                !.status = P2P_TCP_CONNECTED]
<1>1. /\ h \in Tcp /\ peer[t].role = "GUEST"
      /\ conn[h].keyword = peer[t].keyword /\ peer[t].keyword \in Keyword
  BY AtFacts DEF TCPConnected
<1>2. /\ c.main = conn[h].main /\ c.keyword = conn[h].keyword
      /\ c.guest = t /\ c.status = P2P_TCP_CONNECTED
  <2>1. conn[h] \in Connection
    BY <1>1 DEF IInv, TypeOK
  <2>2. QED
    BY <2>1 DEF Connection
<1> HIDE DEF c
<1>3. CASE UNCHANGED <<m_P2PConnectList, conn>>
  BY <1>3, RoomsQuiet
<1>4. CASE /\ InState(h, P2P_TCP_LISTENING)
           /\ DumpP2PConnection(c) = "no"
           /\ conn' = [conn EXCEPT ![h] = c]
           /\ UNCHANGED m_P2PConnectList
  <2>1. Listed(h) /\ conn[h].main = h
    BY <1>1, <1>2, <1>4, DumpResult, ListedFacts, RoomFacts
  <2>2. RoomOf(h) \in Rooms /\ RoomOf(h).host = h
    BY <1>1, <2>1, RoomFacts
  <2>3. /\ Rooms' = (Rooms \ {RoomOf(h)}) \cup {RoomOf(h)'}
        /\ RoomOf(h)' = [keyword |-> c.keyword, host |-> c.main,
                         guest |-> c.guest, stage |-> StageOf(c.status)]
    BY <1>1, <1>4, <2>1, RoomChanged
  <2>4. RoomOf(h).stage = "waiting"
    BY <1>4, StageValues DEF RoomOf, InState
  <2>5. R!Becomes(RoomOf(h), t, "paired")
    <3>1. StageOf(c.status) = "paired"
      BY <1>2, StageValues
    <3>2. QED
      BY <1>2, <2>3, <3>1 DEF R!Becomes, RoomOf
  <2>6. R!Outside(t)
    <3>1. ASSUME NEW g \in Tcp, Listed(g), conn[g].guest = t PROVE FALSE
      <4>1. conn[g].keyword = conn[h].keyword
        BY <1>1, <3>1, NoneAssumption DEF IInv, SessionInv
      <4>2. g = h
        <5>1. PICK i \in Id, j \in Id : m_P2PConnectList[i] = g /\ m_P2PConnectList[j] = h
          BY <2>1, <3>1 DEF Listed
        <5>2. QED
          BY <1>1, <4>1, <5>1, NoneAssumption DEF IInv, UniqueKeyword
      <4>3. conn[h].guest = None
        <5>1. (conn[h].guest # None) = (conn[h].status >= P2P_TCP_CONNECTED)
          BY <1>1, <2>1 DEF IInv, SessionInv
        <5>2. QED
          BY <1>4, <5>1 DEF InState, P2P_TCP_LISTENING, P2P_TCP_CONNECTED
      <4>4. QED
        BY <3>1, <4>2, <4>3, NoneAssumption
    <3>2. QED
      BY <1>1, <3>1, Outsider
  <2>7. RoomOf(h).keyword = Asks[t]
    BY <1>1 DEF RoomOf, Asks
  <2>8. R!Join(RoomOf(h), t)
    BY <2>4, <2>5, <2>6, <2>7 DEF R!Join
  <2>9. QED
    BY <2>2, <2>8 DEF R!Next
<1>5. QED
  BY <1>3, <1>4 DEF TCPConnected, Refuse, Crash, serverVars, c

(* A listed session whose status alone advances is a room that progresses. *)
LEMMA Advances ==
    ASSUME IInv, NEW h \in Tcp, Listed(h), NEW c,
           conn' = [conn EXCEPT ![h] = c], UNCHANGED m_P2PConnectList, Asks' = Asks,
           c.main = conn[h].main, c.keyword = conn[h].keyword, c.guest = conn[h].guest,
           \/ c.status = conn[h].status
           \/ conn[h].status = P2P_TCP_CONNECTED /\ c.status = P2P_UDP_LISTENING
           \/ conn[h].status = P2P_UDP_LISTENING /\ c.status = P2P_PUNCHING
           \/ conn[h].status = P2P_PUNCHING /\ c.status = P2P_CONNECTED
    PROVE  [R!Next]_(R!vars)
<1>1. RoomOf(h) \in Rooms
  BY RoomFacts
<1>2. /\ Rooms' = (Rooms \ {RoomOf(h)}) \cup {RoomOf(h)'}
      /\ RoomOf(h)' = [keyword |-> c.keyword, host |-> c.main,
                       guest |-> c.guest, stage |-> StageOf(c.status)]
  BY RoomChanged
<1>3. R!Becomes(RoomOf(h), RoomOf(h).guest, StageOf(c.status))
  BY <1>2 DEF R!Becomes, RoomOf
<1>4. CASE c.status = conn[h].status
  <2>1. RoomOf(h)' = RoomOf(h)
    BY <1>2, <1>4 DEF RoomOf
  <2>2. Rooms' = Rooms
    BY <1>1, <1>2, <2>1
  <2>3. QED
    BY <2>2 DEF R!vars
<1>5. CASE c.status # conn[h].status
  <2>1. /\ RoomOf(h).stage \in DOMAIN R!After
        /\ StageOf(c.status) = R!After[RoomOf(h).stage]
    BY <1>5, StageValues DEF RoomOf, R!After
  <2>2. R!Progress(RoomOf(h))
    BY <1>3, <2>1 DEF R!Progress
  <2>3. QED
    BY <1>1, <2>2 DEF R!Next
<1>6. QED
  BY <1>4, <1>5

LEMMA ConfirmProgresses ==
    ASSUME IInv, NEW t \in Tcp, SetP2POK(t), Asks' = Asks,
           NEW h \in Tcp, h = thr[t].p2p
    PROVE  [R!Next]_(R!vars)
<1> DEFINE f == [conn[h] EXCEPT !.mainOK = @ \/ conn[h].main = t,
                                !.guestOK = @ \/ conn[h].guest = t]
           c == [f EXCEPT !.status = IF BothOK(f) THEN P2P_CONNECTED ELSE @]
<1>1. /\ c.main = conn[h].main /\ c.keyword = conn[h].keyword /\ c.guest = conn[h].guest
      /\ c.status \in {conn[h].status, P2P_CONNECTED}
  <2>1. conn[h] \in Connection
    BY DEF IInv, TypeOK
  <2>2. /\ f.main = conn[h].main /\ f.keyword = conn[h].keyword /\ f.guest = conn[h].guest
        /\ f.status = conn[h].status
        /\ DOMAIN f = DOMAIN conn[h]
    BY <2>1 DEF Connection
  <2>3. QED
    BY <2>1, <2>2 DEF Connection
<1> HIDE DEF f, c
<1>2. CASE UNCHANGED <<m_P2PConnectList, conn>>
  BY <1>2, RoomsQuiet
<1>3. CASE /\ InState(h, P2P_PUNCHING)
           /\ DumpP2PConnection(c) = "no"
           /\ conn' = [conn EXCEPT ![h] = c]
           /\ UNCHANGED m_P2PConnectList
  <2>1. Listed(h)
    BY <1>1, <1>3, DumpResult, ListedFacts, RoomFacts
  <2>2. \/ c.status = conn[h].status
        \/ conn[h].status = P2P_PUNCHING /\ c.status = P2P_CONNECTED
    BY <1>1, <1>3 DEF InState
  <2>3. QED
    BY <1>1, <1>3, <2>1, <2>2, Advances
<1>4. QED
  BY <1>2, <1>3 DEF SetP2POK, Refuse, Crash, serverVars, f, c

LEMMA ListeningProgresses ==
    ASSUME IInv, UDPListening, Asks' = Asks, NEW h \in Tcp, h = udpThr.p2p
    PROVE  [R!Next]_(R!vars)
<1> DEFINE c == [conn[h] EXCEPT !.mainUDP = udpThr.pkt.from, !.status = P2P_UDP_LISTENING]
<1>1. /\ c.main = conn[h].main /\ c.keyword = conn[h].keyword /\ c.guest = conn[h].guest
      /\ c.status = P2P_UDP_LISTENING
  <2>1. conn[h] \in Connection
    BY DEF IInv, TypeOK
  <2>2. QED
    BY <2>1 DEF Connection
<1> HIDE DEF c
<1>2. CASE UNCHANGED <<m_P2PConnectList, conn>>
  BY <1>2, RoomsQuiet
<1>3. CASE /\ InState(h, P2P_TCP_CONNECTED)
           /\ DumpP2PConnection(c) = "no"
           /\ conn' = [conn EXCEPT ![h] = c]
           /\ UNCHANGED m_P2PConnectList
  <2>1. Listed(h)
    BY <1>1, <1>3, DumpResult, ListedFacts, RoomFacts
  <2>2. QED
    BY <1>1, <1>3, <2>1, Advances DEF InState
<1>4. QED
  BY <1>2, <1>3 DEF UDPListening, IgnoreDatagram, Crash, serverVars, c

LEMMA ConnectedProgresses ==
    ASSUME IInv, UDPConnected, Asks' = Asks, NEW h \in Tcp, h = udpThr.p2p
    PROVE  [R!Next]_(R!vars)
<1> DEFINE c == [conn[h] EXCEPT !.guestUDP = udpThr.pkt.from, !.status = P2P_PUNCHING]
<1>1. /\ c.main = conn[h].main /\ c.keyword = conn[h].keyword /\ c.guest = conn[h].guest
      /\ c.status = P2P_PUNCHING
  <2>1. conn[h] \in Connection
    BY DEF IInv, TypeOK
  <2>2. QED
    BY <2>1 DEF Connection
<1> HIDE DEF c
<1>2. CASE UNCHANGED <<m_P2PConnectList, conn>>
  BY <1>2, RoomsQuiet
<1>3. CASE /\ InState(h, P2P_UDP_LISTENING)
           /\ DumpP2PConnection(c) = "no"
           /\ conn' = [conn EXCEPT ![h] = c]
           /\ UNCHANGED m_P2PConnectList
  <2>1. Listed(h)
    BY <1>1, <1>3, DumpResult, ListedFacts, RoomFacts
  <2>2. QED
    BY <1>1, <1>3, <2>1, Advances DEF InState
<1>4. QED
  BY <1>2, <1>3 DEF UDPConnected, IgnoreDatagram, Crash, serverVars, c

LEMMA RoomLosesGuest ==
    ASSUME IInv, NEW t \in Tcp, Asks' = Asks, NEW h \in Tcp, Listed(h),
           conn[h].guest = t, ConnTCPDisconnect(h), UNCHANGED m_P2PConnectList
    PROVE  [R!Next]_(R!vars)
<1> DEFINE c == WithoutGuest(conn[h])
<1>1. CASE UNCHANGED conn
  BY <1>1, RoomsQuiet
<1>2. CASE conn' = [conn EXCEPT ![h] = c]
  <2>1. /\ c.main = conn[h].main /\ c.keyword = conn[h].keyword
        /\ c.guest = None /\ c.status = P2P_TCP_LISTENING
    <3>1. conn[h] \in Connection
      BY DEF IInv, TypeOK
    <3>2. QED
      BY <3>1 DEF WithoutGuest, Connection
  <2> HIDE DEF c
  <2>2. /\ Rooms' = (Rooms \ {RoomOf(h)}) \cup {RoomOf(h)'}
        /\ RoomOf(h)' = [keyword |-> c.keyword, host |-> c.main,
                         guest |-> c.guest, stage |-> StageOf(c.status)]
    BY <1>2, RoomChanged
  <2>3. R!Becomes(RoomOf(h), None, "waiting")
    BY <2>1, <2>2, StageValues DEF R!Becomes, RoomOf
  <2>4. RoomOf(h).guest # None
    BY NoneAssumption DEF RoomOf
  <2>5. R!Leave(RoomOf(h))
    BY <2>3, <2>4 DEF R!Leave
  <2>6. QED
    BY <2>5, RoomFacts DEF R!Next
<1>3. QED
  BY <1>1, <1>2 DEF ConnTCPDisconnect

LEMMA HostCloses ==
    ASSUME IInv, Asks' = Asks, NEW h \in Tcp, NEW i \in Id, m_P2PConnectList[i] = h,
           MainTCPDisconnect(h), m_P2PConnectList' = [m_P2PConnectList EXCEPT ![i] = None]
    PROVE  [R!Next]_(R!vars)
<1>1. Listed(h)
  BY DEF Listed
<1>2. \A u \in Tcp : Listed(u)' <=> Listed(u) /\ u # h
  <2>1. \A j \in Id : m_P2PConnectList'[j] = IF j = i THEN None ELSE m_P2PConnectList[j]
    BY DEF IInv, TypeOK
  <2>2. \A j \in Id : m_P2PConnectList[j] = h => j = i
    BY NoneAssumption DEF IInv, UniqueKeyword
  <2>3. QED
    BY <2>1, <2>2, NoneAssumption DEF Listed
<1>3. \A u \in Tcp \ {h} : RoomOf(u)' = RoomOf(u)
  BY DEF RoomOf, MainTCPDisconnect, IInv, TypeOK
<1>4. \A u \in Tcp \ {h} : Listed(u) => RoomOf(u) # RoomOf(h)
  <2> SUFFICES ASSUME NEW u \in Tcp \ {h}, Listed(u) PROVE RoomOf(u) # RoomOf(h)
    OBVIOUS
  <2>1. RoomOf(u).host = u /\ RoomOf(h).host = h
    BY <1>1, RoomFacts
  <2>2. QED
    BY <2>1
<1>5. Rooms' = Rooms \ {RoomOf(h)}
  <2>1. Rooms' = {RoomOf(u)' : u \in {v \in Tcp : Listed(v) /\ v # h}}
    BY <1>2 DEF Rooms
  <2>2. QED
    BY <1>3, <1>4, <2>1 DEF Rooms
<1>6. R!Close(RoomOf(h))
  BY <1>5 DEF R!Close
<1>7. QED
  BY <1>1, <1>6, RoomFacts DEF R!Next

LEMMA EndLeavesOrCloses ==
    ASSUME IInv, NEW t \in Tcp, TCPEndProcess(t), Asks' = Asks
    PROVE  [R!Next]_(R!vars)
<1>1. CASE UNCHANGED <<m_P2PConnectList, conn>>
  BY <1>1, RoomsQuiet
<1>2. ASSUME NEW i \in Id, m_P2PConnectList[i] # None,
             \/ /\ conn[m_P2PConnectList[i]].guest = t
                /\ ConnTCPDisconnect(m_P2PConnectList[i])
                /\ UNCHANGED m_P2PConnectList
             \/ /\ MainTCPDisconnect(m_P2PConnectList[i])
                /\ m_P2PConnectList' = [m_P2PConnectList EXCEPT ![i] = None]
      PROVE  [R!Next]_(R!vars)
  <2>1. PICK h \in Tcp : m_P2PConnectList[i] = h
    BY <1>2 DEF IInv, TypeOK
  <2>2. Listed(h)
    BY <2>1 DEF Listed
  <2>3. QED
    BY <1>2, <2>1, <2>2, RoomLosesGuest, HostCloses
<1>3. QED
  BY <1>1, <1>2 DEF TCPEndProcess

-----------------------------------------------------------------------------
(* The refinement                                                          *)

LEMMA RendezvousInit == Init => R!Init
<1> SUFFICES ASSUME Init PROVE R!Init
  OBVIOUS
<1>1. Asks = [t \in Tcp |-> None]
  BY DEF Init, Asks
<1>2. \A h \in Tcp : ~Listed(h)
  BY NoneAssumption DEF Init, Listed
<1>3. Rooms = {}
  BY <1>2 DEF Rooms
<1>4. QED
  BY <1>1, <1>3 DEF R!Init

LEMMA RendezvousNext == IInv /\ Fresh /\ [Next]_vars => [R!Next]_(R!vars)
<1> SUFFICES ASSUME IInv, Fresh, [Next]_vars PROVE [R!Next]_(R!vars)
  OBVIOUS
<1>1. CASE UNCHANGED vars
  <2>1. UNCHANGED <<peer, conn, m_P2PConnectList>>
    BY <1>1 DEF vars, netVars, serverVars
  <2>2. Asks' = Asks
    BY <2>1 DEF Asks
  <2>3. QED
    BY <2>1, <2>2, RoomsQuiet
<1>2. ASSUME NEW t \in Tcp, AcceptTCPSocketProcess(t) PROVE [R!Next]_(R!vars)
  BY <1>2, AcceptArrives DEF R!Next
<1>3. CASE Next /\ \A t \in Tcp : ~AcceptTCPSocketProcess(t)
  <2>1. Asks' = Asks
    BY <1>3, KeywordStays
  <2>2. CASE UNCHANGED <<conn, m_P2PConnectList>>
    BY <2>1, <2>2, RoomsQuiet
  <2>3. ASSUME NEW t \in Tcp, RecvThread(t) PROVE [R!Next]_(R!vars)
    <3>1. CASE Waiting(t)
      BY <2>1, <3>1, WaitingRegisters
    <3>2. CASE \E type \in SessionPacket : FindSession(t, type)
      BY <2>2, <3>2 DEF FindSession, serverVars
    <3>3. CASE DataProxy(t)
      BY <2>2, <3>3 DEF DataProxy, Crash, serverVars
    <3>4. CASE TCPConnected(t)
      <4>1. PICK h \in Tcp : h = thr[t].p2p
        BY <3>4, AtFacts DEF TCPConnected
      <4>2. QED
        BY <2>1, <3>4, <4>1, ConnectJoins
    <3>5. CASE SetP2POK(t)
      <4>1. PICK h \in Tcp : h = thr[t].p2p
        BY <3>5, AtFacts DEF SetP2POK
      <4>2. QED
        BY <2>1, <3>5, <4>1, ConfirmProgresses
    <3>6. CASE TCPProxyRequest(t)
      BY <2>2, <3>6 DEF TCPProxyRequest, Refuse, Crash, serverVars
    <3>7. CASE Reply(t)
      BY <2>2, <3>7 DEF Reply, serverVars
    <3>8. CASE TCPEndProcess(t)
      BY <2>1, <3>8, EndLeavesOrCloses
    <3>9. CASE RemoveTCPID(t)
      BY <2>2, <3>9 DEF RemoveTCPID
    <3>10. QED
      BY <2>3, <3>1, <3>2, <3>3, <3>4, <3>5, <3>6, <3>7, <3>8, <3>9 DEF RecvThread
  <2>4. ASSUME NEW t \in Tcp, Client(t) PROVE UNCHANGED <<conn, m_P2PConnectList>>
    BY <2>4 DEF Client, ClientSend, SendUDPToServer, ClientGone, serverVars
  <2>5. CASE CreateTCPID \/ RecvUDPPacketProcess
    BY <2>2, <2>5 DEF CreateTCPID, RecvUDPPacketProcess, serverVars
  <2>6. CASE UDPListening
    <3>1. PICK h \in Tcp : h = udpThr.p2p
      BY <2>6, HoldsFacts DEF UDPListening, ServerUDPType
    <3>2. QED
      BY <2>1, <2>6, <3>1, ListeningProgresses
  <2>7. CASE UDPConnected
    <3>1. PICK h \in Tcp : h = udpThr.p2p
      BY <2>7, HoldsFacts DEF UDPConnected, ServerUDPType
    <3>2. QED
      BY <2>1, <2>7, <3>1, ConnectedProgresses
  <2>8. QED
    BY <1>3, <2>2, <2>3, <2>4, <2>5, <2>6, <2>7 DEF Next
<1>4. QED
  BY <1>1, <1>2, <1>3

(* The server's sessions (P2PServer.cpp:296-309, P2PConnection.cpp) are    *)
(* the rooms of Rendezvous: every step of every thread maps to a step of   *)
(* the table or to none.                                                   *)
THEOREM RendezvousImplemented == Spec => ImplementsRendezvous
<1>1. Spec => []IInv
  BY Invariance
<1>2. Spec => []Fresh
  BY FreshInit, FreshNext, Invariance, PTL DEF Spec
<1>3. QED
  BY <1>1, <1>2, RendezvousInit, RendezvousNext, PTL DEF Spec, ImplementsRendezvous, R!Spec

=============================================================================
