----------------------- MODULE P2PServerHistory_proofs -----------------------
(***************************************************************************)
(* The properties of P2PServer that speak of what happened before: who     *)
(* confirmed the punch of a session, what a socket that ended before       *)
(* CreateTCPID was sent, and the order of a client's stream.  Each has an  *)
(* inductive invariant of its own that leans on IInv of P2PServer_proofs;  *)
(* the last two share a list of the events in the life of a session, with  *)
(* what each sends and to whom, that every step is shown to be one of.     *)
(***************************************************************************)
EXTENDS P2PServer_proofs, FiniteSetTheorems

(* The flags of a session with a guest are the confirmations since that    *)
(* guest entered, unless an earlier guest's were left behind.              *)
Confirmed(h) ==
    conn[h].main = h /\ conn[h].status >= P2P_TCP_CONNECTED /\ ~past[h].leftover =>
      /\ conn[h].mainOK => conn[h].main \in past[h].confirmed
      /\ conn[h].guestOK => conn[h].guest \in past[h].confirmed
      /\ past[h].confirmed \subseteq {conn[h].main, conn[h].guest}
      /\ conn[h].status = P2P_CONNECTED => conn[h].mainOK /\ conn[h].guestOK

ConfirmInv == \A h \in Tcp : Confirmed(h)

LEMMA ConfirmInit == Init => ConfirmInv
BY NoneAssumption DEF Init, ConfirmInv, Confirmed, NoConnection

LEMMA ConfirmKept ==
    ASSUME ConfirmInv, UNCHANGED <<conn, past>>
    PROVE  ConfirmInv'
BY DEF ConfirmInv, Confirmed

(* One session changes, and its new state d is confirmed.                  *)
LEMMA ConfirmChanged ==
    ASSUME IInv, ConfirmInv, NEW h \in Tcp, NEW d, conn' = [conn EXCEPT ![h] = d],
           \A g \in Tcp \ {h} : past'[g] = past[g],
           d.main = h /\ d.status >= P2P_TCP_CONNECTED /\ ~past'[h].leftover =>
             /\ d.mainOK => d.main \in past'[h].confirmed
             /\ d.guestOK => d.guest \in past'[h].confirmed
             /\ past'[h].confirmed \subseteq {d.main, d.guest}
             /\ d.status = P2P_CONNECTED => d.mainOK /\ d.guestOK
    PROVE  ConfirmInv'
<1>1. DOMAIN conn = Tcp
  BY DEF IInv, TypeOK
<1>2. conn'[h] = d /\ \A g \in Tcp \ {h} : conn'[g] = conn[g]
  BY <1>1
<1>3. Confirmed(h)'
  BY <1>2 DEF Confirmed
<1>4. ASSUME NEW g \in Tcp \ {h} PROVE Confirmed(g)'
  BY <1>2, <1>4 DEF ConfirmInv, Confirmed
<1>5. QED
  BY <1>3, <1>4 DEF ConfirmInv

LEMMA ConfirmWaiting ==
    ASSUME IInv, ConfirmInv, NEW t \in Tcp, Waiting(t)
    PROVE  ConfirmInv'
<1>1. UNCHANGED past
  BY DEF Waiting
<1>2. CASE UNCHANGED conn
  BY <1>1, <1>2, ConfirmKept
<1>3. ASSUME NEW i \in Id,
             conn' = [conn EXCEPT ![t] =
                [NoConnection EXCEPT !.keyword = peer[t].keyword, !.main = t,
                                     !.mainId = i, !.status = P2P_TCP_LISTENING]]
      PROVE  ConfirmInv'
  <2> DEFINE d == [NoConnection EXCEPT !.keyword = peer[t].keyword, !.main = t,
                                       !.mainId = i, !.status = P2P_TCP_LISTENING]
  <2>1. d.status = P2P_TCP_LISTENING
    BY DEF NoConnection
  <2>2. ~(d.status >= P2P_TCP_CONNECTED)
    BY <2>1 DEF P2P_TCP_LISTENING, P2P_TCP_CONNECTED
  <2> HIDE DEF d
  <2>3. QED
    BY <1>1, <1>3, <2>2, ConfirmChanged DEF d
<1>4. QED
  BY <1>2, <1>3 DEF Waiting

LEMMA ConfirmTCPConnected ==
    ASSUME IInv, ConfirmInv, NEW t \in Tcp, TCPConnected(t), NEW h \in Tcp, h = thr[t].p2p
    PROVE  ConfirmInv'
<1> DEFINE c == [conn[h] EXCEPT !.guest = t, !.mainUDP = None, !.guestUDP = None,
                                !.status = P2P_TCP_CONNECTED]
<1>1. CASE UNCHANGED <<conn, past>>
  BY <1>1, ConfirmKept
<1>2. CASE /\ conn' = [conn EXCEPT ![h] = c]
           /\ past' = [past EXCEPT ![h] =
                [confirmed |-> {}, leftover |-> c.mainOK \/ c.guestOK]]
  <2>1. c.status # P2P_CONNECTED
    <3>1. conn[h] \in Connection
      BY DEF IInv, TypeOK
    <3>2. c.status = P2P_TCP_CONNECTED
      BY <3>1 DEF Connection
    <3>3. QED
      BY <3>2 DEF P2P_TCP_CONNECTED, P2P_CONNECTED
  <2> HIDE DEF c
  <2>2. past'[h] = [confirmed |-> {}, leftover |-> c.mainOK \/ c.guestOK]
        /\ \A g \in Tcp \ {h} : past'[g] = past[g]
    <3>1. DOMAIN past = Tcp
      BY DEF IInv, TypeOK
    <3>2. QED
      BY <1>2, <3>1
  <2>3. /\ past'[h].confirmed = {}
        /\ past'[h].leftover = (c.mainOK \/ c.guestOK)
    BY <2>2
  <2>4. ~past'[h].leftover => ~c.mainOK /\ ~c.guestOK
    BY <2>3
  <2>5. QED
    BY <1>2, <2>1, <2>2, <2>3, <2>4, ConfirmChanged
<1>3. QED
  BY <1>1, <1>2 DEF TCPConnected, Refuse, Crash

LEMMA ConfirmSetP2POK ==
    ASSUME IInv, ConfirmInv, NEW t \in Tcp, SetP2POK(t), NEW h \in Tcp, h = thr[t].p2p
    PROVE  ConfirmInv'
<1> DEFINE f == [conn[h] EXCEPT !.mainOK = @ \/ conn[h].main = t,
                                !.guestOK = @ \/ conn[h].guest = t]
           c == [f EXCEPT !.status = IF BothOK(f) THEN P2P_CONNECTED ELSE @]
<1>1. conn[h] \in Connection
  BY DEF IInv, TypeOK
<1>2. /\ f.main = conn[h].main /\ f.guest = conn[h].guest /\ f.status = conn[h].status
      /\ f.mainOK = (conn[h].mainOK \/ conn[h].main = t)
      /\ f.guestOK = (conn[h].guestOK \/ conn[h].guest = t)
      /\ DOMAIN f = DOMAIN conn[h]
  BY <1>1 DEF Connection
<1>3. DOMAIN conn[h] = {"keyword", "status", "main", "mainId", "mainOK", "mainUDP",
                        "guest", "guestOK", "guestUDP"}
  BY <1>1 DEF Connection
<1> HIDE DEF f
<1>4. /\ c.main = conn[h].main /\ c.guest = conn[h].guest
      /\ c.mainOK = f.mainOK /\ c.guestOK = f.guestOK
      /\ c.status = IF f.mainOK /\ f.guestOK THEN P2P_CONNECTED ELSE conn[h].status
  BY <1>2, <1>3 DEF BothOK
<1> HIDE DEF c
<1>5. CASE UNCHANGED <<conn, past>>
  BY <1>5, ConfirmKept
<1>6. CASE /\ InState(h, P2P_PUNCHING)
           /\ conn' = [conn EXCEPT ![h] = c]
           /\ past' = [past EXCEPT ![h].confirmed = @ \cup ({t} \cap {c.main, c.guest})]
  <2>1. /\ past'[h].confirmed = past[h].confirmed \cup ({t} \cap {c.main, c.guest})
        /\ past'[h].leftover = past[h].leftover
        /\ \A g \in Tcp \ {h} : past'[g] = past[g]
    <3>1. past \in [Tcp -> [confirmed : SUBSET Tcp, leftover : BOOLEAN]]
      BY DEF IInv, TypeOK
    <3> DEFINE x == {t} \cap {c.main, c.guest}
    <3>2. past' = [past EXCEPT ![h].confirmed = @ \cup x]
      BY <1>6
    <3> HIDE DEF x
    <3>3. /\ past'[h].confirmed = past[h].confirmed \cup x
          /\ past'[h].leftover = past[h].leftover
          /\ \A g \in Tcp \ {h} : past'[g] = past[g]
      BY <3>1, <3>2
    <3>4. QED
      BY <3>3 DEF x
  <2>2. conn[h].status >= P2P_TCP_CONNECTED /\ conn[h].status # P2P_CONNECTED
    BY <1>6 DEF InState, P2P_PUNCHING, P2P_TCP_CONNECTED, P2P_CONNECTED
  <2>3. ASSUME c.main = h, ~past'[h].leftover
        PROVE  /\ c.mainOK => c.main \in past'[h].confirmed
               /\ c.guestOK => c.guest \in past'[h].confirmed
               /\ past'[h].confirmed \subseteq {c.main, c.guest}
               /\ c.status = P2P_CONNECTED => c.mainOK /\ c.guestOK
    <3>1. /\ conn[h].mainOK => conn[h].main \in past[h].confirmed
          /\ conn[h].guestOK => conn[h].guest \in past[h].confirmed
          /\ past[h].confirmed \subseteq {conn[h].main, conn[h].guest}
      BY <1>4, <2>1, <2>2, <2>3 DEF ConfirmInv, Confirmed
    <3>2. QED
      BY <1>2, <1>4, <2>1, <2>2, <3>1
  <2>4. QED
    BY <1>6, <2>1, <2>3, ConfirmChanged
<1>7. QED
  BY <1>5, <1>6 DEF SetP2POK, Refuse, Crash, f, c

(* The UDP thread moves a session on without touching its confirmations.   *)
LEMMA ConfirmAdvanced ==
    ASSUME IInv, ConfirmInv, NEW h \in Tcp, NEW d, conn' = [conn EXCEPT ![h] = d],
           UNCHANGED past, conn[h].status >= P2P_TCP_CONNECTED, d.status # P2P_CONNECTED,
           d.main = conn[h].main, d.guest = conn[h].guest,
           d.mainOK = conn[h].mainOK, d.guestOK = conn[h].guestOK
    PROVE  ConfirmInv'
<1>1. Confirmed(h)
  BY DEF ConfirmInv
<1>2. d.main = h /\ d.status >= P2P_TCP_CONNECTED /\ ~past'[h].leftover =>
        /\ d.mainOK => d.main \in past'[h].confirmed
        /\ d.guestOK => d.guest \in past'[h].confirmed
        /\ past'[h].confirmed \subseteq {d.main, d.guest}
        /\ d.status = P2P_CONNECTED => d.mainOK /\ d.guestOK
  BY <1>1 DEF Confirmed
<1>3. QED
  BY <1>2, ConfirmChanged

LEMMA ConfirmUDP ==
    ASSUME IInv, ConfirmInv, UDPListening \/ UDPConnected, NEW h \in Tcp, h = udpThr.p2p
    PROVE  ConfirmInv'
<1>1. conn[h] \in Connection
  BY DEF IInv, TypeOK
<1>2. CASE UNCHANGED <<conn, past>>
  BY <1>2, ConfirmKept
<1>3. CASE /\ UDPListening /\ InState(h, P2P_TCP_CONNECTED) /\ UNCHANGED past
           /\ conn' = [conn EXCEPT ![h] = [conn[h] EXCEPT !.mainUDP = udpThr.pkt.from,
                                                          !.status = P2P_UDP_LISTENING]]
  <2> DEFINE d == [conn[h] EXCEPT !.mainUDP = udpThr.pkt.from, !.status = P2P_UDP_LISTENING]
  <2>1. /\ d.main = conn[h].main /\ d.guest = conn[h].guest /\ d.status = P2P_UDP_LISTENING
        /\ d.mainOK = conn[h].mainOK /\ d.guestOK = conn[h].guestOK
    BY <1>1 DEF Connection
  <2>2. conn[h].status >= P2P_TCP_CONNECTED /\ d.status # P2P_CONNECTED
    BY <1>3, <2>1 DEF InState, P2P_TCP_CONNECTED, P2P_UDP_LISTENING, P2P_CONNECTED
  <2>3. conn' = [conn EXCEPT ![h] = d] /\ UNCHANGED past
    BY <1>3
  <2> HIDE DEF d
  <2>4. QED
    BY <2>1, <2>2, <2>3, ConfirmAdvanced
<1>4. CASE /\ UDPConnected /\ InState(h, P2P_UDP_LISTENING) /\ UNCHANGED past
           /\ conn' = [conn EXCEPT ![h] = [conn[h] EXCEPT !.guestUDP = udpThr.pkt.from,
                                                          !.status = P2P_PUNCHING]]
  <2> DEFINE d == [conn[h] EXCEPT !.guestUDP = udpThr.pkt.from, !.status = P2P_PUNCHING]
  <2>1. /\ d.main = conn[h].main /\ d.guest = conn[h].guest /\ d.status = P2P_PUNCHING
        /\ d.mainOK = conn[h].mainOK /\ d.guestOK = conn[h].guestOK
    BY <1>1 DEF Connection
  <2>2. conn[h].status >= P2P_TCP_CONNECTED /\ d.status # P2P_CONNECTED
    BY <1>4, <2>1 DEF InState, P2P_TCP_CONNECTED, P2P_UDP_LISTENING, P2P_PUNCHING, P2P_CONNECTED
  <2>3. conn' = [conn EXCEPT ![h] = d] /\ UNCHANGED past
    BY <1>4
  <2> HIDE DEF d
  <2>4. QED
    BY <2>1, <2>2, <2>3, ConfirmAdvanced
<1>5. QED
  BY <1>2, <1>3, <1>4 DEF UDPListening, UDPConnected, IgnoreDatagram, Crash

LEMMA ConfirmEnd ==
    ASSUME IInv, ConfirmInv, NEW t \in Tcp, TCPEndProcess(t)
    PROVE  ConfirmInv'
<1>1. UNCHANGED past
  BY DEF TCPEndProcess
<1>2. CASE UNCHANGED conn
  BY <1>1, <1>2, ConfirmKept
<1>3. ASSUME NEW h \in Tcp, NEW d, conn' = [conn EXCEPT ![h] = d],
             d = WithoutGuest(conn[h]) \/ d = WithoutHost(conn[h])
      PROVE  ConfirmInv'
  <2>1. conn[h] \in Connection
    BY DEF IInv, TypeOK
  <2>2. d.status = P2P_TCP_LISTENING \/ d.main = None
    BY <1>3, <2>1 DEF WithoutGuest, WithoutHost, Connection
  <2>3. ~(d.main = h /\ d.status >= P2P_TCP_CONNECTED)
    BY <2>2, NoneAssumption DEF P2P_TCP_LISTENING, P2P_TCP_CONNECTED
  <2>4. QED
    BY <1>1, <1>3, <2>3, ConfirmChanged
<1>4. ASSUME NEW i \in Id, m_P2PConnectList[i] # None,
             \/ ConnTCPDisconnect(m_P2PConnectList[i])
             \/ MainTCPDisconnect(m_P2PConnectList[i])
      PROVE  ConfirmInv'
  <2>1. PICK h \in Tcp : h = m_P2PConnectList[i]
    BY <1>4 DEF IInv, TypeOK
  <2>2. \/ UNCHANGED conn
        \/ conn' = [conn EXCEPT ![h] = WithoutGuest(conn[h])]
        \/ conn' = [conn EXCEPT ![h] = WithoutHost(conn[h])]
    BY <1>4, <2>1 DEF ConnTCPDisconnect, MainTCPDisconnect
  <2>3. QED
    BY <1>2, <1>3, <2>2
<1>5. QED
  BY <1>2, <1>4 DEF TCPEndProcess

LEMMA ConfirmNext == IInv /\ ConfirmInv /\ [Next]_vars => ConfirmInv'
<1> SUFFICES ASSUME IInv, ConfirmInv, [Next]_vars PROVE ConfirmInv'
  OBVIOUS
<1>1. CASE UNCHANGED <<conn, past>>
  BY <1>1, ConfirmKept
<1>2. CASE UNCHANGED vars
  BY <1>1, <1>2 DEF vars
<1>3. ASSUME NEW t \in Tcp, AcceptTCPSocketProcess(t) \/ Client(t) PROVE ConfirmInv'
  BY <1>1, <1>3 DEF AcceptTCPSocketProcess, Client, ClientSend, SendUDPToServer, ClientGone
<1>4. ASSUME NEW t \in Tcp, RecvThread(t) PROVE ConfirmInv'
  <2>1. CASE Waiting(t)
    BY <2>1, ConfirmWaiting
  <2>2. CASE \E type \in SessionPacket : FindSession(t, type)
    BY <1>1, <2>2 DEF FindSession
  <2>3. CASE DataProxy(t)
    BY <1>1, <2>3 DEF DataProxy, Crash
  <2>4. CASE TCPConnected(t)
    <3>1. PICK h \in Tcp : h = thr[t].p2p
      BY <2>4, AtFacts DEF TCPConnected
    <3>2. QED
      BY <2>4, <3>1, ConfirmTCPConnected
  <2>5. CASE SetP2POK(t)
    <3>1. PICK h \in Tcp : h = thr[t].p2p
      BY <2>5, AtFacts DEF SetP2POK
    <3>2. QED
      BY <2>5, <3>1, ConfirmSetP2POK
  <2>6. CASE TCPProxyRequest(t)
    BY <1>1, <2>6 DEF TCPProxyRequest, Refuse, Crash
  <2>7. CASE Reply(t)
    BY <1>1, <2>7 DEF Reply
  <2>8. CASE TCPEndProcess(t)
    BY <2>8, ConfirmEnd
  <2>9. CASE RemoveTCPID(t)
    BY <1>1, <2>9 DEF RemoveTCPID
  <2>10. QED
    BY <1>4, <2>1, <2>2, <2>3, <2>4, <2>5, <2>6, <2>7, <2>8, <2>9 DEF RecvThread
<1>5. CASE CreateTCPID \/ RecvUDPPacketProcess
  BY <1>1, <1>5 DEF CreateTCPID, RecvUDPPacketProcess
<1>6. CASE UDPListening \/ UDPConnected
  <2>1. PICK h \in Tcp : h = udpThr.p2p
    BY <1>6, HoldsFacts DEF UDPListening, UDPConnected, ServerUDPType
  <2>2. QED
    BY <1>6, <2>1, ConfirmUDP
<1>7. QED
  BY <1>2, <1>3, <1>4, <1>5, <1>6 DEF Next

(* P2P_CONNECTED is announced only after both ends of the session reported *)
(* that packets pass, unless flags of an earlier guest were left set       *)
(* (P2PConnection.cpp:228-270, 298-328).                                   *)
THEOREM ConfirmedByBoth == Spec => []ConnectedMeansConfirmed
<1>1. IInv /\ ConfirmInv => ConnectedMeansConfirmed
  <2> SUFFICES ASSUME IInv, ConfirmInv, NEW h \in Tcp,
                      conn[h].status = P2P_CONNECTED, Listed(h), ~past[h].leftover
               PROVE  past[h].confirmed = {conn[h].main, conn[h].guest}
    BY DEF ConnectedMeansConfirmed
  <2>1. conn[h].main = h /\ Confirmed(h)
    BY ListedFacts DEF ConfirmInv
  <2>2. conn[h].status >= P2P_TCP_CONNECTED
    BY DEF P2P_CONNECTED, P2P_TCP_CONNECTED
  <2>3. QED
    BY <2>1, <2>2 DEF Confirmed
<1>2. Spec => []IInv
  BY Invariance
<1>3. Spec => []ConfirmInv
  BY ConfirmInit, ConfirmNext, Invariance, PTL DEF Spec
<1>4. QED
  BY <1>1, <1>2, <1>3, PTL

-----------------------------------------------------------------------------
(* What a step may send, and to whom                                       *)

(* What a step sends: a packet to one socket, or one to each of two.       *)
Sends(t, p) ==
    /\ sent'[t] = Ext!BagAdd(sent[t], p)
    /\ \A u \in Tcp \ {t} : sent'[u] = sent[u]

SendsBoth(t, p, u, q) ==
    /\ t # u
    /\ sent'[t] = Ext!BagAdd(sent[t], p)
    /\ sent'[u] = Ext!BagAdd(sent[u], q)
    /\ \A v \in Tcp \ {t, u} : sent'[v] = sent[v]

(* The session h gets these parties and this status.                       *)
Becomes(h, keyword, main, guest, status) ==
    /\ conn'[h].keyword = keyword
    /\ conn'[h].main = main
    /\ conn'[h].guest = guest
    /\ conn'[h].status = status
    /\ \A g \in Tcp \ {h} : conn'[g] = conn[g]

Held(h) == conn[h].main = h /\ conn[h].guest \in Tcp /\ conn[h].guest # h

(* The events in the life of a session, with what its parties are sent.    *)
Opens(h) ==
    /\ Waiting(h)
    /\ Becomes(h, peer[h].keyword, h, None, P2P_TCP_LISTENING)
    /\ UNCHANGED sent

Joins(g, h) ==
    /\ TCPConnected(g)
    /\ conn[h].main = h /\ conn[h].guest = None /\ g # h
    /\ Becomes(h, conn[h].keyword, h, g, P2P_TCP_CONNECTED)
    /\ SendsBoth(g, CreateTCPResultPkt("TPT_CONNECT_RESULT", "NONE"), h, CreateTCPStartUDPPkt)
    /\ thr'[g] = Idle

Listens(h) ==
    /\ Held(h) /\ conn[h].status = P2P_TCP_CONNECTED
    /\ Becomes(h, conn[h].keyword, h, conn[h].guest, P2P_UDP_LISTENING)
    /\ Sends(conn[h].guest, CreateTCPStartUDPPkt)

Punches(h) ==
    /\ Held(h) /\ conn[h].status = P2P_UDP_LISTENING
    /\ Becomes(h, conn[h].keyword, h, conn[h].guest, P2P_PUNCHING)
    /\ Holds("UPT_CONNECT") /\ udpThr.p2p = h
    /\ udpThr.pkt.from \in Tcp /\ conn[h].mainUDP \in Tcp
    /\ SendsBoth(h, CreateTCPStartPunchingPkt(conn[h].mainId, udpThr.pkt.from),
                 conn[h].guest, CreateTCPStartPunchingPkt(conn[h].mainId, conn[h].mainUDP))

Confirms(h) ==
    /\ Held(h) /\ conn[h].status = P2P_PUNCHING
    /\ \/ /\ Becomes(h, conn[h].keyword, h, conn[h].guest, P2P_PUNCHING)
          /\ UNCHANGED sent
       \/ /\ Becomes(h, conn[h].keyword, h, conn[h].guest, P2P_CONNECTED)
          /\ BothOK(conn'[h])
          /\ SendsBoth(h, CreateP2PSuccessPkt, conn[h].guest, CreateP2PSuccessPkt)

Relays(h) ==
    /\ Held(h)
    /\ \E t \in Tcp : At(t, "TPT_PROXY_REQUEST") /\ thr[t].p2p = h
    /\ UNCHANGED conn
    /\ SendsBoth(h, CreateTCPProxyResultPkt("NONE"),
                 conn[h].guest, CreateTCPProxyResultPkt("NONE"))

GuestLeaves(h) ==
    /\ Held(h)
    /\ Becomes(h, conn[h].keyword, h, None, P2P_TCP_LISTENING)
    /\ Sends(h, CreateTCPResultPkt("TPT_RESET", "NONE"))

HostLeaves(h) ==
    /\ conn[h].main = h
    /\ Becomes(h, conn[h].keyword, None, None, conn[h].status)
    /\ UNCHANGED sent

(* The answers to one socket.                                              *)
Answers(t) ==
    /\ Reply(t)
    /\ UNCHANGED conn
    /\ \E p : /\ Sends(t, p)
              /\ p.type = CASE thr[t].pkt = "TPT_WAITING" -> "TPT_WAIT_RESULT"
                            [] thr[t].pkt = "TPT_CONNECT" -> "TPT_CONNECT_RESULT"
                            [] OTHER -> "TPT_PROXY_RESULT"
              /\ p \in ServerPacket(Id, Tcp)

Admits(t) ==
    /\ CreateTCPID
    /\ accepting = t
    /\ UNCHANGED conn
    /\ \E i \in Id : Sends(t, CreateTCPInitPkt(i))

LEMMA SendsOne ==
    ASSUME IInv, NEW t \in Tcp, NEW p, SendPacket(t, p)
    PROVE  Sends(t, p)
<1>1. DOMAIN sent = Tcp
  BY DEF IInv, TypeOK, PacketBags
<1>2. QED
  BY <1>1 DEF SendPacket, Sends

LEMMA SendsTwo ==
    ASSUME IInv, NEW t \in Tcp, NEW p, NEW u \in Tcp, NEW q, t # u, SendPackets(t, p, u, q)
    PROVE  SendsBoth(t, p, u, q)
<1> DEFINE f == [sent EXCEPT ![t] = Ext!BagAdd(@, p)]
<1>1. DOMAIN sent = Tcp
  BY DEF IInv, TypeOK, PacketBags
<1>2. /\ DOMAIN f = Tcp /\ f[t] = Ext!BagAdd(sent[t], p)
      /\ \A v \in Tcp \ {t} : f[v] = sent[v]
  BY <1>1
<1>3. sent' = [f EXCEPT ![u] = Ext!BagAdd(@, q)]
  BY DEF SendPackets
<1> HIDE DEF f
<1>4. QED
  BY <1>2, <1>3 DEF SendsBoth

LEMMA SessionBecomes ==
    ASSUME IInv, NEW h \in Tcp, NEW c, conn' = [conn EXCEPT ![h] = c]
    PROVE  Becomes(h, c.keyword, c.main, c.guest, c.status)
BY DEF IInv, TypeOK, Becomes

(* The two parties of a session.                                           *)
LEMMA Parties ==
    ASSUME IInv, NEW h \in Tcp, conn[h].main # None
    PROVE  /\ conn[h].main = h
           /\ conn[h].guest # None => Held(h) /\ peer[conn[h].guest].role = "GUEST"
           /\ peer[h].role = "HOST"
           /\ (conn[h].guest # None) = (conn[h].status >= P2P_TCP_CONNECTED)
           /\ conn[h].keyword = peer[h].keyword
<1>1. SessionInv!(h) /\ conn[h] \in Connection
  BY DEF IInv, SessionInv, TypeOK
<1>2. conn[h].guest \in Tcp \cup {None}
  BY <1>1 DEF Connection
<1>3. conn[h].keyword # None
  BY <1>1 DEF NoConnection
<1>4. QED
  BY <1>1, <1>2, <1>3 DEF Held

LEMMA WaitingEvents ==
    ASSUME IInv, NEW t \in Tcp, Waiting(t)
    PROVE  UNCHANGED <<sent, conn>> \/ Opens(t)
<1>1. UNCHANGED sent
  BY DEF Waiting
<1>2. ASSUME NEW i \in Id,
             conn' = [conn EXCEPT ![t] =
                [NoConnection EXCEPT !.keyword = peer[t].keyword, !.main = t,
                                     !.mainId = i, !.status = P2P_TCP_LISTENING]]
      PROVE  Opens(t)
  <2> DEFINE d == [NoConnection EXCEPT !.keyword = peer[t].keyword, !.main = t,
                                       !.mainId = i, !.status = P2P_TCP_LISTENING]
  <2>1. /\ d.keyword = peer[t].keyword /\ d.main = t /\ d.guest = None
        /\ d.status = P2P_TCP_LISTENING
    BY DEF NoConnection
  <2> HIDE DEF d
  <2>2. conn' = [conn EXCEPT ![t] = d]
    BY <1>2 DEF d
  <2>3. QED
    BY <1>1, <2>1, <2>2, SessionBecomes DEF Opens
<1>3. QED
  BY <1>1, <1>2 DEF Waiting

LEMMA JoinEvents ==
    ASSUME IInv, NEW t \in Tcp, TCPConnected(t)
    PROVE  UNCHANGED <<sent, conn>> \/ \E h \in Tcp : Joins(t, h)
<1>1. PICK h \in Tcp : h = thr[t].p2p
  BY AtFacts DEF TCPConnected
<1> DEFINE c == [conn[h] EXCEPT !.guest = t, !.mainUDP = None, !.guestUDP = None,
                                !.status = P2P_TCP_CONNECTED]
<1>2. /\ c.keyword = conn[h].keyword /\ c.main = conn[h].main /\ c.guest = t
      /\ c.status = P2P_TCP_CONNECTED
  <2>1. conn[h] \in Connection
    BY DEF IInv, TypeOK
  <2>2. QED
    BY <2>1 DEF Connection
<1> HIDE DEF c
<1>3. CASE UNCHANGED <<sent, conn>>
  BY <1>3
<1>4. CASE /\ InState(h, P2P_TCP_LISTENING)
           /\ DumpP2PConnection(c) = "no"
           /\ conn' = [conn EXCEPT ![h] = c]
           /\ SendPackets(t, CreateTCPResultPkt("TPT_CONNECT_RESULT", "NONE"),
                          c.main, CreateTCPStartUDPPkt)
           /\ thr' = [thr EXCEPT ![t] = Idle]
  <2>1. c.main = h /\ conn[h].main = h
    BY <1>2, <1>4, DumpResult, Parties
  <2>2. peer[h].role = "HOST" /\ peer[t].role = "GUEST" /\ t # h
    BY <2>1, Parties, AtFacts, NoneAssumption DEF TCPConnected
  <2>3. conn[h].guest = None
    <3>1. ~(conn[h].status >= P2P_TCP_CONNECTED)
      BY <1>4 DEF InState, P2P_TCP_LISTENING, P2P_TCP_CONNECTED
    <3>2. QED
      BY <2>1, <3>1, Parties, NoneAssumption
  <2>4. Becomes(h, conn[h].keyword, h, t, P2P_TCP_CONNECTED)
    BY <1>2, <1>4, <2>1, SessionBecomes
  <2>5. thr'[t] = Idle
    BY <1>4 DEF IInv, TypeOK
  <2>6. QED
    BY <1>4, <2>1, <2>2, <2>3, <2>4, <2>5, SendsTwo DEF Joins
<1>5. QED
  BY <1>1, <1>3, <1>4 DEF TCPConnected, Refuse, Crash, netVars, c

LEMMA ConfirmEvents ==
    ASSUME IInv, NEW t \in Tcp, SetP2POK(t)
    PROVE  UNCHANGED <<sent, conn>> \/ \E h \in Tcp : Confirms(h)
<1>1. PICK h \in Tcp : h = thr[t].p2p
  BY AtFacts DEF SetP2POK
<1> DEFINE f == [conn[h] EXCEPT !.mainOK = @ \/ conn[h].main = t,
                                !.guestOK = @ \/ conn[h].guest = t]
           c == [f EXCEPT !.status = IF BothOK(f) THEN P2P_CONNECTED ELSE @]
<1>2. /\ c.keyword = conn[h].keyword /\ c.main = conn[h].main /\ c.guest = conn[h].guest
      /\ c.status = IF BothOK(f) THEN P2P_CONNECTED ELSE conn[h].status
      /\ BothOK(c) = BothOK(f)
  <2>1. conn[h] \in Connection
    BY DEF IInv, TypeOK
  <2>2. /\ DOMAIN f = {"keyword", "status", "main", "mainId", "mainOK", "mainUDP",
                       "guest", "guestOK", "guestUDP"}
        /\ f.keyword = conn[h].keyword /\ f.main = conn[h].main /\ f.guest = conn[h].guest
        /\ f.status = conn[h].status
    BY <2>1 DEF Connection
  <2> HIDE DEF f
  <2>3. QED
    BY <2>2 DEF BothOK
<1> HIDE DEF c, f
<1>3. CASE UNCHANGED <<sent, conn>>
  BY <1>3
<1>4. CASE /\ InState(h, P2P_PUNCHING)
           /\ DumpP2PConnection(c) = "no"
           /\ conn' = [conn EXCEPT ![h] = c]
           /\ IF BothOK(c) THEN SendPackets(c.main, CreateP2PSuccessPkt,
                                           c.guest, CreateP2PSuccessPkt)
                          ELSE UNCHANGED sent
  <2>1. conn[h].main = h
    BY <1>2, <1>4, DumpResult, Parties
  <2>2. conn[h].status = P2P_PUNCHING /\ Held(h)
    BY <1>4, <2>1, Parties, NoneAssumption DEF InState, P2P_PUNCHING, P2P_TCP_CONNECTED
  <2>3. Becomes(h, conn[h].keyword, h, conn[h].guest, c.status)
    BY <1>2, <1>4, <2>1, SessionBecomes
  <2>4. CASE BothOK(c)
    <3>1. SendPackets(h, CreateP2PSuccessPkt, conn[h].guest, CreateP2PSuccessPkt)
      BY <1>2, <1>4, <2>1, <2>4
    <3>2. SendsBoth(h, CreateP2PSuccessPkt, conn[h].guest, CreateP2PSuccessPkt)
      BY <2>2, <3>1, SendsTwo DEF Held
    <3>3. c.status = P2P_CONNECTED
      BY <1>2, <2>4
    <3>4. BothOK(conn'[h])
      BY <1>4, <2>4 DEF IInv, TypeOK
    <3>5. QED
      BY <2>2, <2>3, <3>2, <3>3, <3>4 DEF Confirms
  <2>5. CASE ~BothOK(c)
    BY <1>2, <1>4, <2>2, <2>3, <2>5 DEF Confirms
  <2>6. QED
    BY <2>4, <2>5
<1>5. QED
  BY <1>1, <1>3, <1>4 DEF SetP2POK, Refuse, Crash, netVars, c, f

LEMMA RelayEvents ==
    ASSUME IInv, NEW t \in Tcp, TCPProxyRequest(t)
    PROVE  UNCHANGED <<sent, conn>> \/ \E h \in Tcp : Relays(h)
<1>1. PICK h \in Tcp : h = thr[t].p2p
  BY AtFacts DEF TCPProxyRequest
<1>2. CASE UNCHANGED <<sent, conn>>
  BY <1>2
<1>3. CASE /\ conn[h].guest # None /\ conn[h].main # None
           /\ SendPackets(conn[h].main, CreateTCPProxyResultPkt("NONE"),
                          conn[h].guest, CreateTCPProxyResultPkt("NONE"))
           /\ UNCHANGED conn
  <2>1. conn[h].main = h /\ Held(h)
    BY <1>3, Parties
  <2>2. At(t, "TPT_PROXY_REQUEST")
    BY DEF TCPProxyRequest
  <2>3. QED
    BY <1>1, <1>3, <2>1, <2>2, SendsTwo DEF Held, Relays
<1>4. QED
  BY <1>1, <1>2, <1>3 DEF TCPProxyRequest, Refuse, Crash, netVars

LEMMA EndEvents ==
    ASSUME IInv, NEW t \in Tcp, TCPEndProcess(t)
    PROVE  UNCHANGED <<sent, conn>> \/ \E h \in Tcp : GuestLeaves(h) \/ HostLeaves(h)
<1>1. ASSUME NEW i \in Id, m_P2PConnectList[i] # None, t \in {conn[m_P2PConnectList[i]].guest,
                                                             conn[m_P2PConnectList[i]].main},
             \/ /\ conn[m_P2PConnectList[i]].guest = t
                /\ ConnTCPDisconnect(m_P2PConnectList[i])
             \/ /\ MainTCPDisconnect(m_P2PConnectList[i])
                /\ UNCHANGED sent
      PROVE  UNCHANGED <<sent, conn>> \/ \E h \in Tcp : GuestLeaves(h) \/ HostLeaves(h)
  <2>1. PICK h \in Tcp : h = m_P2PConnectList[i]
    BY <1>1 DEF IInv, TypeOK
  <2>2. conn[h] \in Connection /\ conn[h].main = h
    BY <1>1, <2>1, ListedFacts DEF IInv, TypeOK, Listed
  <2>3. /\ WithoutGuest(conn[h]).keyword = conn[h].keyword
        /\ WithoutGuest(conn[h]).main = h
        /\ WithoutGuest(conn[h]).guest = None
        /\ WithoutGuest(conn[h]).status = P2P_TCP_LISTENING
        /\ WithoutHost(conn[h]).keyword = conn[h].keyword
        /\ WithoutHost(conn[h]).main = None
        /\ WithoutHost(conn[h]).guest = None
        /\ WithoutHost(conn[h]).status = conn[h].status
    BY <2>2 DEF WithoutGuest, WithoutHost, Connection
  <2>4. CASE conn[h].guest = t /\ ConnTCPDisconnect(h)
    <3>1. Held(h)
      BY <2>2, <2>4, Parties, NoneAssumption
    <3>2. \/ UNCHANGED <<sent, conn>>
          \/ /\ conn' = [conn EXCEPT ![h] = WithoutGuest(conn[h])]
             /\ SendPacket(h, CreateTCPResultPkt("TPT_RESET", "NONE"))
      BY <2>3, <2>4 DEF ConnTCPDisconnect
    <3>3. QED
      BY <2>3, <3>1, <3>2, SessionBecomes, SendsOne DEF GuestLeaves
  <2>5. CASE MainTCPDisconnect(h) /\ UNCHANGED sent
    <3>1. conn' = [conn EXCEPT ![h] = WithoutHost(conn[h])]
      BY <2>5 DEF MainTCPDisconnect
    <3>2. QED
      BY <2>2, <2>3, <2>5, <3>1, SessionBecomes DEF HostLeaves
  <2>6. QED
    BY <1>1, <2>1, <2>4, <2>5
<1>2. QED
  BY <1>1 DEF TCPEndProcess, PartyOf

LEMMA UDPEvents ==
    ASSUME IInv, UDPListening \/ UDPConnected
    PROVE  UNCHANGED <<sent, conn>> \/ \E h \in Tcp : Listens(h) \/ Punches(h)
<1>1. PICK h \in Tcp : h = udpThr.p2p
  BY HoldsFacts DEF UDPListening, UDPConnected, ServerUDPType
<1>2. conn[h] \in Connection
  BY DEF IInv, TypeOK
<1>3. CASE UNCHANGED <<sent, conn>>
  BY <1>3
<1>4. CASE UDPListening /\ ~UNCHANGED <<sent, conn>>
  <2> DEFINE c == [conn[h] EXCEPT !.mainUDP = udpThr.pkt.from, !.status = P2P_UDP_LISTENING]
  <2>1. /\ c.keyword = conn[h].keyword /\ c.main = conn[h].main /\ c.guest = conn[h].guest
        /\ c.status = P2P_UDP_LISTENING
    BY <1>2 DEF Connection
  <2> HIDE DEF c
  <2>2. /\ InState(h, P2P_TCP_CONNECTED)
        /\ DumpP2PConnection(c) = "no"
        /\ conn' = [conn EXCEPT ![h] = c]
        /\ SendPacket(c.guest, CreateTCPStartUDPPkt)
    BY <1>1, <1>4 DEF UDPListening, IgnoreDatagram, Crash, netVars, c
  <2>3. conn[h].main = h /\ conn[h].guest # None /\ conn[h].status = P2P_TCP_CONNECTED
    BY <2>1, <2>2, DumpResult, Parties
       DEF InState, P2P_UDP_LISTENING, P2P_TCP_CONNECTED
  <2>4. Held(h)
    BY <2>3, Parties, NoneAssumption
  <2>5. Sends(conn[h].guest, CreateTCPStartUDPPkt)
    BY <2>1, <2>2, <2>4, SendsOne DEF Held
  <2>6. QED
    BY <2>1, <2>2, <2>3, <2>4, <2>5, SessionBecomes DEF Listens
<1>5. CASE UDPConnected /\ ~UNCHANGED <<sent, conn>>
  <2> DEFINE c == [conn[h] EXCEPT !.guestUDP = udpThr.pkt.from, !.status = P2P_PUNCHING]
  <2>1. /\ c.keyword = conn[h].keyword /\ c.main = conn[h].main /\ c.guest = conn[h].guest
        /\ c.status = P2P_PUNCHING /\ c.mainId = conn[h].mainId
        /\ c.mainUDP = conn[h].mainUDP /\ c.guestUDP = udpThr.pkt.from
    BY <1>2 DEF Connection
  <2> HIDE DEF c
  <2>2. /\ InState(h, P2P_UDP_LISTENING)
        /\ DumpP2PConnection(c) = "no"
        /\ conn' = [conn EXCEPT ![h] = c]
        /\ SendPackets(c.main, CreateTCPStartPunchingPkt(c.mainId, c.guestUDP),
                       c.guest, CreateTCPStartPunchingPkt(c.mainId, c.mainUDP))
    BY <1>1, <1>5 DEF UDPConnected, IgnoreDatagram, Crash, netVars, c
  <2>3. conn[h].main = h /\ conn[h].guest # None /\ conn[h].status = P2P_UDP_LISTENING
    BY <2>1, <2>2, DumpResult, Parties
       DEF InState, P2P_UDP_LISTENING, P2P_PUNCHING, P2P_TCP_CONNECTED
  <2>4. Held(h)
    BY <2>3, Parties, NoneAssumption
  <2>5. c.mainUDP \in Tcp /\ c.guestUDP \in Tcp
    <3>1. conn[h].mainUDP \in Tcp \cup {None} /\ conn[h].mainUDP # None
      BY <1>2, <2>3 DEF Connection, IInv, AddressInv, P2P_UDP_LISTENING
    <3>2. udpThr.pkt.from \in Tcp
      BY <1>5, HoldsFacts DEF UDPConnected, ServerUDPType, Datagram
    <3>3. QED
      BY <2>1, <3>1, <3>2
  <2>6. SendsBoth(h, CreateTCPStartPunchingPkt(conn[h].mainId, c.guestUDP),
                  conn[h].guest, CreateTCPStartPunchingPkt(conn[h].mainId, c.mainUDP))
    BY <2>1, <2>2, <2>3, <2>4, SendsTwo DEF Held
  <2>7. Becomes(h, conn[h].keyword, h, conn[h].guest, P2P_PUNCHING)
    BY <2>1, <2>2, <2>3, SessionBecomes
  <2>8. QED
    BY <1>1, <1>5, <2>1, <2>3, <2>4, <2>5, <2>6, <2>7 DEF Punches, UDPConnected
<1>6. QED
  BY <1>3, <1>4, <1>5

LEMMA ReplyEvents ==
    ASSUME IInv, NEW t \in Tcp, Reply(t)
    PROVE  Answers(t)
<1>1. thr[t].result \in P2P_ERROR
  BY DEF IInv, TypeOK, Thread
<1> DEFINE p == CASE thr[t].pkt = "TPT_WAITING" ->
                       CreateTCPResultPkt("TPT_WAIT_RESULT", thr[t].result)
                  [] thr[t].pkt = "TPT_CONNECT" ->
                       CreateTCPResultPkt("TPT_CONNECT_RESULT", thr[t].result)
                  [] OTHER -> CreateTCPProxyResultPkt(thr[t].result)
<1>2. /\ p.type = CASE thr[t].pkt = "TPT_WAITING" -> "TPT_WAIT_RESULT"
                    [] thr[t].pkt = "TPT_CONNECT" -> "TPT_CONNECT_RESULT"
                    [] OTHER -> "TPT_PROXY_RESULT"
      /\ p \in ServerPacket(Id, Tcp)
  BY <1>1, PacketTypes DEF CreateTCPResultPkt, CreateTCPProxyResultPkt
<1>3. SendPacket(t, p) /\ UNCHANGED conn
  BY DEF Reply
<1> HIDE DEF p
<1>4. QED
  BY <1>2, <1>3, SendsOne DEF Answers

LEMMA AdmitEvents ==
    ASSUME IInv, CreateTCPID
    PROVE  \E t \in Tcp : Admits(t)
<1>1. accepting \in Tcp
  BY DEF CreateTCPID, IInv, TypeOK
<1>2. PICK d \in 0 .. IdCount - 1 :
         SendPacket(accepting, CreateTCPInitPkt((m_dwTCPid + d) % IdCount))
  BY DEF CreateTCPID
<1>3. (m_dwTCPid + d) % IdCount \in Id
  <2>1. m_dwTCPid + d \in Nat
    BY IdCountAssumption DEF IInv, TypeOK, Id
  <2>2. QED
    BY <2>1, ModId
<1>4. UNCHANGED conn
  BY DEF CreateTCPID
<1>5. QED
  BY <1>1, <1>2, <1>3, <1>4, SendsOne DEF Admits

(* A step that changes a session or sends something is one of these.       *)
SessionEvent(h) ==
    \/ Opens(h) \/ Listens(h) \/ Punches(h) \/ Confirms(h) \/ Relays(h)
    \/ GuestLeaves(h) \/ HostLeaves(h)
    \/ \E g \in Tcp : Joins(g, h)

LEMMA Events ==
    ASSUME IInv, [Next]_vars
    PROVE  \/ UNCHANGED <<sent, conn>>
           \/ \E t \in Tcp : Admits(t) \/ Answers(t) \/ SessionEvent(t)
<1>1. ASSUME NEW t \in Tcp, AcceptTCPSocketProcess(t) \/ Client(t) PROVE UNCHANGED <<sent, conn>>
  BY <1>1 DEF AcceptTCPSocketProcess, Client, ClientSend, SendUDPToServer, ClientGone
<1>2. ASSUME NEW t \in Tcp, RecvThread(t)
      PROVE  \/ UNCHANGED <<sent, conn>>
             \/ \E u \in Tcp : Answers(u) \/ SessionEvent(u)
  <2>1. CASE Waiting(t)
    BY <2>1, WaitingEvents DEF SessionEvent
  <2>2. CASE \E type \in SessionPacket : FindSession(t, type)
    BY <2>2 DEF FindSession
  <2>3. CASE DataProxy(t)
    BY <2>3 DEF DataProxy, Crash
  <2>4. CASE TCPConnected(t)
    BY <2>4, JoinEvents DEF SessionEvent
  <2>5. CASE SetP2POK(t)
    BY <2>5, ConfirmEvents DEF SessionEvent
  <2>6. CASE TCPProxyRequest(t)
    BY <2>6, RelayEvents DEF SessionEvent
  <2>7. CASE Reply(t)
    BY <2>7, ReplyEvents
  <2>8. CASE TCPEndProcess(t)
    BY <2>8, EndEvents DEF SessionEvent
  <2>9. CASE RemoveTCPID(t)
    BY <2>9 DEF RemoveTCPID, netVars
  <2>10. QED
    BY <1>2, <2>1, <2>2, <2>3, <2>4, <2>5, <2>6, <2>7, <2>8, <2>9 DEF RecvThread
<1>3. CASE CreateTCPID
  BY <1>3, AdmitEvents
<1>4. CASE RecvUDPPacketProcess
  BY <1>4 DEF RecvUDPPacketProcess, netVars
<1>5. CASE UDPListening \/ UDPConnected
  BY <1>5, UDPEvents DEF SessionEvent
<1>6. CASE UNCHANGED vars
  BY <1>6 DEF vars, netVars
<1>7. QED
  BY <1>1, <1>2, <1>3, <1>4, <1>5, <1>6 DEF Next

(* What a step may do to the parties of a session.                         *)
LEMMA PartySteps ==
    ASSUME IInv, [Next]_vars, NEW h \in Tcp
    PROVE  /\ conn'[h].keyword = conn[h].keyword \/ Opens(h)
           /\ conn'[h].guest \in {conn[h].guest, None} \/ \E g \in Tcp : Joins(g, h) /\ conn'[h].guest = g
<1> DEFINE Kept == /\ conn'[h].keyword = conn[h].keyword
                   /\ conn'[h].guest \in {conn[h].guest, None}
<1>1. CASE conn'[h] = conn[h]
  BY <1>1
<1>2. ASSUME NEW k \in Tcp, SessionEvent(k), k # h PROVE conn'[h] = conn[h]
  BY <1>2 DEF SessionEvent, Opens, Joins, Listens, Punches, Confirms, Relays, GuestLeaves,
              HostLeaves, Becomes
<1>3. ASSUME NEW g \in Tcp, Joins(g, h)
      PROVE  conn'[h].keyword = conn[h].keyword /\ conn'[h].guest = g
  BY <1>3 DEF Joins, Becomes
<1>4. CASE Listens(h) \/ Punches(h) \/ Confirms(h) \/ Relays(h) \/ GuestLeaves(h) \/ HostLeaves(h)
  BY <1>4 DEF Listens, Punches, Confirms, Relays, GuestLeaves, HostLeaves, Becomes
<1>5. CASE Opens(h)
  BY <1>5 DEF Opens, Becomes
<1>6. ASSUME NEW t \in Tcp, Admits(t) \/ Answers(t) PROVE conn'[h] = conn[h]
  BY <1>6 DEF Admits, Answers
<1>7. CASE \E t \in Tcp : SessionEvent(t)
  BY <1>1, <1>2, <1>3, <1>4, <1>5, <1>7 DEF SessionEvent
<1>8. QED
  BY <1>1, <1>6, <1>7, Events

(* Why a socket is sent a packet.                                          *)
Cause(t, p) ==
    \/ Admits(t) /\ p.type = "TPT_INIT"
    \/ Answers(t) /\ p.type = CASE thr[t].pkt = "TPT_WAITING" -> "TPT_WAIT_RESULT"
                                [] thr[t].pkt = "TPT_CONNECT" -> "TPT_CONNECT_RESULT"
                                [] OTHER -> "TPT_PROXY_RESULT"
    \/ \E h \in Tcp : Joins(t, h) /\ p = CreateTCPResultPkt("TPT_CONNECT_RESULT", "NONE")
    \/ \E g \in Tcp : Joins(g, t) /\ p = CreateTCPStartUDPPkt
    \/ \E h \in Tcp : Listens(h) /\ t = conn[h].guest /\ p = CreateTCPStartUDPPkt
    \/ \E h \in Tcp : /\ Punches(h) /\ t \in {h, conn[h].guest} /\ p.type = "TPT_CLIENT_INFO"
                      /\ p = CreateTCPStartPunchingPkt(conn[h].mainId,
                                IF t = h THEN udpThr.pkt.from ELSE conn[h].mainUDP)
    \/ \E h \in Tcp : /\ Confirms(h) /\ BothOK(conn'[h])
                      /\ t \in {h, conn[h].guest} /\ p = CreateP2PSuccessPkt
    \/ \E h \in Tcp : Relays(h) /\ t \in {h, conn[h].guest} /\ p = CreateTCPProxyResultPkt("NONE")
    \/ GuestLeaves(t) /\ p = CreateTCPResultPkt("TPT_RESET", "NONE")

LEMMA SentSteps ==
    ASSUME IInv, [Next]_vars, NEW t \in Tcp
    PROVE  \/ sent'[t] = sent[t]
           \/ \E p \in ServerPacket(Id, Tcp) : sent'[t] = Ext!BagAdd(sent[t], p) /\ Cause(t, p)
<1> DEFINE Good == \/ sent'[t] = sent[t]
                   \/ \E p \in ServerPacket(Id, Tcp) :
                        sent'[t] = Ext!BagAdd(sent[t], p) /\ Cause(t, p)
<1>1. CASE UNCHANGED sent
  BY <1>1
<1>2. ASSUME NEW u \in Tcp, Admits(u) PROVE Good
  <2>1. PICK i \in Id : Sends(u, CreateTCPInitPkt(i))
    BY <1>2 DEF Admits
  <2>2. CreateTCPInitPkt(i) \in ServerPacket(Id, Tcp) /\ CreateTCPInitPkt(i).type = "TPT_INIT"
    BY PacketTypes DEF CreateTCPInitPkt
  <2>3. QED
    BY <1>2, <2>1, <2>2 DEF Sends, Cause
<1>3. ASSUME NEW u \in Tcp, Answers(u) PROVE Good
  <2>1. PICK p \in ServerPacket(Id, Tcp) :
          /\ Sends(u, p)
          /\ p.type = CASE thr[u].pkt = "TPT_WAITING" -> "TPT_WAIT_RESULT"
                        [] thr[u].pkt = "TPT_CONNECT" -> "TPT_CONNECT_RESULT"
                        [] OTHER -> "TPT_PROXY_RESULT"
    BY <1>3 DEF Answers
  <2>2. QED
    BY <1>3, <2>1 DEF Sends, Cause
<1>4. "NONE" \in P2P_ERROR
  BY DEF P2P_ERROR
<1>5. ASSUME NEW h \in Tcp, SessionEvent(h) PROVE Good
  <2>1. CASE Opens(h) \/ HostLeaves(h)
    BY <1>1, <2>1 DEF Opens, HostLeaves
  <2>2. ASSUME NEW g \in Tcp, Joins(g, h) PROVE Good
    BY <1>4, <2>2, PacketTypes DEF Joins, SendsBoth, Cause
  <2>3. CASE Listens(h)
    BY <2>3, PacketTypes DEF Listens, Sends, Cause
  <2>4. CASE Punches(h)
    <3> DEFINE a == udpThr.pkt.from
               b == conn[h].mainUDP
    <3>1. /\ a \in Tcp /\ b \in Tcp /\ conn[h].guest # h
          /\ SendsBoth(h, CreateTCPStartPunchingPkt(conn[h].mainId, a),
                      conn[h].guest, CreateTCPStartPunchingPkt(conn[h].mainId, b))
      BY <2>4 DEF Punches, Held
    <3> HIDE DEF a, b
    <3>2. conn[h].mainId \in Id
      BY DEF IInv, TypeOK, Connection
    <3>3. \A x \in Tcp : /\ CreateTCPStartPunchingPkt(conn[h].mainId, x) \in ServerPacket(Id, Tcp)
                         /\ CreateTCPStartPunchingPkt(conn[h].mainId, x).type = "TPT_CLIENT_INFO"
      BY <3>2, PacketTypes DEF CreateTCPStartPunchingPkt, ServerPacket
    <3>4. QED
      BY <2>4, <3>1, <3>3 DEF SendsBoth, Cause, a, b
  <2>5. CASE Confirms(h)
    BY <1>1, <2>5, PacketTypes DEF Confirms, SendsBoth, Cause
  <2>6. CASE Relays(h)
    BY <1>4, <2>6, PacketTypes DEF Relays, SendsBoth, Cause
  <2>7. CASE GuestLeaves(h)
    BY <1>4, <2>7, PacketTypes DEF GuestLeaves, Sends, Cause
  <2>8. QED
    BY <1>5, <2>1, <2>2, <2>3, <2>4, <2>5, <2>6, <2>7 DEF SessionEvent
<1>6. QED
  BY <1>1, <1>2, <1>3, <1>5, Events

(* A thread of the server takes a packet from a stream or drops it all.     *)
Drained(t) ==
    \/ c2s'[t] = c2s[t]
    \/ c2s'[t] = <<>>
    \/ Dispatch(t, Head(c2s[t])) /\ c2s'[t] = Tail(c2s[t])

LEMMA RecvStreams ==
    ASSUME IInv, NEW u \in Tcp, RecvThread(u), NEW t \in Tcp
    PROVE  Drained(t)
<1>1. DOMAIN c2s = Tcp
  BY DEF IInv, TypeOK
<1>2. CASE UNCHANGED c2s
  BY <1>2 DEF Drained
<1>3. ASSUME NEW type, Dispatch(u, type) PROVE Drained(t)
  <2>1. CASE u # t
    BY <1>1, <1>3, <2>1 DEF Dispatch, Drained
  <2>2. CASE u = t
    BY <1>1, <1>3, <2>2 DEF Dispatch, Drained
  <2>3. QED
    BY <2>1, <2>2
<1>4. CASE \E why : Crash(why)
  BY <1>4 DEF Crash, Drained
<1>5. QED
  <2>1. CASE Waiting(u)
    BY <1>3, <2>1 DEF Waiting
  <2>2. CASE \E type \in SessionPacket : FindSession(u, type)
    BY <1>3, <2>2 DEF FindSession
  <2>3. CASE DataProxy(u)
    BY <1>3, <1>4, <2>3 DEF DataProxy
  <2>4. CASE TCPConnected(u)
    BY <1>2, <1>4, <2>4 DEF TCPConnected, Refuse, netVars
  <2>5. CASE SetP2POK(u)
    BY <1>2, <1>4, <2>5 DEF SetP2POK, Refuse, netVars
  <2>6. CASE TCPProxyRequest(u)
    BY <1>2, <1>4, <2>6 DEF TCPProxyRequest, Refuse, netVars
  <2>7. CASE Reply(u)
    BY <1>2, <2>7 DEF Reply
  <2>8. CASE TCPEndProcess(u)
    BY <1>1, <2>8 DEF TCPEndProcess, Drained
  <2>9. CASE RemoveTCPID(u)
    BY <1>2, <2>9 DEF RemoveTCPID, netVars
  <2>10. QED
    BY <2>1, <2>2, <2>3, <2>4, <2>5, <2>6, <2>7, <2>8, <2>9 DEF RecvThread

(* What a step does to the stream of a client.                             *)
LEMMA StreamSteps ==
    ASSUME IInv, [Next]_vars, NEW t \in Tcp
    PROVE  Drained(t) \/ \E type \in ClientTCPType : ClientSend(t, type)
<1> DEFINE Good == Drained(t) \/ \E type \in ClientTCPType : ClientSend(t, type)
<1>1. DOMAIN c2s = Tcp
  BY DEF IInv, TypeOK
<1>2. CASE UNCHANGED c2s
  BY <1>2 DEF Drained
<1>3. ASSUME NEW u \in Tcp, Client(u) PROVE Good
  <2>1. ASSUME NEW type \in ClientTCPType, ClientSend(u, type) PROVE Good
    <3>1. CASE u = t
      BY <2>1, <3>1
    <3>2. CASE u # t
      BY <1>1, <2>1, <3>2 DEF ClientSend, Drained
    <3>3. QED
      BY <3>1, <3>2
  <2>2. QED
    BY <1>2, <1>3, <2>1 DEF Client, SendUDPToServer, ClientGone
<1>4. ASSUME NEW u \in Tcp, RecvThread(u) PROVE Good
  BY <1>4, RecvStreams
<1>5. CASE (\E u \in Tcp : AcceptTCPSocketProcess(u)) \/ CreateTCPID \/ RecvUDPPacketProcess
  BY <1>2, <1>5 DEF AcceptTCPSocketProcess, CreateTCPID, RecvUDPPacketProcess, netVars
<1>6. CASE \E why : Crash(why)
  BY <1>6 DEF Crash, Drained
<1>7. CASE UDPListening \/ UDPConnected
  BY <1>2, <1>6, <1>7 DEF UDPListening, UDPConnected, IgnoreDatagram, netVars
<1>8. CASE UNCHANGED vars
  BY <1>2, <1>8 DEF vars, netVars
<1>9. QED
  BY <1>3, <1>4, <1>5, <1>7, <1>8 DEF Next

(* The history of a client changes when it sends, its role when it is      *)
(* accepted.                                                               *)
LEMMA PeerSteps ==
    ASSUME IInv, [Next]_vars, NEW t \in Tcp
    PROVE  \/ \E type \in ClientTCPType : ClientSend(t, type)
           \/ peer'[t].greeted = peer[t].greeted /\ peer'[t].asked = peer[t].asked
<1>1. peer \in [Tcp -> [role : Role \cup {None}, keyword : Keyword \cup {None},
                        greeted : BOOLEAN, asked : Nat]]
  BY DEF IInv, TypeOK
<1>2. CASE UNCHANGED peer
  BY <1>2
<1>3. ASSUME NEW u \in Tcp, AcceptTCPSocketProcess(u)
      PROVE  peer'[t].greeted = peer[t].greeted /\ peer'[t].asked = peer[t].asked
  BY <1>1, <1>3 DEF AcceptTCPSocketProcess
<1>4. ASSUME NEW u \in Tcp, u # t, Client(u)
      PROVE  peer'[t] = peer[t]
  BY <1>1, <1>4 DEF Client, ClientSend, SendUDPToServer, ClientGone
<1>5. CASE Client(t)
  BY <1>2, <1>5 DEF Client, SendUDPToServer, ClientGone
<1>6. ASSUME NEW u \in Tcp, RecvThread(u) PROVE UNCHANGED peer
  BY <1>6 DEF RecvThread, Waiting, FindSession, DataProxy, TCPConnected, SetP2POK, TCPProxyRequest,
              Reply, TCPEndProcess, RemoveTCPID, Refuse, Crash, netVars
<1>7. CASE CreateTCPID \/ RecvUDPPacketProcess \/ UDPListening \/ UDPConnected
  BY <1>2, <1>7 DEF CreateTCPID, RecvUDPPacketProcess, UDPListening, UDPConnected,
                    IgnoreDatagram, Crash, netVars
<1>8. CASE UNCHANGED vars
  BY <1>2, <1>8 DEF vars, netVars
<1>9. QED
  BY <1>2, <1>3, <1>4, <1>5, <1>6, <1>7, <1>8 DEF Next

-----------------------------------------------------------------------------
(* The socket that ended before CreateTCPID                                *)

Member(t) == \E h \in Tcp : t \in {conn[h].main, conn[h].guest}

(* Not yet in m_TCPList.                                                   *)
Silent(t) == thr[t].pc = "none" \/ accepting = t

Entered(t) == \E i \in Id : m_TCPList[i] = t

OnlyInit(t) == \A p \in BagToSet(sent[t]) : p.type = "TPT_INIT"

SilentInv ==
    \A t \in Tcp :
        /\ accepting = t => thr[t].pc # "none"
        /\ Silent(t) => /\ BagToSet(sent[t]) = {}
                        /\ c2s[t] = <<>>
                        /\ thr[t].pc \notin {"apply", "reply"}
                        /\ ~Entered(t)
                        /\ \A h \in Tcp : conn[h].guest # t

DeadInv == \A t \in Tcp : thr[t].pc = "stopped" /\ Entered(t) => OnlyInit(t)

LEMMA SilentInit == Init => SilentInv /\ DeadInv
<1> SUFFICES ASSUME Init, NEW t \in Tcp
             PROVE  /\ BagToSet(sent[t]) = {} /\ c2s[t] = <<>> /\ thr[t].pc = "none"
                    /\ accepting # t /\ ~Entered(t) /\ \A h \in Tcp : conn[h].guest # t
  BY DEF SilentInv, DeadInv
<1>1. thr[t].pc = "none"
  BY DEF Init, Idle
<1>2. ~Entered(t)
  BY NoneAssumption DEF Init, Entered
<1>3. BagToSet(sent[t]) = {}
  BY DEF Init, EmptyBag, SetToBag, BagToSet
<1>4. \A h \in Tcp : conn[h].guest # t
  BY NoneAssumption DEF Init, NoConnection
<1>5. QED
  BY <1>1, <1>2, <1>3, <1>4, NoneAssumption DEF Init

(* Sessions are made of sockets with a running thread.                     *)
LEMMA MembersRun ==
    ASSUME IInv, SilentInv, NEW t \in Tcp, Member(t)
    PROVE  Live(t) /\ ~Silent(t)
<1>1. PICK h \in Tcp : t \in {conn[h].main, conn[h].guest}
  BY DEF Member
<1>2. SessionInv!(h)
  BY DEF IInv, SessionInv
<1>3. CASE conn[h].guest = t
  BY <1>2, <1>3, NoneAssumption DEF SilentInv
<1>4. CASE conn[h].main = t
  <2>1. t = h
    BY <1>2, <1>4, NoneAssumption
  <2>2. /\ Live(h) /\ conn[h].mainId \in Id /\ m_P2PConnectList[conn[h].mainId] = h
    BY <1>4, <2>1, ListedFacts
  <2>3. m_TCPList[conn[h].mainId] = h
    BY <2>2, NoneAssumption DEF IInv, ListedUnderLiveId
  <2>4. Entered(t)
    BY <2>1, <2>2, <2>3 DEF Entered
  <2>5. QED
    BY <2>1, <2>2, <2>4 DEF SilentInv
<1>5. QED
  BY <1>1, <1>3, <1>4

(* Packets go to the socket just accepted, to the one that asked and to    *)
(* the two of a session.                                                   *)
LEMMA SentQuiet ==
    ASSUME IInv, [Next]_vars, NEW t \in Tcp,
           thr[t].pc # "reply", ~Member(t), thr[t].pc # "apply",
           ~(CreateTCPID /\ accepting = t)
    PROVE  sent'[t] = sent[t]
<1>1. ASSUME NEW p, Cause(t, p) PROVE FALSE
  BY <1>1 DEF Cause, Admits, Answers, Reply, Joins, TCPConnected, At, Listens, Punches, Confirms,
              Relays, GuestLeaves, Held, Member
<1>2. QED
  BY <1>1, SentSteps

(* Only the client itself fills its stream.                                *)
LEMMA StreamGrows ==
    ASSUME IInv, [Next]_vars, NEW t \in Tcp, c2s[t] = <<>>,
           \A type \in ClientTCPType : ~ClientSend(t, type)
    PROVE  c2s'[t] = <<>>
BY StreamSteps DEF Drained, Dispatch

(* A thread with nothing to read does not start on a packet, and ends only *)
(* by RemoveTCPID.                                                         *)
LEMMA ThreadSteps ==
    ASSUME IInv, [Next]_vars, NEW t \in Tcp
    PROVE  /\ c2s[t] = <<>> /\ thr[t].pc \notin {"apply", "reply"}
                => thr'[t].pc \notin {"apply", "reply"}
           /\ thr[t].pc # "stopped" /\ thr'[t].pc = "stopped" => RemoveTCPID(t)
<1> DEFINE Good == /\ c2s[t] = <<>> /\ thr[t].pc \notin {"apply", "reply"}
                        => thr'[t].pc \notin {"apply", "reply"}
                   /\ thr[t].pc # "stopped" /\ thr'[t].pc = "stopped" => RemoveTCPID(t)
<1>1. thr \in [Tcp -> Thread]
  BY DEF IInv, TypeOK
<1>2. CASE UNCHANGED thr
  BY <1>2
<1>3. ASSUME NEW u \in Tcp, NEW x, thr' = [thr EXCEPT ![u] = x], u # t PROVE Good
  BY <1>1, <1>3
<1>4. ASSUME NEW x, thr' = [thr EXCEPT ![t] = x], x.pc \notin {"apply", "reply", "stopped"}
      PROVE  Good
  BY <1>1, <1>4
<1>5. Idle.pc \notin {"apply", "reply", "stopped"}
  BY DEF Idle
<1>6. ASSUME NEW u \in Tcp, AcceptTCPSocketProcess(u) PROVE Good
  BY <1>3, <1>4, <1>5, <1>6 DEF AcceptTCPSocketProcess
<1>7. ASSUME NEW u \in Tcp, Client(u) PROVE Good
  BY <1>2, <1>7 DEF Client, ClientSend, SendUDPToServer, ClientGone
<1>8. ASSUME NEW u \in Tcp, NEW type, Dispatch(u, type), NEW x, thr' = [thr EXCEPT ![u] = x],
             x.pc # "stopped"
      PROVE  Good
  <2>1. CASE u = t
    BY <1>1, <1>8, <2>1 DEF Dispatch
  <2>2. QED
    BY <1>3, <1>8, <2>1
<1>9. ASSUME NEW u \in Tcp, NEW x, thr' = [thr EXCEPT ![u] = x], thr[u].pc \in {"apply", "reply"},
             x.pc # "stopped"
      PROVE  Good
  <2>1. CASE u = t
    BY <1>1, <1>9, <2>1
  <2>2. QED
    BY <1>3, <1>9, <2>1
<1>10. \A type, r : Replying(type, r).pc # "stopped"
  BY DEF Replying, Idle
<1>11. ASSUME NEW u \in Tcp, thr[u].pc \in {"apply", "reply"}, NEW e, Refuse(u, e) PROVE Good
  BY <1>5, <1>9, <1>10, <1>11 DEF Refuse
<1>12. ASSUME NEW u \in Tcp, RecvThread(u) PROVE Good
  <2>1. CASE Waiting(u)
    BY <1>8, <1>10, <2>1 DEF Waiting
  <2>2. ASSUME NEW type \in SessionPacket, FindSession(u, type) PROVE Good
    <3>1. PICK h : thr' = [thr EXCEPT ![u] =
              IF h # None THEN [Idle EXCEPT !.pc = "apply", !.pkt = type, !.p2p = h]
              ELSE IF AnswersError(type) THEN Replying(type, "KEYWORD_NOT_FOUND")
              ELSE Idle]
      BY <2>2 DEF FindSession
    <3>2. [Idle EXCEPT !.pc = "apply", !.pkt = type, !.p2p = h].pc # "stopped"
      BY DEF Idle
    <3> DEFINE x == IF h # None THEN [Idle EXCEPT !.pc = "apply", !.pkt = type, !.p2p = h]
                    ELSE IF AnswersError(type) THEN Replying(type, "KEYWORD_NOT_FOUND")
                    ELSE Idle
    <3>3. x.pc # "stopped"
      BY <1>5, <1>10, <3>2
    <3>4. thr' = [thr EXCEPT ![u] = x] /\ Dispatch(u, type)
      BY <2>2, <3>1 DEF FindSession
    <3> HIDE DEF x
    <3>5. QED
      BY <1>8, <3>3, <3>4
  <2>3. CASE DataProxy(u)
    BY <1>2, <2>3 DEF DataProxy, Crash
  <2>4. CASE TCPConnected(u)
    BY <1>2, <1>5, <1>9, <1>11, <2>4 DEF TCPConnected, At, Crash
  <2>5. CASE SetP2POK(u)
    BY <1>2, <1>5, <1>9, <1>11, <2>5 DEF SetP2POK, At, Crash
  <2>6. CASE TCPProxyRequest(u)
    BY <1>2, <1>5, <1>9, <1>11, <2>6 DEF TCPProxyRequest, At, Crash
  <2>7. CASE Reply(u)
    BY <1>5, <1>9, <2>7 DEF Reply, Break
  <2>8. CASE TCPEndProcess(u)
    <3>1. thr' = [thr EXCEPT ![u] = [thr[u] EXCEPT !.pc = "removing"]]
      BY <2>8 DEF TCPEndProcess
    <3>2. thr[u] \in Thread
      BY <1>1
    <3>3. [thr[u] EXCEPT !.pc = "removing"].pc = "removing"
      BY <3>2 DEF Thread
    <3>4. QED
      BY <1>3, <1>4, <3>1, <3>3
  <2>9. CASE RemoveTCPID(u)
    <3>1. thr' = [thr EXCEPT ![u] = [thr[u] EXCEPT !.pc = "stopped"]]
      BY <2>9 DEF RemoveTCPID
    <3>2. thr[u] \in Thread
      BY <1>1
    <3>3. [thr[u] EXCEPT !.pc = "stopped"].pc = "stopped"
      BY <3>2 DEF Thread
    <3>4. CASE u = t
      BY <1>1, <2>9, <3>1, <3>3, <3>4
    <3>5. QED
      BY <1>3, <3>1, <3>4
  <2>10. QED
    BY <1>12, <2>1, <2>2, <2>3, <2>4, <2>5, <2>6, <2>7, <2>8, <2>9 DEF RecvThread
<1>13. CASE CreateTCPID \/ RecvUDPPacketProcess \/ UDPListening \/ UDPConnected
  BY <1>2, <1>13 DEF CreateTCPID, RecvUDPPacketProcess, UDPListening, UDPConnected,
                     IgnoreDatagram, Crash
<1>14. CASE UNCHANGED vars
  BY <1>2, <1>14 DEF vars
<1>15. QED
  BY <1>6, <1>7, <1>12, <1>13, <1>14 DEF Next

(* A socket becomes the guest of a session by a TPT_CONNECT of its own.    *)
LEMMA GuestSteps ==
    ASSUME IInv, [Next]_vars, NEW t \in Tcp, NEW h \in Tcp,
           conn[h].guest # t, thr[t].pc # "apply"
    PROVE  conn'[h].guest # t
<1>1. ~Joins(t, h)
  BY DEF Joins, TCPConnected, At
<1>2. QED
  BY <1>1, PartySteps, NoneAssumption

LEMMA SilentSays ==
    ASSUME SilentInv, NEW t \in Tcp, Silent(t), NEW type
    PROVE  ~ClientSend(t, type)
<1>1. BagToSet(sent[t]) = {}
  BY DEF SilentInv
<1>2. ~BagIn(CreateTCPProxyResultPkt("NONE"), sent[t]) /\ \A p : ~Told(t, p)
  BY <1>1 DEF BagIn, Told
<1>3. QED
  BY <1>2 DEF ClientSend, ClientMaySend

LEMMA EntrySteps ==
    ASSUME IInv, [Next]_vars, NEW t \in Tcp, Entered(t)', ~Entered(t)
    PROVE  CreateTCPID /\ accepting = t
<1>1. CASE UNCHANGED m_TCPList
  BY <1>1 DEF Entered
<1>2. CASE CreateTCPID
  <2>1. PICK i : m_TCPList' = [m_TCPList EXCEPT ![i] = accepting]
    BY <1>2 DEF CreateTCPID
  <2>2. m_TCPList \in [Id -> Tcp \cup {None}]
    BY DEF IInv, TypeOK
  <2>3. QED
    BY <1>2, <2>1, <2>2 DEF Entered
<1>3. ASSUME NEW u \in Tcp, RemoveTCPID(u) PROVE FALSE
  BY <1>3, NoneAssumption DEF RemoveTCPID, EntryErased, Entered
<1>4. ASSUME NEW u \in Tcp, RecvThread(u), ~RemoveTCPID(u) PROVE UNCHANGED m_TCPList
  <2>1. CASE Waiting(u)
    BY <2>1 DEF Waiting
  <2>2. CASE \E type \in SessionPacket : FindSession(u, type)
    BY <2>2 DEF FindSession, serverVars
  <2>3. CASE DataProxy(u)
    BY <2>3 DEF DataProxy, Crash, serverVars
  <2>4. CASE TCPConnected(u)
    BY <2>4 DEF TCPConnected, Refuse, Crash, serverVars
  <2>5. CASE SetP2POK(u)
    BY <2>5 DEF SetP2POK, Refuse, Crash, serverVars
  <2>6. CASE TCPProxyRequest(u)
    BY <2>6 DEF TCPProxyRequest, Refuse, Crash, serverVars
  <2>7. CASE Reply(u)
    BY <2>7 DEF Reply, serverVars
  <2>8. CASE TCPEndProcess(u)
    BY <2>8 DEF TCPEndProcess
  <2>9. QED
    BY <1>4, <2>1, <2>2, <2>3, <2>4, <2>5, <2>6, <2>7, <2>8 DEF RecvThread
<1>5. ASSUME NEW u \in Tcp, AcceptTCPSocketProcess(u) \/ Client(u) PROVE UNCHANGED m_TCPList
  BY <1>5 DEF AcceptTCPSocketProcess, Client, ClientSend, SendUDPToServer, ClientGone, serverVars
<1>6. CASE RecvUDPPacketProcess \/ UDPListening \/ UDPConnected
  BY <1>1, <1>6 DEF RecvUDPPacketProcess, UDPListening, UDPConnected, IgnoreDatagram, Crash,
                    serverVars
<1>7. CASE UNCHANGED vars
  BY <1>1, <1>7 DEF vars, serverVars
<1>8. QED
  BY <1>1, <1>2, <1>3, <1>4, <1>5, <1>6, <1>7 DEF Next

(* accepting is set by accept and reset by CreateTCPID.                    *)
LEMMA AcceptingSteps ==
    ASSUME IInv, [Next]_vars, NEW t \in Tcp
    PROVE  /\ accepting' = t => (accepting = t /\ ~CreateTCPID) \/ AcceptTCPSocketProcess(t)
           /\ AcceptTCPSocketProcess(t) => thr[t].pc = "none" /\ thr'[t].pc # "none"
<1>1. AcceptTCPSocketProcess(t) => thr[t].pc = "none" /\ thr'[t].pc # "none"
  <2> SUFFICES ASSUME AcceptTCPSocketProcess(t) PROVE thr[t].pc = "none" /\ thr'[t].pc # "none"
    OBVIOUS
  <2>1. thr[t].pc = "none"
    BY DEF AcceptTCPSocketProcess, IInv, ThreadInv
  <2>2. DOMAIN thr = Tcp
    BY DEF IInv, TypeOK
  <2>3. thr'[t] = Idle
    BY <2>2 DEF AcceptTCPSocketProcess
  <2>4. QED
    BY <2>1, <2>3 DEF Idle
<1>2. CreateTCPID => accepting' = None
  BY DEF CreateTCPID
<1>3. ASSUME NEW u \in Tcp, RecvThread(u) PROVE UNCHANGED accepting
  <2>1. CASE Waiting(u)
    BY <2>1 DEF Waiting
  <2>2. CASE \E type \in SessionPacket : FindSession(u, type)
    BY <2>2 DEF FindSession
  <2>3. CASE DataProxy(u)
    BY <2>3 DEF DataProxy, Crash
  <2>4. CASE TCPConnected(u)
    BY <2>4 DEF TCPConnected, Refuse, Crash
  <2>5. CASE SetP2POK(u)
    BY <2>5 DEF SetP2POK, Refuse, Crash
  <2>6. CASE TCPProxyRequest(u)
    BY <2>6 DEF TCPProxyRequest, Refuse, Crash
  <2>7. CASE Reply(u)
    BY <2>7 DEF Reply
  <2>8. CASE TCPEndProcess(u)
    BY <2>8 DEF TCPEndProcess
  <2>9. CASE RemoveTCPID(u)
    BY <2>9 DEF RemoveTCPID
  <2>10. QED
    BY <1>3, <2>1, <2>2, <2>3, <2>4, <2>5, <2>6, <2>7, <2>8, <2>9 DEF RecvThread
<1>4. ASSUME NEW u \in Tcp, AcceptTCPSocketProcess(u) PROVE accepting' = u
  BY <1>4 DEF AcceptTCPSocketProcess
<1>5. ASSUME NEW u \in Tcp, Client(u) PROVE UNCHANGED accepting
  BY <1>5 DEF Client, ClientSend, SendUDPToServer, ClientGone
<1>6. RecvUDPPacketProcess \/ UDPListening \/ UDPConnected => UNCHANGED accepting
  BY DEF RecvUDPPacketProcess, UDPListening, UDPConnected, IgnoreDatagram, Crash
<1>7. UNCHANGED vars => UNCHANGED accepting
  BY DEF vars
<1>8. accepting' = t => accepting = t \/ AcceptTCPSocketProcess(t)
  BY <1>2, <1>3, <1>4, <1>5, <1>6, <1>7, NoneAssumption DEF Next
<1>9. accepting' = t => ~CreateTCPID
  BY <1>2, NoneAssumption
<1>10. QED
  BY <1>1, <1>8, <1>9

LEMMA SilentNext == IInv /\ SilentInv /\ [Next]_vars => SilentInv'
<1> SUFFICES ASSUME IInv, SilentInv, [Next]_vars, NEW t \in Tcp
             PROVE  /\ accepting' = t => thr'[t].pc # "none"
                    /\ Silent(t)' => /\ BagToSet(sent'[t]) = {}
                                     /\ c2s'[t] = <<>>
                                     /\ thr'[t].pc \notin {"apply", "reply"}
                                     /\ ~Entered(t)'
                                     /\ \A h \in Tcp : conn'[h].guest # t
  BY DEF SilentInv
<1>1. accepting' = t => thr'[t].pc # "none"
  <2>1. accepting = t => thr[t].pc # "none"
    BY DEF SilentInv
  <2>2. thr'[t].pc = "none" => thr[t].pc = "none"
    BY ThreadStays
  <2>3. QED
    BY <2>1, <2>2, AcceptingSteps
<1>2. ASSUME Silent(t)' PROVE Silent(t) /\ ~(CreateTCPID /\ accepting = t)
  <2>1. CASE thr'[t].pc = "none"
    <3>1. thr[t].pc = "none"
      BY <2>1, ThreadStays
    <3>2. accepting # t
      BY <3>1 DEF SilentInv
    <3>3. QED
      BY <3>1, <3>2 DEF Silent
  <2>2. CASE accepting' = t
    BY <2>2, AcceptingSteps, NoneAssumption DEF Silent, CreateTCPID
  <2>3. QED
    BY <1>2, <2>1, <2>2 DEF Silent
<1>3. ASSUME Silent(t)'
      PROVE  /\ BagToSet(sent'[t]) = {}
             /\ c2s'[t] = <<>>
             /\ thr'[t].pc \notin {"apply", "reply"}
             /\ ~Entered(t)'
             /\ \A h \in Tcp : conn'[h].guest # t
  <2>1. /\ Silent(t) /\ BagToSet(sent[t]) = {} /\ c2s[t] = <<>>
        /\ thr[t].pc \notin {"apply", "reply"} /\ ~Entered(t)
        /\ \A h \in Tcp : conn[h].guest # t
    BY <1>2, <1>3 DEF SilentInv
  <2>2. ~Member(t)
    BY <2>1, MembersRun
  <2>3. sent'[t] = sent[t]
    BY <1>2, <1>3, <2>1, <2>2, SentQuiet
  <2>4. c2s'[t] = <<>>
    BY <2>1, SilentSays, StreamGrows
  <2>5. thr'[t].pc \notin {"apply", "reply"}
    BY <2>1, ThreadSteps
  <2>6. ~Entered(t)'
    BY <1>2, <1>3, <2>1, EntrySteps
  <2>7. \A h \in Tcp : conn'[h].guest # t
    BY <2>1, GuestSteps
  <2>8. QED
    BY <2>1, <2>3, <2>4, <2>5, <2>6, <2>7
<1>4. QED
  BY <1>1, <1>3

LEMMA DeadNext == IInv /\ SilentInv /\ DeadInv /\ [Next]_vars => DeadInv'
<1> SUFFICES ASSUME IInv, SilentInv, DeadInv, [Next]_vars, NEW t \in Tcp,
                    thr'[t].pc = "stopped", Entered(t)'
             PROVE  OnlyInit(t)'
  BY DEF DeadInv
<1>1. thr[t].pc = "stopped"
  <2>1. ASSUME RemoveTCPID(t) PROVE ~Entered(t)'
    BY <2>1, NoneAssumption DEF RemoveTCPID, EntryErased, Entered
  <2>2. QED
    BY <2>1, ThreadSteps
<1>2. ~Member(t)
  BY <1>1, MembersRun DEF Live
<1>3. CASE Entered(t)
  <2>1. ~(CreateTCPID /\ accepting = t)
    BY <1>3 DEF SilentInv, Silent
  <2>2. sent'[t] = sent[t]
    BY <1>1, <1>2, <2>1, SentQuiet
  <2>3. QED
    BY <1>1, <1>3, <2>2 DEF DeadInv, OnlyInit
<1>4. CASE ~Entered(t)
  <2>1. CreateTCPID /\ accepting = t
    BY <1>4, EntrySteps
  <2>2. BagToSet(sent[t]) = {}
    BY <2>1 DEF SilentInv, Silent
  <2>3. PICK i : SendPacket(t, CreateTCPInitPkt(i))
    BY <2>1 DEF CreateTCPID
  <2>4. sent'[t] = Ext!BagAdd(sent[t], CreateTCPInitPkt(i))
    BY <2>3 DEF SendPacket, IInv, TypeOK, PacketBags
  <2>5. BagToSet(sent'[t]) = {CreateTCPInitPkt(i)}
    BY <2>2, <2>4 DEF Ext!BagAdd, BagToSet
  <2>6. QED
    BY <2>5 DEF OnlyInit, CreateTCPInitPkt
<1>5. QED
  BY <1>3, <1>4

(* A socket that ended before CreateTCPID keeps a tcpid nobody frees, but  *)
(* no session uses it and it was sent nothing but TPT_INIT                 *)
(* (P2PServer.cpp:96-146, 186-225).                                        *)
THEOREM DeadEntriesAreInert == Spec => []DeadEntryInert
<1>1. IInv /\ SilentInv /\ DeadInv => DeadEntryInert
  <2> SUFFICES ASSUME IInv, SilentInv, DeadInv, NEW i \in Id,
                      m_TCPList[i] # None, thr[m_TCPList[i]].pc = "stopped"
               PROVE  LET t == m_TCPList[i]
                      IN  /\ \A p \in BagToSet(sent[t]) : p.type = "TPT_INIT"
                          /\ \A h \in Tcp : t \notin {conn[h].main, conn[h].guest}
    BY DEF DeadEntryInert
  <2>1. PICK t \in Tcp : t = m_TCPList[i]
    BY DEF IInv, TypeOK
  <2>2. Entered(t) /\ thr[t].pc = "stopped"
    BY <2>1 DEF Entered
  <2>3. OnlyInit(t)
    BY <2>2 DEF DeadInv
  <2>4. ~Member(t)
    BY <2>2, MembersRun DEF Live
  <2>5. QED
    BY <2>1, <2>3, <2>4 DEF OnlyInit, Member
<1>2. Spec => []IInv
  BY Invariance
<1>3. Spec => []SilentInv
  BY SilentInit, SilentNext, Invariance, PTL DEF Spec
<1>4. Spec => []DeadInv
  BY <1>3, SilentInit, DeadNext, Invariance, PTL DEF Spec
<1>5. QED
  BY <1>1, <1>2, <1>3, <1>4, PTL

-----------------------------------------------------------------------------
(* A client greets the server once                                         *)

GreetingType == {"TPT_WAITING", "TPT_CONNECT"}

(* The greeting of t is on its way, found a session, was refused.          *)
Asking(t) == \E n \in 1 .. Len(c2s[t]) : c2s[t][n] \in GreetingType

Joining(t) == thr[t].pc = "apply" /\ thr[t].pkt = "TPT_CONNECT"

Refused(t) == thr[t].pc = "reply" /\ thr[t].pkt = "TPT_CONNECT"

(* A client that has not greeted is sent TPT_INIT and nothing else; a      *)
(* greeting is one packet, then one search, then one session or one        *)
(* refusal.                                                                *)
Mute(t) ==
    /\ c2s[t] = <<>>
    /\ thr[t].pc \notin {"apply", "reply"}
    /\ OnlyInit(t)
    /\ conn[t].keyword = None
    /\ \A h \in Tcp : conn[h].guest # t

GreetedOnce(t) ==
    /\ ~peer[t].greeted => Mute(t)
    /\ \A m, n \in 1 .. Len(c2s[t]) :
         c2s[t][m] \in GreetingType /\ c2s[t][n] \in GreetingType => m = n
    /\ Asking(t) => ~Joining(t) /\ ~Refused(t) /\ conn[t].keyword = None
    /\ Asking(t) \/ Joining(t) \/ Refused(t) => \A h \in Tcp : conn[h].guest # t

GreetInv == \A t \in Tcp : GreetedOnce(t)

LEMMA GreetInit == Init => GreetInv
<1> SUFFICES ASSUME Init, NEW t \in Tcp
             PROVE  /\ c2s[t] = <<>> /\ thr[t].pc = "none" /\ BagToSet(sent[t]) = {}
                    /\ conn[t].keyword = None /\ \A h \in Tcp : conn[h].guest # t
  BY DEF GreetInv, GreetedOnce, Mute, Asking, Joining, Refused, OnlyInit
<1>1. thr[t].pc = "none"
  BY DEF Init, Idle
<1>2. BagToSet(sent[t]) = {}
  BY DEF Init, EmptyBag, SetToBag, BagToSet
<1>3. QED
  BY <1>1, <1>2, NoneAssumption DEF Init, NoConnection

(* A thread works on a packet that it has read.                            *)
Carries(t, type) == thr[t].pc \in {"apply", "reply"} /\ thr[t].pkt = type

LEMMA CarrySteps ==
    ASSUME IInv, [Next]_vars, NEW t \in Tcp, NEW pkt, Carries(t, pkt)'
    PROVE  Carries(t, pkt) \/ Dispatch(t, pkt)
<1> DEFINE Good == Carries(t, pkt) \/ Dispatch(t, pkt)
<1>1. thr \in [Tcp -> Thread]
  BY DEF IInv, TypeOK
<1>2. CASE thr'[t] = thr[t]
  BY <1>2 DEF Carries
<1>3. ASSUME NEW u \in Tcp, NEW x, thr' = [thr EXCEPT ![u] = x],
             u = t => Good \/ x.pc \notin {"apply", "reply"} \/ x.pkt # pkt
      PROVE  Good
  BY <1>1, <1>2, <1>3 DEF Carries
<1>4. Idle.pc \notin {"apply", "reply"}
  BY DEF Idle
<1>5. \A type, r : Replying(type, r).pkt = type
  BY DEF Replying, Idle
<1>6. ASSUME NEW u \in Tcp, NEW e, Refuse(u, e), thr[u].pc = "apply" PROVE Good
  <2> DEFINE x == IF AnswersError(thr[u].pkt) THEN Replying(thr[u].pkt, e) ELSE Idle
  <2>1. x.pkt = thr[u].pkt \/ x.pc \notin {"apply", "reply"}
    BY <1>4, <1>5
  <2>2. thr' = [thr EXCEPT ![u] = x]
    BY <1>6 DEF Refuse
  <2> HIDE DEF x
  <2>3. QED
    BY <1>3, <1>6, <2>1, <2>2 DEF Carries
<1>7. ASSUME NEW u \in Tcp, RecvThread(u) PROVE Good
  <2>1. CASE Waiting(u)
    <3>1. PICK r : thr' = [thr EXCEPT ![u] = Replying("TPT_WAITING", r)] /\ Dispatch(u, "TPT_WAITING")
      BY <2>1 DEF Waiting
    <3>2. QED
      BY <1>3, <1>5, <3>1
  <2>2. ASSUME NEW type \in SessionPacket, FindSession(u, type) PROVE Good
    <3>1. PICK h : thr' = [thr EXCEPT ![u] =
              IF h # None THEN [Idle EXCEPT !.pc = "apply", !.pkt = type, !.p2p = h]
              ELSE IF AnswersError(type) THEN Replying(type, "KEYWORD_NOT_FOUND")
              ELSE Idle]
      BY <2>2 DEF FindSession
    <3>2. [Idle EXCEPT !.pc = "apply", !.pkt = type, !.p2p = h].pkt = type
      BY DEF Idle
    <3> DEFINE x == IF h # None THEN [Idle EXCEPT !.pc = "apply", !.pkt = type, !.p2p = h]
                    ELSE IF AnswersError(type) THEN Replying(type, "KEYWORD_NOT_FOUND")
                    ELSE Idle
    <3>3. x.pkt = type \/ x.pc \notin {"apply", "reply"}
      BY <1>4, <1>5, <3>2
    <3>4. thr' = [thr EXCEPT ![u] = x] /\ Dispatch(u, type)
      BY <2>2, <3>1 DEF FindSession
    <3> HIDE DEF x
    <3>5. QED
      BY <1>3, <3>3, <3>4
  <2>3. CASE DataProxy(u)
    BY <1>2, <2>3 DEF DataProxy, Crash
  <2>4. CASE TCPConnected(u)
    BY <1>2, <1>3, <1>4, <1>6, <2>4 DEF TCPConnected, At, Crash
  <2>5. CASE SetP2POK(u)
    BY <1>2, <1>3, <1>4, <1>6, <2>5 DEF SetP2POK, At, Crash
  <2>6. CASE TCPProxyRequest(u)
    BY <1>2, <1>3, <1>4, <1>6, <2>6 DEF TCPProxyRequest, At, Crash
  <2>7. CASE Reply(u)
    BY <1>3, <1>4, <2>7 DEF Reply, Break
  <2>8. CASE TCPEndProcess(u) \/ RemoveTCPID(u)
    <3>1. PICK pc \in {"removing", "stopped"} : thr' = [thr EXCEPT ![u] = [thr[u] EXCEPT !.pc = pc]]
      BY <2>8 DEF TCPEndProcess, RemoveTCPID
    <3>2. [thr[u] EXCEPT !.pc = pc].pc = pc
      BY <1>1 DEF Thread
    <3>3. QED
      BY <1>3, <3>1, <3>2
  <2>9. QED
    BY <1>7, <2>1, <2>2, <2>3, <2>4, <2>5, <2>6, <2>7, <2>8 DEF RecvThread
<1>8. ASSUME NEW u \in Tcp, AcceptTCPSocketProcess(u) PROVE Good
  BY <1>3, <1>4, <1>8 DEF AcceptTCPSocketProcess
<1>9. ASSUME NEW u \in Tcp, Client(u) PROVE Good
  BY <1>2, <1>9 DEF Client, ClientSend, SendUDPToServer, ClientGone
<1>10. CASE CreateTCPID \/ RecvUDPPacketProcess \/ UDPListening \/ UDPConnected
  BY <1>2, <1>10 DEF CreateTCPID, RecvUDPPacketProcess, UDPListening, UDPConnected,
                     IgnoreDatagram, Crash
<1>11. CASE UNCHANGED vars
  BY <1>2, <1>11 DEF vars
<1>12. QED
  BY <1>7, <1>8, <1>9, <1>10, <1>11 DEF Next

(* A thread holds a TPT_CONNECT, or the refusal of one, that it has read.  *)
LEMMA JoiningSteps ==
    ASSUME IInv, [Next]_vars, NEW t \in Tcp, Joining(t)' \/ Refused(t)'
    PROVE  Joining(t) \/ Refused(t) \/ Dispatch(t, "TPT_CONNECT")
<1>1. Carries(t, "TPT_CONNECT")'
  BY DEF Joining, Refused, Carries
<1>2. QED
  BY <1>1, CarrySteps DEF Joining, Refused, Carries

(* Of a stream with one greeting, what the head leaves has none when the   *)
(* head was it, and no stream has a greeting its tail lacks otherwise.     *)
LEMMA TailGreets ==
    ASSUME NEW s \in Seq(ClientTCPType), s # <<>>
    PROVE  /\ Len(s) \in Nat /\ Len(Tail(s)) = Len(s) - 1
           /\ Head(s) = s[1] /\ 1 \in 1 .. Len(s)
           /\ \A n \in 1 .. Len(Tail(s)) : n + 1 \in 1 .. Len(s) /\ Tail(s)[n] = s[n + 1]
           /\ Tail(s) # s
OBVIOUS

LEMMA AppendGreets ==
    ASSUME NEW s \in Seq(ClientTCPType), NEW x \in ClientTCPType
    PROVE  /\ Len(s) \in Nat /\ Len(Append(s, x)) = Len(s) + 1
           /\ \A n \in 1 .. Len(s) : Append(s, x)[n] = s[n]
           /\ Append(s, x)[Len(s) + 1] = x
OBVIOUS

(* A client that has not greeted says nothing but its greeting.            *)
LEMMA MuteSays ==
    ASSUME NEW t \in Tcp, OnlyInit(t), NEW type, ClientSend(t, type)
    PROVE  type = Greeting(t) /\ ~peer[t].greeted
<1>1. ~Told(t, "TPT_CLIENT_INFO") /\ ~Told(t, "TPT_START_UDP")
  BY DEF OnlyInit, Told
<1>2. ~BagIn(CreateTCPProxyResultPkt("NONE"), sent[t])
  BY DEF OnlyInit, BagIn, CreateTCPProxyResultPkt
<1>3. QED
  BY <1>1, <1>2 DEF ClientSend, ClientMaySend

LEMMA MuteStays ==
    ASSUME IInv, [Next]_vars, NEW t \in Tcp, Mute(t), ~peer[t].greeted, ~peer'[t].greeted
    PROVE  Mute(t)'
<1>1. \A type \in ClientTCPType : ~ClientSend(t, type)
  <2> SUFFICES ASSUME NEW type \in ClientTCPType, ClientSend(t, type) PROVE peer'[t].greeted
    OBVIOUS
  <2>1. type \in GreetingType
    BY MuteSays DEF Mute, Greeting, GreetingType
  <2>2. peer' = [peer EXCEPT ![t].greeted = @ \/ type \in {"TPT_WAITING", "TPT_CONNECT"},
                             ![t].asked = IF type = "TPT_PROXY_REQUEST" THEN @ + 1 ELSE @]
    BY DEF ClientSend
  <2>3. peer \in [Tcp -> [role : Role \cup {None}, keyword : Keyword \cup {None},
                          greeted : BOOLEAN, asked : Nat]]
    BY DEF IInv, TypeOK
  <2>4. QED
    BY <2>1, <2>2, <2>3 DEF GreetingType
<1>2. c2s'[t] = <<>> /\ thr'[t].pc \notin {"apply", "reply"}
  BY <1>1, StreamGrows, ThreadSteps DEF Mute
<1>3. ~Waiting(t) /\ \A h \in Tcp : ~Joins(t, h)
  BY DEF Mute, Waiting, Dispatch, Joins, TCPConnected, At
<1>4. conn'[t].keyword = None /\ \A h \in Tcp : conn'[h].guest # t
  BY <1>3, PartySteps, NoneAssumption DEF Mute, Opens
<1>5. conn[t].main # t
  BY NoneAssumption DEF Mute, IInv, SessionInv, NoConnection
<1>6. OnlyInit(t)'
  <2>1. CASE sent'[t] = sent[t]
    BY <2>1 DEF Mute, OnlyInit
  <2>2. ASSUME NEW p \in ServerPacket(Id, Tcp), sent'[t] = Ext!BagAdd(sent[t], p), Cause(t, p)
        PROVE  OnlyInit(t)'
    <3>1. p.type = "TPT_INIT"
      BY <1>3, <1>5, <2>2 DEF Mute, Cause, Answers, Reply, Joins, Listens, Punches, Confirms, Relays,
                         GuestLeaves, Held
    <3>2. QED
      BY <2>2, <3>1 DEF Mute, OnlyInit, Ext!BagAdd, BagToSet
  <2>3. QED
    BY <2>1, <2>2, SentSteps
<1>7. QED
  BY <1>2, <1>4, <1>6 DEF Mute

LEMMA GreetNext == IInv /\ GreetInv /\ [Next]_vars => GreetInv'
<1> SUFFICES ASSUME IInv, GreetInv, [Next]_vars, NEW t \in Tcp PROVE GreetedOnce(t)'
  BY DEF GreetInv
<1>1. GreetedOnce(t) /\ c2s[t] \in Seq(ClientTCPType)
  BY DEF GreetInv, IInv, TypeOK
<1>2. CASE \E type \in ClientTCPType : ClientSend(t, type)
  <2>1. PICK type \in ClientTCPType : ClientSend(t, type)
    BY <1>2
  <2>2. /\ c2s' = [c2s EXCEPT ![t] = Append(@, type)]
        /\ peer' = [peer EXCEPT ![t].greeted = @ \/ type \in {"TPT_WAITING", "TPT_CONNECT"},
                                ![t].asked = IF type = "TPT_PROXY_REQUEST" THEN @ + 1 ELSE @]
        /\ UNCHANGED <<sent, conn, thr>>
    BY <2>1 DEF ClientSend
  <2>3. /\ c2s'[t] = Append(c2s[t], type)
        /\ peer'[t].greeted = (peer[t].greeted \/ type \in GreetingType)
    BY <2>2 DEF IInv, TypeOK, GreetingType
  <2>4. /\ Len(c2s[t]) \in Nat /\ Len(c2s'[t]) = Len(c2s[t]) + 1
        /\ \A n \in 1 .. Len(c2s[t]) : c2s'[t][n] = c2s[t][n]
        /\ c2s'[t][Len(c2s[t]) + 1] = type
    BY <1>1, <2>3, AppendGreets
  <2>5. CASE type \in GreetingType
    <3>1. ~peer[t].greeted
      BY <2>1, <2>5 DEF ClientSend, ClientMaySend, GreetingType
    <3>2. Mute(t)
      BY <1>1, <3>1 DEF GreetedOnce
    <3>3. peer'[t].greeted
      BY <2>3, <2>5
    <3>4. Len(c2s'[t]) = 1
      <4>1. Len(c2s[t]) = 0
        BY <3>2 DEF Mute
      <4>2. QED
        BY <2>4, <4>1
    <3>5. ~Joining(t)' /\ ~Refused(t)' /\ conn'[t].keyword = None /\ \A h \in Tcp : conn'[h].guest # t
      BY <2>2, <3>2 DEF Mute, Joining, Refused
    <3>6. \A m, n \in 1 .. Len(c2s'[t]) : m = n
      BY <3>4
    <3>7. QED
      BY <3>3, <3>5, <3>6 DEF GreetedOnce
  <2>6. CASE type \notin GreetingType
    <3>1. peer[t].greeted
      BY <1>1, <2>1, <2>6, MuteSays DEF GreetedOnce, Mute, Greeting, GreetingType
    <3>2. \A n \in 1 .. Len(c2s'[t]) : c2s'[t][n] \in GreetingType
            => n \in 1 .. Len(c2s[t]) /\ c2s'[t][n] = c2s[t][n]
      BY <2>4, <2>6
    <3>3. Asking(t)' => Asking(t)
      BY <3>2 DEF Asking
    <3>4. (Joining(t)' = Joining(t)) /\ (Refused(t)' = Refused(t))
      BY <2>2 DEF Joining, Refused
    <3>5. QED
      BY <1>1, <2>2, <2>3, <3>1, <3>2, <3>3, <3>4 DEF GreetedOnce
  <2>7. QED
    BY <2>5, <2>6
<1>3. ASSUME \A type \in ClientTCPType : ~ClientSend(t, type) PROVE GreetedOnce(t)'
  <2>1. ~peer'[t].greeted => Mute(t)'
    <3>1. peer'[t].greeted = peer[t].greeted
      BY <1>3, PeerSteps
    <3>2. QED
      BY <1>1, <3>1, MuteStays DEF GreetedOnce
  <2>2. /\ \A m, n \in 1 .. Len(c2s'[t]) :
             c2s'[t][m] \in GreetingType /\ c2s'[t][n] \in GreetingType => m = n
        /\ Asking(t)' => /\ Asking(t)
                         /\ ~Dispatch(t, "TPT_CONNECT") /\ ~Dispatch(t, "TPT_WAITING")
    <3>1. CASE c2s'[t] = <<>>
      BY <3>1 DEF Asking
    <3>2. CASE c2s'[t] = c2s[t]
      <4>1. ~Dispatch(t, "TPT_CONNECT") /\ ~Dispatch(t, "TPT_WAITING")
        <5> SUFFICES ASSUME NEW type, Dispatch(t, type) PROVE FALSE
          OBVIOUS
        <5>1. c2s'[t] = Tail(c2s[t]) /\ c2s[t] # <<>>
          BY DEF Dispatch, IInv, TypeOK
        <5>2. QED
          BY <1>1, <3>2, <5>1, TailGreets
      <4>2. QED
        BY <1>1, <3>2, <4>1 DEF GreetedOnce, Asking
    <3>3. CASE Dispatch(t, Head(c2s[t])) /\ c2s'[t] = Tail(c2s[t])
      <4>1. c2s[t] # <<>>
        BY <3>3 DEF Dispatch
      <4>2. /\ Len(c2s[t]) \in Nat /\ Len(c2s'[t]) = Len(c2s[t]) - 1
            /\ Head(c2s[t]) = c2s[t][1] /\ 1 \in 1 .. Len(c2s[t])
            /\ \A n \in 1 .. Len(c2s'[t]) : n + 1 \in 1 .. Len(c2s[t]) /\ c2s'[t][n] = c2s[t][n + 1]
        BY <1>1, <3>3, <4>1, TailGreets
      <4>3. \A m, n \in 1 .. Len(c2s'[t]) :
              c2s'[t][m] \in GreetingType /\ c2s'[t][n] \in GreetingType => m = n
        <5> SUFFICES ASSUME NEW m \in 1 .. Len(c2s'[t]), NEW n \in 1 .. Len(c2s'[t]),
                            c2s'[t][m] \in GreetingType, c2s'[t][n] \in GreetingType
                     PROVE  m = n
          OBVIOUS
        <5>1. m + 1 = n + 1
          BY <1>1, <4>2 DEF GreetedOnce
        <5>2. QED
          BY <5>1
      <4>4. Asking(t)' => Asking(t)
        BY <4>2 DEF Asking
      <4>5. ASSUME Asking(t)' PROVE Head(c2s[t]) \notin GreetingType
        <5>1. PICK n \in 1 .. Len(c2s'[t]) : c2s'[t][n] \in GreetingType
          BY <4>5 DEF Asking
        <5>2. n + 1 \in 1 .. Len(c2s[t]) /\ c2s[t][n + 1] \in GreetingType /\ n + 1 # 1
          BY <4>2, <5>1
        <5>3. QED
          BY <1>1, <4>2, <5>2 DEF GreetedOnce
      <4>6. QED
        BY <4>3, <4>4, <4>5 DEF Dispatch, GreetingType
    <3>4. QED
      BY <1>3, <3>1, <3>2, <3>3, StreamSteps DEF Drained
  <2>3. Dispatch(t, "TPT_CONNECT") \/ Dispatch(t, "TPT_WAITING") => Asking(t)
    <3> SUFFICES ASSUME NEW type \in GreetingType, Dispatch(t, type) PROVE Asking(t)
      BY DEF GreetingType
    <3>1. c2s[t] # <<>> /\ Head(c2s[t]) = type
      BY DEF Dispatch
    <3>2. QED
      BY <1>1, <3>1, TailGreets DEF Asking
  <2>4. Asking(t)' => ~Joining(t)' /\ ~Refused(t)' /\ conn'[t].keyword = None
    <3> SUFFICES ASSUME Asking(t)' PROVE ~Joining(t)' /\ ~Refused(t)' /\ conn'[t].keyword = None
      OBVIOUS
    <3>1. /\ Asking(t) /\ ~Dispatch(t, "TPT_CONNECT") /\ ~Dispatch(t, "TPT_WAITING")
          /\ ~Joining(t) /\ ~Refused(t) /\ conn[t].keyword = None
      BY <1>1, <2>2 DEF GreetedOnce
    <3>2. ~Opens(t)
      BY <3>1 DEF Opens, Waiting
    <3>3. QED
      BY <3>1, <3>2, JoiningSteps, PartySteps
  <2>5. Asking(t)' \/ Joining(t)' \/ Refused(t)' => \A h \in Tcp : conn'[h].guest # t
    <3> SUFFICES ASSUME Asking(t)' \/ Joining(t)' \/ Refused(t)', NEW h \in Tcp
                 PROVE  conn'[h].guest # t
      OBVIOUS
    <3>1. Asking(t) \/ Joining(t) \/ Refused(t)
      BY <2>2, <2>3, JoiningSteps
    <3>2. conn[h].guest # t
      BY <1>1, <3>1 DEF GreetedOnce
    <3>3. ~Joins(t, h)
      <4> SUFFICES ASSUME Joins(t, h) PROVE FALSE
        OBVIOUS
      <4>1. Joining(t) /\ thr'[t] = Idle
        BY DEF Joins, TCPConnected, At, Joining
      <4>2. ~Joining(t)' /\ ~Refused(t)'
        BY <4>1 DEF Joining, Refused, Idle
      <4>3. ~Asking(t)
        BY <1>1, <4>1 DEF GreetedOnce
      <4>4. QED
        BY <2>2, <4>2, <4>3
    <3>4. QED
      BY <3>2, <3>3, PartySteps, NoneAssumption
  <2>6. QED
    BY <2>1, <2>2, <2>4, <2>5 DEF GreetedOnce
<1>4. QED
  BY <1>2, <1>3

-----------------------------------------------------------------------------
(* The order of a client's stream                                          *)

LEMMA CopyPairs ==
    ASSUME NEW bag, NEW type
    PROVE  /\ \A p, n : <<p, n>> \in Copies(bag, type) <=>
                          p \in BagToSet(bag) /\ p.type = type /\ n \in 1 .. bag[p]
           /\ \A c \in Copies(bag, type) : \E p, n : c = <<p, n>>
BY DEF Copies

(* Another copy of a packet, among the copies of its type.                 *)
LEMMA CopyAdded ==
    ASSUME NEW bag, IsABag(bag), NEW p, NEW type
    PROVE  \/ p.type # type /\ Copies(Ext!BagAdd(bag, p), type) = Copies(bag, type)
           \/ /\ p.type = type
              /\ \E n : /\ <<p, n>> \notin Copies(bag, type)
                        /\ Copies(Ext!BagAdd(bag, p), type) = Copies(bag, type) \cup {<<p, n>>}
<1> DEFINE more == Ext!BagAdd(bag, p)
           last == IF p \in DOMAIN bag THEN bag[p] ELSE 0
<1>1. /\ DOMAIN bag = BagToSet(bag) /\ \A q \in DOMAIN bag : bag[q] \in Nat \ {0}
      /\ last \in Nat
  BY DEF IsABag, BagToSet
<1>2. /\ BagToSet(more) = DOMAIN bag \cup {p}
      /\ more[p] = last + 1
      /\ \A q \in DOMAIN bag \ {p} : more[q] = bag[q]
  BY <1>1 DEF Ext!BagAdd, BagToSet
<1> HIDE DEF more
<1>3. \A q, n : <<q, n>> \in Copies(bag, type) <=>
                  q \in DOMAIN bag /\ q.type = type /\ n \in 1 .. bag[q]
  BY <1>1, CopyPairs
<1>4. \A q, n : <<q, n>> \in Copies(more, type) <=>
                  q \in DOMAIN bag \cup {p} /\ q.type = type /\ n \in 1 .. more[q]
  BY <1>2, CopyPairs
<1>5. /\ \A c \in Copies(bag, type) : \E q, n : c = <<q, n>>
      /\ \A c \in Copies(more, type) : \E q, n : c = <<q, n>>
  BY CopyPairs
<1>6. CASE p.type # type
  <2>1. \A q, n : <<q, n>> \in Copies(more, type) <=> <<q, n>> \in Copies(bag, type)
    BY <1>2, <1>3, <1>4, <1>6
  <2>2. Copies(more, type) = Copies(bag, type)
    BY <1>5, <2>1
  <2>3. QED
    BY <1>6, <2>2 DEF more
<1>7. CASE p.type = type
  <2>1. <<p, last + 1>> \notin Copies(bag, type)
    <3>1. CASE p \in DOMAIN bag
      BY <1>1, <1>3, <3>1
    <3>2. CASE p \notin DOMAIN bag
      BY <1>3, <3>2
    <3>3. QED
      BY <3>1, <3>2
  <2>2. \A q, n : <<q, n>> \in Copies(more, type) <=>
                    <<q, n>> \in Copies(bag, type) \/ <<q, n>> = <<p, last + 1>>
    <3> SUFFICES ASSUME NEW q, NEW n
                 PROVE  <<q, n>> \in Copies(more, type) <=>
                          <<q, n>> \in Copies(bag, type) \/ (q = p /\ n = last + 1)
      OBVIOUS
    <3>1. CASE q # p
      BY <1>2, <1>3, <1>4, <3>1
    <3>2. CASE q = p
      <4>1. n \in 1 .. last + 1 <=> n \in 1 .. last \/ n = last + 1
        BY <1>1
      <4>2. <<q, n>> \in Copies(more, type) <=> n \in 1 .. last + 1
        BY <1>2, <1>4, <1>7, <3>2
      <4>3. <<q, n>> \in Copies(bag, type) <=> n \in 1 .. last
        BY <1>1, <1>3, <1>7, <3>2
      <4>4. QED
        BY <3>2, <4>1, <4>2, <4>3
    <3>3. QED
      BY <3>1, <3>2
  <2> HIDE DEF last
  <2>3. Copies(more, type) = Copies(bag, type) \cup {<<p, last + 1>>}
    BY <1>5, <2>2
  <2>4. QED
    BY <1>7, <2>1, <2>3 DEF more
<1>8. QED
  BY <1>6, <1>7

(* A packet sent is counted under its type.                                *)
LEMMA CountAdded ==
    ASSUME NEW t, NEW p, IsABag(sent[t]), sent'[t] = Ext!BagAdd(sent[t], p),
           NEW type, IsFiniteSet(Copies(sent[t], type))
    PROVE  /\ IsFiniteSet(Copies(sent'[t], type))
           /\ Count(t, type)' = IF p.type = type THEN Count(t, type) + 1 ELSE Count(t, type)
<1> DEFINE old == Copies(sent[t], type)
           new == Copies(Ext!BagAdd(sent[t], p), type)
<1>1. \/ p.type # type /\ new = old
      \/ p.type = type /\ \E n : <<p, n>> \notin old /\ new = old \cup {<<p, n>>}
  BY CopyAdded
<1>2. Count(t, type) = Cardinality(old) /\ Count(t, type)' = Cardinality(new)
  BY DEF Count
<1>3. Copies(sent'[t], type) = new /\ IsFiniteSet(old)
  OBVIOUS
<1> HIDE DEF old, new
<1>4. CASE p.type # type /\ new = old
  BY <1>2, <1>3, <1>4
<1>5. ASSUME p.type = type, NEW n, <<p, n>> \notin old, new = old \cup {<<p, n>>}
      PROVE  IsFiniteSet(new) /\ Cardinality(new) = Cardinality(old) + 1
  BY <1>3, <1>5, FS_AddElement
<1>6. QED
  BY <1>1, <1>2, <1>3, <1>4, <1>5

LEMMA CountNat ==
    ASSUME NEW t, NEW type, IsABag(sent[t]), IsFiniteSet(Copies(sent[t], type))
    PROVE  Count(t, type) \in Nat /\ (Count(t, type) > 0 <=> Told(t, type))
<1>1. Count(t, type) \in Nat /\ (Count(t, type) = 0 <=> Copies(sent[t], type) = {})
  BY FS_CardinalityType, FS_EmptySet DEF Count
<1>2. ASSUME NEW p \in BagToSet(sent[t]), p.type = type PROVE Copies(sent[t], type) # {}
  <2>1. 1 \in 1 .. sent[t][p]
    BY DEF IsABag, BagToSet
  <2>2. QED
    BY <1>2, <2>1, CopyPairs
<1>3. ASSUME Copies(sent[t], type) # {} PROVE Told(t, type)
  BY <1>3, CopyPairs DEF Told
<1>4. QED
  BY <1>1, <1>2, <1>3 DEF Told

(* A packet added to a log changes it, and the log tells which it was.     *)
LEMMA BagAddTells ==
    ASSUME NEW bag, IsABag(bag), NEW p
    PROVE  /\ Ext!BagAdd(bag, p) # bag
           /\ \A q : Ext!BagAdd(bag, q) = Ext!BagAdd(bag, p) => q = p
<1> DEFINE Copy(q, x) == IF x \in DOMAIN Ext!BagAdd(bag, q) THEN Ext!BagAdd(bag, q)[x] ELSE 0
           old(x) == IF x \in DOMAIN bag THEN bag[x] ELSE 0
<1>1. \A x : old(x) \in Nat
  BY DEF IsABag
<1>2. \A q, x : Copy(q, x) = IF x = q THEN old(x) + 1 ELSE old(x)
  BY DEF Ext!BagAdd
<1>3. Ext!BagAdd(bag, p) # bag
  <2>1. Ext!BagAdd(bag, p) = bag => Copy(p, p) = old(p)
    OBVIOUS
  <2> HIDE DEF Copy, old
  <2>2. QED
    BY <1>1, <1>2, <2>1
<1>4. ASSUME NEW q, Ext!BagAdd(bag, q) = Ext!BagAdd(bag, p) PROVE q = p
  <2>1. Copy(q, p) = Copy(p, p)
    BY <1>4
  <2> HIDE DEF Copy, old
  <2>2. QED
    BY <1>1, <1>2, <2>1
<1>5. QED
  BY <1>3, <1>4

(* The parties of a session take part in no other.                         *)
Party(t, h) == conn[h].main # None /\ t \in {h, conn[h].guest}

LEMMA OneParty ==
    ASSUME IInv, NEW t \in Tcp, NEW g \in Tcp, NEW h \in Tcp, Party(t, g), Party(t, h)
    PROVE  g = h
<1>1. ASSUME NEW x \in Tcp, Party(t, x)
      PROVE  /\ conn[x].keyword = peer[t].keyword
             /\ conn[x].mainId \in Id
             /\ m_P2PConnectList[conn[x].mainId] = x
  <2>1. conn[x] \in Connection /\ SessionInv!(x)
    BY DEF IInv, TypeOK, SessionInv
  <2>2. conn[x].main = x /\ conn[x].keyword = peer[x].keyword
    BY <1>1, Parties DEF Party
  <2>3. t = x \/ (t = conn[x].guest /\ t # None)
    BY <1>1, NoneAssumption DEF Party
  <2>4. QED
    BY <2>1, <2>2, <2>3 DEF Connection
<1>2. g # None /\ h # None
  BY NoneAssumption
<1>3. conn[g].mainId = conn[h].mainId
  BY <1>1, <1>2 DEF IInv, UniqueKeyword
<1>4. QED
  BY <1>1, <1>3

(* t is to be told where to punch to, in the session it is a party of.     *)
OwedIn(t, h) ==
    /\ Held(h) /\ t \in {h, conn[h].guest}
    /\ \/ conn[h].status = P2P_UDP_LISTENING
       \/ conn[h].status = P2P_TCP_CONNECTED /\ t = h

Owed(t) == \E h \in Tcp : OwedIn(t, h)

(* A client that still waits for its TPT_CONNECT_RESULT was sent none; one *)
(* that is a guest, or was sent TPT_START_UDP as one, was sent one; and    *)
(* there are START_UDPs left for the CLIENT_INFOs that are owed.           *)
Ordered(t) ==
    /\ \A type \in {"TPT_START_UDP", "TPT_CLIENT_INFO", "TPT_CONNECT_RESULT"} :
         IsFiniteSet(Copies(sent[t], type))
    /\ Count(t, "TPT_CLIENT_INFO") <= Count(t, "TPT_START_UDP")
    /\ Owed(t) => Count(t, "TPT_CLIENT_INFO") < Count(t, "TPT_START_UDP")
    /\ Asking(t) \/ Joining(t) \/ Refused(t) => Count(t, "TPT_CONNECT_RESULT") = 0
    /\ (\E h \in Tcp : conn[h].guest = t) => Count(t, "TPT_CONNECT_RESULT") = 1
    /\ peer[t].role = "GUEST" /\ Count(t, "TPT_START_UDP") > 0
         => Count(t, "TPT_CONNECT_RESULT") = 1

OrderInv == \A t \in Tcp : Ordered(t)

LEMMA OrderInit == Init => OrderInv
<1> SUFFICES ASSUME Init, NEW t \in Tcp PROVE Ordered(t)
  BY DEF OrderInv
<1>1. \A type : Copies(sent[t], type) = {}
  BY DEF Init, EmptyBag, SetToBag, BagToSet, Copies
<1>2. \A type : IsFiniteSet(Copies(sent[t], type)) /\ Count(t, type) = 0
  BY <1>1, FS_EmptySet DEF Count
<1>3. ~Owed(t) /\ \A h \in Tcp : conn[h].guest # t
  BY NoneAssumption DEF Init, NoConnection, Owed, OwedIn, Held
<1>4. QED
  BY <1>2, <1>3 DEF Ordered

(* What a step that sends p to t, or nothing, makes of the counts.         *)
LEMMA CountSteps ==
    ASSUME IInv, [Next]_vars, NEW t \in Tcp, Ordered(t),
           NEW type \in {"TPT_START_UDP", "TPT_CLIENT_INFO", "TPT_CONNECT_RESULT"}
    PROVE  /\ IsFiniteSet(Copies(sent'[t], type))
           /\ Count(t, type) \in Nat
           /\ \/ Count(t, type)' = Count(t, type)
              \/ /\ Count(t, type)' = Count(t, type) + 1
                 /\ \E p \in ServerPacket(Id, Tcp) :
                       sent'[t] = Ext!BagAdd(sent[t], p) /\ p.type = type /\ Cause(t, p)
<1>1. IsABag(sent[t]) /\ IsFiniteSet(Copies(sent[t], type))
  BY DEF IInv, TypeOK, PacketBags, Ordered
<1>2. Count(t, type) \in Nat
  BY <1>1, CountNat
<1>3. CASE sent'[t] = sent[t]
  BY <1>1, <1>2, <1>3 DEF Count
<1>4. ASSUME NEW p \in ServerPacket(Id, Tcp), sent'[t] = Ext!BagAdd(sent[t], p), Cause(t, p)
      PROVE  /\ IsFiniteSet(Copies(sent'[t], type))
             /\ Count(t, type)' = IF p.type = type THEN Count(t, type) + 1 ELSE Count(t, type)
  BY <1>1, <1>4, CountAdded
<1>5. QED
  BY <1>2, <1>3, <1>4, SentSteps

LEMMA Uncounted ==
    ASSUME IInv, NEW t \in Tcp, Ordered(t), OnlyInit(t)
    PROVE  \A type \in {"TPT_START_UDP", "TPT_CLIENT_INFO", "TPT_CONNECT_RESULT"} :
             Count(t, type) = 0
<1> TAKE type \in {"TPT_START_UDP", "TPT_CLIENT_INFO", "TPT_CONNECT_RESULT"}
<1>1. IsABag(sent[t]) /\ IsFiniteSet(Copies(sent[t], type))
  BY DEF IInv, TypeOK, PacketBags, Ordered
<1>2. ~Told(t, type)
  BY DEF OnlyInit, Told
<1>3. QED
  BY <1>1, <1>2, CountNat

(* A step that sends p to t tells which packets it can have been.          *)
LEMMA SentIs ==
    ASSUME IInv, NEW t \in Tcp, NEW p, NEW q, sent'[t] = Ext!BagAdd(sent[t], p),
           sent'[t] = Ext!BagAdd(sent[t], q)
    PROVE  q = p
<1>1. IsABag(sent[t])
  BY DEF IInv, TypeOK, PacketBags
<1>2. QED
  BY <1>1, BagAddTells

LEMMA SentCounts ==
    ASSUME IInv, [Next]_vars, NEW t \in Tcp, Ordered(t), NEW p,
           sent'[t] = Ext!BagAdd(sent[t], p),
           NEW type \in {"TPT_START_UDP", "TPT_CLIENT_INFO", "TPT_CONNECT_RESULT"}
    PROVE  Count(t, type)' = IF p.type = type THEN Count(t, type) + 1 ELSE Count(t, type)
<1>1. IsABag(sent[t]) /\ IsFiniteSet(Copies(sent[t], type))
  BY DEF IInv, TypeOK, PacketBags, Ordered
<1>2. QED
  BY <1>1, CountAdded

(* A client that is owed a CLIENT_INFO after the step either was owed it   *)
(* before and was sent none, or was sent a START_UDP.                      *)
LEMMA OwedSteps ==
    ASSUME IInv, [Next]_vars, NEW t \in Tcp, Ordered(t), Owed(t)'
    PROVE  \/ Owed(t) /\ Count(t, "TPT_CLIENT_INFO")' = Count(t, "TPT_CLIENT_INFO")
           \/ sent'[t] = Ext!BagAdd(sent[t], CreateTCPStartUDPPkt)
<1>1. PICK h \in Tcp : OwedIn(t, h)'
  BY DEF Owed
<1>3. conn'[h].guest \in Tcp /\ conn'[h].main = h /\ Party(t, h)'
  BY <1>1, NoneAssumption DEF OwedIn, Held, Party
<1>4. conn'[h].status \in {P2P_TCP_CONNECTED, P2P_UDP_LISTENING}
  BY <1>1 DEF OwedIn
<1>5. Count(t, "TPT_CLIENT_INFO")' = Count(t, "TPT_CLIENT_INFO")
  <2>1. ASSUME NEW g \in Tcp, Punches(g), t \in {g, conn[g].guest} PROVE FALSE
    <3>1. conn'[g].main = g /\ conn'[g].guest = conn[g].guest /\ conn'[g].status = P2P_PUNCHING
      BY <2>1 DEF Punches, Becomes
    <3>2. Party(t, g)
      BY <2>1, NoneAssumption DEF Party, Punches, Held
    <3>3. ASSUME g # h PROVE FALSE
      <4>1. conn'[h] = conn[h]
        BY <2>1, <3>3 DEF Punches, Becomes
      <4>2. Party(t, h)
        BY <1>3, <4>1 DEF Party
      <4>3. QED
        BY <3>2, <3>3, <4>2, OneParty
    <3>4. QED
      BY <1>4, <3>1, <3>3 DEF P2P_TCP_CONNECTED, P2P_UDP_LISTENING, P2P_PUNCHING
  <2>2. \A p : Cause(t, p) => p.type # "TPT_CLIENT_INFO"
    BY <2>1 DEF Cause, CreateTCPStartUDPPkt, CreateTCPResultPkt, CreateP2PSuccessPkt,
                CreateTCPProxyResultPkt
  <2>3. QED
    BY <2>2, CountSteps
<1>6. CASE conn'[h] = conn[h]
  BY <1>1, <1>5, <1>6 DEF Owed, OwedIn, Held
<1>7. ASSUME NEW k \in Tcp, SessionEvent(k), k # h PROVE conn'[h] = conn[h]
  BY <1>7 DEF SessionEvent, Opens, Joins, Listens, Punches, Confirms, Relays, GuestLeaves,
              HostLeaves, Becomes
<1>8. ASSUME NEW g \in Tcp, Joins(g, h) PROVE sent'[t] = Ext!BagAdd(sent[t], CreateTCPStartUDPPkt)
  <2>1. conn'[h].status = P2P_TCP_CONNECTED
    BY <1>8 DEF Joins, Becomes
  <2>2. t = h
    BY <1>1, <2>1 DEF OwedIn, P2P_TCP_CONNECTED, P2P_UDP_LISTENING
  <2>3. QED
    BY <1>8, <2>2 DEF Joins, SendsBoth
<1>9. CASE Listens(h)
  <2>1. Held(h) /\ conn'[h].guest = conn[h].guest /\ conn[h].status = P2P_TCP_CONNECTED
    BY <1>9 DEF Listens, Becomes
  <2>2. CASE t = h
    BY <1>5, <2>1, <2>2 DEF Owed, OwedIn
  <2>3. CASE t # h
    BY <1>1, <1>9, <2>1, <2>3 DEF OwedIn, Listens, Sends
  <2>4. QED
    BY <2>2, <2>3
<1>10. ~Opens(h) /\ ~Punches(h) /\ ~Confirms(h) /\ ~GuestLeaves(h) /\ ~HostLeaves(h)
  BY <1>3, <1>4, NoneAssumption
     DEF Opens, Punches, Confirms, GuestLeaves, HostLeaves, Becomes,
         P2P_TCP_CONNECTED, P2P_UDP_LISTENING, P2P_PUNCHING, P2P_CONNECTED
<1>11. CASE Relays(h)
  BY <1>6, <1>11 DEF Relays
<1>12. ASSUME NEW k \in Tcp, Admits(k) \/ Answers(k) PROVE conn'[h] = conn[h]
  BY <1>12 DEF Admits, Answers
<1>13. CASE \E k \in Tcp : SessionEvent(k)
  BY <1>5, <1>6, <1>7, <1>8, <1>9, <1>10, <1>11, <1>13 DEF SessionEvent
<1>14. QED
  BY <1>6, <1>12, <1>13, Events

(* Who is sent a TPT_CONNECT_RESULT waited for it, and waits no more.      *)
LEMMA ResultSteps ==
    ASSUME IInv, GreetInv, [Next]_vars, NEW t \in Tcp,
           NEW p, Cause(t, p), p.type = "TPT_CONNECT_RESULT"
    PROVE  /\ Joining(t) \/ Refused(t)
           /\ ~Asking(t)' /\ ~Joining(t)' /\ ~Refused(t)'
<1>1. thr \in [Tcp -> Thread] /\ c2s \in [Tcp -> Seq(ClientTCPType)]
  BY DEF IInv, TypeOK
<1>2. Idle.pc = "idle"
  BY DEF Idle
<1>3. CASE \E h \in Tcp : Joins(t, h)
  <2>1. Joining(t) /\ thr'[t] = Idle
    BY <1>3 DEF Joins, TCPConnected, At, Joining
  <2>2. c2s'[t] = c2s[t] \/ c2s'[t] = <<>>
    BY <1>3 DEF Joins, TCPConnected, Refuse, Crash, netVars
  <2>3. ~Asking(t)
    BY <2>1 DEF GreetInv, GreetedOnce
  <2>4. ~Asking(t)'
    BY <2>2, <2>3 DEF Asking
  <2>5. QED
    BY <1>2, <2>1, <2>4 DEF Joining, Refused
<1>4. CASE Answers(t) /\ p.type = CASE thr[t].pkt = "TPT_WAITING" -> "TPT_WAIT_RESULT"
                                    [] thr[t].pkt = "TPT_CONNECT" -> "TPT_CONNECT_RESULT"
                                    [] OTHER -> "TPT_PROXY_RESULT"
  <2>1. thr[t].pkt = "TPT_CONNECT"
    BY <1>4
  <2>2. Refused(t) /\ UNCHANGED c2s
    BY <1>4, <2>1 DEF Answers, Reply, Refused
  <2>3. thr'[t].pc \notin {"apply", "reply"}
    BY <1>1, <1>2, <1>4 DEF Answers, Reply, Break
  <2>4. ~Asking(t)
    BY <2>2 DEF GreetInv, GreetedOnce
  <2>5. QED
    BY <2>2, <2>3, <2>4 DEF Asking, Joining, Refused
<1>5. QED
  BY <1>3, <1>4 DEF Cause, CreateTCPStartUDPPkt, CreateTCPResultPkt, CreateP2PSuccessPkt,
                    CreateTCPProxyResultPkt

(* Nobody waits for an answer out of nowhere.                              *)
LEMMA AskingSteps ==
    ASSUME IInv, GreetInv, [Next]_vars, NEW t \in Tcp, Asking(t)' \/ Joining(t)' \/ Refused(t)'
    PROVE  Asking(t) \/ Joining(t) \/ Refused(t) \/ OnlyInit(t)
<1>1. c2s[t] \in Seq(ClientTCPType)
  BY DEF IInv, TypeOK
<1>2. ASSUME Dispatch(t, "TPT_CONNECT") PROVE Asking(t)
  <2>1. c2s[t] # <<>> /\ Head(c2s[t]) = "TPT_CONNECT"
    BY <1>2 DEF Dispatch
  <2>2. QED
    BY <1>1, <2>1, TailGreets DEF Asking, GreetingType
<1>3. CASE Joining(t)' \/ Refused(t)'
  BY <1>2, <1>3, JoiningSteps
<1>4. CASE Asking(t)' /\ ~Asking(t)
  <2>1. PICK n \in 1 .. Len(c2s'[t]) : c2s'[t][n] \in GreetingType
    BY <1>4 DEF Asking
  <2>2. c2s'[t] # c2s[t] /\ c2s'[t] # <<>>
    BY <1>4, <2>1 DEF Asking
  <2>3. ~(Dispatch(t, Head(c2s[t])) /\ c2s'[t] = Tail(c2s[t]))
    <3> SUFFICES ASSUME Dispatch(t, Head(c2s[t])), c2s'[t] = Tail(c2s[t]) PROVE FALSE
      OBVIOUS
    <3>1. c2s[t] # <<>>
      BY DEF Dispatch
    <3>2. n + 1 \in 1 .. Len(c2s[t]) /\ c2s'[t][n] = c2s[t][n + 1]
      BY <1>1, <2>1, <3>1, TailGreets
    <3>3. QED
      BY <1>4, <2>1, <3>2 DEF Asking
  <2>4. PICK type \in ClientTCPType : ClientSend(t, type)
    BY <2>2, <2>3, StreamSteps DEF Drained
  <2>5. c2s'[t] = Append(c2s[t], type)
    BY <2>4 DEF ClientSend, IInv, TypeOK
  <2>6. type \in GreetingType
    <3>1. /\ \A m \in 1 .. Len(c2s[t]) : c2s'[t][m] = c2s[t][m]
          /\ Len(c2s[t]) \in Nat /\ Len(c2s'[t]) = Len(c2s[t]) + 1
          /\ c2s'[t][Len(c2s[t]) + 1] = type
      BY <1>1, <2>5, AppendGreets
    <3>2. n \notin 1 .. Len(c2s[t])
      BY <1>4, <2>1, <3>1 DEF Asking
    <3>3. QED
      BY <2>1, <3>1, <3>2
  <2>7. ~peer[t].greeted
    BY <2>4, <2>6 DEF ClientSend, ClientMaySend, GreetingType
  <2>8. QED
    BY <2>7 DEF GreetInv, GreetedOnce, Mute
<1>5. QED
  BY <1>3, <1>4

(* The role and the keyword of a client are fixed when it is accepted.     *)
LEMMA RoleSteps ==
    ASSUME IInv, SilentInv, [Next]_vars, NEW t \in Tcp
    PROVE  \/ peer'[t].role = peer[t].role /\ peer'[t].keyword = peer[t].keyword
           \/ BagToSet(sent[t]) = {} /\ UNCHANGED sent
<1> DEFINE Same == peer'[t].role = peer[t].role /\ peer'[t].keyword = peer[t].keyword
<1>1. peer \in [Tcp -> [role : Role \cup {None}, keyword : Keyword \cup {None},
                        greeted : BOOLEAN, asked : Nat]]
  BY DEF IInv, TypeOK
<1>2. CASE UNCHANGED peer
  BY <1>2
<1>3. ASSUME NEW u \in Tcp, AcceptTCPSocketProcess(u)
      PROVE  Same \/ (BagToSet(sent[t]) = {} /\ UNCHANGED sent)
  <2>1. link[u] = "none" /\ UNCHANGED sent
    BY <1>3 DEF AcceptTCPSocketProcess
  <2>2. Silent(u)
    BY <2>1 DEF IInv, ThreadInv, Silent
  <2>3. BagToSet(sent[u]) = {}
    BY <2>2 DEF SilentInv
  <2>4. CASE u = t
    BY <2>1, <2>3, <2>4
  <2>5. CASE u # t
    BY <1>1, <1>3, <2>5 DEF AcceptTCPSocketProcess
  <2>6. QED
    BY <2>4, <2>5
<1>4. ASSUME NEW u \in Tcp, Client(u) PROVE Same
  <2>1. ASSUME NEW type, ClientSend(u, type) PROVE Same
    BY <1>1, <2>1 DEF ClientSend
  <2>2. QED
    BY <1>2, <1>4, <2>1 DEF Client, SendUDPToServer, ClientGone
<1>5. ASSUME NEW u \in Tcp, RecvThread(u) PROVE UNCHANGED peer
  BY <1>5 DEF RecvThread, Waiting, FindSession, DataProxy, TCPConnected, SetP2POK, TCPProxyRequest,
              Reply, TCPEndProcess, RemoveTCPID, Refuse, Crash, netVars
<1>6. CASE CreateTCPID \/ RecvUDPPacketProcess \/ UDPListening \/ UDPConnected
  BY <1>2, <1>6 DEF CreateTCPID, RecvUDPPacketProcess, UDPListening, UDPConnected,
                    IgnoreDatagram, Crash, netVars
<1>7. CASE UNCHANGED vars
  BY <1>2, <1>7 DEF vars, netVars
<1>8. QED
  BY <1>2, <1>3, <1>4, <1>5, <1>6, <1>7 DEF Next

LEMMA OrderNext == IInv /\ SilentInv /\ GreetInv /\ OrderInv /\ [Next]_vars => OrderInv'
<1> SUFFICES ASSUME IInv, SilentInv, GreetInv, OrderInv, [Next]_vars, NEW t \in Tcp
             PROVE  Ordered(t)'
  BY DEF OrderInv
<1> DEFINE a == Count(t, "TPT_START_UDP")
           b == Count(t, "TPT_CLIENT_INFO")
           c == Count(t, "TPT_CONNECT_RESULT")
<1>1. IInv' /\ Ordered(t)
  BY InvNext DEF OrderInv
<1>2. /\ a \in Nat /\ a' \in {a, a + 1}
      /\ b \in Nat /\ b' \in {b, b + 1}
      /\ c \in Nat /\ c' \in {c, c + 1}
  BY <1>1, CountSteps
<1>3. \A type \in {"TPT_START_UDP", "TPT_CLIENT_INFO", "TPT_CONNECT_RESULT"} :
         IsFiniteSet(Copies(sent[t], type))'
  BY <1>1, CountSteps
<1>4. b' <= a'
  <2>1. ASSUME NEW p, Cause(t, p), p.type = "TPT_CLIENT_INFO" PROVE Owed(t)
    <3>1. PICK h \in Tcp : Punches(h) /\ t \in {h, conn[h].guest}
      BY <2>1 DEF Cause, CreateTCPStartUDPPkt, CreateTCPResultPkt, CreateP2PSuccessPkt,
                  CreateTCPProxyResultPkt
    <3>2. QED
      BY <3>1 DEF Punches, Owed, OwedIn
  <2>2. b' = b \/ Owed(t)
    BY <1>1, <2>1, CountSteps
  <2>3. b <= a /\ (Owed(t) => b < a)
    BY <1>1 DEF Ordered
  <2> HIDE DEF a, b
  <2>4. QED
    BY <1>2, <2>2, <2>3
<1>5. Owed(t)' => b' < a'
  <2> SUFFICES ASSUME Owed(t)' PROVE b' < a'
    OBVIOUS
  <2>1. b <= a /\ (Owed(t) => b < a)
    BY <1>1 DEF Ordered
  <2>2. CASE Owed(t) /\ b' = b
    <3> HIDE DEF a, b
    <3>1. QED
      BY <1>2, <2>1, <2>2
  <2>3. CASE sent'[t] = Ext!BagAdd(sent[t], CreateTCPStartUDPPkt)
    <3>1. a' = a + 1 /\ b' = b
      BY <1>1, <2>3, SentCounts DEF CreateTCPStartUDPPkt
    <3> HIDE DEF a, b
    <3>2. QED
      BY <1>2, <2>1, <3>1
  <2>4. QED
    BY <1>1, <2>2, <2>3, OwedSteps
<1>6. \/ c' = c
      \/ c = 0 /\ c' = 1 /\ ~Asking(t)' /\ ~Joining(t)' /\ ~Refused(t)'
  <2>1. ASSUME c' # c
        PROVE  (Joining(t) \/ Refused(t)) /\ ~Asking(t)' /\ ~Joining(t)' /\ ~Refused(t)'
    BY <1>1, <2>1, CountSteps, ResultSteps
  <2>2. Joining(t) \/ Refused(t) => c = 0
    BY <1>1 DEF Ordered
  <2> HIDE DEF c
  <2>3. QED
    BY <1>2, <2>1, <2>2
<1>7. Asking(t)' \/ Joining(t)' \/ Refused(t)' => c' = 0
  <2> SUFFICES ASSUME Asking(t)' \/ Joining(t)' \/ Refused(t)' PROVE c = 0
    BY <1>6
  <2>1. CASE OnlyInit(t)
    BY <1>1, <2>1, Uncounted
  <2>2. QED
    BY <1>1, <2>1, AskingSteps DEF Ordered
<1>8. (\E h \in Tcp : conn'[h].guest = t) => c' = 1
  <2> SUFFICES ASSUME NEW h \in Tcp, conn'[h].guest = t PROVE c' = 1
    OBVIOUS
  <2>1. CASE Joins(t, h)
    <3> DEFINE p == CreateTCPResultPkt("TPT_CONNECT_RESULT", "NONE")
    <3>1. sent'[t] = Ext!BagAdd(sent[t], p) /\ p.type = "TPT_CONNECT_RESULT"
      BY <2>1 DEF Joins, SendsBoth, CreateTCPResultPkt
    <3> HIDE DEF p
    <3>2. c' = c + 1
      BY <1>1, <3>1, SentCounts
    <3> HIDE DEF c
    <3>3. QED
      BY <1>2, <1>6, <3>2
  <2>2. CASE ~Joins(t, h)
    <3>1. conn[h].guest = t
      BY <2>2, PartySteps, NoneAssumption
    <3>2. c = 1
      BY <1>1, <3>1 DEF Ordered
    <3> HIDE DEF c
    <3>3. QED
      BY <1>6, <3>2
  <2>3. QED
    BY <2>1, <2>2
<1>9. peer'[t].role = "GUEST" /\ a' > 0 => c' = 1
  <2> SUFFICES ASSUME peer'[t].role = "GUEST", a' > 0 PROVE c' = 1
    OBVIOUS
  <2>1. peer[t].role = "GUEST"
    <3>1. ~(OnlyInit(t) /\ UNCHANGED sent)
      <4> SUFFICES ASSUME OnlyInit(t), UNCHANGED sent PROVE a' = 0
        BY <1>2
      <4>1. QED
        BY <1>1, Uncounted DEF Count
    <3>2. QED
      BY <3>1, RoleSteps DEF OnlyInit
  <2>2. a > 0 => c = 1
    BY <1>1, <2>1 DEF Ordered
  <2>3. CASE a > 0
    <3> HIDE DEF a, c
    <3>1. QED
      BY <1>6, <2>2, <2>3
  <2>4. CASE ~(a > 0)
    <3>1. PICK p \in ServerPacket(Id, Tcp) :
            sent'[t] = Ext!BagAdd(sent[t], p) /\ p.type = "TPT_START_UDP" /\ Cause(t, p)
      <4>1. a' # a
        BY <2>4
      <4>2. QED
        BY <1>1, <4>1, CountSteps
    <3>2. ~\E g \in Tcp : Joins(g, t)
      <4>1. \A g \in Tcp : Joins(g, t) => peer[t].role = "HOST"
        BY Parties, NoneAssumption DEF Joins
      <4>2. QED
        BY <2>1, <4>1
    <3>3. PICK h \in Tcp : Listens(h) /\ t = conn[h].guest
      BY <3>1, <3>2 DEF Cause, CreateTCPResultPkt, CreateP2PSuccessPkt, CreateTCPProxyResultPkt
    <3>4. c = 1
      BY <1>1, <3>3 DEF Ordered
    <3> HIDE DEF c
    <3>5. QED
      BY <1>6, <3>4
  <2>5. QED
    BY <2>3, <2>4
<1>10. QED
  BY <1>3, <1>4, <1>5, <1>7, <1>8, <1>9 DEF Ordered

(* The CLIENT_INFOs of a client never outnumber its START_UDPs, and a      *)
(* guest has its CONNECT_RESULT before the first of them.                  *)
THEOREM StreamsAreOrdered == Spec => []StreamOrder
<1>1. IInv /\ OrderInv => StreamOrder
  BY DEF OrderInv, Ordered, StreamOrder
<1>2. Init => SilentInv /\ GreetInv /\ OrderInv
  BY SilentInit, GreetInit, OrderInit
<1>3. IInv /\ SilentInv /\ GreetInv /\ OrderInv /\ [Next]_vars
        => SilentInv' /\ GreetInv' /\ OrderInv'
  BY SilentNext, GreetNext, OrderNext
<1>4. Spec => []IInv
  BY Invariance
<1>5. QED
  BY <1>1, <1>2, <1>3, <1>4, PTL DEF Spec
=============================================================================
