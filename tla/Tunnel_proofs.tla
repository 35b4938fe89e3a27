---------------------------- MODULE Tunnel_proofs ----------------------------
(***************************************************************************)
(* The clients and the server together.  The clients of P2PClient stay     *)
(* within what P2PServer assumes of its own, so TunnelSpec implements Spec *)
(* and everything proved of P2PServer holds of the whole system; a host    *)
(* that takes itself for engaged has a guest; a client that uses ENet has  *)
(* a punched path; and a host and its first guest use the same transport.  *)
(*                                                                         *)
(* The first two are proved together: that a client sends a packet only   *)
(* when P2PServer lets it (TPT_PROXY_REQUEST once, the greeting once)      *)
(* depends on what is still under way to it, and what may be under way     *)
(* depends on the sessions of the server.                                  *)
(***************************************************************************)
EXTENDS Tunnel, P2PServerHistory_proofs

-----------------------------------------------------------------------------
(* The clients by their members                                            *)

St(t) == client[t].status
Pc(t) == mainThr[t].pc
Saved(t) == mainThr[t].saved

(* P2PClient has the protocol's constants from an instance of its own.     *)
LEMMA SameStatus ==
    /\ C!P2P_STATUS_NONE = P2P_STATUS_NONE /\ C!P2P_TCP_LISTENING = P2P_TCP_LISTENING
    /\ C!P2P_TCP_CONNECTED = P2P_TCP_CONNECTED /\ C!P2P_UDP_LISTENING = P2P_UDP_LISTENING
    /\ C!P2P_UDP_CONNECTED = P2P_UDP_CONNECTED /\ C!P2P_PUNCHING = P2P_PUNCHING
    /\ C!P2P_CONNECTED = P2P_CONNECTED /\ C!P2P_TCP_PROXY_REQUEST = P2P_TCP_PROXY_REQUEST
    /\ C!P2P_TCP_PROXY = P2P_TCP_PROXY /\ C!P2P_STATUS = P2P_STATUS
BY DEF C!P2P_STATUS_NONE, P2P_STATUS_NONE, C!P2P_TCP_LISTENING, P2P_TCP_LISTENING,
       C!P2P_TCP_CONNECTED, P2P_TCP_CONNECTED, C!P2P_UDP_LISTENING, P2P_UDP_LISTENING,
       C!P2P_UDP_CONNECTED, P2P_UDP_CONNECTED, C!P2P_PUNCHING, P2P_PUNCHING,
       C!P2P_CONNECTED, P2P_CONNECTED, C!P2P_TCP_PROXY_REQUEST, P2P_TCP_PROXY_REQUEST,
       C!P2P_TCP_PROXY, P2P_TCP_PROXY, C!P2P_STATUS, P2P_STATUS

Members == [status : P2P_STATUS, type : C!CommType, Peerid : Id,
            remote : Tcp \cup {None}, change : BOOLEAN, stop : BOOLEAN,
            connected : BOOLEAN, udpOn : BOOLEAN]

PCs == {"begin", "wait", "reset", "exchange", "punch", "giveup", "stopping", "returned", "closed"}

Stations == [pc : PCs, saved : P2P_STATUS, retry : 0 .. MaxRetry - 1]

ServerStream == Seq(ServerPacket(Id, Tcp))

(* The type invariant, with the sets of members and stations by name.      *)
LEMMA TunnelTypes ==
    TunnelTypeOK <=>
      /\ client \in [Tcp -> Members]
      /\ p2p \subseteq C!PeerDatagram
      /\ mainThr \in [Tcp -> Stations]
      /\ tcpThr \in [Tcp -> {"idle", "punching", "connected", "signal", "ended"}]
      /\ udpRecv \in [Tcp -> {"idle", "reply", "confirm"}]
      /\ s2c \in [Tcp -> ServerStream]
BY SameStatus DEF TunnelTypeOK, C!ClientTypeOK, Members, Stations, ServerStream, PCs

(* Every status named is a status, and every id a number.                  *)
LEMMA StatusIn ==
    /\ \A x \in {P2P_STATUS_NONE, P2P_TCP_LISTENING, P2P_TCP_CONNECTED, P2P_UDP_LISTENING,
                 P2P_UDP_CONNECTED, P2P_PUNCHING, P2P_CONNECTED, P2P_TCP_PROXY_REQUEST,
                 P2P_TCP_PROXY} : x \in P2P_STATUS
    /\ 0 \in Id /\ Id \subseteq Nat
BY IdCountAssumption
   DEF Id, P2P_STATUS, P2P_STATUS_NONE, P2P_TCP_LISTENING, P2P_TCP_CONNECTED, P2P_UDP_LISTENING,
       P2P_UDP_CONNECTED, P2P_PUNCHING, P2P_CONNECTED, P2P_TCP_PROXY_REQUEST, P2P_TCP_PROXY

(* A station that a handler goes to.                                       *)
LEMMA StationType ==
    ASSUME NEW pc \in PCs, NEW saved \in P2P_STATUS
    PROVE  C!Station(pc, saved) \in Stations
BY MaxRetryAssumption DEF C!Station, Stations

(* The clients begin with their types.                                     *)
LEMMA TunnelTypeInit == TunnelInit => TunnelTypeOK
<1> SUFFICES ASSUME TunnelInit PROVE TunnelTypeOK
  OBVIOUS
<1>1. C!NewClient \in Members
  BY StatusIn, SameStatus DEF C!NewClient, Members, C!CommType
<1>2. [pc |-> "begin", saved |-> P2P_STATUS_NONE, retry |-> 0] \in Stations
  BY StatusIn, StationType DEF C!Station, PCs
<1>3. <<>> \in ServerStream
  BY DEF ServerStream
<1>4. /\ s2c = [t \in Tcp |-> <<>>] /\ p2p = {} /\ client = [t \in Tcp |-> C!NewClient]
      /\ mainThr = [t \in Tcp |-> [pc |-> "begin", saved |-> P2P_STATUS_NONE, retry |-> 0]]
      /\ tcpThr = [t \in Tcp |-> "idle"] /\ udpRecv = [t \in Tcp |-> "idle"]
  BY SameStatus DEF TunnelInit, C!ClientInit
<1>5. QED
  BY <1>1, <1>2, <1>3, <1>4, TunnelTypes

(* What the server pushes joins the stream of the client.                  *)
LEMMA DeliverSteps ==
    ASSUME IInv, [Next]_vars, Deliver, NEW t \in Tcp
    PROVE  \/ sent'[t] = sent[t] /\ s2c'[t] = s2c[t]
           \/ \E p \in ServerPacket(Id, Tcp) :
                /\ sent'[t] = Ext!BagAdd(sent[t], p)
                /\ Cause(t, p)
                /\ s2c'[t] = Append(s2c[t], p)
<1>1. CASE sent'[t] = sent[t]
  BY <1>1 DEF Deliver
<1>2. ASSUME NEW p \in ServerPacket(Id, Tcp), sent'[t] = Ext!BagAdd(sent[t], p), Cause(t, p)
      PROVE  s2c'[t] = Append(s2c[t], p)
  <2>1. IsABag(sent[t])
    BY DEF IInv, TypeOK, PacketBags
  <2>2. sent'[t] # sent[t]
    BY <1>2, <2>1, BagAddTells
  <2>3. Pushed(t) = {p}
    <3>1. p \in BagToSet(sent'[t])
      BY <1>2 DEF Ext!BagAdd, BagToSet
    <3>2. \A q \in Pushed(t) : q = p
      BY <1>2, <2>1, BagAddTells DEF Pushed
    <3>3. QED
      BY <1>2, <3>1, <3>2 DEF Pushed
  <2>4. (CHOOSE q \in Pushed(t) : TRUE) = p
    BY <2>3
  <2>5. QED
    BY <2>2, <2>4 DEF Deliver
<1>3. QED
  BY <1>1, <1>2, SentSteps

(* What is delivered has its type.                                         *)
LEMMA DeliverType ==
    ASSUME IInv, [Next]_vars, Deliver, s2c \in [Tcp -> ServerStream]
    PROVE  s2c' \in [Tcp -> ServerStream]
<1>1. ASSUME NEW t \in Tcp PROVE s2c'[t] \in ServerStream
  <2>1. s2c[t] \in ServerStream
    OBVIOUS
  <2>2. \A p \in ServerPacket(Id, Tcp) : Append(s2c[t], p) \in ServerStream
    BY <2>1 DEF ServerStream
  <2>3. QED
    BY <2>1, <2>2, DeliverSteps
<1>2. QED
  BY <1>1 DEF Deliver

(* The packet at the head of a stream.                                     *)
LEMMA HeadPacket ==
    ASSUME s2c \in [Tcp -> ServerStream], NEW t \in Tcp, s2c[t] # <<>>
    PROVE  /\ Head(s2c[t]) \in ServerPacket(Id, Tcp)
           /\ Head(s2c[t]) = s2c[t][1]
           /\ Len(s2c[t]) \in Nat \ {0}
           /\ Tail(s2c[t]) \in ServerStream
           /\ Len(Tail(s2c[t])) = Len(s2c[t]) - 1
           /\ \A n \in 1 .. Len(Tail(s2c[t])) : Tail(s2c[t])[n] = s2c[t][n + 1]
BY DEF ServerStream

(* TPT_CLIENT_INFO carries an id and an address.                           *)
LEMMA InfoPacket ==
    ASSUME NEW p \in ServerPacket(Id, Tcp), p.type = "TPT_CLIENT_INFO"
    PROVE  p.Peerid \in Id /\ p.ClientInfo \in Tcp
BY DEF ServerPacket, CreateTCPInitPkt, CreateTCPResultPkt, CreateTCPStartUDPPkt,
       CreateP2PSuccessPkt, CreateTCPProxyResultPkt, CreateTCPStartPunchingPkt

(* There is one TPT_PROXY_RESULT that opens the relay.                     *)
LEMMA ProxyPacket ==
    ASSUME NEW p \in ServerPacket(Id, Tcp), p.type = "TPT_PROXY_RESULT", p.Result = "NONE"
    PROVE  p = CreateTCPProxyResultPkt("NONE")
BY DEF ServerPacket, CreateTCPInitPkt, CreateTCPResultPkt, CreateTCPStartUDPPkt,
       CreateP2PSuccessPkt, CreateTCPProxyResultPkt, CreateTCPStartPunchingPkt
-----------------------------------------------------------------------------
(* What a step of a client does to the members the proofs speak of         *)

GreetingStatus(t) == IF peer[t].role = "HOST" THEN P2P_TCP_LISTENING ELSE P2P_TCP_CONNECTED

ExchangeStatus(t) == IF peer[t].role = "HOST" THEN P2P_UDP_LISTENING ELSE P2P_UDP_CONNECTED

ExchangeStatuses == {P2P_UDP_LISTENING, P2P_UDP_CONNECTED}

ClientIs(t, status, change, stop, type) ==
    /\ client'[t].status = status
    /\ client'[t].change = change
    /\ client'[t].stop = stop
    /\ client'[t].type = type

MainIs(t, pc, saved) == mainThr'[t].pc = pc /\ mainThr'[t].saved = saved

RecvIs(t, tcp, udpr) == tcpThr'[t] = tcp /\ udpRecv'[t] = udpr

MainKept(t) == mainThr'[t] = mainThr[t]
RecvKept(t) == RecvIs(t, tcpThr[t], udpRecv[t])
Quiet(t) == s2c'[t] = s2c[t] /\ peer'[t] = peer[t]

(* The main thread, between two sends.                                     *)
MainMove(t) ==
    LET c == client[t]
        Goes(pc, saved, change, stop, type) ==
            MainIs(t, pc, saved) /\ ClientIs(t, c.status, change, stop, type)
    IN  /\ RecvKept(t)
        /\ Quiet(t)
        /\ \/ /\ Pc(t) = "begin"
              /\ \E stop \in {c.stop, FALSE} : Goes("wait", P2P_STATUS_NONE, c.change, stop, c.type)
           \/ /\ Pc(t) = "wait" /\ c.change /\ c.status # P2P_STATUS_NONE
              /\ Goes("reset", c.status, c.change, c.stop, c.type)
           \/ /\ Pc(t) = "wait"
              /\ Goes("returned", P2P_STATUS_NONE, c.change, c.stop, c.type)
           \/ /\ Pc(t) = "reset" /\ peer[t].role = "HOST" /\ Saved(t) = P2P_TCP_CONNECTED
              /\ Goes("wait", P2P_STATUS_NONE, FALSE, c.stop, c.type)
           \/ /\ Pc(t) = "reset" /\ Saved(t) \in ExchangeStatuses
              /\ Goes("exchange", P2P_STATUS_NONE, FALSE, c.stop, c.type)
           \/ /\ Pc(t) = "reset" /\ Saved(t) = P2P_PUNCHING
              /\ Goes("punch", P2P_STATUS_NONE, FALSE, c.stop, c.type)
           \/ /\ Pc(t) = "reset" /\ Saved(t) \in {P2P_CONNECTED, P2P_TCP_PROXY}
              /\ Goes("stopping", Saved(t), FALSE, c.stop, c.type)
           \/ /\ Pc(t) \in {"exchange", "punch"}
              /\ Goes("wait", P2P_STATUS_NONE, c.change, c.stop, c.type)
           \/ /\ Pc(t) = "exchange" /\ ~c.stop
              /\ \E pc \in {"exchange", "giveup"}, saved \in {Saved(t), P2P_STATUS_NONE} :
                   Goes(pc, saved, c.change, c.stop, c.type)
           \/ /\ Pc(t) = "punch"
              /\ \E saved \in {Saved(t), P2P_STATUS_NONE} :
                   Goes("punch", saved, c.change, c.stop, c.type)
           \/ /\ Pc(t) = "stopping"
              /\ \E pc \in {"wait", "closed"} :
                   Goes(pc, P2P_STATUS_NONE, c.change, c.stop,
                        IF Saved(t) = P2P_CONNECTED THEN "PCT_ENET"
                        ELSE IF Saved(t) = P2P_TCP_PROXY THEN "PCT_TCP_RELAY" ELSE c.type)

CloseMove(t) ==
    LET c == client[t]
    IN  /\ Pc(t) = "returned"
        /\ tcpThr[t] \in {"idle", "ended"}
        /\ c.stop
        /\ MainIs(t, "stopping", P2P_STATUS_NONE)
        /\ ClientIs(t, c.status, c.change, c.stop, c.type)
        /\ RecvIs(t, "ended", udpRecv[t])
        /\ Quiet(t)

(* What a client sends reaches the stream while the socket is open.        *)
Says(t, type) ==
    /\ s2c'[t] = s2c[t]
    /\ IF link[t] = "up"
       THEN /\ peer'[t].role = peer[t].role
            /\ peer'[t].keyword = peer[t].keyword
            /\ peer'[t].greeted = (peer[t].greeted \/ type = Greeting(t))
            /\ peer'[t].asked = IF type = "TPT_PROXY_REQUEST" THEN peer[t].asked + 1
                                ELSE peer[t].asked
       ELSE peer'[t] = peer[t]

SendMove(t) ==
    LET c == client[t]
    IN  \/ /\ Pc(t) = "reset" /\ Saved(t) = GreetingStatus(t)
           /\ MainIs(t, "wait", P2P_STATUS_NONE)
           /\ ClientIs(t, c.status, FALSE, c.stop, c.type)
           /\ RecvKept(t)
           /\ Says(t, Greeting(t))
        \/ /\ Pc(t) = "giveup"
           /\ MainIs(t, "wait", P2P_STATUS_NONE)
           /\ ClientIs(t, P2P_TCP_PROXY_REQUEST, c.change, c.stop, c.type)
           /\ RecvKept(t)
           /\ Says(t, "TPT_PROXY_REQUEST")
        \/ /\ c.type = "PCT_TCP_RELAY"
           /\ MainKept(t)
           /\ client'[t] = c
           /\ RecvKept(t)
           /\ Says(t, "TPT_DATA_PROXY")
        \/ /\ udpRecv[t] = "confirm"
           /\ MainKept(t)
           /\ client'[t] = c
           /\ RecvIs(t, tcpThr[t], "idle")
           /\ Says(t, "TPT_P2P_RESULT")

(* The TCP receive thread takes a packet.                                  *)
ReceiveMove(t) ==
    LET c == client[t]
        p == Head(s2c[t])
        Sets(status, type) == ClientIs(t, status, c.change, c.stop, type)
                              /\ RecvIs(t, "signal", udpRecv[t])
    IN  /\ tcpThr[t] = "idle"
        /\ s2c[t] # <<>>
        /\ s2c'[t] = Tail(s2c[t])
        /\ peer'[t] = peer[t]
        /\ MainKept(t)
        /\ \/ p.type = "TPT_INIT" /\ Sets(GreetingStatus(t), "PCT_NONE")
           \/ /\ p.type = "TPT_WAIT_RESULT" /\ c.status = P2P_TCP_LISTENING
              /\ Sets(P2P_TCP_CONNECTED, c.type)
           \/ p.type = "TPT_START_UDP" /\ Sets(ExchangeStatus(t), c.type)
           \/ /\ p.type = "TPT_CLIENT_INFO" /\ c.status = ExchangeStatus(t)
              /\ ClientIs(t, c.status, c.change, c.stop, c.type)
              /\ RecvIs(t, "punching", udpRecv[t])
           \/ /\ p.type = "TPT_P2P_RESULT" /\ c.status = P2P_PUNCHING
              /\ ClientIs(t, c.status, c.change, c.stop, c.type)
              /\ RecvIs(t, "connected", udpRecv[t])
           \/ p.type = "TPT_PROXY_RESULT" /\ p.Result = "NONE" /\ Sets(P2P_TCP_PROXY, c.type)
           \/ /\ p.type \notin {"TPT_INIT", "TPT_START_UDP"}
              /\ p.type = "TPT_PROXY_RESULT" => p.Result # "NONE"
              /\ RecvKept(t)
              /\ \/ ClientIs(t, c.status, c.change, TRUE, c.type)
                 \/ /\ ClientIs(t, c.status, c.change, c.stop, c.type)
                    /\ ~(p.type = "TPT_RESET" /\ peer[t].role = "HOST")

(* The other steps of the two receive threads.                             *)
RecvMove(t) ==
    LET c == client[t]
    IN  /\ peer'[t] = peer[t]
        /\ MainKept(t)
        /\ \/ /\ tcpThr[t] = "signal"
              /\ s2c'[t] = s2c[t]
              /\ ClientIs(t, c.status, TRUE, c.stop, c.type)
              /\ RecvIs(t, "idle", udpRecv[t])
           \/ /\ s2c'[t] = s2c[t]
              /\ \/ tcpThr[t] = "punching" /\ ClientIs(t, P2P_PUNCHING, c.change, c.stop, c.type)
                 \/ tcpThr[t] = "connected" /\ ClientIs(t, P2P_CONNECTED, c.change, c.stop, c.type)
              /\ RecvIs(t, "signal", udpRecv[t])
           \/ /\ tcpThr[t] = "idle"
              /\ s2c'[t] = <<>>
              /\ ClientIs(t, c.status, c.change, TRUE, c.type)
              /\ RecvIs(t, "ended", udpRecv[t])
           \/ /\ s2c'[t] = s2c[t]
              /\ client'[t] = c
              /\ \E udpr \in {"idle", "reply", "confirm"} :
                   /\ udpr = "confirm" => c.status = P2P_PUNCHING
                   /\ RecvIs(t, tcpThr[t], udpr)

Move(t) == MainMove(t) \/ CloseMove(t) \/ SendMove(t) \/ ReceiveMove(t) \/ RecvMove(t)

(* A client steps alone.                                                   *)
Unmoved(t) ==
    /\ client'[t] = client[t]
    /\ MainKept(t)
    /\ RecvKept(t)
    /\ Quiet(t)

(* What a client sends, and what P2PServer's history makes of it.          *)
LEMMA Sending ==
    ASSUME TypeOK, NEW t \in Tcp, NEW type \in ClientTCPType, C!SendTCP(t, type), Record(t)
    PROVE  IF link[t] = "up"
           THEN /\ Len(c2s[t]) < MaxC2S
                /\ c2s' = [c2s EXCEPT ![t] = Append(@, type)]
                /\ peer' = [peer EXCEPT ![t].greeted = @ \/ type = Greeting(t),
                                        ![t].asked = IF type = "TPT_PROXY_REQUEST" THEN @ + 1 ELSE @]
           ELSE c2s' = c2s /\ peer' = peer
<1>1. c2s \in [Tcp -> Seq(ClientTCPType)]
  BY DEF TypeOK
<1>2. CASE link[t] = "up"
  <2>1. c2s'[t] = Append(c2s[t], type)
    BY <1>1, <1>2 DEF C!SendTCP
  <2>2. /\ Len(c2s[t]) \in Nat /\ Len(c2s'[t]) = Len(c2s[t]) + 1
        /\ c2s'[t][Len(c2s'[t])] = type
    BY <1>1, <2>1
  <2> DEFINE last == c2s'[t][Len(c2s'[t])]
             Recorded(x) ==
               [peer EXCEPT ![t].greeted = @ \/ x = Greeting(t),
                            ![t].asked = IF x = "TPT_PROXY_REQUEST" THEN @ + 1 ELSE @]
  <2>3. peer' = Recorded(last)
    BY <2>2 DEF Record
  <2>4. last = type
    BY <2>2
  <2> HIDE DEF last
  <2>5. QED
    BY <1>2, <2>3, <2>4 DEF C!SendTCP
<1>3. CASE link[t] # "up"
  BY <1>1, <1>3 DEF C!SendTCP, Record
<1>4. QED
  BY <1>2, <1>3

(* A send keeps the streams from the server.                               *)
LEMMA SaysPacket ==
    ASSUME TypeOK, NEW t \in Tcp, NEW type \in ClientTCPType, C!SendTCP(t, type), Record(t),
           UNCHANGED s2c
    PROVE  Says(t, type) /\ \A u \in Tcp \ {t} : peer'[u] = peer[u]
<1>1. peer \in [Tcp -> [role : Role \cup {None}, keyword : Keyword \cup {None},
                        greeted : BOOLEAN, asked : Nat]]
  BY DEF TypeOK
<1>2. CASE link[t] = "up"
  <2>1. peer' = [peer EXCEPT ![t].greeted = @ \/ type = Greeting(t),
                             ![t].asked = IF type = "TPT_PROXY_REQUEST" THEN @ + 1 ELSE @]
    BY <1>2, Sending
  <2>2. QED
    BY <1>1, <1>2, <2>1 DEF Says
<1>3. CASE link[t] # "up"
  BY <1>3, Sending DEF Says
<1>4. QED
  BY <1>2, <1>3

(* A step that leaves the stream to the server leaves the history.         *)
LEMMA SaysNothing == \A t : UNCHANGED c2s /\ Record(t) => UNCHANGED peer
BY DEF Record

(* Every step of a main thread is a MainMove, a CloseMove or a SendMove.   *)
LEMMA MainMoves ==
    ASSUME TypeOK, TunnelTypeOK, NEW t \in Tcp, Record(t), C!MainThread(t)
    PROVE  Move(t) /\ \A u \in Tcp \ {t} : Unmoved(u)
<1>1. /\ client \in [Tcp -> Members] /\ mainThr \in [Tcp -> Stations]
      /\ tcpThr \in [Tcp -> {"idle", "punching", "connected", "signal", "ended"}]
      /\ udpRecv \in [Tcp -> {"idle", "reply", "confirm"}]
      /\ s2c \in [Tcp -> ServerStream]
  BY TunnelTypes
<1> DEFINE c == client[t]
           Others == \A u \in Tcp \ {t} : Unmoved(u)
           Kept == UNCHANGED <<c2s, s2c, tcpThr, udpRecv>>
<1>2. \A pc, saved : C!Station(pc, saved).pc = pc /\ C!Station(pc, saved).saved = saved
  BY DEF C!Station
<1>3. ASSUME NEW pc, C!Goto(t, pc)
      PROVE  MainIs(t, pc, P2P_STATUS_NONE) /\ \A u \in Tcp \ {t} : MainKept(u)
  <2>1. mainThr' = [mainThr EXCEPT ![t] = C!Station(pc, C!P2P_STATUS_NONE)]
    BY <1>3 DEF C!Goto
  <2>2. QED
    BY <1>1, <1>2, <2>1, SameStatus DEF MainIs, MainKept
<1>4. ASSUME NEW S, C!Handle(t, S)
      PROVE  /\ Pc(t) = "reset"
             /\ ClientIs(t, c.status, FALSE, c.stop, c.type)
             /\ \A u \in Tcp \ {t} : client'[u] = client[u]
  BY <1>1, <1>4 DEF C!Handle, C!At, C!ResetEvent, Pc, Saved, ClientIs, Members
<1>5. ASSUME UNCHANGED client
      PROVE  /\ ClientIs(t, c.status, c.change, c.stop, c.type)
             /\ \A u \in Tcp \ {t} : client'[u] = client[u]
  BY <1>5 DEF ClientIs
<1>6. ASSUME Kept PROVE /\ RecvKept(t) /\ Quiet(t)
                        /\ \A u \in Tcp \ {t} : RecvKept(u) /\ Quiet(u)
  BY <1>6, SaysNothing DEF RecvKept, RecvIs, Quiet
<1>7. \A pc : C!At(t, pc) => Pc(t) = pc
  BY DEF C!At, Pc
<1>8. ASSUME \A u \in Tcp \ {t} : client'[u] = client[u] /\ MainKept(u) /\ RecvKept(u) /\ Quiet(u)
      PROVE  Others
  BY <1>8 DEF Unmoved
<1>9. SUFFICES Move(t) /\ Others
  OBVIOUS
<1> HIDE DEF Others
<1>10. CASE C!Begin(t)
  <2>1. /\ \E stop \in {c.stop, FALSE} : ClientIs(t, c.status, c.change, stop, c.type)
        /\ \A u \in Tcp \ {t} : client'[u] = client[u]
    <3> DEFINE stop == IF C!IsHost(t) THEN FALSE ELSE c.stop
    <3>1. client' = [client EXCEPT ![t] = [c EXCEPT !.stop = stop]]
      BY <1>10 DEF C!Begin
    <3>2. stop \in {c.stop, FALSE}
      OBVIOUS
    <3> HIDE DEF stop
    <3>3. ClientIs(t, c.status, c.change, stop, c.type)
      BY <1>1, <3>1 DEF ClientIs, Members
    <3>4. QED
      BY <1>1, <3>1, <3>2, <3>3
  <2>2. C!At(t, "begin") /\ C!Goto(t, "wait") /\ Kept
    BY <1>10 DEF C!Begin, C!netVars
  <2>3. QED
    BY <1>3, <1>6, <1>7, <1>8, <2>1, <2>2 DEF Move, MainMove
<1>11. CASE C!WakeUp(t)
  <2>1. MainIs(t, "reset", c.status) /\ \A u \in Tcp \ {t} : MainKept(u)
    BY <1>1, <1>2, <1>11 DEF C!WakeUp, MainIs, MainKept
  <2>2. C!At(t, "wait") /\ c.change /\ Kept /\ UNCHANGED client
    BY <1>11 DEF C!WakeUp, C!netVars
  <2>3. c.status # P2P_STATUS_NONE
    BY <1>11, SameStatus
       DEF C!WakeUp, C!Handled, P2P_STATUS_NONE, P2P_TCP_LISTENING, P2P_TCP_CONNECTED,
           P2P_UDP_LISTENING, P2P_UDP_CONNECTED, P2P_PUNCHING, P2P_CONNECTED, P2P_TCP_PROXY
  <2>4. QED
    BY <1>5, <1>6, <1>7, <1>8, <2>1, <2>2, <2>3 DEF Move, MainMove
<1>12. CASE C!LoopEnds(t)
  <2>1. /\ ClientIs(t, c.status, c.change, c.stop, c.type)
        /\ \A u \in Tcp \ {t} : client'[u] = client[u]
    BY <1>1, <1>12 DEF C!LoopEnds, ClientIs, Members
  <2>2. C!At(t, "wait") /\ C!Goto(t, "returned") /\ Kept
    BY <1>12 DEF C!LoopEnds, C!netVars
  <2>3. QED
    BY <1>3, <1>6, <1>7, <1>8, <2>1, <2>2 DEF Move, MainMove
<1>13. CASE C!AwaitGuest(t)
  <2>1. /\ C!Handle(t, {P2P_TCP_CONNECTED}) /\ C!Goto(t, "wait") /\ Kept /\ peer[t].role = "HOST"
    BY <1>13, SameStatus DEF C!AwaitGuest, C!netVars, C!IsHost
  <2>2. Saved(t) = P2P_TCP_CONNECTED
    BY <2>1 DEF C!Handle, Saved
  <2>3. QED
    BY <1>3, <1>4, <1>6, <1>8, <2>1, <2>2 DEF Move, MainMove
<1>14. CASE C!Exchange(t)
  <2>1. C!Handle(t, ExchangeStatuses) /\ C!Goto(t, "exchange") /\ Kept
    BY <1>14, SameStatus DEF C!Exchange, ExchangeStatuses
  <2>2. Saved(t) \in ExchangeStatuses
    BY <2>1 DEF C!Handle, Saved
  <2>3. QED
    BY <1>3, <1>4, <1>6, <1>8, <2>1, <2>2 DEF Move, MainMove
<1>15. CASE C!Punch(t)
  <2>1. C!Handle(t, {P2P_PUNCHING}) /\ C!Goto(t, "punch") /\ Kept
    BY <1>15, SameStatus DEF C!Punch
  <2>2. Saved(t) = P2P_PUNCHING
    BY <2>1 DEF C!Handle, Saved
  <2>3. QED
    BY <1>3, <1>4, <1>6, <1>8, <2>1, <2>2 DEF Move, MainMove
<1>16. CASE C!EnterUDPLock(t)
  <2>1. C!Handle(t, {P2P_CONNECTED, P2P_TCP_PROXY}) /\ Kept
    BY <1>16, SameStatus DEF C!EnterUDPLock, C!netVars
  <2>2. MainIs(t, "stopping", Saved(t)) /\ \A u \in Tcp \ {t} : MainKept(u)
    BY <1>1, <1>16 DEF C!EnterUDPLock, MainIs, MainKept, Saved, Stations
  <2>3. Saved(t) \in {P2P_CONNECTED, P2P_TCP_PROXY}
    BY <2>1 DEF C!Handle, Saved
  <2>4. QED
    BY <1>4, <1>6, <1>8, <2>1, <2>2, <2>3 DEF Move, MainMove
<1>17. CASE C!WaitSignalled(t)
  <2>1. /\ C!At(t, "exchange") \/ C!At(t, "punch")
        /\ C!Goto(t, "wait") /\ Kept /\ UNCHANGED client
    BY <1>17 DEF C!WaitSignalled, C!netVars
  <2>2. QED
    BY <1>3, <1>5, <1>6, <1>7, <1>8, <2>1 DEF Move, MainMove
<1>18. ASSUME NEW pc, NEW last, C!Round(t, pc, last)
       PROVE  /\ Pc(t) = pc /\ ~c.stop /\ Kept /\ UNCHANGED client
              /\ \E p \in {pc, last}, saved \in {Saved(t), P2P_STATUS_NONE} : MainIs(t, p, saved)
              /\ \A u \in Tcp \ {t} : MainKept(u)
  <2>1. CASE C!Goto(t, last)
    BY <1>3, <1>7, <1>18, <2>1 DEF C!Round, C!Signalled
  <2>2. CASE mainThr' = [mainThr EXCEPT ![t].retry = @ + 1]
    <3>1. MainIs(t, pc, Saved(t)) /\ \A u \in Tcp \ {t} : MainKept(u)
      BY <1>1, <1>7, <1>18, <2>2 DEF C!Round, MainIs, MainKept, Saved, Stations, Pc
    <3>2. QED
      BY <1>7, <1>18, <3>1 DEF C!Round, C!Signalled
  <2>3. QED
    BY <1>18, <2>1, <2>2 DEF C!Round
<1>19. CASE C!ExchangeTimeout(t)
  <2>1. C!Round(t, "exchange", "giveup")
    BY <1>19 DEF C!ExchangeTimeout
  <2>2. QED
    BY <1>5, <1>6, <1>8, <1>18, <2>1 DEF Move, MainMove
<1>20. CASE C!PunchTimeout(t)
  <2>1. C!Round(t, "punch", "wait")
    BY <1>20 DEF C!PunchTimeout, C!PunchReturns
  <2>2. Pc(t) = "punch" /\ Kept /\ UNCHANGED client /\ \A u \in Tcp \ {t} : MainKept(u)
    BY <1>18, <2>1
  <2>3. CASE C!Goto(t, "wait")
    BY <1>3, <1>5, <1>6, <1>8, <2>2, <2>3 DEF Move, MainMove
  <2>4. CASE mainThr' = [mainThr EXCEPT ![t].retry = @ + 1]
    <3>1. MainIs(t, "punch", Saved(t))
      BY <1>1, <2>2, <2>4 DEF MainIs, Saved, Stations, Pc
    <3>2. QED
      BY <1>5, <1>6, <1>8, <2>2, <3>1 DEF Move, MainMove
  <2>5. QED
    BY <2>1, <2>3, <2>4 DEF C!Round
<1>21. CASE C!Greet(t) \/ C!TurnToRelay(t)
  <2>1. PICK type \in {Greeting(t), "TPT_PROXY_REQUEST"} :
          /\ C!SendTCP(t, type) /\ C!Goto(t, "wait") /\ UNCHANGED <<s2c, tcpThr, udpRecv>>
          /\ \/ type = Greeting(t) /\ C!Handle(t, {GreetingStatus(t)})
             \/ /\ type = "TPT_PROXY_REQUEST" /\ C!At(t, "giveup")
                /\ client' = [client EXCEPT ![t].status = P2P_TCP_PROXY_REQUEST]
    BY <1>21, SameStatus DEF C!Greet, C!TurnToRelay, C!Greeting, C!IsHost, Greeting, GreetingStatus
  <2>2. Says(t, type) /\ \A u \in Tcp \ {t} : peer'[u] = peer[u]
    BY <2>1, SaysPacket DEF Greeting, ClientTCPType
  <2>3. RecvKept(t) /\ \A u \in Tcp \ {t} : RecvKept(u) /\ Quiet(u)
    BY <2>1, <2>2 DEF RecvKept, RecvIs, Quiet
  <2>4. CASE type = Greeting(t) /\ C!Handle(t, {GreetingStatus(t)})
    <3>1. Saved(t) = GreetingStatus(t)
      BY <2>4 DEF C!Handle, Saved
    <3>2. QED
      BY <1>3, <1>4, <1>8, <2>1, <2>2, <2>3, <2>4, <3>1 DEF Move, SendMove
  <2>5. CASE /\ type = "TPT_PROXY_REQUEST" /\ C!At(t, "giveup")
             /\ client' = [client EXCEPT ![t].status = P2P_TCP_PROXY_REQUEST]
    <3>1. /\ ClientIs(t, P2P_TCP_PROXY_REQUEST, c.change, c.stop, c.type)
          /\ \A u \in Tcp \ {t} : client'[u] = client[u]
      BY <1>1, <2>5 DEF ClientIs, Members
    <3>2. QED
      BY <1>3, <1>7, <1>8, <2>1, <2>2, <2>3, <2>5, <3>1 DEF Move, SendMove
  <2>6. QED
    BY <2>1, <2>4, <2>5
<1>22. CASE C!StopUDP(t)
  <2> DEFINE pc == IF Saved(t) = P2P_STATUS_NONE THEN "closed" ELSE "wait"
             d == [c EXCEPT !.udpOn = FALSE]
  <2>1. C!At(t, "stopping") /\ C!Goto(t, pc) /\ Kept
    BY <1>22, SameStatus DEF C!StopUDP, C!netVars, Saved
  <2>2. c \in Members /\ d \in Members
        /\ d.status = c.status /\ d.change = c.change /\ d.stop = c.stop /\ d.type = c.type
    BY <1>1 DEF Members
  <2>3. client' = [client EXCEPT ![t] = C!Started(d, Saved(t))]
    BY <1>22 DEF C!StopUDP, Saved
  <2> HIDE DEF d
  <2>4. /\ C!Started(d, Saved(t)).status = c.status /\ C!Started(d, Saved(t)).change = c.change
        /\ C!Started(d, Saved(t)).stop = c.stop
        /\ C!Started(d, Saved(t)).type = IF Saved(t) = P2P_CONNECTED THEN "PCT_ENET"
                                         ELSE IF Saved(t) = P2P_TCP_PROXY THEN "PCT_TCP_RELAY"
                                         ELSE c.type
    BY <2>2, SameStatus DEF C!Started, Members, P2P_CONNECTED, P2P_TCP_PROXY
  <2>5. /\ ClientIs(t, c.status, c.change, c.stop,
                    IF Saved(t) = P2P_CONNECTED THEN "PCT_ENET"
                    ELSE IF Saved(t) = P2P_TCP_PROXY THEN "PCT_TCP_RELAY" ELSE c.type)
        /\ \A u \in Tcp \ {t} : client'[u] = client[u]
    BY <1>1, <2>3, <2>4 DEF ClientIs
  <2>6. pc \in {"wait", "closed"}
    OBVIOUS
  <2> HIDE DEF pc
  <2>7. QED
    BY <1>3, <1>6, <1>7, <1>8, <2>1, <2>5, <2>6 DEF Move, MainMove
<1>23. CASE C!Close(t)
  <2>1. /\ C!At(t, "returned") /\ C!Goto(t, "stopping") /\ c.stop /\ tcpThr[t] \in {"idle", "ended"}
        /\ tcpThr' = [tcpThr EXCEPT ![t] = "ended"] /\ UNCHANGED <<c2s, s2c, client, udpRecv>>
    BY <1>23 DEF C!Close
  <2>2. RecvIs(t, "ended", udpRecv[t]) /\ \A u \in Tcp \ {t} : RecvKept(u)
    BY <1>1, <2>1 DEF RecvIs, RecvKept
  <2>3. \A u \in Tcp : Quiet(u)
    BY <2>1, SaysNothing DEF Quiet
  <2>4. QED
    BY <1>3, <1>5, <1>7, <1>8, <2>1, <2>2, <2>3 DEF Move, CloseMove
<1>24. QED
  BY <1>10, <1>11, <1>12, <1>13, <1>14, <1>15, <1>16, <1>17, <1>19, <1>20, <1>21, <1>22, <1>23
     DEF C!MainThread

(* Every step of a TCP receive thread is a ReceiveMove or a RecvMove.      *)
LEMMA ReceiveMoves ==
    ASSUME TypeOK, TunnelTypeOK, NEW t \in Tcp, Record(t),
           C!TCPRecvThread(t) \/ C!SendPacket(t) \/ C!RecvHandshake(t) \/ C!RecvKeepalive(t)
             \/ C!UDPCallback(t)
    PROVE  Move(t) /\ \A u \in Tcp \ {t} : Unmoved(u)
<1>1. /\ client \in [Tcp -> Members] /\ mainThr \in [Tcp -> Stations]
      /\ tcpThr \in [Tcp -> {"idle", "punching", "connected", "signal", "ended"}]
      /\ udpRecv \in [Tcp -> {"idle", "reply", "confirm"}]
      /\ s2c \in [Tcp -> ServerStream]
  BY TunnelTypes
<1> DEFINE c == client[t]
           p == Head(s2c[t])
           Others == \A u \in Tcp \ {t} : Unmoved(u)
           Sets(status) == \E d \in Members :
              /\ d.status = status /\ d.change = c.change /\ d.stop = c.stop
              /\ d.type = IF p.type = "TPT_INIT" THEN "PCT_NONE" ELSE c.type
              /\ C!SetState(t, d)
<1>2. c \in Members
  BY <1>1
<1>3. ASSUME \A u \in Tcp \ {t} : client'[u] = client[u] /\ MainKept(u) /\ RecvKept(u) /\ Quiet(u)
      PROVE  Others
  BY <1>3 DEF Unmoved
<1>4. SUFFICES Move(t) /\ Others
  OBVIOUS
<1> HIDE DEF Others
<1>5. ASSUME NEW d, C!SetState(t, d)
      PROVE  /\ ClientIs(t, d.status, d.change, d.stop, d.type)
             /\ RecvIs(t, "signal", udpRecv[t])
             /\ UNCHANGED <<c2s, mainThr, peer>>
             /\ \A u \in Tcp \ {t} : client'[u] = client[u] /\ RecvKept(u)
  BY <1>1, <1>5, SaysNothing DEF C!SetState, ClientIs, RecvIs, RecvKept
<1>6. ASSUME C!SetStopEvent(t)
      PROVE  /\ ClientIs(t, c.status, c.change, TRUE, c.type)
             /\ RecvKept(t)
             /\ UNCHANGED <<c2s, mainThr, peer>>
             /\ \A u \in Tcp \ {t} : client'[u] = client[u] /\ RecvKept(u)
  BY <1>1, <1>6, SaysNothing DEF C!SetStopEvent, ClientIs, RecvIs, RecvKept, Members
<1>7. ASSUME C!Skip(t)
      PROVE  /\ ClientIs(t, c.status, c.change, c.stop, c.type)
             /\ RecvKept(t)
             /\ UNCHANGED <<c2s, mainThr, peer>>
             /\ \A u \in Tcp \ {t} : client'[u] = client[u] /\ RecvKept(u)
  BY <1>1, <1>7, SaysNothing DEF C!Skip, ClientIs, RecvIs, RecvKept
<1>8. ASSUME NEW type, C!Dispatch(t, type)
      PROVE  /\ tcpThr[t] = "idle" /\ s2c[t] # <<>> /\ p.type = type
             /\ s2c'[t] = Tail(s2c[t]) /\ \A u \in Tcp \ {t} : s2c'[u] = s2c[u]
  BY <1>1, <1>8 DEF C!Dispatch
<1>9. ASSUME UNCHANGED <<mainThr, peer>>,
             \A u \in Tcp \ {t} : client'[u] = client[u] /\ RecvKept(u) /\ s2c'[u] = s2c[u]
      PROVE  MainKept(t) /\ peer'[t] = peer[t] /\ Others
  BY <1>3, <1>9 DEF MainKept, Quiet
<1> DEFINE SetsTo(status, type) ==
              \E d : /\ d.status = status /\ d.change = c.change /\ d.stop = c.stop
                     /\ d.type = type /\ C!SetState(t, d)
<1>10. ASSUME NEW status, NEW type, SetsTo(status, type)
       PROVE  /\ ClientIs(t, status, c.change, c.stop, type)
              /\ RecvIs(t, "signal", udpRecv[t])
              /\ UNCHANGED <<c2s, mainThr, peer>>
              /\ \A u \in Tcp \ {t} : client'[u] = client[u] /\ RecvKept(u)
  BY <1>5, <1>10
<1>11. ASSUME NEW status, C!SetState(t, [c EXCEPT !.status = status])
       PROVE  SetsTo(status, c.type)
  <2>1. /\ [c EXCEPT !.status = status].status = status
        /\ [c EXCEPT !.status = status].change = c.change
        /\ [c EXCEPT !.status = status].stop = c.stop
        /\ [c EXCEPT !.status = status].type = c.type
    BY <1>2 DEF Members
  <2>2. QED
    BY <1>11, <2>1
<1> HIDE DEF SetsTo
<1>12. ASSUME NEW type, C!Dispatch(t, type), type \notin {"TPT_INIT", "TPT_START_UDP"},
              type = "TPT_PROXY_RESULT" => p.Result # "NONE",
              C!SetStopEvent(t) \/ (C!Skip(t) /\ ~(type = "TPT_RESET" /\ peer[t].role = "HOST"))
       PROVE  Move(t) /\ Others
  <2>1. /\ tcpThr[t] = "idle" /\ s2c[t] # <<>> /\ p.type = type
        /\ s2c'[t] = Tail(s2c[t]) /\ \A u \in Tcp \ {t} : s2c'[u] = s2c[u]
    BY <1>8, <1>12
  <2>2. /\ RecvKept(t)
        /\ UNCHANGED <<mainThr, peer>>
        /\ \A u \in Tcp \ {t} : client'[u] = client[u] /\ RecvKept(u)
        /\ \/ ClientIs(t, c.status, c.change, TRUE, c.type)
           \/ /\ ClientIs(t, c.status, c.change, c.stop, c.type)
              /\ ~(type = "TPT_RESET" /\ peer[t].role = "HOST")
    BY <1>6, <1>7, <1>12
  <2>3. MainKept(t) /\ peer'[t] = peer[t] /\ Others
    BY <1>9, <2>1, <2>2
  <2>4. /\ p.type \notin {"TPT_INIT", "TPT_START_UDP"}
        /\ p.type = "TPT_PROXY_RESULT" => p.Result # "NONE"
    BY <1>12, <2>1
  <2>5. ReceiveMove(t)
    BY <2>1, <2>2, <2>3, <2>4 DEF ReceiveMove
  <2>6. QED
    BY <2>3, <2>5 DEF Move
<1>20. CASE C!SetPunching(t)
  <2>1. /\ tcpThr[t] = "punching" /\ SetsTo(P2P_PUNCHING, c.type) /\ UNCHANGED s2c
    BY <1>11, <1>20, SameStatus DEF C!SetPunching
  <2>2. QED
    BY <1>9, <1>10, <2>1 DEF Move, RecvMove
<1>21. CASE C!SetConnected(t)
  <2>1. /\ tcpThr[t] = "connected" /\ SetsTo(P2P_CONNECTED, c.type) /\ UNCHANGED s2c
    BY <1>11, <1>21, SameStatus DEF C!SetConnected
  <2>2. QED
    BY <1>9, <1>10, <2>1 DEF Move, RecvMove
<1>22. CASE C!SetStatusEvent(t)
  <2>1. tcpThr[t] = "signal" /\ UNCHANGED <<s2c, mainThr, peer>>
    BY <1>22, SaysNothing DEF C!SetStatusEvent, C!netVars
  <2>2. /\ ClientIs(t, c.status, TRUE, c.stop, c.type)
        /\ RecvIs(t, "idle", udpRecv[t])
        /\ \A u \in Tcp \ {t} : client'[u] = client[u] /\ RecvKept(u)
    BY <1>1, <1>22 DEF C!SetStatusEvent, ClientIs, RecvIs, RecvKept, Members
  <2>3. QED
    BY <1>9, <2>1, <2>2 DEF Move, RecvMove
<1>23. CASE C!RecvInit(t)
  <2> DEFINE d == [c EXCEPT !.Peerid = 0, !.type = "PCT_NONE", !.status = GreetingStatus(t)]
  <2>1. C!SetState(t, d) /\ C!Dispatch(t, "TPT_INIT")
    BY <1>23, SameStatus DEF C!RecvInit, C!IsHost, GreetingStatus
  <2>2. /\ d.status = GreetingStatus(t) /\ d.change = c.change /\ d.stop = c.stop
        /\ d.type = "PCT_NONE"
    BY <1>2 DEF Members
  <2>3. SetsTo(GreetingStatus(t), "PCT_NONE")
    BY <2>1, <2>2 DEF SetsTo
  <2> HIDE DEF d
  <2>4. QED
    BY <1>8, <1>9, <1>10, <2>1, <2>3 DEF Move, ReceiveMove
<1>24. CASE C!RecvWaitResult(t)
  <2>1. C!Dispatch(t, "TPT_WAIT_RESULT")
    BY <1>24 DEF C!RecvWaitResult
  <2>2. CASE c.status = P2P_TCP_LISTENING /\ C!SetState(t, [c EXCEPT !.status = P2P_TCP_CONNECTED])
    BY <1>8, <1>9, <1>10, <1>11, <2>1, <2>2 DEF Move, ReceiveMove
  <2>3. CASE C!SetStopEvent(t)
    BY <1>12, <2>1, <2>3
  <2>4. CASE C!Skip(t)
    BY <1>12, <2>1, <2>4
  <2>5. QED
    BY <1>24, <2>2, <2>3, <2>4, SameStatus DEF C!RecvWaitResult
<1>25. CASE C!RecvConnectResult(t)
  <2>1. C!Dispatch(t, "TPT_CONNECT_RESULT") /\ C!Skip(t)
    BY <1>25 DEF C!RecvConnectResult
  <2>2. QED
    BY <1>12, <2>1
<1>26. CASE C!RecvStartUDP(t)
  <2>1. C!Dispatch(t, "TPT_START_UDP") /\ SetsTo(ExchangeStatus(t), c.type)
    BY <1>11, <1>26, SameStatus DEF C!RecvStartUDP, C!Exchanging, C!IsHost, ExchangeStatus
  <2>2. QED
    BY <1>8, <1>9, <1>10, <2>1 DEF Move, ReceiveMove
<1>27. CASE C!RecvClientInfo(t)
  <2>1. C!Dispatch(t, "TPT_CLIENT_INFO")
    BY <1>27 DEF C!RecvClientInfo
  <2>2. CASE c.status = ExchangeStatus(t)
    <3>1. /\ tcpThr' = [tcpThr EXCEPT ![t] = "punching"]
          /\ client' = [client EXCEPT ![t].Peerid = p.Peerid, ![t].remote = p.ClientInfo]
          /\ UNCHANGED <<c2s, mainThr, udpRecv>>
      BY <1>27, <2>2, SameStatus DEF C!RecvClientInfo, C!Exchanging, C!IsHost, ExchangeStatus
    <3>2. /\ ClientIs(t, c.status, c.change, c.stop, c.type)
          /\ RecvIs(t, "punching", udpRecv[t])
          /\ \A u \in Tcp \ {t} : client'[u] = client[u] /\ RecvKept(u)
      BY <1>1, <3>1 DEF ClientIs, RecvIs, RecvKept, Members
    <3>3. UNCHANGED peer
      BY <3>1, SaysNothing
    <3>4. QED
      BY <1>8, <1>9, <2>1, <2>2, <3>1, <3>2, <3>3 DEF Move, ReceiveMove
  <2>3. CASE C!Skip(t)
    BY <1>12, <2>1, <2>3
  <2>4. QED
    BY <1>27, <2>2, <2>3, SameStatus DEF C!RecvClientInfo, C!Exchanging, C!IsHost, ExchangeStatus
<1>28. CASE C!RecvP2PResult(t)
  <2>1. C!Dispatch(t, "TPT_P2P_RESULT")
    BY <1>28 DEF C!RecvP2PResult
  <2>2. CASE c.status = P2P_PUNCHING
    <3>1. /\ tcpThr' = [tcpThr EXCEPT ![t] = "connected"]
          /\ UNCHANGED <<c2s, client, mainThr, udpRecv>>
      BY <1>28, <2>2, SameStatus DEF C!RecvP2PResult
    <3>2. /\ ClientIs(t, c.status, c.change, c.stop, c.type)
          /\ RecvIs(t, "connected", udpRecv[t])
          /\ \A u \in Tcp \ {t} : client'[u] = client[u] /\ RecvKept(u)
      BY <1>1, <3>1 DEF ClientIs, RecvIs, RecvKept
    <3>3. UNCHANGED peer
      BY <3>1, SaysNothing
    <3>4. QED
      BY <1>8, <1>9, <2>1, <2>2, <3>1, <3>2, <3>3 DEF Move, ReceiveMove
  <2>3. CASE C!Skip(t)
    BY <1>12, <2>1, <2>3
  <2>4. QED
    BY <1>28, <2>2, <2>3, SameStatus DEF C!RecvP2PResult
<1>29. CASE C!RecvProxyResult(t)
  <2>1. C!Dispatch(t, "TPT_PROXY_RESULT")
    BY <1>29 DEF C!RecvProxyResult
  <2>2. CASE p.Result = "NONE" /\ C!SetState(t, [c EXCEPT !.status = P2P_TCP_PROXY])
    BY <1>8, <1>9, <1>10, <1>11, <2>1, <2>2 DEF Move, ReceiveMove
  <2>3. CASE p.Result # "NONE" /\ C!SetStopEvent(t)
    BY <1>12, <2>1, <2>3
  <2>4. QED
    BY <1>29, <2>2, <2>3, SameStatus DEF C!RecvProxyResult
<1>30. CASE C!RecvReset(t)
  <2>1. C!Dispatch(t, "TPT_RESET")
    BY <1>30 DEF C!RecvReset
  <2>2. CASE C!SetStopEvent(t)
    BY <1>12, <2>1, <2>2
  <2>3. CASE peer[t].role # "HOST" /\ C!Skip(t)
    BY <1>12, <2>1, <2>3
  <2>4. QED
    BY <1>30, <2>2, <2>3 DEF C!RecvReset, C!IsHost
<1>31. CASE C!TCPEndProcess(t)
  <2>1. UNCHANGED <<mainThr, peer>> /\ tcpThr[t] = "idle"
    BY <1>31, SaysNothing DEF C!TCPEndProcess
  <2>2. /\ ClientIs(t, c.status, c.change, TRUE, c.type)
        /\ RecvIs(t, "ended", udpRecv[t]) /\ s2c'[t] = <<>>
        /\ \A u \in Tcp \ {t} : client'[u] = client[u] /\ RecvKept(u) /\ s2c'[u] = s2c[u]
    BY <1>1, <1>31 DEF C!TCPEndProcess, ClientIs, RecvIs, RecvKept, Members
  <2>3. QED
    BY <1>9, <2>1, <2>2 DEF Move, RecvMove
<1>32. CASE C!RecvHandshake(t) \/ C!SendKeepalive(t) \/ C!RecvKeepalive(t)
  <2>1. UNCHANGED <<mainThr, peer, s2c, client, tcpThr>>
    BY <1>32, SaysNothing DEF C!RecvHandshake, C!SendKeepalive, C!RecvKeepalive, C!netVars
  <2>2. PICK udpr \in {"idle", "reply", "confirm"} :
          /\ udpRecv' = [udpRecv EXCEPT ![t] = udpr]
          /\ udpr = "confirm" => c.status = P2P_PUNCHING
    BY <1>32, SameStatus DEF C!RecvHandshake, C!SendKeepalive, C!RecvKeepalive
  <2>3. RecvIs(t, tcpThr[t], udpr) /\ \A u \in Tcp \ {t} : RecvKept(u)
    BY <1>1, <2>1, <2>2 DEF RecvIs, RecvKept
  <2>4. QED
    BY <1>9, <2>1, <2>2, <2>3 DEF Move, RecvMove
<1>33. CASE C!SendPacket(t)
  <2>1. /\ C!SendTCP(t, "TPT_DATA_PROXY") /\ UNCHANGED <<s2c, client, mainThr, tcpThr, udpRecv>>
        /\ c.type = "PCT_TCP_RELAY"
    BY <1>33 DEF C!SendPacket
  <2>2. Says(t, "TPT_DATA_PROXY") /\ \A u \in Tcp \ {t} : peer'[u] = peer[u]
    BY <2>1, SaysPacket DEF ClientTCPType
  <2>3. QED
    BY <1>3, <2>1, <2>2 DEF Move, SendMove, MainKept, RecvKept, RecvIs, Quiet
<1>34. CASE C!SendP2PResult(t)
  <2>1. /\ C!SendTCP(t, "TPT_P2P_RESULT") /\ UNCHANGED <<s2c, client, mainThr, tcpThr>>
        /\ udpRecv[t] = "confirm" /\ udpRecv' = [udpRecv EXCEPT ![t] = "idle"]
    BY <1>34 DEF C!SendP2PResult
  <2>2. Says(t, "TPT_P2P_RESULT") /\ \A u \in Tcp \ {t} : peer'[u] = peer[u]
    BY <2>1, SaysPacket DEF ClientTCPType
  <2>3. RecvIs(t, tcpThr[t], "idle") /\ \A u \in Tcp \ {t} : RecvKept(u)
    BY <1>1, <2>1 DEF RecvIs, RecvKept
  <2>4. QED
    BY <1>3, <2>1, <2>2, <2>3 DEF Move, SendMove, MainKept, Quiet
<1>35. QED
  BY <1>20, <1>21, <1>22, <1>23, <1>24, <1>25, <1>26, <1>27, <1>28, <1>29, <1>30, <1>31, <1>32,
     <1>33, <1>34 DEF C!TCPRecvThread, C!UDPCallback

(* Every step of a client is a Move of that client alone.                  *)
LEMMA Moves ==
    ASSUME TypeOK, TunnelTypeOK, NEW t \in Tcp, ClientStep(t, C!ClientNext(t))
    PROVE  Move(t) /\ \A u \in Tcp \ {t} : Unmoved(u)
BY MainMoves, ReceiveMoves DEF ClientStep, C!ClientNext

-----------------------------------------------------------------------------
(* Types                                                                   *)

(* The members of a client keep their types.                               *)
LEMMA MembersType ==
    ASSUME TunnelTypeOK, NEW t \in Tcp, C!ClientNext(t)
    PROVE  client' \in [Tcp -> Members]
<1>1. client \in [Tcp -> Members] /\ s2c \in [Tcp -> ServerStream]
  BY TunnelTypes
<1> DEFINE c == client[t]
<1>2. c \in Members
  BY <1>1
<1>3. ASSUME NEW d \in Members, client' = [client EXCEPT ![t] = d]
      PROVE  client' \in [Tcp -> Members]
  BY <1>1, <1>3
<1>4. CASE UNCHANGED client
  BY <1>1, <1>4
<1>5. \A status \in P2P_STATUS : [c EXCEPT !.status = status] \in Members
  BY <1>2 DEF Members
<1>6. ASSUME NEW S, C!Handle(t, S) PROVE client' \in [Tcp -> Members]
  <2>1. [c EXCEPT !.change = FALSE] \in Members
    BY <1>2 DEF Members
  <2>2. QED
    BY <1>3, <1>6, <2>1 DEF C!Handle, C!ResetEvent
<1>7. ASSUME NEW status \in P2P_STATUS, C!SetState(t, [c EXCEPT !.status = status])
      PROVE  client' \in [Tcp -> Members]
  <2>1. client' = [client EXCEPT ![t] = [c EXCEPT !.status = status]]
    BY <1>7 DEF C!SetState
  <2>2. QED
    BY <1>3, <1>5, <2>1
<1>8. CASE C!SetStopEvent(t) \/ C!TCPEndProcess(t)
  <2>1. [c EXCEPT !.stop = TRUE] \in Members
    BY <1>2 DEF Members
  <2>2. QED
    BY <1>3, <1>8, <2>1 DEF C!SetStopEvent, C!TCPEndProcess
<1>9. CASE C!Skip(t)
  BY <1>4, <1>9 DEF C!Skip
<1>10. CASE C!MainThread(t)
  <2>1. CASE C!Begin(t)
    <3>1. client' = [client EXCEPT ![t] = [c EXCEPT !.stop = IF C!IsHost(t) THEN FALSE ELSE c.stop]]
      BY <2>1 DEF C!Begin
    <3>2. [c EXCEPT !.stop = IF C!IsHost(t) THEN FALSE ELSE c.stop] \in Members
      BY <1>2 DEF Members
    <3>3. QED
      BY <1>3, <3>1, <3>2
  <2>2. CASE C!LoopEnds(t)
    <3>1. [c EXCEPT !.connected = FALSE] \in Members
      BY <1>2 DEF Members
    <3>2. QED
      BY <1>3, <2>2, <3>1 DEF C!LoopEnds
  <2>3. CASE C!TurnToRelay(t)
    BY <1>3, <1>5, <2>3, StatusIn, SameStatus DEF C!TurnToRelay
  <2>4. CASE C!StopUDP(t)
    <3> DEFINE d == [c EXCEPT !.udpOn = FALSE]
               s == mainThr[t].saved
    <3>1. d \in Members
      BY <1>2 DEF Members
    <3>2. client' = [client EXCEPT ![t] = C!Started(d, s)]
      BY <2>4 DEF C!StopUDP
    <3> HIDE DEF d, s
    <3>3. C!Started(d, s) \in Members
      BY <3>1, SameStatus DEF C!Started, Members, C!CommType, P2P_CONNECTED, P2P_TCP_PROXY
    <3>4. QED
      BY <1>3, <3>2, <3>3
  <2>5. CASE C!Greet(t) \/ C!AwaitGuest(t) \/ C!Exchange(t) \/ C!Punch(t) \/ C!EnterUDPLock(t)
    BY <1>6, <2>5 DEF C!Greet, C!AwaitGuest, C!Exchange, C!Punch, C!EnterUDPLock
  <2>6. CASE C!WakeUp(t) \/ C!WaitSignalled(t) \/ C!ExchangeTimeout(t) \/ C!PunchTimeout(t)
             \/ C!Close(t)
    BY <1>4, <2>6 DEF C!WakeUp, C!WaitSignalled, C!ExchangeTimeout, C!PunchTimeout, C!Round, C!Close
  <2>7. QED
    BY <1>10, <2>1, <2>2, <2>3, <2>4, <2>5, <2>6 DEF C!MainThread
<1>11. CASE C!TCPRecvThread(t)
  <2>1. CASE C!SetPunching(t) \/ C!SetConnected(t)
    BY <1>7, <2>1, StatusIn, SameStatus DEF C!SetPunching, C!SetConnected
  <2>2. CASE C!SetStatusEvent(t)
    <3>1. [c EXCEPT !.change = TRUE] \in Members
      BY <1>2 DEF Members
    <3>2. QED
      BY <1>3, <2>2, <3>1 DEF C!SetStatusEvent
  <2>3. CASE C!RecvInit(t)
    <3> DEFINE d == [c EXCEPT !.Peerid = 0, !.type = "PCT_NONE",
                        !.status = IF C!IsHost(t) THEN P2P_TCP_LISTENING ELSE P2P_TCP_CONNECTED]
    <3>1. client' = [client EXCEPT ![t] = d]
      BY <2>3, SameStatus DEF C!RecvInit, C!SetState
    <3>2. d \in Members
      BY <1>2, StatusIn DEF Members, C!CommType
    <3>3. QED
      BY <1>3, <3>1, <3>2
  <2>4. CASE C!RecvWaitResult(t)
    BY <1>7, <1>8, <1>9, <2>4, StatusIn, SameStatus DEF C!RecvWaitResult
  <2>5. CASE C!RecvConnectResult(t) \/ C!RecvReset(t)
    BY <1>8, <1>9, <2>5 DEF C!RecvConnectResult, C!RecvReset
  <2>6. CASE C!RecvStartUDP(t)
    <3>1. C!SetState(t, [c EXCEPT !.status = ExchangeStatus(t)])
      BY <2>6, SameStatus DEF C!RecvStartUDP, C!Exchanging, C!IsHost, ExchangeStatus
    <3>2. ExchangeStatus(t) \in P2P_STATUS
      BY StatusIn DEF ExchangeStatus
    <3>3. QED
      BY <1>3, <1>5, <3>1, <3>2 DEF C!SetState
  <2>7. CASE C!RecvClientInfo(t)
    <3> DEFINE p == Head(s2c[t])
               d == [c EXCEPT !.Peerid = p.Peerid, !.remote = p.ClientInfo]
    <3>1. CASE client' = [client EXCEPT ![t] = d] /\ p.type = "TPT_CLIENT_INFO" /\ s2c[t] # <<>>
      <4>1. p.Peerid \in Id /\ p.ClientInfo \in Tcp
        BY <1>1, <3>1, HeadPacket, InfoPacket
      <4>2. d \in Members
        BY <1>2, <4>1 DEF Members
      <4>3. QED
        BY <1>3, <3>1, <4>2
    <3>2. CASE C!Skip(t)
      BY <1>9, <3>2
    <3>3. QED
      BY <2>7, <3>1, <3>2 DEF C!RecvClientInfo, C!Dispatch
  <2>8. CASE C!RecvP2PResult(t)
    BY <1>4, <1>9, <2>8 DEF C!RecvP2PResult
  <2>9. CASE C!RecvProxyResult(t)
    BY <1>7, <1>8, <2>9, StatusIn, SameStatus DEF C!RecvProxyResult
  <2>10. CASE C!TCPEndProcess(t)
    BY <1>8, <2>10
  <2>11. QED
    BY <1>11, <2>1, <2>2, <2>3, <2>4, <2>5, <2>6, <2>7, <2>8, <2>9, <2>10 DEF C!TCPRecvThread
<1>12. CASE C!SendPacket(t) \/ C!RecvHandshake(t) \/ C!RecvKeepalive(t) \/ C!UDPCallback(t)
  BY <1>4, <1>12 DEF C!SendPacket, C!RecvHandshake, C!RecvKeepalive, C!UDPCallback, C!SendKeepalive,
                     C!SendP2PResult
<1>13. QED
  BY <1>10, <1>11, <1>12 DEF C!ClientNext

(* A main thread is always at one of its stations, in one of its rounds.   *)
LEMMA StationsType ==
    ASSUME TunnelTypeOK, NEW t \in Tcp, C!ClientNext(t)
    PROVE  mainThr' \in [Tcp -> Stations]
<1>1. client \in [Tcp -> Members] /\ mainThr \in [Tcp -> Stations]
  BY TunnelTypes
<1>2. CASE UNCHANGED mainThr
  BY <1>1, <1>2
<1>3. ASSUME NEW x \in Stations, mainThr' = [mainThr EXCEPT ![t] = x]
      PROVE  mainThr' \in [Tcp -> Stations]
  BY <1>1, <1>3
<1>4. ASSUME NEW pc \in PCs, C!Goto(t, pc) PROVE mainThr' \in [Tcp -> Stations]
  <2>1. C!Station(pc, P2P_STATUS_NONE) \in Stations
    BY StationType, StatusIn
  <2>2. QED
    BY <1>3, <1>4, <2>1, SameStatus DEF C!Goto
<1>5. mainThr[t] \in Stations /\ client[t].status \in P2P_STATUS
  BY <1>1 DEF Members
<1>6. ASSUME NEW pc, NEW last \in PCs, C!Round(t, pc, last)
      PROVE  mainThr' \in [Tcp -> Stations]
  <2>1. CASE mainThr[t].retry + 1 < MaxRetry /\ mainThr' = [mainThr EXCEPT ![t].retry = @ + 1]
    <3>1. [mainThr[t] EXCEPT !.retry = mainThr[t].retry + 1] \in Stations
      BY <1>5, <2>1, MaxRetryAssumption DEF Stations
    <3>2. mainThr' = [mainThr EXCEPT ![t] = [mainThr[t] EXCEPT !.retry = mainThr[t].retry + 1]]
      BY <2>1
    <3>3. QED
      BY <1>3, <3>1, <3>2
  <2>2. QED
    BY <1>4, <1>6, <2>1 DEF C!Round
<1>7. CASE C!WakeUp(t)
  <2>1. C!Station("reset", client[t].status) \in Stations
    BY <1>5, StationType DEF PCs
  <2>2. QED
    BY <1>3, <1>7, <2>1 DEF C!WakeUp
<1>8. CASE C!EnterUDPLock(t)
  <2>1. [mainThr[t] EXCEPT !.pc = "stopping"] \in Stations
    BY <1>5 DEF Stations, PCs
  <2>2. QED
    BY <1>3, <1>8, <2>1 DEF C!EnterUDPLock
<1>9. CASE C!ExchangeTimeout(t)
  BY <1>6, <1>9 DEF C!ExchangeTimeout, PCs
<1>10. CASE C!PunchTimeout(t)
  BY <1>6, <1>10 DEF C!PunchTimeout, PCs
<1>11. CASE C!Begin(t) \/ C!LoopEnds(t) \/ C!Greet(t) \/ C!AwaitGuest(t) \/ C!Exchange(t)
            \/ C!Punch(t) \/ C!WaitSignalled(t) \/ C!TurnToRelay(t) \/ C!StopUDP(t) \/ C!Close(t)
  <2>1. \E pc \in PCs : C!Goto(t, pc)
    BY <1>11 DEF C!Begin, C!LoopEnds, C!Greet, C!AwaitGuest, C!Exchange, C!Punch, C!WaitSignalled,
                 C!TurnToRelay, C!StopUDP, C!Close, PCs
  <2>2. QED
    BY <1>4, <2>1
<1>12. CASE C!TCPRecvThread(t)
  BY <1>2, <1>12
     DEF C!TCPRecvThread, C!SetPunching, C!SetConnected, C!SetStatusEvent, C!RecvInit,
         C!RecvWaitResult, C!RecvConnectResult, C!RecvStartUDP, C!RecvClientInfo, C!RecvP2PResult,
         C!RecvProxyResult, C!RecvReset, C!TCPEndProcess, C!SetState, C!SetStopEvent, C!Skip
<1>13. CASE C!SendPacket(t) \/ C!RecvHandshake(t) \/ C!RecvKeepalive(t) \/ C!UDPCallback(t)
  BY <1>2, <1>13 DEF C!SendPacket, C!RecvHandshake, C!RecvKeepalive, C!UDPCallback,
                     C!SendKeepalive, C!SendP2PResult
<1>14. QED
  BY <1>7, <1>8, <1>9, <1>10, <1>11, <1>12, <1>13 DEF C!ClientNext, C!MainThread

(* The datagrams between clients keep their types.                         *)
LEMMA PeerToPeerType ==
    ASSUME TunnelTypeOK, NEW t \in Tcp, C!ClientNext(t)
    PROVE  p2p' \subseteq C!PeerDatagram
<1>1. client \in [Tcp -> Members] /\ p2p \subseteq C!PeerDatagram
  BY TunnelTypes
<1>2. CASE UNCHANGED p2p
  BY <1>1, <1>2
<1>3. ASSUME NEW type \in {"UPT_HANDSHAKE", "UPT_KEEPALIVE"}, C!SendUDPToPeer(t, type)
      PROVE  p2p' \subseteq C!PeerDatagram
  <2>1. client[t].Peerid \in Nat /\ client[t].remote \in Tcp \cup {None}
    BY <1>1, StatusIn DEF Members
  <2>2. QED
    BY <1>1, <1>3, <2>1 DEF C!SendUDPToPeer, C!PeerDatagram
<1>4. CASE C!Punch(t) \/ C!PunchTimeout(t) \/ C!SendKeepalive(t)
  BY <1>2, <1>3, <1>4 DEF C!Punch, C!PunchTimeout, C!SendKeepalive
<1>5. CASE C!TCPRecvThread(t)
  BY <1>2, <1>5
     DEF C!TCPRecvThread, C!SetPunching, C!SetConnected, C!SetStatusEvent, C!RecvInit,
         C!RecvWaitResult, C!RecvConnectResult, C!RecvStartUDP, C!RecvClientInfo, C!RecvP2PResult,
         C!RecvProxyResult, C!RecvReset, C!TCPEndProcess, C!SetState, C!SetStopEvent, C!Skip,
         C!netVars
<1>6. CASE C!SendPacket(t) \/ C!RecvHandshake(t) \/ C!RecvKeepalive(t) \/ C!SendP2PResult(t)
  BY <1>2, <1>6 DEF C!SendPacket, C!RecvHandshake, C!RecvKeepalive, C!SendP2PResult, C!netVars
<1>7. CASE C!Begin(t) \/ C!WakeUp(t) \/ C!LoopEnds(t) \/ C!Greet(t) \/ C!AwaitGuest(t)
           \/ C!Exchange(t) \/ C!WaitSignalled(t) \/ C!ExchangeTimeout(t) \/ C!TurnToRelay(t)
           \/ C!EnterUDPLock(t) \/ C!StopUDP(t) \/ C!Close(t)
  BY <1>2, <1>7 DEF C!Begin, C!WakeUp, C!LoopEnds, C!Greet, C!AwaitGuest, C!Exchange,
                    C!WaitSignalled, C!ExchangeTimeout, C!TurnToRelay, C!EnterUDPLock, C!StopUDP,
                    C!Close, C!netVars
<1>8. QED
  BY <1>4, <1>5, <1>6, <1>7 DEF C!ClientNext, C!MainThread, C!UDPCallback

(* A step of a client keeps the types.                                     *)
LEMMA ClientStepType ==
    ASSUME TypeOK, TunnelTypeOK, NEW t \in Tcp, ClientStep(t, C!ClientNext(t))
    PROVE  TunnelTypeOK'
<1>1. Move(t) /\ \A u \in Tcp \ {t} : Unmoved(u)
  BY Moves
<1>2. /\ tcpThr \in [Tcp -> {"idle", "punching", "connected", "signal", "ended"}]
      /\ udpRecv \in [Tcp -> {"idle", "reply", "confirm"}]
      /\ s2c \in [Tcp -> ServerStream]
  BY TunnelTypes
<1>3. C!ClientNext(t)
  BY DEF ClientStep
<1>4. /\ client' \in [Tcp -> Members] /\ mainThr' \in [Tcp -> Stations]
      /\ p2p' \subseteq C!PeerDatagram
  BY <1>3, MembersType, StationsType, PeerToPeerType
<1>5. tcpThr' \in [Tcp -> {"idle", "punching", "connected", "signal", "ended"}]
  BY <1>2, <1>3
     DEF C!ClientNext, C!MainThread, C!TCPRecvThread, C!UDPCallback,
         C!SetPunching, C!SetConnected, C!SetStatusEvent, C!RecvInit,
         C!RecvWaitResult, C!RecvConnectResult, C!RecvStartUDP, C!RecvClientInfo, C!RecvP2PResult,
         C!RecvProxyResult, C!RecvReset, C!TCPEndProcess, C!SetState, C!SetStopEvent, C!Skip,
         C!SendPacket, C!RecvHandshake, C!RecvKeepalive, C!SendP2PResult, C!SendKeepalive,
         C!Begin, C!WakeUp, C!LoopEnds, C!Greet, C!AwaitGuest, C!Exchange, C!Punch,
         C!WaitSignalled, C!ExchangeTimeout, C!PunchTimeout, C!Round, C!TurnToRelay, C!EnterUDPLock,
         C!StopUDP, C!Close
<1>6. udpRecv' \in [Tcp -> {"idle", "reply", "confirm"}]
  BY <1>2, <1>3
     DEF C!ClientNext, C!MainThread, C!TCPRecvThread, C!UDPCallback,
         C!SetPunching, C!SetConnected, C!SetStatusEvent, C!RecvInit,
         C!RecvWaitResult, C!RecvConnectResult, C!RecvStartUDP, C!RecvClientInfo, C!RecvP2PResult,
         C!RecvProxyResult, C!RecvReset, C!TCPEndProcess, C!SetState, C!SetStopEvent, C!Skip,
         C!SendPacket, C!RecvHandshake, C!RecvKeepalive, C!SendP2PResult, C!SendKeepalive,
         C!Begin, C!WakeUp, C!LoopEnds, C!Greet, C!AwaitGuest, C!Exchange, C!Punch,
         C!WaitSignalled, C!ExchangeTimeout, C!PunchTimeout, C!Round, C!TurnToRelay, C!EnterUDPLock,
         C!StopUDP, C!Close
<1>7. s2c' \in [Tcp -> ServerStream]
  <2>1. UNCHANGED s2c \/ \E s \in ServerStream : s2c' = [s2c EXCEPT ![t] = s]
    <3>1. <<>> \in ServerStream
      BY DEF ServerStream
    <3>2. CASE C!TCPEndProcess(t)
      BY <3>1, <3>2 DEF C!TCPEndProcess
    <3>3. ASSUME NEW type, C!Dispatch(t, type)
          PROVE  \E s \in ServerStream : s2c' = [s2c EXCEPT ![t] = s]
      BY <1>2, <3>3, HeadPacket DEF C!Dispatch
    <3>4. QED
      BY <1>3, <3>2, <3>3
         DEF C!ClientNext, C!MainThread, C!TCPRecvThread, C!UDPCallback,
             C!SetPunching, C!SetConnected, C!SetStatusEvent, C!RecvInit,
             C!RecvWaitResult, C!RecvConnectResult, C!RecvStartUDP, C!RecvClientInfo,
             C!RecvP2PResult, C!RecvProxyResult, C!RecvReset,
             C!SendPacket, C!RecvHandshake, C!RecvKeepalive, C!SendP2PResult, C!SendKeepalive,
             C!Begin, C!WakeUp, C!LoopEnds, C!Greet, C!AwaitGuest, C!Exchange, C!Punch,
             C!WaitSignalled, C!ExchangeTimeout, C!PunchTimeout, C!Round, C!TurnToRelay,
             C!EnterUDPLock, C!StopUDP, C!Close, C!netVars
  <2>2. QED
    BY <1>2, <2>1
<1>8. TunnelTypeOK'
  BY <1>4, <1>5, <1>6, <1>7, SameStatus
     DEF TunnelTypeOK, C!ClientTypeOK, Members, Stations, ServerStream, PCs
<1>9. QED
  BY <1>8

(* A step of the server is one of P2PServer.                               *)
LEMMA ServerSteps == ServerStep(ServerNext) => Next
BY SocketAssumption DEF ServerStep, ServerNext, Accept, Next, Client

(* A step of the server keeps the types.                                   *)
LEMMA ServerStepType ==
    ASSUME IInv, TunnelTypeOK, ServerStep(ServerNext)
    PROVE  TunnelTypeOK'
<1>1. Deliver /\ UNCHANGED <<p2p, client, mainThr, tcpThr, udpRecv>>
  BY DEF ServerStep
<1>2. s2c' \in [Tcp -> ServerStream]
  BY <1>1, ServerSteps, DeliverType, TunnelTypes
<1>3. QED
  BY <1>1, <1>2 DEF TunnelTypeOK, C!ClientTypeOK, ServerStream

-----------------------------------------------------------------------------
(* The invariant: what the clients have been told, and what is under way   *)

(* A stream, by the types of its packets.                                  *)
Is(s, n, type) == n \in 1 .. Len(s) /\ s[n].type = type

Has(s, type) == \E n \in 1 .. Len(s) : s[n].type = type

Opened == CreateTCPProxyResultPkt("NONE")

(* Between any two TPT_START_UDP lies a TPT_RESET; each one is followed by *)
(* one; each one comes after one; the relay opens after a TPT_START_UDP.   *)
Separated(s) ==
    \A m, n \in 1 .. Len(s) : m < n /\ Is(s, m, "TPT_START_UDP") /\ Is(s, n, "TPT_START_UDP")
      => \E k \in 1 .. Len(s) : m <= k /\ k <= n /\ Is(s, k, "TPT_RESET")

Followed(s) ==
    \A m \in 1 .. Len(s) : Is(s, m, "TPT_START_UDP")
      => \E k \in 1 .. Len(s) : m <= k /\ Is(s, k, "TPT_RESET")

Preceded(s) ==
    \A n \in 1 .. Len(s) : Is(s, n, "TPT_START_UDP")
      => \E k \in 1 .. Len(s) : k <= n /\ Is(s, k, "TPT_RESET")

OpensLate(s) ==
    \A n \in 1 .. Len(s) : s[n] = Opened
      => \E m \in 1 .. Len(s) : m <= n /\ Is(s, m, "TPT_START_UDP")

AtMostOne(s, type) == \A m, n \in 1 .. Len(s) : Is(s, m, type) /\ Is(s, n, type) => m = n

(* What a client has been told, by what it does.                           *)
Exchanges(t) ==
    \/ St(t) \in ExchangeStatuses \/ Saved(t) \in ExchangeStatuses
    \/ Pc(t) \in {"exchange", "giveup"}
    \/ peer[t].asked # 0

Informed(t) ==
    /\ \A n \in 1 .. Len(s2c[t]) : s2c[t][n] \in BagToSet(sent[t])
    /\ St(t) = P2P_PUNCHING \/ tcpThr[t] = "punching" \/ udpRecv[t] = "confirm"
         => Told(t, "TPT_CLIENT_INFO")
    /\ St(t) = P2P_TCP_PROXY \/ Saved(t) = P2P_TCP_PROXY \/ client[t].type = "PCT_TCP_RELAY"
         => Opened \in BagToSet(sent[t])
    /\ Exchanges(t) => Told(t, "TPT_START_UDP")

(* One greeting: TPT_INIT comes once, and the status it brings is handled  *)
(* once.                                                                   *)
GreetsOnce(t) ==
    /\ St(t) = P2P_STATUS_NONE =>
         /\ ~peer[t].greeted
         /\ ~client[t].change
         /\ Saved(t) = P2P_STATUS_NONE
         /\ Pc(t) # "reset"
         /\ tcpThr[t] \in {"idle", "ended"}
    /\ St(t) # P2P_STATUS_NONE => Told(t, "TPT_INIT") /\ ~Has(s2c[t], "TPT_INIT")
    /\ ~peer[t].greeted =>
         /\ St(t) \in {P2P_STATUS_NONE, GreetingStatus(t)}
         /\ Saved(t) \in {P2P_STATUS_NONE, GreetingStatus(t)}
         /\ Len(s2c[t]) <= 1
         /\ Pc(t) \notin {"exchange", "punch", "giveup"}
         /\ tcpThr[t] \in {"idle", "signal", "ended"}
         /\ tcpThr[t] = "signal" => ~client[t].change /\ Pc(t) # "reset"
    /\ peer[t].greeted =>
         /\ Pc(t) # "begin"
         /\ ~(Pc(t) = "reset" /\ Saved(t) = GreetingStatus(t))
         /\ St(t) = GreetingStatus(t) => ~client[t].change /\ tcpThr[t] # "signal"
    /\ peer[t].role # "HOST" => St(t) # P2P_TCP_LISTENING

(* One request for the relay: a client that has asked gives up no other    *)
(* exchange, for none begins unless it is about to stop.                   *)
AsksOnce(t) ==
    peer[t].asked # 0 =>
      /\ Pc(t) # "giveup"
      /\ \/ client[t].stop
         \/ /\ St(t) \notin ExchangeStatuses /\ Saved(t) \notin ExchangeStatuses
            /\ Pc(t) # "exchange"

Engaged(t) == St(t) > P2P_TCP_CONNECTED

(* What a host does shows that it is engaged.                              *)
HostActs(h) ==
    \/ Saved(h) > P2P_TCP_CONNECTED
    \/ Pc(h) \in {"exchange", "punch", "giveup"}
    \/ tcpThr[h] \in {"punching", "connected"}
    \/ peer[h].asked # 0

(* What is under way to a host, by its session on the server.              *)
HostStream(h) ==
    /\ HostActs(h) => Engaged(h)
    /\ Engaged(h) => Told(h, "TPT_START_UDP")
    /\ Separated(s2c[h])
    /\ conn[h].main = h /\ conn[h].guest = None =>
         /\ Followed(s2c[h])
         /\ Engaged(h) /\ ~client[h].stop => Has(s2c[h], "TPT_RESET")
    /\ Engaged(h) /\ ~client[h].stop => Preceded(s2c[h])
    /\ tcpThr[h] # "ended" /\ ~Engaged(h) =>
         /\ OpensLate(s2c[h])
         /\ conn[h].guest # None => Has(s2c[h], "TPT_START_UDP")

(* A guest gets one TPT_START_UDP, from its only session.                  *)
GuestStream(g) ==
    /\ AtMostOne(s2c[g], "TPT_START_UDP")
    /\ Exchanges(g) => ~Has(s2c[g], "TPT_START_UDP")

RoleStream(t) == IF peer[t].role = "HOST" THEN HostStream(t) ELSE GuestStream(t)

ClientInv ==
    \A t \in Tcp : Informed(t) /\ GreetsOnce(t) /\ AsksOnce(t) /\ RoleStream(t)

(* The part of the server: a host without a session and a guest whose      *)
(* session waits for the host's datagram were never told to start, and an  *)
(* answer of a receive thread never opens the relay.                       *)
NotStarted(t) ==
    /\ peer[t].role = "HOST" /\ conn[t].keyword = None => ~Told(t, "TPT_START_UDP")
    /\ \A h \in Tcp : conn[h].guest = t /\ conn[h].status = P2P_TCP_CONNECTED
                        => ~Told(t, "TPT_START_UDP")
    /\ thr[t].pc = "reply" /\ thr[t].pkt # "TPT_WAITING" => thr[t].result # "NONE"

NotStartedInv == \A t \in Tcp : NotStarted(t)

(* A client's class is settled when its socket is accepted.                *)
RoleInv == \A t \in Tcp : link[t] # "none" =>
             peer[t].role = IF t \in Host THEN "HOST" ELSE "GUEST"

TInv == /\ IInv /\ SilentInv /\ GreetInv /\ OrderInv
        /\ TunnelTypeOK /\ ClientInv /\ NotStartedInv /\ RoleInv

(* An empty stream.                                                        *)
LEMMA EmptyStream ==
    /\ Separated(<<>>) /\ Followed(<<>>) /\ Preceded(<<>>) /\ OpensLate(<<>>)
    /\ \A type : AtMostOne(<<>>, type) /\ ~Has(<<>>, type)
BY DEF Separated, Followed, Preceded, OpensLate, AtMostOne, Has

(* A stream of which the head is taken.                                    *)
LEMMA TailStream ==
    ASSUME NEW s \in ServerStream, s # <<>>
    PROVE  /\ Separated(s) => Separated(Tail(s))
           /\ Separated(s) /\ s[1].type = "TPT_START_UDP" => Preceded(Tail(s))
           /\ Followed(s) => Followed(Tail(s))
           /\ Followed(s) /\ s[1].type = "TPT_START_UDP" => Has(Tail(s), "TPT_RESET")
           /\ Preceded(s) => s[1].type # "TPT_START_UDP"
           /\ Preceded(s) /\ s[1].type # "TPT_RESET" => Preceded(Tail(s))
           /\ OpensLate(s) => s[1] # Opened
           /\ OpensLate(s) /\ s[1].type # "TPT_START_UDP" => OpensLate(Tail(s))
           /\ \A type : /\ Has(Tail(s), type) => Has(s, type)
                        /\ Has(s, type) /\ s[1].type # type => Has(Tail(s), type)
                        /\ AtMostOne(s, type) => AtMostOne(Tail(s), type)
                        /\ AtMostOne(s, type) /\ s[1].type = type => ~Has(Tail(s), type)
<1> DEFINE r == Tail(s)
<1>1. /\ Len(s) \in Nat \ {0} /\ Len(r) = Len(s) - 1
      /\ \A n \in 1 .. Len(r) : r[n] = s[n + 1] /\ n + 1 \in 1 .. Len(s)
      /\ \A n \in 1 .. Len(s) : n # 1 => n - 1 \in 1 .. Len(r) /\ r[n - 1] = s[n]
      /\ 1 \in 1 .. Len(s)
  BY DEF ServerStream
<1>2. \A n, type : Is(r, n, type) => n \in 1 .. Len(r) /\ Is(s, n + 1, type)
  BY <1>1 DEF Is
<1>3. \A n, type : Is(s, n, type) /\ n # 1 => n - 1 \in 1 .. Len(r) /\ Is(r, n - 1, type)
  BY <1>1 DEF Is
<1>4. \A type : Is(s, 1, type) <=> s[1].type = type
  BY <1>1 DEF Is
<1>5. Opened.type = "TPT_PROXY_RESULT"
  BY DEF Opened, CreateTCPProxyResultPkt
<1> HIDE DEF r
<1>6. Separated(s) => Separated(r)
  <2> SUFFICES ASSUME Separated(s), NEW m \in 1 .. Len(r), NEW n \in 1 .. Len(r), m < n,
                      Is(r, m, "TPT_START_UDP"), Is(r, n, "TPT_START_UDP")
               PROVE  \E k \in 1 .. Len(r) : m <= k /\ k <= n /\ Is(r, k, "TPT_RESET")
    BY DEF Separated
  <2>1. PICK k \in 1 .. Len(s) : m + 1 <= k /\ k <= n + 1 /\ Is(s, k, "TPT_RESET")
    BY <1>1, <1>2 DEF Separated
  <2>2. m <= k - 1 /\ k - 1 <= n /\ k # 1
    BY <1>1, <2>1
  <2>3. k - 1 \in 1 .. Len(r) /\ Is(r, k - 1, "TPT_RESET")
    BY <1>3, <2>1, <2>2
  <2>4. QED
    BY <2>2, <2>3
<1>7. Separated(s) /\ s[1].type = "TPT_START_UDP" => Preceded(r)
  <2> SUFFICES ASSUME Separated(s), s[1].type = "TPT_START_UDP",
                      NEW n \in 1 .. Len(r), Is(r, n, "TPT_START_UDP")
               PROVE  \E k \in 1 .. Len(r) : k <= n /\ Is(r, k, "TPT_RESET")
    BY DEF Preceded
  <2>1. PICK k \in 1 .. Len(s) : 1 <= k /\ k <= n + 1 /\ Is(s, k, "TPT_RESET")
    BY <1>1, <1>2, <1>4 DEF Separated
  <2>2. k # 1
    BY <1>4, <2>1
  <2>3. k - 1 \in 1 .. Len(r) /\ k - 1 <= n /\ Is(r, k - 1, "TPT_RESET")
    BY <1>1, <1>3, <2>1, <2>2
  <2>4. QED
    BY <2>3
<1>8. Followed(s) => Followed(r)
  <2> SUFFICES ASSUME Followed(s), NEW m \in 1 .. Len(r), Is(r, m, "TPT_START_UDP")
               PROVE  \E k \in 1 .. Len(r) : m <= k /\ Is(r, k, "TPT_RESET")
    BY DEF Followed
  <2>1. PICK k \in 1 .. Len(s) : m + 1 <= k /\ Is(s, k, "TPT_RESET")
    BY <1>1, <1>2 DEF Followed
  <2>2. k - 1 \in 1 .. Len(r) /\ m <= k - 1 /\ Is(r, k - 1, "TPT_RESET")
    BY <1>1, <1>3, <2>1
  <2>3. QED
    BY <2>2
<1>9. Followed(s) /\ s[1].type = "TPT_START_UDP" => Has(r, "TPT_RESET")
  <2> SUFFICES ASSUME Followed(s), s[1].type = "TPT_START_UDP" PROVE Has(r, "TPT_RESET")
    OBVIOUS
  <2>1. PICK k \in 1 .. Len(s) : 1 <= k /\ Is(s, k, "TPT_RESET")
    BY <1>1, <1>4 DEF Followed
  <2>2. k - 1 \in 1 .. Len(r) /\ Is(r, k - 1, "TPT_RESET")
    BY <1>3, <1>4, <2>1
  <2>3. QED
    BY <2>2 DEF Has, Is
<1>10. Preceded(s) => s[1].type # "TPT_START_UDP"
  <2> SUFFICES ASSUME Preceded(s), s[1].type = "TPT_START_UDP" PROVE FALSE
    OBVIOUS
  <2>1. PICK k \in 1 .. Len(s) : k <= 1 /\ Is(s, k, "TPT_RESET")
    BY <1>1, <1>4 DEF Preceded
  <2>2. k = 1
    BY <1>1, <2>1
  <2>3. QED
    BY <1>4, <2>1, <2>2
<1>11. Preceded(s) /\ s[1].type # "TPT_RESET" => Preceded(r)
  <2> SUFFICES ASSUME Preceded(s), s[1].type # "TPT_RESET",
                      NEW n \in 1 .. Len(r), Is(r, n, "TPT_START_UDP")
               PROVE  \E k \in 1 .. Len(r) : k <= n /\ Is(r, k, "TPT_RESET")
    BY DEF Preceded
  <2>1. PICK k \in 1 .. Len(s) : k <= n + 1 /\ Is(s, k, "TPT_RESET")
    BY <1>1, <1>2 DEF Preceded
  <2>2. k # 1
    BY <1>4, <2>1
  <2>3. k - 1 \in 1 .. Len(r) /\ k - 1 <= n /\ Is(r, k - 1, "TPT_RESET")
    BY <1>1, <1>3, <2>1, <2>2
  <2>4. QED
    BY <2>3
<1>12. OpensLate(s) => s[1] # Opened
  <2> SUFFICES ASSUME OpensLate(s), s[1] = Opened PROVE FALSE
    OBVIOUS
  <2>1. PICK m \in 1 .. Len(s) : m <= 1 /\ Is(s, m, "TPT_START_UDP")
    BY <1>1 DEF OpensLate
  <2>2. m = 1
    BY <1>1, <2>1
  <2>3. QED
    BY <1>4, <1>5, <2>1, <2>2
<1>13. OpensLate(s) /\ s[1].type # "TPT_START_UDP" => OpensLate(r)
  <2> SUFFICES ASSUME OpensLate(s), s[1].type # "TPT_START_UDP",
                      NEW n \in 1 .. Len(r), r[n] = Opened
               PROVE  \E m \in 1 .. Len(r) : m <= n /\ Is(r, m, "TPT_START_UDP")
    BY DEF OpensLate
  <2>1. PICK m \in 1 .. Len(s) : m <= n + 1 /\ Is(s, m, "TPT_START_UDP")
    BY <1>1 DEF OpensLate
  <2>2. m # 1
    BY <1>4, <2>1
  <2>3. m - 1 \in 1 .. Len(r) /\ m - 1 <= n /\ Is(r, m - 1, "TPT_START_UDP")
    BY <1>1, <1>3, <2>1, <2>2
  <2>4. QED
    BY <2>3
<1>14. ASSUME NEW type
       PROVE  /\ Has(r, type) => Has(s, type)
              /\ Has(s, type) /\ s[1].type # type => Has(r, type)
              /\ AtMostOne(s, type) => AtMostOne(r, type)
              /\ AtMostOne(s, type) /\ s[1].type = type => ~Has(r, type)
  <2>1. Has(r, type) => Has(s, type)
    BY <1>1 DEF Has
  <2>2. Has(s, type) /\ s[1].type # type => Has(r, type)
    <3> SUFFICES ASSUME NEW n \in 1 .. Len(s), s[n].type = type, s[1].type # type
                 PROVE  Has(r, type)
      BY DEF Has
    <3>1. n - 1 \in 1 .. Len(r) /\ r[n - 1] = s[n]
      BY <1>1
    <3>2. QED
      BY <3>1 DEF Has
  <2>3. AtMostOne(s, type) => AtMostOne(r, type)
    <3> SUFFICES ASSUME AtMostOne(s, type), NEW m \in 1 .. Len(r), NEW n \in 1 .. Len(r),
                        Is(r, m, type), Is(r, n, type)
                 PROVE  m = n
      BY DEF AtMostOne
    <3>1. m + 1 = n + 1
      BY <1>1, <1>2 DEF AtMostOne
    <3>2. QED
      BY <1>1, <3>1
  <2>4. AtMostOne(s, type) /\ s[1].type = type => ~Has(r, type)
    <3> SUFFICES ASSUME AtMostOne(s, type), s[1].type = type,
                        NEW n \in 1 .. Len(r), r[n].type = type
                 PROVE  FALSE
      BY DEF Has
    <3>1. Is(s, n + 1, type) /\ Is(s, 1, type) /\ n + 1 # 1
      BY <1>1, <1>4 DEF Is
    <3>2. QED
      BY <1>1, <3>1 DEF AtMostOne
  <2>5. QED
    BY <2>1, <2>2, <2>3, <2>4
<1>15. QED
  BY <1>6, <1>7, <1>8, <1>9, <1>10, <1>11, <1>12, <1>13, <1>14 DEF r

(* A stream that a packet joins.                                           *)
LEMMA AppendStream ==
    ASSUME NEW s \in ServerStream, NEW p
    PROVE  /\ Separated(s) /\ (p.type # "TPT_START_UDP" \/ Followed(s)) => Separated(Append(s, p))
           /\ Followed(s) /\ p.type # "TPT_START_UDP" => Followed(Append(s, p))
           /\ p.type = "TPT_RESET" => Followed(Append(s, p))
           /\ Preceded(s) /\ (p.type # "TPT_START_UDP" \/ Has(s, "TPT_RESET"))
                => Preceded(Append(s, p))
           /\ OpensLate(s) /\ (p # Opened \/ Has(s, "TPT_START_UDP")) => OpensLate(Append(s, p))
           /\ \A type : /\ Has(Append(s, p), type) <=> Has(s, type) \/ p.type = type
                        /\ AtMostOne(s, type) /\ (p.type # type \/ ~Has(s, type))
                             => AtMostOne(Append(s, p), type)
<1> DEFINE r == Append(s, p)
           L == Len(s)
<1>1. /\ L \in Nat /\ Len(r) = L + 1
      /\ r[L + 1] = p
      /\ \A n \in 1 .. L : r[n] = s[n] /\ n \in 1 .. Len(r)
      /\ \A n \in 1 .. Len(r) : n # L + 1 => n \in 1 .. L
      /\ L + 1 \in 1 .. Len(r)
  BY DEF ServerStream
<1> HIDE DEF r
<1>2. \A type : \A n \in 1 .. L : Is(s, n, type) <=> Is(r, n, type)
  BY <1>1 DEF Is
<1>3. \A type : Is(r, L + 1, type) <=> p.type = type
  BY <1>1 DEF Is
<1>4. \A type : Has(s, type) <=> \E n \in 1 .. L : Is(s, n, type)
  BY DEF Has, Is
<1> HIDE DEF L
<1>5. Separated(s) /\ (p.type # "TPT_START_UDP" \/ Followed(s)) => Separated(r)
  <2> SUFFICES ASSUME Separated(s), p.type # "TPT_START_UDP" \/ Followed(s),
                      NEW m \in 1 .. Len(r), NEW n \in 1 .. Len(r), m < n,
                      Is(r, m, "TPT_START_UDP"), Is(r, n, "TPT_START_UDP")
               PROVE  \E k \in 1 .. Len(r) : m <= k /\ k <= n /\ Is(r, k, "TPT_RESET")
    BY DEF Separated
  <2>1. m \in 1 .. L
    BY <1>1
  <2>2. CASE n \in 1 .. L
    <3>1. PICK k \in 1 .. L : m <= k /\ k <= n /\ Is(s, k, "TPT_RESET")
      BY <1>2, <2>1, <2>2 DEF Separated, L
    <3>2. QED
      BY <1>1, <1>2, <3>1
  <2>3. CASE n = L + 1
    <3>1. PICK k \in 1 .. L : m <= k /\ Is(s, k, "TPT_RESET")
      BY <1>2, <1>3, <2>1, <2>3 DEF Followed, L
    <3>2. k <= n
      BY <1>1, <2>3
    <3>3. QED
      BY <1>1, <1>2, <3>1, <3>2
  <2>4. QED
    BY <1>1, <2>2, <2>3
<1>6. Followed(s) /\ p.type # "TPT_START_UDP" => Followed(r)
  <2> SUFFICES ASSUME Followed(s), p.type # "TPT_START_UDP",
                      NEW m \in 1 .. Len(r), Is(r, m, "TPT_START_UDP")
               PROVE  \E k \in 1 .. Len(r) : m <= k /\ Is(r, k, "TPT_RESET")
    BY DEF Followed
  <2>1. m \in 1 .. L
    BY <1>1, <1>3
  <2>2. PICK k \in 1 .. L : m <= k /\ Is(s, k, "TPT_RESET")
    BY <1>2, <2>1 DEF Followed, L
  <2>3. QED
    BY <1>1, <1>2, <2>2
<1>7. p.type = "TPT_RESET" => Followed(r)
  <2>1. \A m \in 1 .. Len(r) : m <= L + 1
    BY <1>1
  <2>2. QED
    BY <1>1, <1>3, <2>1 DEF Followed
<1>8. Preceded(s) /\ (p.type # "TPT_START_UDP" \/ Has(s, "TPT_RESET")) => Preceded(r)
  <2> SUFFICES ASSUME Preceded(s), p.type # "TPT_START_UDP" \/ Has(s, "TPT_RESET"),
                      NEW n \in 1 .. Len(r), Is(r, n, "TPT_START_UDP")
               PROVE  \E k \in 1 .. Len(r) : k <= n /\ Is(r, k, "TPT_RESET")
    BY DEF Preceded
  <2>1. PICK k \in 1 .. L : k <= n /\ Is(s, k, "TPT_RESET")
    <3>1. CASE n \in 1 .. L
      BY <1>2, <3>1 DEF Preceded, L
    <3>2. CASE n = L + 1
      <4>1. \A k \in 1 .. L : k <= n
        BY <1>1, <3>2
      <4>2. QED
        BY <1>3, <1>4, <3>2, <4>1
    <3>3. QED
      BY <1>1, <3>1, <3>2
  <2>2. QED
    BY <1>1, <1>2, <2>1
<1>9. OpensLate(s) /\ (p # Opened \/ Has(s, "TPT_START_UDP")) => OpensLate(r)
  <2> SUFFICES ASSUME OpensLate(s), p # Opened \/ Has(s, "TPT_START_UDP"),
                      NEW n \in 1 .. Len(r), r[n] = Opened
               PROVE  \E m \in 1 .. Len(r) : m <= n /\ Is(r, m, "TPT_START_UDP")
    BY DEF OpensLate
  <2>1. PICK m \in 1 .. L : m <= n /\ Is(s, m, "TPT_START_UDP")
    <3>1. CASE n \in 1 .. L
      BY <1>1, <3>1 DEF OpensLate, L
    <3>2. CASE n = L + 1
      <4>1. \A k \in 1 .. L : k <= n
        BY <1>1, <3>2
      <4>2. QED
        BY <1>1, <1>4, <3>2, <4>1
    <3>3. QED
      BY <1>1, <3>1, <3>2
  <2>2. QED
    BY <1>1, <1>2, <2>1
<1>10. ASSUME NEW type
       PROVE  /\ Has(r, type) <=> Has(s, type) \/ p.type = type
              /\ AtMostOne(s, type) /\ (p.type # type \/ ~Has(s, type)) => AtMostOne(r, type)
  <2>1. Has(r, type) <=> Has(s, type) \/ p.type = type
    BY <1>1 DEF Has, L
  <2>2. AtMostOne(s, type) /\ (p.type # type \/ ~Has(s, type)) => AtMostOne(r, type)
    BY <1>1, <1>2, <1>3, <1>4 DEF AtMostOne, L
  <2>3. QED
    BY <2>1, <2>2
<1>11. QED
  BY <1>5, <1>6, <1>7, <1>8, <1>9, <1>10 DEF r

-----------------------------------------------------------------------------
(* The part of the server                                                  *)

(* An answer that a receive thread is about to push is a refusal, but for  *)
(* the one to TPT_WAITING.                                                 *)
Refuses(t) == thr[t].pc = "reply" /\ thr[t].pkt # "TPT_WAITING" => thr[t].result # "NONE"

(* An answer that a receive thread owes never opens the relay:             *)
(* CreateTCPProxyResultPkt(NONE) is sent from TCPProxyRequest itself.      *)
LEMMA RefusesNext ==
    ASSUME IInv, [Next]_vars, NEW t \in Tcp, Refuses(t)
    PROVE  Refuses(t)'
<1>1. thr \in [Tcp -> Thread]
  BY DEF IInv, TypeOK
<1>2. CASE thr'[t] = thr[t]
  BY <1>2 DEF Refuses
<1>3. ASSUME NEW u \in Tcp, NEW x, thr' = [thr EXCEPT ![u] = x],
             x.pc = "reply" => x.pkt = "TPT_WAITING" \/ x.result # "NONE"
      PROVE  Refuses(t)'
  BY <1>1, <1>2, <1>3 DEF Refuses
<1>4. Idle.pc = "idle" /\ \A x \in Thread : [x EXCEPT !.pc = "removing"].pc = "removing"
                                         /\ [x EXCEPT !.pc = "stopped"].pc = "stopped"
  BY DEF Idle, Thread
<1>5. \A type, r : Replying(type, r).pkt = type /\ Replying(type, r).result = r
  BY DEF Replying, Idle
<1>6. ASSUME NEW u \in Tcp, NEW e, Refuse(u, e), e # "NONE" PROVE Refuses(t)'
  <2> DEFINE x == IF AnswersError(thr[u].pkt) THEN Replying(thr[u].pkt, e) ELSE Idle
  <2>1. x.pc = "reply" => x.result # "NONE"
    BY <1>4, <1>5, <1>6
  <2>2. thr' = [thr EXCEPT ![u] = x]
    BY <1>6 DEF Refuse
  <2> HIDE DEF x
  <2>3. QED
    BY <1>3, <2>1, <2>2
<1>7. ASSUME NEW u \in Tcp, RecvThread(u) PROVE Refuses(t)'
  <2>1. CASE Waiting(u)
    <3>1. PICK r : thr' = [thr EXCEPT ![u] = Replying("TPT_WAITING", r)]
      BY <2>1 DEF Waiting
    <3>2. QED
      BY <1>3, <1>5, <3>1
  <2>2. ASSUME NEW type \in SessionPacket, FindSession(u, type) PROVE Refuses(t)'
    <3>1. PICK h : thr' = [thr EXCEPT ![u] =
              IF h # None THEN [Idle EXCEPT !.pc = "apply", !.pkt = type, !.p2p = h]
              ELSE IF AnswersError(type) THEN Replying(type, "KEYWORD_NOT_FOUND")
              ELSE Idle]
      BY <2>2 DEF FindSession
    <3>2. [Idle EXCEPT !.pc = "apply", !.pkt = type, !.p2p = h].pc = "apply"
      BY DEF Idle
    <3> DEFINE x == IF h # None THEN [Idle EXCEPT !.pc = "apply", !.pkt = type, !.p2p = h]
                    ELSE IF AnswersError(type) THEN Replying(type, "KEYWORD_NOT_FOUND")
                    ELSE Idle
    <3>3. x.pc = "reply" => x.result # "NONE"
      BY <1>4, <1>5, <3>2
    <3>4. thr' = [thr EXCEPT ![u] = x]
      BY <3>1
    <3> HIDE DEF x
    <3>5. QED
      BY <1>3, <3>3, <3>4
  <2>3. CASE DataProxy(u)
    BY <1>2, <2>3 DEF DataProxy, Crash
  <2>4. ASSUME thr' = [thr EXCEPT ![u] = Idle] PROVE Refuses(t)'
    BY <1>3, <1>4, <2>4
  <2>5. CASE TCPConnected(u)
    BY <1>2, <1>6, <2>4, <2>5 DEF TCPConnected, Crash
  <2>6. CASE SetP2POK(u)
    BY <1>2, <1>6, <2>4, <2>6 DEF SetP2POK, Crash
  <2>7. CASE TCPProxyRequest(u)
    BY <1>2, <1>6, <2>4, <2>7 DEF TCPProxyRequest, Crash
  <2>8. CASE Reply(u)
    BY <2>4, <2>8 DEF Reply, Break
  <2>9. CASE TCPEndProcess(u)
    <3>1. thr' = [thr EXCEPT ![u] = [thr[u] EXCEPT !.pc = "removing"]]
      BY <2>9 DEF TCPEndProcess
    <3>2. QED
      BY <1>1, <1>3, <1>4, <3>1
  <2>10. CASE RemoveTCPID(u)
    <3>1. thr' = [thr EXCEPT ![u] = [thr[u] EXCEPT !.pc = "stopped"]]
      BY <2>10 DEF RemoveTCPID
    <3>2. QED
      BY <1>1, <1>3, <1>4, <3>1
  <2>11. QED
    BY <1>7, <2>1, <2>2, <2>3, <2>5, <2>6, <2>7, <2>8, <2>9, <2>10 DEF RecvThread
<1>8. ASSUME NEW u \in Tcp, AcceptTCPSocketProcess(u) PROVE Refuses(t)'
  <2>1. thr' = [thr EXCEPT ![u] = Idle]
    BY <1>8 DEF AcceptTCPSocketProcess
  <2>2. QED
    BY <1>3, <1>4, <2>1
<1>9. ASSUME NEW u \in Tcp, Client(u) PROVE Refuses(t)'
  BY <1>2, <1>9 DEF Client, ClientSend, SendUDPToServer, ClientGone
<1>10. CASE CreateTCPID \/ RecvUDPPacketProcess \/ UDPListening \/ UDPConnected
  BY <1>2, <1>10 DEF CreateTCPID, RecvUDPPacketProcess, UDPListening, UDPConnected, IgnoreDatagram,
                     Crash
<1>11. CASE UNCHANGED vars
  BY <1>2, <1>11 DEF vars
<1>12. QED
  BY <1>7, <1>8, <1>9, <1>10, <1>11 DEF Next

(* What is added to a bag does not take anything from it.                  *)
LEMMA BagGrows ==
    ASSUME NEW bag, IsABag(bag), NEW p
    PROVE  BagToSet(Ext!BagAdd(bag, p)) = BagToSet(bag) \cup {p}
BY DEF Ext!BagAdd, BagToSet, IsABag

(* A session in P2P_TCP_CONNECTED with a guest has just been joined, or was *)
(* as it is.                                                               *)
LEMMA ConnectedSteps ==
    ASSUME IInv, [Next]_vars, NEW h \in Tcp, conn'[h].guest # None,
           conn'[h].status = P2P_TCP_CONNECTED
    PROVE  \/ conn'[h] = conn[h] /\ ~Listens(h)
           \/ \E g \in Tcp : Joins(g, h) /\ conn'[h].guest = g
<1>1. ASSUME NEW k \in Tcp, SessionEvent(k), k # h PROVE conn'[h] = conn[h]
  BY <1>1 DEF SessionEvent, Opens, Joins, Listens, Punches, Confirms, Relays, GuestLeaves,
              HostLeaves, Becomes
<1>2. ~Opens(h) /\ ~Listens(h) /\ ~Punches(h) /\ ~Confirms(h) /\ ~GuestLeaves(h) /\ ~HostLeaves(h)
  BY DEF Opens, Listens, Punches, Confirms, GuestLeaves, HostLeaves, Becomes,
         P2P_TCP_CONNECTED, P2P_UDP_LISTENING, P2P_PUNCHING, P2P_CONNECTED
<1>3. ASSUME NEW g \in Tcp, Joins(g, h) PROVE conn'[h].guest = g
  BY <1>3 DEF Joins, Becomes
<1>4. CASE Relays(h)
  BY <1>2, <1>4 DEF Relays
<1>5. ASSUME NEW k \in Tcp, Admits(k) \/ Answers(k) PROVE conn'[h] = conn[h]
  BY <1>5 DEF Admits, Answers
<1>6. QED
  BY <1>1, <1>2, <1>3, <1>4, <1>5, Events DEF SessionEvent

(* The server's part of the invariant holds after a step of the server.    *)
LEMMA NotStartedNext ==
    IInv /\ SilentInv /\ GreetInv /\ OrderInv /\ NotStartedInv /\ [Next]_vars => NotStartedInv'
<1> SUFFICES ASSUME IInv, SilentInv, GreetInv, OrderInv, NotStartedInv, [Next]_vars, NEW t \in Tcp
             PROVE  NotStarted(t)'
  BY DEF NotStartedInv
<1>1. NotStarted(t)
  BY DEF NotStartedInv
<1>2. IsABag(sent[t])
  BY DEF IInv, TypeOK, PacketBags
<1>3. ASSUME Told(t, "TPT_START_UDP")'
      PROVE  \/ Told(t, "TPT_START_UDP")
             \/ \E g \in Tcp : Joins(g, t)
             \/ \E h \in Tcp : Listens(h) /\ t = conn[h].guest
  <2>1. CASE sent'[t] = sent[t]
    BY <1>3, <2>1 DEF Told
  <2>2. ASSUME NEW p, sent'[t] = Ext!BagAdd(sent[t], p), Cause(t, p)
        PROVE  \/ Told(t, "TPT_START_UDP")
               \/ \E g \in Tcp : Joins(g, t)
               \/ \E h \in Tcp : Listens(h) /\ t = conn[h].guest
    <3>1. CASE p.type = "TPT_START_UDP"
      BY <2>2, <3>1 DEF Cause, CreateTCPResultPkt, CreateP2PSuccessPkt, CreateTCPProxyResultPkt
    <3>2. CASE p.type # "TPT_START_UDP"
      BY <1>2, <1>3, <2>2, <3>2, BagGrows DEF Told
    <3>3. QED
      BY <3>1, <3>2
  <2>3. QED
    BY <2>1, <2>2, SentSteps
<1>4. ASSUME peer'[t].role = "HOST", conn'[t].keyword = None, Told(t, "TPT_START_UDP")'
      PROVE  FALSE
  <2>1. conn[t].keyword = None
    <3>1. CASE Opens(t)
      <4>1. peer[t].keyword \in Keyword
        BY <3>1, DispatchFacts DEF Opens, Waiting
      <4>2. QED
        BY <1>4, <3>1, <4>1, NoneAssumption DEF Opens, Becomes
    <3>2. QED
      BY <1>4, <3>1, PartySteps
  <2>2. conn[t].main = None
    BY <2>1 DEF IInv, SessionInv, NoConnection
  <2>3. ~Told(t, "TPT_START_UDP")
    <3>1. CASE peer'[t].role = peer[t].role
      BY <1>1, <1>4, <2>1, <3>1 DEF NotStarted
    <3>2. CASE OnlyInit(t)
      BY <3>2 DEF OnlyInit, Told
    <3>3. QED
      BY <3>1, <3>2, RoleSteps DEF OnlyInit
  <2>4. ASSUME NEW g \in Tcp, Joins(g, t) PROVE FALSE
    BY <2>2, <2>4, NoneAssumption DEF Joins
  <2>5. ASSUME NEW h \in Tcp, Listens(h), t = conn[h].guest PROVE FALSE
    <3>1. peer[t].role = "GUEST"
      BY <2>5, NoneAssumption DEF Listens, Held, IInv, SessionInv
    <3>2. sent'[t] # sent[t]
      <4>1. sent'[t] = Ext!BagAdd(sent[t], CreateTCPStartUDPPkt)
        BY <2>5 DEF Listens, Sends
      <4>2. QED
        BY <1>2, <4>1, BagAddTells
    <3>3. QED
      BY <1>4, <3>1, <3>2, RoleSteps DEF OnlyInit
  <2>6. QED
    BY <1>3, <1>4, <2>3, <2>4, <2>5
<1>5. ASSUME NEW h \in Tcp, conn'[h].guest = t, conn'[h].status = P2P_TCP_CONNECTED,
             Told(t, "TPT_START_UDP")'
      PROVE  FALSE
  <2>1. conn'[h].guest # None
    BY <1>5, NoneAssumption
  <2>2. CASE conn'[h] = conn[h] /\ ~Listens(h)
    <3>1. conn[h].guest = t /\ ~Told(t, "TPT_START_UDP")
      BY <1>1, <1>5, <2>2 DEF NotStarted
    <3>2. Party(t, h) /\ peer[t].role = "GUEST"
      BY <2>1, <2>2, <3>1 DEF Party, IInv, SessionInv
    <3>3. ASSUME NEW g \in Tcp, Joins(g, t) PROVE FALSE
      <4>1. conn[t].main = t
        BY <3>3 DEF Joins
      <4>2. QED
        BY <3>2, <4>1, ListedFacts
    <3>4. ASSUME NEW k \in Tcp, Listens(k), t = conn[k].guest PROVE FALSE
      <4>1. Party(t, k)
        BY <3>4, NoneAssumption DEF Party, Listens, Held
      <4>2. k = h
        BY <3>2, <4>1, OneParty
      <4>3. QED
        BY <2>2, <3>4, <4>2
    <3>5. QED
      BY <1>3, <1>5, <3>1, <3>3, <3>4
  <2>3. CASE Joins(t, h)
    <3>1. Joining(t) /\ peer[t].role = "GUEST"
      BY <2>3, AtFacts DEF Joins, TCPConnected, At, Joining
    <3>2. Ordered(t)
      BY DEF OrderInv
    <3>3. ~(Count(t, "TPT_START_UDP") > 0)
      BY <3>1, <3>2 DEF Ordered
    <3>4. ~Told(t, "TPT_START_UDP")
      BY <1>2, <3>2, <3>3, CountNat DEF Ordered
    <3>5. sent'[t] = Ext!BagAdd(sent[t], CreateTCPResultPkt("TPT_CONNECT_RESULT", "NONE"))
      BY <2>3 DEF Joins, SendsBoth
    <3>6. BagToSet(sent'[t])
            = BagToSet(sent[t]) \cup {CreateTCPResultPkt("TPT_CONNECT_RESULT", "NONE")}
      BY <1>2, <3>5, BagGrows
    <3>7. QED
      BY <1>5, <3>4, <3>6 DEF Told, CreateTCPResultPkt
  <2>4. QED
    BY <1>5, <2>1, <2>2, <2>3, ConnectedSteps
<1>6. Refuses(t)'
  BY <1>1, RefusesNext DEF NotStarted, Refuses
<1>7. QED
  BY <1>4, <1>5, <1>6 DEF NotStarted, Refuses

-----------------------------------------------------------------------------
(* A step of a client is a step of P2PServer's clients, or none            *)

(* The invariant holds at the beginning.                                   *)
LEMMA TunnelInvInit == TunnelInit => TInv
<1> SUFFICES ASSUME TunnelInit PROVE TInv
  OBVIOUS
<1>1. Init
  BY DEF TunnelInit
<1>2. IInv /\ SilentInv /\ GreetInv /\ OrderInv /\ TunnelTypeOK
  BY <1>1, InvInit, SilentInit, GreetInit, OrderInit, TunnelTypeInit
<1>3. ASSUME NEW t \in Tcp
      PROVE  /\ St(t) = P2P_STATUS_NONE /\ Pc(t) = "begin" /\ Saved(t) = P2P_STATUS_NONE
             /\ client[t].type = "PCT_NONE" /\ ~client[t].change /\ s2c[t] = <<>>
             /\ tcpThr[t] = "idle" /\ udpRecv[t] = "idle"
             /\ peer[t].asked = 0 /\ ~peer[t].greeted /\ peer[t].role = None
             /\ BagToSet(sent[t]) = {} /\ conn[t] = NoConnection
             /\ thr[t].pc = "none" /\ link[t] = "none"
  <2>1. /\ s2c = [u \in Tcp |-> <<>>] /\ client = [u \in Tcp |-> C!NewClient]
        /\ mainThr = [u \in Tcp |-> [pc |-> "begin", saved |-> P2P_STATUS_NONE, retry |-> 0]]
        /\ tcpThr = [u \in Tcp |-> "idle"] /\ udpRecv = [u \in Tcp |-> "idle"]
    BY SameStatus DEF TunnelInit, C!ClientInit
  <2>2. BagToSet(sent[t]) = {}
    BY <1>1 DEF Init, EmptyBag, SetToBag, BagToSet
  <2>3. /\ C!NewClient.status = P2P_STATUS_NONE /\ C!NewClient.type = "PCT_NONE"
        /\ ~C!NewClient.change
    BY SameStatus DEF C!NewClient
  <2>4. thr[t].pc = "none"
    BY <1>1 DEF Init, Idle
  <2>5. QED
    BY <1>1, <2>1, <2>2, <2>3, <2>4 DEF Init, St, Pc, Saved
<1>4. P2P_STATUS_NONE \notin ExchangeStatuses \cup {P2P_PUNCHING, P2P_TCP_PROXY, P2P_TCP_LISTENING}
      /\ ~(P2P_STATUS_NONE > P2P_TCP_CONNECTED)
  BY DEF ExchangeStatuses, P2P_STATUS_NONE, P2P_UDP_LISTENING, P2P_UDP_CONNECTED, P2P_PUNCHING,
         P2P_TCP_PROXY, P2P_TCP_LISTENING, P2P_TCP_CONNECTED
<1>5. ClientInv
  <2> SUFFICES ASSUME NEW t \in Tcp
               PROVE  Informed(t) /\ GreetsOnce(t) /\ AsksOnce(t) /\ RoleStream(t)
    BY DEF ClientInv
  <2>1. Len(s2c[t]) = 0 /\ 1 .. Len(s2c[t]) = {}
    BY <1>3
  <2>2. ~Exchanges(t)
    BY <1>3, <1>4 DEF Exchanges
  <2>3. Informed(t)
    BY <1>3, <1>4, <2>1, <2>2 DEF Informed
  <2>4. GreetsOnce(t)
    BY <1>3, <1>4, <2>1 DEF GreetsOnce
  <2>5. AsksOnce(t)
    BY <1>3 DEF AsksOnce
  <2>6. GuestStream(t)
    BY <1>3, <2>2, EmptyStream DEF GuestStream
  <2>7. HostStream(t)
    <3>1. ~Engaged(t) /\ ~HostActs(t)
      BY <1>3, <1>4 DEF Engaged, HostActs
    <3>2. conn[t].guest = None
      BY <1>3 DEF NoConnection
    <3>3. QED
      BY <1>3, <3>1, <3>2, EmptyStream DEF HostStream
  <2>8. QED
    BY <2>3, <2>4, <2>5, <2>6, <2>7 DEF RoleStream
<1>6. NotStartedInv
  BY <1>3 DEF NotStartedInv, NotStarted, Told
<1>7. RoleInv
  BY <1>3 DEF RoleInv
<1>8. QED
  BY <1>2, <1>5, <1>6, <1>7 DEF TInv

(* What a client sends, P2PServer lets it send.                            *)
LEMMA SendStep ==
    ASSUME TypeOK, NEW t \in Tcp, NEW type \in ClientTCPType, C!SendTCP(t, type), Record(t),
           UNCHANGED <<link, udp, sent, serverVars, conn, accepting, thr, udpThr, fault, past>>,
           link[t] = "up" => ClientMaySend(t, type)
    PROVE  [Next]_vars
<1>1. CASE link[t] = "up"
  <2>1. (type = Greeting(t)) = (type \in {"TPT_WAITING", "TPT_CONNECT"})
    BY <1>1 DEF ClientMaySend, Greeting
  <2>2. /\ Len(c2s[t]) < MaxC2S
        /\ c2s' = [c2s EXCEPT ![t] = Append(@, type)]
        /\ peer' = [peer EXCEPT ![t].greeted = @ \/ type = Greeting(t),
                                ![t].asked = IF type = "TPT_PROXY_REQUEST" THEN @ + 1 ELSE @]
    BY <1>1, Sending
  <2>3. ClientSend(t, type)
    BY <1>1, <2>1, <2>2 DEF ClientSend
  <2>4. QED
    BY <2>3 DEF Next, Client
<1>2. CASE link[t] # "up"
  BY <1>2, Sending DEF vars, netVars
<1>3. QED
  BY <1>1, <1>2

(* The datagram that a client sends is one P2PServer's client may send.    *)
LEMMA DatagramStep ==
    ASSUME NEW t \in Tcp, link[t] # "none", Told(t, "TPT_START_UDP"),
           C!SendUDPToServer(t), UNCHANGED c2s, Record(t),
           UNCHANGED <<link, sent, serverVars, conn, accepting, thr, udpThr, fault, past>>
    PROVE  [Next]_vars
<1>1. UNCHANGED peer
  BY SaysNothing
<1>2. CASE udp' = udp
  BY <1>1, <1>2 DEF vars, netVars
<1>3. CASE udp' # udp
  <2>1. SendUDPToServer(t)
    BY <1>1, <1>3 DEF C!SendUDPToServer, SendUDPToServer, C!IsHost
  <2>2. QED
    BY <2>1 DEF Next, Client
<1>4. QED
  BY <1>2, <1>3

(* A host greets with TPT_WAITING and a guest with TPT_CONNECT, each in    *)
(* its own status.                                                         *)
LEMMA GreetingTypes ==
    /\ \A t : Greeting(t) = (IF C!IsHost(t) THEN "TPT_WAITING" ELSE "TPT_CONNECT")
    /\ \A t : Greeting(t) \in ClientTCPType
    /\ \A t : C!Greeting(t) = GreetingStatus(t)
    /\ \A t : GreetingStatus(t) # P2P_STATUS_NONE
    /\ ClientTCPType = {"TPT_WAITING", "TPT_CONNECT", "TPT_P2P_RESULT", "TPT_PROXY_REQUEST",
                        "TPT_DATA_PROXY"}
BY SameStatus DEF Greeting, C!IsHost, ClientTCPType, C!Greeting, GreetingStatus, P2P_STATUS_NONE,
                  P2P_TCP_LISTENING, P2P_TCP_CONNECTED

(* A step of a client is a step of P2PServer's client, or changes nothing  *)
(* that P2PServer knows of.                                                *)
LEMMA ClientImplements ==
    ASSUME TInv, NEW t \in Tcp, ClientStep(t, C!ClientNext(t))
    PROVE  [Next]_vars
<1>1. /\ Record(t)
      /\ UNCHANGED <<sent, serverVars, conn, accepting, thr, udpThr, fault, past>>
      /\ C!ClientNext(t)
  BY DEF ClientStep
<1>2. Informed(t) /\ GreetsOnce(t) /\ AsksOnce(t)
  BY DEF TInv, ClientInv
<1>3. TypeOK /\ TunnelTypeOK
  BY DEF TInv, IInv
<1>4. ASSUME UNCHANGED <<link, c2s, udp>> PROVE [Next]_vars
  BY <1>1, <1>4, SaysNothing DEF vars, netVars
<1>5. CASE C!Greet(t)
  <2>1. /\ C!SendTCP(t, Greeting(t)) /\ UNCHANGED <<link, udp>>
        /\ Pc(t) = "reset" /\ Saved(t) = GreetingStatus(t)
    BY <1>5, GreetingTypes DEF C!Greet, C!Handle, C!At, Pc, Saved
  <2>2. St(t) # P2P_STATUS_NONE
    BY <1>2, <2>1 DEF GreetsOnce
  <2>3. ~peer[t].greeted /\ Told(t, "TPT_INIT")
    BY <1>2, <2>1, <2>2 DEF GreetsOnce
  <2>4. ClientMaySend(t, Greeting(t))
    BY <2>3 DEF ClientMaySend
  <2>5. QED
    BY <1>1, <1>3, <2>1, <2>4, SendStep, GreetingTypes
<1>6. CASE C!TurnToRelay(t)
  <2>1. C!SendTCP(t, "TPT_PROXY_REQUEST") /\ UNCHANGED <<link, udp>> /\ Pc(t) = "giveup"
    BY <1>6 DEF C!TurnToRelay, C!At, Pc
  <2>2. peer[t].asked = 0 /\ Told(t, "TPT_START_UDP")
    BY <1>2, <2>1 DEF AsksOnce, Informed, Exchanges
  <2>3. Count(t, "TPT_START_UDP") \in Nat /\ Count(t, "TPT_START_UDP") > 0
    <3>1. IsABag(sent[t]) /\ IsFiniteSet(Copies(sent[t], "TPT_START_UDP"))
      BY DEF TInv, IInv, TypeOK, PacketBags, OrderInv, Ordered
    <3>2. QED
      BY <2>2, <3>1, CountNat
  <2>4. ClientMaySend(t, "TPT_PROXY_REQUEST")
    BY <2>2, <2>3, MaxAskAssumption DEF ClientMaySend
  <2>5. QED
    BY <1>1, <1>3, <2>1, <2>4, SendStep, GreetingTypes
<1>7. CASE C!SendPacket(t)
  <2>1. /\ C!SendTCP(t, "TPT_DATA_PROXY") /\ UNCHANGED <<link, udp>>
        /\ client[t].type = "PCT_TCP_RELAY"
    BY <1>7 DEF C!SendPacket
  <2>2. Opened \in BagToSet(sent[t])
    BY <1>2, <2>1 DEF Informed
  <2>3. ClientMaySend(t, "TPT_DATA_PROXY")
    BY <2>2 DEF ClientMaySend, BagIn, BagToSet, Opened
  <2>4. QED
    BY <1>1, <1>3, <2>1, <2>3, SendStep, GreetingTypes
<1>8. CASE C!SendP2PResult(t)
  <2>1. C!SendTCP(t, "TPT_P2P_RESULT") /\ UNCHANGED <<link, udp>> /\ udpRecv[t] = "confirm"
    BY <1>8 DEF C!SendP2PResult
  <2>2. Told(t, "TPT_CLIENT_INFO")
    BY <1>2, <2>1 DEF Informed
  <2>3. ClientMaySend(t, "TPT_P2P_RESULT")
    BY <2>2 DEF ClientMaySend
  <2>4. QED
    BY <1>1, <1>3, <2>1, <2>3, SendStep, GreetingTypes
<1>9. CASE C!Exchange(t)
  <2>1. /\ C!SendUDPToServer(t) /\ UNCHANGED <<link, c2s>> /\ link[t] # "none"
        /\ Saved(t) \in ExchangeStatuses
    BY <1>9, SameStatus DEF C!Exchange, C!Handle, C!At, Saved, ExchangeStatuses
  <2>2. Told(t, "TPT_START_UDP")
    BY <1>2, <2>1 DEF Informed, Exchanges
  <2>3. QED
    BY <1>1, <2>1, <2>2, DatagramStep
<1>10. CASE C!ExchangeTimeout(t)
  <2>1. /\ C!SendUDPToServer(t) \/ UNCHANGED udp
        /\ UNCHANGED <<link, c2s>> /\ link[t] # "none" /\ Pc(t) = "exchange"
    BY <1>10 DEF C!ExchangeTimeout, C!Round, C!At, Pc
  <2>2. Told(t, "TPT_START_UDP")
    BY <1>2, <2>1 DEF Informed, Exchanges
  <2>3. QED
    BY <1>1, <1>4, <2>1, <2>2, DatagramStep
<1>11. CASE C!Close(t)
  <2>1. /\ UNCHANGED <<c2s, udp, peer>> /\ link' = [link EXCEPT ![t] = "shut"]
        /\ link[t] \in {"up", "shut"}
    BY <1>1, <1>3, <1>11, SaysNothing DEF C!Close, C!At, TypeOK
  <2>2. CASE link[t] = "up"
    <3>1. ClientGone(t)
      BY <1>1, <2>1, <2>2 DEF ClientGone
    <3>2. QED
      BY <3>1 DEF Next, Client
  <2>3. CASE link[t] = "shut"
    <3>1. link' = link
      BY <1>3, <2>1, <2>3 DEF TypeOK
    <3>2. QED
      BY <1>1, <2>1, <3>1 DEF vars, netVars
  <2>4. QED
    BY <2>1, <2>2, <2>3
<1>12. CASE C!Begin(t) \/ C!WakeUp(t) \/ C!LoopEnds(t) \/ C!AwaitGuest(t) \/ C!Punch(t)
            \/ C!WaitSignalled(t) \/ C!EnterUDPLock(t) \/ C!StopUDP(t)
  BY <1>4, <1>12 DEF C!Begin, C!WakeUp, C!LoopEnds, C!AwaitGuest, C!Punch, C!WaitSignalled,
                     C!EnterUDPLock, C!StopUDP, C!netVars
<1>13. CASE C!PunchTimeout(t)
  BY <1>4, <1>13 DEF C!PunchTimeout, C!Round
<1>14. CASE C!TCPRecvThread(t)
  BY <1>4, <1>14
     DEF C!TCPRecvThread, C!SetPunching, C!SetConnected, C!SetStatusEvent, C!RecvInit,
         C!RecvWaitResult, C!RecvConnectResult, C!RecvStartUDP, C!RecvClientInfo, C!RecvP2PResult,
         C!RecvProxyResult, C!RecvReset, C!TCPEndProcess, C!SetState, C!SetStopEvent, C!Skip,
         C!netVars
<1>15. CASE C!RecvHandshake(t) \/ C!RecvKeepalive(t) \/ C!SendKeepalive(t)
  BY <1>4, <1>15 DEF C!RecvHandshake, C!RecvKeepalive, C!SendKeepalive, C!netVars
<1>16. QED
  BY <1>1, <1>5, <1>6, <1>7, <1>8, <1>9, <1>10, <1>11, <1>12, <1>13, <1>14, <1>15
     DEF C!ClientNext, C!MainThread, C!UDPCallback

-----------------------------------------------------------------------------
(* What a step of a client leaves true of it                               *)

USE DEF P2P_STATUS_NONE, P2P_TCP_LISTENING, P2P_TCP_CONNECTED, P2P_UDP_LISTENING,
        P2P_UDP_CONNECTED, P2P_PUNCHING, P2P_CONNECTED, P2P_TCP_PROXY_REQUEST, P2P_TCP_PROXY

(* A client takes packets from its stream in order, and only it does.      *)
LEMMA MoveStream ==
    ASSUME NEW t \in Tcp, Move(t)
    PROVE  \/ s2c'[t] = s2c[t]
           \/ s2c'[t] = Tail(s2c[t]) /\ s2c[t] # <<>> /\ ReceiveMove(t)
           \/ s2c'[t] = <<>>
BY DEF Move, MainMove, CloseMove, SendMove, ReceiveMove, RecvMove, Quiet, Says

(* What the members of a client may become.                                *)
LEMMA InformedMoves ==
    ASSUME TunnelTypeOK, NEW t \in Tcp, Informed(t), Move(t), UNCHANGED sent
    PROVE  Informed(t)'
<1>1. s2c \in [Tcp -> ServerStream]
  BY TunnelTypes
<1>2. \A type : Told(t, type)' = Told(t, type)
  BY DEF Told
<1>3. \A n \in 1 .. Len(s2c'[t]) : s2c'[t][n] \in BagToSet(sent[t])
  <2>1. CASE s2c'[t] = s2c[t]
    BY <2>1 DEF Informed
  <2>2. CASE s2c'[t] = Tail(s2c[t]) /\ s2c[t] # <<>>
    BY <1>1, <2>2, HeadPacket DEF Informed
  <2>3. CASE s2c'[t] = <<>>
    BY <2>3
  <2>4. QED
    BY <2>1, <2>2, <2>3, MoveStream
<1>4. CASE MainMove(t)
  <2>1. St(t)' = St(t) /\ tcpThr'[t] = tcpThr[t] /\ udpRecv'[t] = udpRecv[t] /\ peer'[t] = peer[t]
    BY <1>4 DEF MainMove, RecvKept, RecvIs, Quiet, ClientIs, St
  <2>2. Saved(t)' \in {Saved(t), St(t), P2P_STATUS_NONE}
    BY <1>4 DEF MainMove, MainIs, Saved, St
  <2>3. Pc(t)' \in {"exchange", "giveup"} => Pc(t) = "exchange" \/ Saved(t) \in ExchangeStatuses
    BY <1>4 DEF MainMove, MainIs, Pc
  <2>4. client'[t].type = "PCT_TCP_RELAY"
          => client[t].type = "PCT_TCP_RELAY" \/ Saved(t) = P2P_TCP_PROXY
    BY <1>4 DEF MainMove, ClientIs
  <2>5. Exchanges(t)' => Exchanges(t)
    BY <2>1, <2>2, <2>3 DEF Exchanges, ExchangeStatuses
  <2>6. QED
    BY <1>2, <1>3, <2>1, <2>2, <2>4, <2>5 DEF Informed
<1>5. CASE CloseMove(t)
  <2>1. /\ St(t)' = St(t) /\ tcpThr'[t] = "ended" /\ udpRecv'[t] = udpRecv[t]
        /\ peer'[t] = peer[t] /\ Saved(t)' = P2P_STATUS_NONE /\ Pc(t)' = "stopping"
        /\ client'[t].type = client[t].type
    BY <1>5 DEF CloseMove, RecvIs, Quiet, ClientIs, MainIs, St, Saved, Pc
  <2>2. Exchanges(t)' => Exchanges(t)
    BY <2>1 DEF Exchanges, ExchangeStatuses
  <2>3. QED
    BY <1>2, <1>3, <2>1, <2>2 DEF Informed
<1>6. CASE SendMove(t)
  <2>1. /\ St(t)' \in {St(t), P2P_TCP_PROXY_REQUEST}
        /\ tcpThr'[t] = tcpThr[t] /\ udpRecv'[t] \in {udpRecv[t], "idle"}
        /\ client'[t].type = client[t].type
        /\ \/ mainThr'[t] = mainThr[t]
           \/ Pc(t)' = "wait" /\ Saved(t)' = P2P_STATUS_NONE
    BY <1>6 DEF SendMove, RecvKept, RecvIs, MainKept, ClientIs, MainIs, St, Saved, Pc
  <2>2. peer'[t].asked # 0 => peer[t].asked # 0 \/ Pc(t) = "giveup"
    BY <1>6 DEF SendMove, Says, Greeting
  <2>3. Exchanges(t)' => Exchanges(t)
    BY <2>1, <2>2 DEF Exchanges, ExchangeStatuses, Saved, Pc
  <2>4. QED
    BY <1>2, <1>3, <2>1, <2>3 DEF Informed, Saved
<1>7. CASE ReceiveMove(t)
  <2> DEFINE p == Head(s2c[t])
  <2>1. p \in ServerPacket(Id, Tcp) /\ p \in BagToSet(sent[t])
    BY <1>1, <1>7, HeadPacket DEF ReceiveMove, Informed
  <2>2. p.type = "TPT_PROXY_RESULT" /\ p.Result = "NONE" => Opened \in BagToSet(sent[t])
    BY <2>1, ProxyPacket DEF Opened
  <2>3. Told(t, p.type)
    BY <2>1 DEF Told
  <2> HIDE DEF p
  <2>4. /\ mainThr'[t] = mainThr[t] /\ udpRecv'[t] = udpRecv[t] /\ peer'[t] = peer[t]
        /\ client'[t].type \in {client[t].type, "PCT_NONE"}
        /\ St(t)' = P2P_PUNCHING => St(t) = P2P_PUNCHING
        /\ tcpThr'[t] = "punching" => tcpThr[t] = "punching" \/ p.type = "TPT_CLIENT_INFO"
        /\ St(t)' = P2P_TCP_PROXY =>
             St(t) = P2P_TCP_PROXY \/ (p.type = "TPT_PROXY_RESULT" /\ p.Result = "NONE")
        /\ St(t)' \in ExchangeStatuses => St(t) \in ExchangeStatuses \/ p.type = "TPT_START_UDP"
    BY <1>7 DEF ReceiveMove, ClientIs, RecvKept, RecvIs, MainKept, St, GreetingStatus,
                ExchangeStatus, ExchangeStatuses, p
  <2>5. Exchanges(t)' => Exchanges(t) \/ p.type = "TPT_START_UDP"
    BY <2>4 DEF Exchanges, Saved, Pc, ExchangeStatuses
  <2>6. QED
    BY <1>2, <1>3, <2>2, <2>3, <2>4, <2>5 DEF Informed, Saved
<1>8. CASE RecvMove(t)
  <2>1. /\ mainThr'[t] = mainThr[t] /\ peer'[t] = peer[t]
        /\ client'[t].type = client[t].type
        /\ tcpThr'[t] = "punching" => tcpThr[t] = "punching"
        /\ St(t)' = P2P_PUNCHING => St(t) = P2P_PUNCHING \/ tcpThr[t] = "punching"
        /\ St(t)' \in {St(t), P2P_PUNCHING, P2P_CONNECTED}
        /\ udpRecv'[t] = "confirm" => udpRecv[t] = "confirm" \/ St(t) = P2P_PUNCHING
    BY <1>8 DEF RecvMove, ClientIs, RecvIs, MainKept, St
  <2>2. Exchanges(t)' => Exchanges(t)
    BY <2>1 DEF Exchanges, Saved, Pc, ExchangeStatuses
  <2>3. QED
    BY <1>2, <1>3, <2>1, <2>2 DEF Informed, Saved
<1>9. QED
  BY <1>4, <1>5, <1>6, <1>7, <1>8 DEF Move

(* The first packet of a client that has not greeted is TPT_INIT.          *)
LEMMA FirstPacket ==
    ASSUME TunnelTypeOK, GreetInv, NEW t \in Tcp, Informed(t), GreetsOnce(t), ~peer[t].greeted,
           s2c[t] # <<>>
    PROVE  Head(s2c[t]).type = "TPT_INIT" /\ Tail(s2c[t]) = <<>>
<1>1. OnlyInit(t)
  BY DEF GreetInv, GreetedOnce, Mute
<1>2. s2c \in [Tcp -> ServerStream]
  BY TunnelTypes
<1>3. Head(s2c[t]) \in BagToSet(sent[t])
  BY <1>2, HeadPacket DEF Informed
<1>4. Len(s2c[t]) <= 1
  BY DEF GreetsOnce
<1>5. s2c[t] \in ServerStream /\ Len(s2c[t]) \in Nat
  BY <1>2 DEF ServerStream
<1>6. Tail(s2c[t]) = <<>>
  BY <1>4, <1>5 DEF ServerStream
<1>7. QED
  BY <1>1, <1>3, <1>6 DEF OnlyInit

(* A step of a client keeps: one greeting.                                 *)
LEMMA GreetsOnceMoves ==
    ASSUME TunnelTypeOK, GreetInv, NEW t \in Tcp, Informed(t), GreetsOnce(t), Move(t),
           UNCHANGED sent
    PROVE  GreetsOnce(t)'
<1>1. s2c \in [Tcp -> ServerStream]
  BY TunnelTypes
<1>2. \A type : Told(t, type)' = Told(t, type)
  BY DEF Told
<1>3. /\ Has(s2c'[t], "TPT_INIT") => Has(s2c[t], "TPT_INIT")
      /\ Len(s2c[t]) <= 1 => Len(s2c'[t]) <= 1
  <2>1. CASE s2c'[t] = s2c[t]
    BY <2>1
  <2>2. CASE s2c'[t] = Tail(s2c[t]) /\ s2c[t] # <<>>
    BY <1>1, <2>2, HeadPacket, TailStream
  <2>3. CASE s2c'[t] = <<>>
    BY <2>3, EmptyStream
  <2>4. QED
    BY <2>1, <2>2, <2>3, MoveStream
<1>4. peer[t].role = "HOST" => GreetingStatus(t) = P2P_TCP_LISTENING
  BY DEF GreetingStatus
<1>5. GreetingStatus(t) \in {P2P_TCP_LISTENING, P2P_TCP_CONNECTED}
  BY DEF GreetingStatus
<1>6. CASE MainMove(t)
  <2>1. /\ St(t)' = St(t) /\ tcpThr'[t] = tcpThr[t] /\ peer'[t] = peer[t]
        /\ GreetingStatus(t)' = GreetingStatus(t)
    BY <1>6 DEF MainMove, RecvKept, RecvIs, Quiet, ClientIs, St, GreetingStatus
  <2>2. Saved(t)' \in {Saved(t), P2P_STATUS_NONE} \/ (client[t].change /\ Saved(t)' = St(t))
    BY <1>6 DEF MainMove, MainIs, Saved, St
  <2>3. client'[t].change => client[t].change
    BY <1>6 DEF MainMove, ClientIs
  <2>4. /\ Pc(t)' # "begin"
        /\ Pc(t)' = "reset" => client[t].change /\ Saved(t)' = St(t)
        /\ Pc(t)' \in {"exchange", "punch", "giveup"} =>
             Pc(t) \in {"exchange", "punch"} \/ Saved(t) \in ExchangeStatuses \cup {P2P_PUNCHING}
    BY <1>6 DEF MainMove, MainIs, Pc, Saved, St
  <2>5. QED
    BY <1>2, <1>3, <1>5, <2>1, <2>2, <2>3, <2>4 DEF GreetsOnce, ExchangeStatuses
<1>7. CASE CloseMove(t)
  <2>1. /\ St(t)' = St(t) /\ tcpThr'[t] = "ended" /\ client'[t].change = client[t].change
        /\ peer'[t] = peer[t] /\ Saved(t)' = P2P_STATUS_NONE /\ Pc(t)' = "stopping"
        /\ GreetingStatus(t)' = GreetingStatus(t)
    BY <1>7 DEF CloseMove, RecvIs, Quiet, ClientIs, MainIs, St, Saved, Pc, GreetingStatus
  <2>2. QED
    BY <1>2, <1>3, <2>1 DEF GreetsOnce
<1>8. CASE SendMove(t)
  <2>1. /\ tcpThr'[t] = tcpThr[t]
        /\ client'[t].change => client[t].change
        /\ peer'[t].role = peer[t].role /\ GreetingStatus(t)' = GreetingStatus(t)
        /\ peer[t].greeted => peer'[t].greeted
    BY <1>8 DEF SendMove, RecvKept, RecvIs, ClientIs, Says, GreetingStatus
  <2>2. \/ /\ Pc(t) = "reset" /\ Saved(t) = GreetingStatus(t) /\ St(t)' = St(t)
           /\ Pc(t)' = "wait" /\ Saved(t)' = P2P_STATUS_NONE /\ ~client'[t].change
        \/ /\ Pc(t) = "giveup" /\ St(t)' = P2P_TCP_PROXY_REQUEST
           /\ Pc(t)' = "wait" /\ Saved(t)' = P2P_STATUS_NONE
           /\ peer'[t].greeted => peer[t].greeted
        \/ /\ mainThr'[t] = mainThr[t] /\ client'[t] = client[t]
           /\ peer'[t].greeted => peer[t].greeted
    BY <1>8 DEF SendMove, MainIs, MainKept, ClientIs, Says, Greeting, St, Saved, Pc
  <2>3. QED
    BY <1>2, <1>3, <1>5, <2>1, <2>2 DEF GreetsOnce, Saved, Pc, St
<1>9. CASE ReceiveMove(t)
  <2> DEFINE p == Head(s2c[t])
  <2>1. /\ mainThr'[t] = mainThr[t] /\ peer'[t] = peer[t] /\ tcpThr[t] = "idle"
        /\ client'[t].change = client[t].change /\ s2c[t] # <<>> /\ s2c'[t] = Tail(s2c[t])
        /\ GreetingStatus(t)' = GreetingStatus(t) /\ Saved(t)' = Saved(t) /\ Pc(t)' = Pc(t)
    BY <1>9 DEF ReceiveMove, ClientIs, MainKept, GreetingStatus, Saved, Pc
  <2>2. p.type = "TPT_INIT" => Has(s2c[t], "TPT_INIT") /\ St(t) = P2P_STATUS_NONE
    BY <1>1, <2>1, HeadPacket DEF Has, GreetsOnce
  <2>3. Told(t, p.type)
    BY <1>1, <2>1, HeadPacket DEF Told, Informed
  <2>4. ~peer[t].greeted => p.type = "TPT_INIT" /\ s2c'[t] = <<>>
    BY <2>1, FirstPacket
  <2> HIDE DEF p
  <2>5. CASE ~peer[t].greeted
    <3>1. p.type = "TPT_INIT" /\ St(t) = P2P_STATUS_NONE /\ Told(t, "TPT_INIT")
      BY <2>2, <2>3, <2>4, <2>5
    <3>2. ~Has(s2c'[t], "TPT_INIT")
      BY <2>4, <2>5, EmptyStream
    <3>3. \/ St(t)' = GreetingStatus(t) /\ tcpThr'[t] = "signal"
          \/ p.type # "TPT_INIT"
      BY <1>9 DEF ReceiveMove, ClientIs, RecvIs, St, p
    <3>4. \/ St(t)' = GreetingStatus(t) /\ tcpThr'[t] = "signal"
      BY <3>1, <3>3
    <3>5. peer[t].role # "HOST" => GreetingStatus(t) # P2P_TCP_LISTENING
      BY DEF GreetingStatus
    <3>6. QED
      BY <1>2, <1>3, <1>5, <2>1, <2>5, <3>1, <3>2, <3>4, <3>5 DEF GreetsOnce
  <2>6. CASE peer[t].greeted
    <3>1. St(t) # P2P_STATUS_NONE /\ p.type # "TPT_INIT"
      BY <2>2, <2>6 DEF GreetsOnce
    <3>2. \/ St(t)' = St(t) /\ tcpThr'[t] # "signal"
          \/ St(t) = P2P_TCP_LISTENING /\ St(t)' = P2P_TCP_CONNECTED
          \/ St(t)' \in ExchangeStatuses \cup {P2P_TCP_PROXY}
          \/ p.type = "TPT_INIT"
      BY <1>9, <2>1
         DEF ReceiveMove, ClientIs, RecvKept, RecvIs, St, ExchangeStatus, ExchangeStatuses, p
    <3>3. St(t) = P2P_TCP_LISTENING => GreetingStatus(t) = P2P_TCP_LISTENING
      BY <1>4 DEF GreetsOnce
    <3>4. QED
      BY <1>2, <1>3, <1>5, <2>1, <2>6, <3>1, <3>2, <3>3 DEF GreetsOnce, ExchangeStatuses
  <2>7. QED
    BY <2>5, <2>6
<1>10. CASE RecvMove(t)
  <2>1. /\ mainThr'[t] = mainThr[t] /\ peer'[t] = peer[t]
        /\ GreetingStatus(t)' = GreetingStatus(t) /\ Saved(t)' = Saved(t) /\ Pc(t)' = Pc(t)
        /\ client'[t].change = client[t].change \/ (tcpThr[t] = "signal" /\ client'[t].change)
    BY <1>10 DEF RecvMove, ClientIs, MainKept, GreetingStatus, Saved, Pc
  <2>2. \/ /\ tcpThr[t] = "signal" /\ tcpThr'[t] = "idle" /\ St(t)' = St(t)
        \/ /\ tcpThr[t] \in {"punching", "connected"} /\ tcpThr'[t] = "signal"
           /\ St(t)' \in {P2P_PUNCHING, P2P_CONNECTED} /\ client'[t].change = client[t].change
        \/ /\ tcpThr'[t] \in {tcpThr[t], "ended"} /\ St(t)' = St(t)
           /\ client'[t].change = client[t].change
    BY <1>10 DEF RecvMove, ClientIs, RecvIs, St
  <2>3. QED
    BY <1>2, <1>3, <1>5, <2>1, <2>2 DEF GreetsOnce
<1>11. QED
  BY <1>6, <1>7, <1>8, <1>9, <1>10 DEF Move

(* A step of a client keeps: one request for the relay.                    *)
LEMMA AsksOnceMoves ==
    ASSUME TunnelTypeOK, GreetInv, NEW t \in Tcp, Informed(t), GreetsOnce(t), AsksOnce(t),
           RoleStream(t), Move(t), UNCHANGED sent
    PROVE  AsksOnce(t)'
<1>1. s2c \in [Tcp -> ServerStream]
  BY TunnelTypes
<1>2. CASE MainMove(t)
  <2>1. St(t)' = St(t) /\ peer'[t] = peer[t]
    BY <1>2 DEF MainMove, Quiet, ClientIs, St
  <2>2. Saved(t)' \in {Saved(t), St(t), P2P_STATUS_NONE}
    BY <1>2 DEF MainMove, MainIs, Saved, St
  <2>3. /\ Pc(t)' = "exchange" =>
             Saved(t) \in ExchangeStatuses \/ (Pc(t) = "exchange" /\ ~client[t].stop)
        /\ Pc(t)' = "giveup" => Pc(t) = "exchange" /\ ~client[t].stop
    BY <1>2 DEF MainMove, MainIs, Pc
  <2>4. client'[t].stop = client[t].stop \/ Pc(t) = "begin"
    BY <1>2 DEF MainMove, ClientIs
  <2>5. Pc(t) = "begin" => peer[t].asked = 0
    <3>1. Pc(t) = "begin" => OnlyInit(t)
      BY DEF GreetsOnce, GreetInv, GreetedOnce, Mute
    <3>2. OnlyInit(t) => peer[t].asked = 0
      BY DEF OnlyInit, Informed, Exchanges, Told
    <3>3. QED
      BY <3>1, <3>2
  <2>6. QED
    BY <2>1, <2>2, <2>3, <2>4, <2>5 DEF AsksOnce, ExchangeStatuses
<1>3. CASE CloseMove(t)
  <2>1. /\ St(t)' = St(t) /\ client'[t].stop = client[t].stop
        /\ peer'[t] = peer[t] /\ Saved(t)' = P2P_STATUS_NONE /\ Pc(t)' = "stopping"
    BY <1>3 DEF CloseMove, Quiet, ClientIs, MainIs, St, Saved, Pc
  <2>2. QED
    BY <2>1 DEF AsksOnce, ExchangeStatuses
<1>4. CASE SendMove(t)
  <2>1. client'[t].stop = client[t].stop
    BY <1>4 DEF SendMove, ClientIs
  <2>2. \/ Pc(t)' = "wait" /\ Saved(t)' = P2P_STATUS_NONE
        \/ mainThr'[t] = mainThr[t]
    BY <1>4 DEF SendMove, MainIs, MainKept, Saved, Pc
  <2>3. \/ St(t)' = P2P_TCP_PROXY_REQUEST /\ Pc(t)' = "wait" /\ Saved(t)' = P2P_STATUS_NONE
        \/ St(t)' = St(t) /\ peer'[t].asked = peer[t].asked
    BY <1>4 DEF SendMove, MainIs, ClientIs, Says, Greeting, St, Saved, Pc
  <2>4. QED
    BY <2>1, <2>2, <2>3 DEF AsksOnce, ExchangeStatuses, Saved, Pc
<1>5. CASE ReceiveMove(t)
  <2> DEFINE p == Head(s2c[t])
  <2>1. /\ mainThr'[t] = mainThr[t] /\ peer'[t] = peer[t]
        /\ client[t].stop => client'[t].stop
    BY <1>5 DEF ReceiveMove, ClientIs, MainKept
  <2>2. St(t)' \in ExchangeStatuses => St(t) \in ExchangeStatuses \/ p.type = "TPT_START_UDP"
    BY <1>5 DEF ReceiveMove, ClientIs, St, GreetingStatus, ExchangeStatuses
  <2>3. p.type = "TPT_START_UDP" /\ peer[t].asked # 0 => client[t].stop
    <3>1. s2c[t] \in ServerStream /\ s2c[t] # <<>> /\ p = s2c[t][1] /\ 1 \in 1 .. Len(s2c[t])
      BY <1>1, <1>5, HeadPacket DEF ReceiveMove
    <3>2. CASE peer[t].role = "HOST"
      <4>1. peer[t].asked # 0 /\ ~client[t].stop => Preceded(s2c[t])
        BY <3>2 DEF RoleStream, HostStream, HostActs
      <4>2. QED
        BY <3>1, <4>1, TailStream
    <3>3. CASE peer[t].role # "HOST"
      <4>1. peer[t].asked # 0 => ~Has(s2c[t], "TPT_START_UDP")
        BY <3>3 DEF RoleStream, GuestStream, Exchanges
      <4>2. QED
        BY <3>1, <4>1 DEF Has
    <3>4. QED
      BY <3>2, <3>3
  <2> HIDE DEF p
  <2>4. QED
    BY <2>1, <2>2, <2>3 DEF AsksOnce, Saved, Pc
<1>6. CASE RecvMove(t)
  <2>1. /\ mainThr'[t] = mainThr[t] /\ peer'[t] = peer[t]
        /\ client[t].stop => client'[t].stop
        /\ St(t)' \in {St(t), P2P_PUNCHING, P2P_CONNECTED}
    BY <1>6 DEF RecvMove, ClientIs, MainKept, St
  <2>2. QED
    BY <2>1 DEF AsksOnce, ExchangeStatuses, Saved, Pc
<1>7. QED
  BY <1>2, <1>3, <1>4, <1>5, <1>6 DEF Move

(* A client that begins to exchange addresses was told to, or was at it.   *)
LEMMA ExchangesMoves ==
    ASSUME TunnelTypeOK, NEW t \in Tcp, Move(t), Exchanges(t)'
    PROVE  Exchanges(t) \/ (ReceiveMove(t) /\ Head(s2c[t]).type = "TPT_START_UDP")
<1>1. CASE MainMove(t)
  <2>1. St(t)' = St(t) /\ peer'[t] = peer[t]
    BY <1>1 DEF MainMove, Quiet, ClientIs, St
  <2>2. Saved(t)' \in {Saved(t), St(t), P2P_STATUS_NONE}
    BY <1>1 DEF MainMove, MainIs, Saved, St
  <2>3. Pc(t)' \in {"exchange", "giveup"} => Pc(t) = "exchange" \/ Saved(t) \in ExchangeStatuses
    BY <1>1 DEF MainMove, MainIs, Pc
  <2>4. QED
    BY <2>1, <2>2, <2>3 DEF Exchanges, ExchangeStatuses
<1>2. CASE CloseMove(t)
  <2>1. /\ St(t)' = St(t) /\ peer'[t] = peer[t]
        /\ Saved(t)' = P2P_STATUS_NONE /\ Pc(t)' = "stopping"
    BY <1>2 DEF CloseMove, Quiet, ClientIs, MainIs, St, Saved, Pc
  <2>2. QED
    BY <2>1 DEF Exchanges, ExchangeStatuses
<1>3. CASE SendMove(t)
  <2>1. St(t)' \in {St(t), P2P_TCP_PROXY_REQUEST}
    BY <1>3 DEF SendMove, ClientIs, St
  <2>2. \/ mainThr'[t] = mainThr[t]
        \/ Pc(t)' = "wait" /\ Saved(t)' = P2P_STATUS_NONE
    BY <1>3 DEF SendMove, MainKept, MainIs, Saved, Pc
  <2>3. peer'[t].asked # 0 => peer[t].asked # 0 \/ Pc(t) = "giveup"
    BY <1>3 DEF SendMove, Says, Greeting
  <2>4. QED
    BY <2>1, <2>2, <2>3 DEF Exchanges, ExchangeStatuses, Saved, Pc
<1>4. CASE ReceiveMove(t)
  <2>1. mainThr'[t] = mainThr[t] /\ peer'[t] = peer[t]
    BY <1>4 DEF ReceiveMove, MainKept
  <2>2. St(t)' \in ExchangeStatuses
          => St(t) \in ExchangeStatuses \/ Head(s2c[t]).type = "TPT_START_UDP"
    BY <1>4 DEF ReceiveMove, ClientIs, St, GreetingStatus, ExchangeStatuses
  <2>3. QED
    BY <1>4, <2>1, <2>2 DEF Exchanges, Saved, Pc
<1>5. CASE RecvMove(t)
  <2>1. /\ mainThr'[t] = mainThr[t] /\ peer'[t] = peer[t]
        /\ St(t)' \in {St(t), P2P_PUNCHING, P2P_CONNECTED}
    BY <1>5 DEF RecvMove, ClientIs, MainKept, St
  <2>2. QED
    BY <2>1 DEF Exchanges, ExchangeStatuses, Saved, Pc
<1>6. QED
  BY <1>1, <1>2, <1>3, <1>4, <1>5 DEF Move

(* A step of a guest keeps what may be under way to it.                    *)
LEMMA GuestStreamMoves ==
    ASSUME TunnelTypeOK, NEW t \in Tcp, GuestStream(t), Move(t)
    PROVE  GuestStream(t)'
<1>1. s2c \in [Tcp -> ServerStream]
  BY TunnelTypes
<1>2. /\ AtMostOne(s2c'[t], "TPT_START_UDP")
      /\ Has(s2c'[t], "TPT_START_UDP") => Has(s2c[t], "TPT_START_UDP")
  <2>1. CASE s2c'[t] = s2c[t]
    BY <2>1 DEF GuestStream
  <2>2. CASE s2c'[t] = Tail(s2c[t]) /\ s2c[t] # <<>>
    BY <1>1, <2>2, TailStream DEF GuestStream
  <2>3. CASE s2c'[t] = <<>>
    BY <2>3, EmptyStream
  <2>4. QED
    BY <2>1, <2>2, <2>3, MoveStream
<1>3. ASSUME ReceiveMove(t), Head(s2c[t]).type = "TPT_START_UDP"
      PROVE  ~Has(s2c'[t], "TPT_START_UDP")
  BY <1>1, <1>3, HeadPacket, TailStream DEF ReceiveMove, GuestStream
<1>4. QED
  BY <1>2, <1>3, ExchangesMoves DEF GuestStream

(* A step of a host keeps what may be under way to it.                     *)
LEMMA HostStreamMoves ==
    ASSUME TunnelTypeOK, NEW t \in Tcp, Informed(t), GreetsOnce(t), HostStream(t),
           peer[t].role = "HOST", Move(t), UNCHANGED <<sent, conn>>
    PROVE  HostStream(t)'
<1>1. s2c \in [Tcp -> ServerStream]
  BY TunnelTypes
<1>2. \A type : Told(t, type)' = Told(t, type)
  BY DEF Told
<1>3. St(t) \in Nat
  BY TunnelTypes, StatusIn DEF St, Members, P2P_STATUS
<1>4. ASSUME s2c'[t] = s2c[t],
             St(t)' = St(t) \/ (Engaged(t) /\ Engaged(t)'),
             HostActs(t)' => Engaged(t)',
             client[t].stop /\ ~client'[t].stop => ~Engaged(t)',
             tcpThr'[t] # "ended" => tcpThr[t] # "ended"
      PROVE  HostStream(t)'
  <2>1. Engaged(t)' <=> Engaged(t)
    BY <1>4 DEF Engaged
  <2>2. QED
    BY <1>2, <1>4, <2>1 DEF HostStream
<1>5. CASE MainMove(t)
  <2>1. /\ St(t)' = St(t) /\ tcpThr'[t] = tcpThr[t] /\ peer'[t] = peer[t] /\ s2c'[t] = s2c[t]
    BY <1>5 DEF MainMove, RecvKept, RecvIs, Quiet, ClientIs, St
  <2>2. Saved(t)' \in {Saved(t), St(t), P2P_STATUS_NONE}
    BY <1>5 DEF MainMove, MainIs, Saved, St
  <2>3. Pc(t)' \in {"exchange", "punch", "giveup"} =>
          \/ Pc(t) \in {"exchange", "punch"}
          \/ Saved(t) \in ExchangeStatuses \cup {P2P_PUNCHING}
    BY <1>5 DEF MainMove, MainIs, Pc, Saved
  <2>4. HostActs(t)' => Engaged(t)'
    <3>1. Engaged(t)' <=> Engaged(t)
      BY <2>1 DEF Engaged
    <3>2. Saved(t)' > P2P_TCP_CONNECTED => Saved(t) > P2P_TCP_CONNECTED \/ Engaged(t)
      BY <2>2 DEF Engaged
    <3>3. HostActs(t)' => HostActs(t) \/ Engaged(t)
      BY <2>1, <2>3, <3>2 DEF HostActs, ExchangeStatuses
    <3>4. QED
      BY <3>1, <3>3 DEF HostStream
  <2>5. client[t].stop /\ ~client'[t].stop => Pc(t) = "begin"
    BY <1>5 DEF MainMove, ClientIs
  <2>6. Pc(t) = "begin" => ~Engaged(t)
    BY DEF GreetsOnce, GreetingStatus, Engaged
  <2>7. QED
    BY <1>4, <2>1, <2>4, <2>5, <2>6 DEF Engaged
<1>6. CASE CloseMove(t)
  <2>1. /\ St(t)' = St(t) /\ client'[t].stop = client[t].stop /\ s2c'[t] = s2c[t]
        /\ tcpThr'[t] = "ended"
        /\ peer'[t] = peer[t] /\ Saved(t)' = P2P_STATUS_NONE /\ Pc(t)' = "stopping"
    BY <1>6 DEF CloseMove, RecvIs, Quiet, ClientIs, MainIs, St, Saved, Pc
  <2>2. HostActs(t)' => Engaged(t)'
    <3>1. HostActs(t)' => HostActs(t)
      BY <2>1 DEF HostActs
    <3>2. QED
      BY <2>1, <3>1 DEF HostStream, Engaged
  <2>3. QED
    BY <1>4, <2>1, <2>2
<1>7. CASE SendMove(t)
  <2>1. /\ tcpThr'[t] = tcpThr[t] /\ s2c'[t] = s2c[t] /\ client'[t].stop = client[t].stop
        /\ \/ mainThr'[t] = mainThr[t]
           \/ Pc(t)' = "wait" /\ Saved(t)' = P2P_STATUS_NONE
    BY <1>7 DEF SendMove, RecvKept, RecvIs, MainKept, ClientIs, MainIs, Says, Saved, Pc
  <2>2. \/ St(t)' = St(t)
        \/ Pc(t) = "giveup" /\ St(t)' = P2P_TCP_PROXY_REQUEST
    BY <1>7 DEF SendMove, ClientIs, St, Pc
  <2>3. peer'[t].asked # 0 => peer[t].asked # 0 \/ Pc(t) = "giveup"
    BY <1>7 DEF SendMove, Says, Greeting
  <2>4. St(t)' = St(t) \/ (Engaged(t) /\ Engaged(t)')
    BY <2>2 DEF HostStream, HostActs, Engaged
  <2>5. HostActs(t)' => HostActs(t)
    BY <2>1, <2>3 DEF HostActs, Saved, Pc
  <2>6. HostActs(t)' => Engaged(t)'
    BY <2>4, <2>5 DEF HostStream, Engaged
  <2>7. QED
    BY <1>4, <2>1, <2>4, <2>6
<1>8. CASE ReceiveMove(t)
  <2> DEFINE p == Head(s2c[t])
             s == s2c[t]
  <2>1. /\ mainThr'[t] = mainThr[t] /\ peer'[t] = peer[t] /\ tcpThr[t] = "idle"
        /\ s # <<>> /\ s2c'[t] = Tail(s)
        /\ client[t].stop => client'[t].stop
    BY <1>8 DEF ReceiveMove, MainKept, ClientIs
  <2>2. s \in ServerStream /\ p = s[1] /\ p \in ServerPacket(Id, Tcp)
    BY <1>1, <2>1, HeadPacket
  <2>3. p.type = "TPT_INIT" => ~Engaged(t)
    <3>1. p.type = "TPT_INIT" => Has(s, "TPT_INIT")
      BY <1>1, <2>1, <2>2, HeadPacket DEF Has
    <3>2. QED
      BY <3>1 DEF GreetsOnce, Engaged
  <2>4. p.type = "TPT_PROXY_RESULT" /\ p.Result = "NONE" => Engaged(t)
    <3>1. p.type = "TPT_PROXY_RESULT" /\ p.Result = "NONE" => p = Opened
      BY <2>2, ProxyPacket DEF Opened
    <3>2. ~Engaged(t) => OpensLate(s)
      BY <2>1 DEF HostStream
    <3>3. OpensLate(s) => p # Opened
      BY <2>1, <2>2, TailStream
    <3>4. QED
      BY <3>1, <3>2, <3>3
  <2> HIDE DEF p, s
  <2>5. \/ Engaged(t)' <=> Engaged(t)
        \/ p.type = "TPT_START_UDP" /\ Engaged(t)'
    BY <1>8, <2>3, <2>4
       DEF ReceiveMove, ClientIs, St, GreetingStatus, ExchangeStatus, Engaged, p
  <2>6. Engaged(t) => Engaged(t)'
    BY <2>5
  <2>7. HostActs(t)' => Engaged(t)'
    <3>1. tcpThr'[t] \in {"punching", "connected"} => Engaged(t)
      <4>1. tcpThr'[t] \in {"punching", "connected"} => St(t) \in {ExchangeStatus(t), P2P_PUNCHING}
        BY <1>8 DEF ReceiveMove, RecvKept, RecvIs, St
      <4>2. QED
        BY <4>1 DEF ExchangeStatus, Engaged
    <3>2. HostActs(t)' => HostActs(t) \/ Engaged(t)
      BY <2>1, <3>1 DEF HostActs, Saved, Pc
    <3>3. QED
      BY <2>6, <3>2 DEF HostStream
  <2>8. Engaged(t)' => Told(t, "TPT_START_UDP")'
    <3>1. p.type = "TPT_START_UDP" => Told(t, "TPT_START_UDP")
      <4>1. p \in BagToSet(sent[t])
        BY <1>1, <2>1, HeadPacket DEF Informed, p, s
      <4>2. QED
        BY <4>1 DEF Told
    <3>2. QED
      BY <1>2, <2>5, <3>1 DEF HostStream
  <2>9. Separated(s) /\ Separated(Tail(s))
    BY <2>1, <2>2, TailStream DEF HostStream, s
  <2>10. p.type = "TPT_RESET" => client'[t].stop
    BY <1>8 DEF ReceiveMove, ClientIs, p
  <2>11. ASSUME conn[t].main = t, conn[t].guest = None
         PROVE  /\ Followed(Tail(s))
                /\ Engaged(t)' /\ ~client'[t].stop => Has(Tail(s), "TPT_RESET")
    <3>1. Followed(s) /\ (Engaged(t) /\ ~client[t].stop => Has(s, "TPT_RESET"))
      BY <2>11 DEF HostStream, s
    <3>2. Followed(Tail(s)) /\ (p.type = "TPT_START_UDP" => Has(Tail(s), "TPT_RESET"))
      BY <2>1, <2>2, <3>1, TailStream
    <3>3. Has(s, "TPT_RESET") /\ p.type # "TPT_RESET" => Has(Tail(s), "TPT_RESET")
      BY <2>1, <2>2, TailStream
    <3>4. QED
      BY <2>1, <2>5, <2>10, <3>1, <3>2, <3>3
  <2>12. Engaged(t)' /\ ~client'[t].stop => Preceded(Tail(s))
    <3>1. p.type = "TPT_START_UDP" => Preceded(Tail(s))
      BY <2>1, <2>2, <2>9, TailStream
    <3>2. Preceded(s) /\ p.type # "TPT_RESET" => Preceded(Tail(s))
      BY <2>1, <2>2, TailStream
    <3>3. Engaged(t) /\ ~client[t].stop => Preceded(s)
      BY DEF HostStream, s
    <3>4. QED
      BY <2>1, <2>5, <2>10, <3>1, <3>2, <3>3
  <2>13. ~Engaged(t)' => /\ OpensLate(Tail(s))
                         /\ conn[t].guest # None => Has(Tail(s), "TPT_START_UDP")
    <3> SUFFICES ASSUME ~Engaged(t)'
                 PROVE  /\ OpensLate(Tail(s))
                        /\ conn[t].guest # None => Has(Tail(s), "TPT_START_UDP")
      OBVIOUS
    <3>1. /\ OpensLate(s)
          /\ conn[t].guest # None => Has(s, "TPT_START_UDP")
      BY <2>1, <2>6 DEF HostStream, s
    <3>2. p.type # "TPT_START_UDP"
      BY <1>8 DEF ReceiveMove, ClientIs, ExchangeStatus, Engaged, St, p
    <3>3. QED
      BY <2>1, <2>2, <3>1, <3>2, TailStream
  <2>14. QED
    BY <2>1, <2>7, <2>8, <2>9, <2>11, <2>12, <2>13 DEF HostStream
<1>9. CASE RecvMove(t)
  <2>1. /\ mainThr'[t] = mainThr[t] /\ peer'[t] = peer[t]
        /\ client[t].stop => client'[t].stop
        /\ St(t)' = St(t) \/ (tcpThr[t] \in {"punching", "connected"} /\ Engaged(t)')
        /\ tcpThr'[t] \in {tcpThr[t], "idle", "signal", "ended"}
        /\ tcpThr'[t] # "ended" => tcpThr[t] # "ended"
        /\ s2c'[t] = s2c[t] \/ (s2c'[t] = <<>> /\ client'[t].stop /\ tcpThr'[t] = "ended"
                                /\ St(t)' = St(t))
    BY <1>9 DEF RecvMove, ClientIs, RecvIs, MainKept, St, Engaged
  <2>2. St(t)' = St(t) \/ (Engaged(t) /\ Engaged(t)')
    BY <2>1 DEF HostStream, HostActs
  <2>3. HostActs(t)' => HostActs(t)
    BY <2>1 DEF HostActs, Saved, Pc
  <2>4. HostActs(t)' => Engaged(t)'
    BY <2>2, <2>3 DEF HostStream, Engaged
  <2>5. CASE s2c'[t] = s2c[t]
    BY <1>4, <2>1, <2>2, <2>4, <2>5
  <2>6. CASE s2c'[t] = <<>> /\ client'[t].stop /\ tcpThr'[t] = "ended" /\ St(t)' = St(t)
    BY <1>2, <2>4, <2>6, EmptyStream DEF HostStream, Engaged
  <2>7. QED
    BY <2>1, <2>5, <2>6
<1>10. QED
  BY <1>5, <1>6, <1>7, <1>8, <1>9 DEF Move

(* A step of a client keeps the clients' part of the invariant.            *)
LEMMA ClientInvStep ==
    ASSUME TInv, NEW t \in Tcp, ClientStep(t, C!ClientNext(t))
    PROVE  ClientInv' /\ NotStartedInv' /\ RoleInv'
<1>1. Move(t) /\ \A u \in Tcp \ {t} : Unmoved(u)
  BY Moves DEF TInv, IInv
<1>2. UNCHANGED <<sent, conn, thr>>
  BY DEF ClientStep
<1>3. TunnelTypeOK /\ GreetInv
  BY DEF TInv
<1>4. ASSUME NEW u \in Tcp
      PROVE  Informed(u) /\ GreetsOnce(u) /\ AsksOnce(u) /\ RoleStream(u)
  BY DEF TInv, ClientInv
<1>5. ASSUME NEW u \in Tcp PROVE peer'[u].role = peer[u].role
  <2>1. CASE u = t
    BY <1>1, <2>1 DEF Move, MainMove, CloseMove, SendMove, ReceiveMove, RecvMove, Quiet, Says
  <2>2. QED
    BY <1>1, <2>1 DEF Unmoved, Quiet
<1>6. Informed(t)' /\ GreetsOnce(t)' /\ AsksOnce(t)'
  BY <1>1, <1>2, <1>3, <1>4, InformedMoves, GreetsOnceMoves, AsksOnceMoves
<1>7. RoleStream(t)'
  <2>1. CASE peer[t].role = "HOST"
    BY <1>1, <1>2, <1>3, <1>4, <1>5, <2>1, HostStreamMoves DEF RoleStream
  <2>2. CASE peer[t].role # "HOST"
    BY <1>1, <1>3, <1>4, <1>5, <2>2, GuestStreamMoves DEF RoleStream
  <2>3. QED
    BY <2>1, <2>2
<1>8. ASSUME NEW u \in Tcp \ {t}
      PROVE  (Informed(u) /\ GreetsOnce(u) /\ AsksOnce(u) /\ RoleStream(u))'
  <2>1. /\ St(u)' = St(u) /\ Pc(u)' = Pc(u) /\ Saved(u)' = Saved(u) /\ client'[u] = client[u]
        /\ tcpThr'[u] = tcpThr[u] /\ udpRecv'[u] = udpRecv[u]
        /\ s2c'[u] = s2c[u] /\ peer'[u] = peer[u]
    BY <1>1 DEF Unmoved, MainKept, RecvKept, RecvIs, Quiet, St, Pc, Saved
  <2>2. Informed(u) /\ GreetsOnce(u) /\ AsksOnce(u) /\ RoleStream(u)
    BY <1>4
  <2>3. \A type : Told(u, type)' = Told(u, type)
    BY <1>2 DEF Told
  <2>4. Exchanges(u)' = Exchanges(u)
    BY <2>1 DEF Exchanges
  <2>5. Informed(u)'
    BY <1>2, <2>1, <2>2, <2>3, <2>4 DEF Informed
  <2>6. GreetsOnce(u)'
    BY <2>1, <2>2, <2>3 DEF GreetsOnce, GreetingStatus
  <2>7. AsksOnce(u)'
    BY <2>1, <2>2 DEF AsksOnce
  <2>8. RoleStream(u)'
    BY <1>2, <2>1, <2>2, <2>3, <2>4 DEF RoleStream, HostStream, GuestStream, HostActs, Engaged
  <2>9. QED
    BY <2>5, <2>6, <2>7, <2>8
<1>9. ClientInv'
  BY <1>6, <1>7, <1>8 DEF ClientInv
<1>10. NotStartedInv'
  BY <1>2, <1>5 DEF TInv, NotStartedInv, NotStarted, Told
<1>11. RoleInv'
  <2>1. \A u \in Tcp : link'[u] # "none" => link[u] # "none"
    <3>1. link' = link \/ (link' = [link EXCEPT ![t] = "shut"] /\ link[t] # "none")
      BY DEF ClientStep, C!ClientNext, C!MainThread, C!Begin, C!WakeUp, C!LoopEnds, C!Greet,
             C!AwaitGuest, C!Exchange, C!Punch, C!WaitSignalled, C!ExchangeTimeout,
             C!PunchTimeout, C!Round, C!TurnToRelay, C!EnterUDPLock, C!StopUDP, C!Close, C!At,
             C!SendPacket, C!TCPRecvThread, C!SetPunching, C!SetConnected, C!SetStatusEvent,
             C!RecvInit, C!RecvWaitResult, C!RecvConnectResult, C!RecvStartUDP,
             C!RecvClientInfo, C!RecvP2PResult, C!RecvProxyResult, C!RecvReset,
             C!TCPEndProcess, C!RecvHandshake, C!RecvKeepalive, C!UDPCallback, C!SendKeepalive,
             C!SendP2PResult, C!SetState, C!SetStopEvent, C!Skip, C!netVars
    <3>2. link \in [Tcp -> {"none", "up", "shut"}]
      BY DEF TInv, IInv, TypeOK
    <3>3. QED
      BY <3>1, <3>2
  <2>2. QED
    BY <1>5, <2>1 DEF TInv, RoleInv
<1>12. QED
  BY <1>9, <1>10, <1>11

-----------------------------------------------------------------------------
(* What a step of the server leaves true of a client                       *)

(* The server settles a client's class when it accepts its socket, and     *)
(* changes nothing else of the client.                                     *)
LEMMA PeerStays ==
    ASSUME IInv, ServerStep(ServerNext), NEW t \in Tcp
    PROVE  \/ /\ peer'[t] = peer[t]
              /\ link'[t] # "none" => link[t] # "none"
           \/ /\ thr[t].pc = "none"
              /\ UNCHANGED <<sent, conn>>
              /\ peer'[t].greeted = peer[t].greeted
              /\ peer'[t].asked = peer[t].asked
              /\ peer'[t].role = IF t \in Host THEN "HOST" ELSE "GUEST"
<1> DEFINE Good == peer'[t] = peer[t] /\ (link'[t] # "none" => link[t] # "none")
           Accepted == /\ thr[t].pc = "none"
                       /\ UNCHANGED <<sent, conn>>
                       /\ peer'[t].greeted = peer[t].greeted
                       /\ peer'[t].asked = peer[t].asked
                       /\ peer'[t].role = IF t \in Host THEN "HOST" ELSE "GUEST"
<1>1. /\ peer \in [Tcp -> [role : Role \cup {None}, keyword : Keyword \cup {None},
                           greeted : BOOLEAN, asked : Nat]]
      /\ link \in [Tcp -> {"none", "up", "shut"}]
      /\ m_P2PConnectList \in [Id -> Tcp \cup {None}]
  BY DEF IInv, TypeOK
<1>2. CASE UNCHANGED <<peer, link>>
  BY <1>2
<1>3. ASSUME NEW u \in Tcp, Accept(u) PROVE Good \/ Accepted
  <2>1. AcceptTCPSocketProcess(u)
    BY <1>3 DEF Accept
  <2>2. PICK r \in Role, k \in Keyword : peer' = [peer EXCEPT ![u].role = r, ![u].keyword = k]
    BY <2>1 DEF AcceptTCPSocketProcess
  <2>3. link' = [link EXCEPT ![u] = "up"] /\ link[u] = "none" /\ UNCHANGED <<sent, conn>>
    BY <2>1 DEF AcceptTCPSocketProcess
  <2>4. CASE u = t
    <3>1. peer'[t].greeted = peer[t].greeted /\ peer'[t].asked = peer[t].asked
      BY <1>1, <2>2, <2>4
    <3>2. peer'[t].role = IF t \in Host THEN "HOST" ELSE "GUEST"
      BY <1>3, <2>4 DEF Accept
    <3>3. thr[t].pc = "none"
      BY <2>3, <2>4 DEF IInv, ThreadInv
    <3>4. QED
      BY <2>3, <3>1, <3>2, <3>3
  <2>5. CASE u # t
    BY <1>1, <2>2, <2>3, <2>5
  <2>6. QED
    BY <2>4, <2>5
<1>4. ASSUME NEW why, Crash(why) PROVE Good
  BY <1>1, <1>4 DEF Crash
<1>5. ASSUME NEW u \in Tcp, RecvThread(u) PROVE Good
  <2>1. CASE TCPEndProcess(u)
    <3>1. UNCHANGED peer
      BY <2>1 DEF TCPEndProcess
    <3>2. \/ UNCHANGED link
          \/ \E i \in Id : m_P2PConnectList[i] # None /\ MainTCPDisconnect(m_P2PConnectList[i])
      BY <2>1 DEF TCPEndProcess
    <3>3. ASSUME NEW h \in Tcp, MainTCPDisconnect(h) PROVE Good
      <4>1. link' = [v \in Tcp |-> IF v = conn[h].guest THEN "shut" ELSE link[v]]
        BY <3>3 DEF MainTCPDisconnect, Done
      <4>2. t = conn[h].guest => link[t] # "none"
        BY NoneAssumption DEF IInv, SessionInv, ThreadInv, Live
      <4>3. QED
        BY <3>1, <4>1, <4>2
    <3>4. QED
      BY <1>1, <1>2, <3>1, <3>2, <3>3
  <2>2. CASE ~TCPEndProcess(u)
    BY <1>2, <1>4, <1>5, <2>2
       DEF RecvThread, Waiting, FindSession, Dispatch, DataProxy, TCPConnected, SetP2POK,
           TCPProxyRequest, Reply, RemoveTCPID, Refuse, netVars
  <2>3. QED
    BY <2>1, <2>2
<1>6. ASSUME NEW u \in Cut, ClientGone(u) PROVE Good
  BY <1>1, <1>6, SocketAssumption DEF ClientGone
<1>7. CASE CreateTCPID \/ RecvUDPPacketProcess \/ UDPListening \/ UDPConnected
  BY <1>2, <1>4, <1>7 DEF CreateTCPID, RecvUDPPacketProcess, UDPListening, UDPConnected,
                          IgnoreDatagram, netVars
<1>8. QED
  BY <1>3, <1>5, <1>6, <1>7 DEF ServerStep, ServerNext

(* How a session comes to have no guest, and to have one.                  *)
LEMMA GuestChanges ==
    ASSUME IInv, [Next]_vars, NEW h \in Tcp
    PROVE  /\ conn'[h].main = h /\ conn'[h].guest = None =>
                \/ conn[h].main = h /\ conn[h].guest = None
                \/ Opens(h) \/ GuestLeaves(h)
           /\ conn'[h].guest # None =>
                conn[h].guest # None \/ \E g \in Tcp : Joins(g, h)
<1>1. ASSUME conn'[h].main = h, conn'[h].guest = None
      PROVE  (conn[h].main = h /\ conn[h].guest = None) \/ Opens(h) \/ GuestLeaves(h)
  <2>1. ASSUME NEW k \in Tcp, SessionEvent(k), k # h PROVE conn'[h] = conn[h]
    BY <2>1 DEF SessionEvent, Opens, Joins, Listens, Punches, Confirms, Relays, GuestLeaves,
                HostLeaves, Becomes
  <2>2. ~Listens(h) /\ ~Punches(h) /\ ~Confirms(h) /\ ~HostLeaves(h)
        /\ \A g \in Tcp : ~Joins(g, h)
    BY <1>1, NoneAssumption
       DEF Listens, Punches, Confirms, HostLeaves, Joins, Held, Becomes
  <2>3. Relays(h) => conn'[h] = conn[h]
    BY DEF Relays
  <2>4. \A k \in Tcp : Admits(k) \/ Answers(k) => conn'[h] = conn[h]
    BY DEF Admits, Answers
  <2>5. conn'[h] = conn[h] \/ Opens(h) \/ GuestLeaves(h)
    BY <2>1, <2>2, <2>3, <2>4, Events DEF SessionEvent
  <2>6. QED
    BY <1>1, <2>5
<1>2. conn'[h].guest # None => conn[h].guest # None \/ \E g \in Tcp : Joins(g, h)
  BY PartySteps
<1>3. QED
  BY <1>1, <1>2

(* Whom the server sends TPT_START_UDP, and whom it opens the relay.       *)
LEMMA StartCause ==
    ASSUME IInv, NEW t \in Tcp, NEW p, p.type = "TPT_START_UDP", Cause(t, p)
    PROVE  IF peer[t].role = "HOST"
           THEN \E g \in Tcp : Joins(g, t)
           ELSE \E h \in Tcp : conn[h].guest = t /\ conn[h].status = P2P_TCP_CONNECTED
<1>1. \/ \E g \in Tcp : Joins(g, t)
      \/ \E h \in Tcp : Listens(h) /\ t = conn[h].guest
  BY DEF Cause, CreateTCPResultPkt, CreateP2PSuccessPkt, CreateTCPProxyResultPkt
<1>2. ASSUME NEW g \in Tcp, Joins(g, t) PROVE peer[t].role = "HOST"
  <2>1. conn[t].main = t
    BY <1>2 DEF Joins
  <2>2. QED
    BY <2>1, ListedFacts
<1>3. ASSUME NEW h \in Tcp, Listens(h), t = conn[h].guest
      PROVE  peer[t].role = "GUEST" /\ conn[h].status = P2P_TCP_CONNECTED
  BY <1>3, NoneAssumption DEF Listens, Held, IInv, SessionInv
<1>4. QED
  BY <1>1, <1>2, <1>3

(* The relay is opened for the two parties of a session that has begun.    *)
LEMMA OpenedBy ==
    ASSUME IInv, NEW t \in Tcp, NotStarted(t),
           sent'[t] = Ext!BagAdd(sent[t], Opened), Cause(t, Opened)
    PROVE  \E h \in Tcp : Relays(h) /\ t \in {h, conn[h].guest}
<1>1. Opened.type = "TPT_PROXY_RESULT" /\ Opened.Result = "NONE"
  BY DEF Opened, CreateTCPProxyResultPkt
<1>2. ~Answers(t)
  <2> SUFFICES ASSUME Answers(t) PROVE FALSE
    OBVIOUS
  <2>1. Reply(t)
    BY DEF Answers
  <2> DEFINE q == CASE thr[t].pkt = "TPT_WAITING" ->
                            CreateTCPResultPkt("TPT_WAIT_RESULT", thr[t].result)
                    [] thr[t].pkt = "TPT_CONNECT" ->
                            CreateTCPResultPkt("TPT_CONNECT_RESULT", thr[t].result)
                    [] OTHER -> CreateTCPProxyResultPkt(thr[t].result)
  <2>2. SendPacket(t, q)
    BY <2>1 DEF Reply
  <2>3. q.type = "TPT_PROXY_RESULT" =>
          thr[t].pkt # "TPT_WAITING" /\ q = CreateTCPProxyResultPkt(thr[t].result)
    BY DEF CreateTCPResultPkt
  <2> HIDE DEF q
  <2>4. sent'[t] = Ext!BagAdd(sent[t], q)
    BY <2>2, SendsOne DEF Sends
  <2>5. q = Opened
    BY <2>4, SentIs
  <2>6. thr[t].pkt # "TPT_WAITING" /\ thr[t].result = "NONE"
    BY <1>1, <2>3, <2>5 DEF CreateTCPProxyResultPkt
  <2>7. thr[t].pc = "reply"
    BY <2>1 DEF Reply
  <2>8. QED
    BY <2>6, <2>7 DEF NotStarted
<1>3. QED
  BY <1>1, <1>2 DEF Cause, CreateTCPResultPkt, CreateTCPStartUDPPkt, CreateP2PSuccessPkt

LEMMA OpenedCause ==
    ASSUME IInv, NEW t \in Tcp, NotStarted(t), peer[t].role = "HOST",
           sent'[t] = Ext!BagAdd(sent[t], Opened), Cause(t, Opened)
    PROVE  conn[t].guest # None
<1>1. PICK h \in Tcp : Relays(h) /\ t \in {h, conn[h].guest}
  BY OpenedBy
<1>2. conn[h].guest \in Tcp /\ conn[h].guest # None
  BY <1>1, NoneAssumption DEF Relays, Held
<1>3. peer[conn[h].guest].role = "GUEST"
  BY <1>2 DEF IInv, SessionInv
<1>4. QED
  BY <1>1, <1>2, <1>3

(* A step of the server keeps: what a client does, it was told to do.      *)
LEMMA InformedServed ==
    ASSUME IInv, [Next]_vars, Deliver, TunnelTypeOK, NEW t \in Tcp, Informed(t),
           UNCHANGED <<client, mainThr, tcpThr, udpRecv>>, peer'[t].asked = peer[t].asked
    PROVE  Informed(t)'
<1>1. IsABag(sent[t])
  BY DEF IInv, TypeOK, PacketBags
<1>2. s2c[t] \in ServerStream
  BY TunnelTypes
<1>3. BagToSet(sent[t]) \subseteq BagToSet(sent'[t])
  BY <1>1, DeliverSteps, BagGrows
<1>4. \A n \in 1 .. Len(s2c'[t]) : s2c'[t][n] \in BagToSet(sent'[t])
  <2>1. CASE sent'[t] = sent[t] /\ s2c'[t] = s2c[t]
    BY <2>1 DEF Informed
  <2>2. ASSUME NEW p, sent'[t] = Ext!BagAdd(sent[t], p), s2c'[t] = Append(s2c[t], p)
        PROVE  \A n \in 1 .. Len(s2c'[t]) : s2c'[t][n] \in BagToSet(sent'[t])
    <3>1. BagToSet(sent'[t]) = BagToSet(sent[t]) \cup {p}
      BY <1>1, <2>2, BagGrows
    <3>2. \A n \in 1 .. Len(s2c'[t]) :
            s2c'[t][n] = p \/ (n \in 1 .. Len(s2c[t]) /\ s2c'[t][n] = s2c[t][n])
      BY <1>2, <2>2 DEF ServerStream
    <3>3. QED
      BY <3>1, <3>2 DEF Informed
  <2>3. QED
    BY <2>1, <2>2, DeliverSteps
<1>5. \A type : Told(t, type) => Told(t, type)'
  BY <1>3 DEF Told
<1>6. Exchanges(t)' => Exchanges(t)
  BY DEF Exchanges, St, Saved, Pc
<1>7. QED
  BY <1>3, <1>4, <1>5, <1>6 DEF Informed, St, Saved

(* A client to which the server has sent nothing is as it began.           *)
LEMMA SilentClient ==
    ASSUME IInv, SilentInv, TunnelTypeOK, NEW t \in Tcp, Informed(t), GreetsOnce(t), Silent(t)
    PROVE  /\ St(t) = P2P_STATUS_NONE /\ s2c[t] = <<>>
           /\ \A type : ~Told(t, type)
           /\ peer[t].asked = 0
<1>1. BagToSet(sent[t]) = {}
  BY DEF SilentInv
<1>2. \A type : ~Told(t, type)
  BY <1>1 DEF Told
<1>3. s2c[t] \in ServerStream
  BY TunnelTypes
<1>4. s2c[t] = <<>>
  BY <1>1, <1>3, HeadPacket, TunnelTypes DEF Informed
<1>5. QED
  BY <1>2, <1>4 DEF GreetsOnce, Informed, Exchanges

(* A step of the server keeps: one greeting.                               *)
LEMMA GreetsOnceServed ==
    ASSUME IInv, SilentInv, GreetInv, [Next]_vars, Deliver, TunnelTypeOK, NEW t \in Tcp,
           Informed(t), GreetsOnce(t),
           UNCHANGED <<client, mainThr, tcpThr, udpRecv>>, peer'[t] = peer[t]
    PROVE  GreetsOnce(t)'
<1>1. IsABag(sent[t])
  BY DEF IInv, TypeOK, PacketBags
<1>2. s2c[t] \in ServerStream
  BY TunnelTypes
<1>3. \A type : Told(t, type) => Told(t, type)'
  BY <1>1, DeliverSteps, BagGrows DEF Told
<1>4. /\ St(t)' = St(t) /\ Pc(t)' = Pc(t) /\ Saved(t)' = Saved(t)
      /\ GreetingStatus(t)' = GreetingStatus(t)
  BY DEF St, Pc, Saved, GreetingStatus
<1>5. CASE sent'[t] = sent[t] /\ s2c'[t] = s2c[t]
  BY <1>3, <1>4, <1>5 DEF GreetsOnce
<1>6. ASSUME NEW p, sent'[t] = Ext!BagAdd(sent[t], p), Cause(t, p), s2c'[t] = Append(s2c[t], p)
      PROVE  GreetsOnce(t)'
  <2>1. p.type = "TPT_INIT" => Silent(t)
    BY <1>6 DEF Cause, Admits, Silent, CreateTCPResultPkt, CreateTCPStartUDPPkt,
                CreateP2PSuccessPkt, CreateTCPProxyResultPkt
  <2>2. ~peer[t].greeted => p.type = "TPT_INIT"
    <3>1. ~peer[t].greeted => OnlyInit(t)'
      BY MuteStays DEF GreetInv, GreetedOnce, Mute
    <3>2. p \in BagToSet(sent'[t])
      BY <1>1, <1>6, BagGrows
    <3>3. QED
      BY <3>1, <3>2 DEF OnlyInit
  <2>3. p.type = "TPT_INIT" => St(t) = P2P_STATUS_NONE /\ s2c[t] = <<>>
    BY <2>1, SilentClient
  <2>4. St(t) # P2P_STATUS_NONE => ~Has(s2c'[t], "TPT_INIT")
    <3>1. Has(s2c'[t], "TPT_INIT") => Has(s2c[t], "TPT_INIT") \/ p.type = "TPT_INIT"
      BY <1>2, <1>6, AppendStream
    <3>2. QED
      BY <2>3, <3>1 DEF GreetsOnce
  <2>5. ~peer[t].greeted => Len(s2c'[t]) <= 1
    BY <1>6, <2>2, <2>3
  <2>6. QED
    BY <1>3, <1>4, <2>4, <2>5 DEF GreetsOnce
<1>7. QED
  BY <1>5, <1>6, DeliverSteps

(* A step of the server keeps what may be under way to a guest.            *)
LEMMA GuestStreamServed ==
    ASSUME IInv, [Next]_vars, Deliver, TunnelTypeOK, NEW t \in Tcp, NotStarted(t),
           Informed(t), GuestStream(t), peer[t].role # "HOST", peer'[t] = peer[t],
           UNCHANGED <<client, mainThr, tcpThr, udpRecv>>
    PROVE  GuestStream(t)'
<1>1. s2c[t] \in ServerStream
  BY TunnelTypes
<1>2. Exchanges(t)' => Exchanges(t)
  BY DEF Exchanges, St, Saved, Pc
<1>3. CASE s2c'[t] = s2c[t]
  BY <1>2, <1>3 DEF GuestStream
<1>4. ASSUME NEW p, Cause(t, p), s2c'[t] = Append(s2c[t], p)
      PROVE  GuestStream(t)'
  <2>1. p.type = "TPT_START_UDP" => ~Told(t, "TPT_START_UDP")
    BY <1>4, StartCause DEF NotStarted
  <2>2. p.type = "TPT_START_UDP" => ~Has(s2c[t], "TPT_START_UDP") /\ ~Exchanges(t)
    BY <2>1 DEF Informed, Has, Told
  <2>3. Has(s2c'[t], "TPT_START_UDP") => Has(s2c[t], "TPT_START_UDP") \/ p.type = "TPT_START_UDP"
    BY <1>1, <1>4, AppendStream
  <2>4. AtMostOne(s2c'[t], "TPT_START_UDP")
    BY <1>1, <1>4, <2>2, AppendStream DEF GuestStream
  <2>5. QED
    BY <1>2, <2>2, <2>3, <2>4 DEF GuestStream
<1>5. QED
  BY <1>3, <1>4, DeliverSteps

(* A step of the server keeps what may be under way to a host.             *)
LEMMA HostStreamServed ==
    ASSUME IInv, GreetInv, [Next]_vars, Deliver, TunnelTypeOK, NEW t \in Tcp, NotStarted(t),
           Informed(t), HostStream(t), peer[t].role = "HOST", peer'[t] = peer[t],
           UNCHANGED <<client, mainThr, tcpThr, udpRecv>>
    PROVE  HostStream(t)'
<1>1. s2c[t] \in ServerStream /\ IsABag(sent[t])
  BY TunnelTypes DEF IInv, TypeOK, PacketBags
<1>2. /\ Engaged(t)' <=> Engaged(t)
      /\ HostActs(t)' => HostActs(t)
  BY DEF Engaged, HostActs, St, Saved, Pc
<1>3. Told(t, "TPT_START_UDP") => Told(t, "TPT_START_UDP")'
  BY <1>1, DeliverSteps, BagGrows DEF Told
<1>4. CASE sent'[t] = sent[t] /\ s2c'[t] = s2c[t]
  <2>1. \A g \in Tcp : ~Joins(g, t)
    BY <1>1, <1>4, BagAddTells DEF Joins, SendsBoth
  <2>2. ~GuestLeaves(t)
    BY <1>1, <1>4, BagAddTells DEF GuestLeaves, Sends
  <2>3. Opens(t) => ~Told(t, "TPT_START_UDP")
    <3>1. Opens(t) => Dispatch(t, "TPT_WAITING")
      BY DEF Opens, Waiting
    <3>2. Opens(t) => Asking(t)
      <4>1. c2s[t] \in Seq(ClientTCPType)
        BY DEF IInv, TypeOK
      <4>2. QED
        BY <3>1, <4>1, TailGreets DEF Dispatch, Asking, GreetingType
    <3>3. Opens(t) => conn[t].keyword = None
      BY <3>2 DEF GreetInv, GreetedOnce
    <3>4. QED
      BY <3>3 DEF NotStarted
  <2>4. ~Told(t, "TPT_START_UDP") => Followed(s2c[t]) /\ ~Engaged(t)
    BY DEF Followed, Is, Informed, Told, HostStream
  <2>5. conn'[t].main = t /\ conn'[t].guest = None =>
          /\ Followed(s2c[t])
          /\ Engaged(t) /\ ~client[t].stop => Has(s2c[t], "TPT_RESET")
    BY <2>2, <2>3, <2>4, GuestChanges DEF HostStream
  <2>6. conn'[t].guest # None => conn[t].guest # None
    BY <2>1, GuestChanges
  <2>7. QED
    BY <1>2, <1>3, <1>4, <2>5, <2>6 DEF HostStream
<1>5. ASSUME NEW p, sent'[t] = Ext!BagAdd(sent[t], p), Cause(t, p), s2c'[t] = Append(s2c[t], p)
      PROVE  HostStream(t)'
  <2> DEFINE s == s2c[t]
  <2>1. p.type = "TPT_START_UDP" => \E g \in Tcp : Joins(g, t)
    BY <1>5, StartCause
  <2>2. (\E g \in Tcp : Joins(g, t)) =>
          /\ conn[t].main = t /\ conn[t].guest = None /\ conn'[t].guest # None
          /\ p = CreateTCPStartUDPPkt
    <3> SUFFICES ASSUME NEW g \in Tcp, Joins(g, t)
                 PROVE  /\ conn[t].main = t /\ conn[t].guest = None /\ conn'[t].guest # None
                        /\ p = CreateTCPStartUDPPkt
      OBVIOUS
    <3>1. sent'[t] = Ext!BagAdd(sent[t], CreateTCPStartUDPPkt)
      BY DEF Joins, SendsBoth
    <3>2. p = CreateTCPStartUDPPkt
      BY <1>5, <3>1, SentIs
    <3>3. QED
      BY <3>2, NoneAssumption DEF Joins, Becomes
  <2>3. GuestLeaves(t) => p.type = "TPT_RESET"
    <3>1. GuestLeaves(t) => sent'[t] = Ext!BagAdd(sent[t], CreateTCPResultPkt("TPT_RESET", "NONE"))
      BY DEF GuestLeaves, Sends
    <3>2. QED
      BY <1>5, <3>1, SentIs DEF CreateTCPResultPkt
  <2>4. ~Opens(t)
    BY <1>1, <1>5, BagAddTells DEF Opens
  <2>5. p = Opened => conn[t].guest # None
    BY <1>5, OpenedCause
  <2>6. p.type = "TPT_START_UDP" =>
          /\ Followed(s)
          /\ Engaged(t) /\ ~client[t].stop => Has(s, "TPT_RESET")
    BY <2>1, <2>2 DEF HostStream
  <2>7. \A type : Has(s2c'[t], type) <=> Has(s, type) \/ p.type = type
    BY <1>1, <1>5, AppendStream
  <2> HIDE DEF s
  <2>8. Separated(s2c'[t])
    BY <1>1, <1>5, <2>6, AppendStream DEF HostStream, s
  <2>9. ASSUME conn'[t].main = t, conn'[t].guest = None
        PROVE  /\ Followed(s2c'[t])
               /\ Engaged(t) /\ ~client[t].stop => Has(s2c'[t], "TPT_RESET")
    <3>1. CASE conn[t].main = t /\ conn[t].guest = None
      <4>1. p.type # "TPT_START_UDP"
        BY <2>1, <2>2, <2>9
      <4>2. Followed(s) /\ (Engaged(t) /\ ~client[t].stop => Has(s, "TPT_RESET"))
        BY <3>1 DEF HostStream, s
      <4>3. Followed(s2c'[t])
        BY <1>1, <1>5, <4>1, <4>2, AppendStream DEF s
      <4>4. QED
        BY <2>7, <4>2, <4>3
    <3>2. CASE GuestLeaves(t)
      BY <1>1, <1>5, <2>3, <2>7, <3>2, AppendStream
    <3>3. QED
      BY <2>4, <2>9, <3>1, <3>2, GuestChanges
  <2>10. Engaged(t) /\ ~client[t].stop => Preceded(s2c'[t])
    BY <1>1, <1>5, <2>6, AppendStream DEF HostStream, s
  <2>11. ASSUME tcpThr[t] # "ended", ~Engaged(t)
         PROVE  /\ OpensLate(s2c'[t])
                /\ conn'[t].guest # None => Has(s2c'[t], "TPT_START_UDP")
    <3>1. OpensLate(s) /\ (conn[t].guest # None => Has(s, "TPT_START_UDP"))
      BY <2>11 DEF HostStream, s
    <3>2. OpensLate(s2c'[t])
      BY <1>1, <1>5, <2>5, <3>1, AppendStream DEF s
    <3>3. conn'[t].guest # None => conn[t].guest # None \/ p.type = "TPT_START_UDP"
      BY <2>2, GuestChanges DEF CreateTCPStartUDPPkt
    <3>4. QED
      BY <2>7, <3>1, <3>2, <3>3
  <2>12. QED
    BY <1>2, <1>3, <2>8, <2>9, <2>10, <2>11 DEF HostStream
<1>6. QED
  BY <1>4, <1>5, DeliverSteps

(* A step of the server keeps the clients' part of the invariant.          *)
LEMMA ServerInvStep ==
    ASSUME TInv, ServerStep(ServerNext)
    PROVE  ClientInv' /\ NotStartedInv' /\ RoleInv'
<1>1. /\ [Next]_vars /\ Deliver /\ UNCHANGED <<client, mainThr, tcpThr, udpRecv>>
      /\ IInv /\ SilentInv /\ GreetInv /\ TunnelTypeOK
  BY ServerSteps DEF ServerStep, TInv
<1>2. ASSUME NEW t \in Tcp
      PROVE  (Informed(t) /\ GreetsOnce(t) /\ AsksOnce(t) /\ RoleStream(t))'
  <2>1. Informed(t) /\ GreetsOnce(t) /\ AsksOnce(t) /\ RoleStream(t) /\ NotStarted(t)
    BY DEF TInv, ClientInv, NotStartedInv
  <2>2. CASE peer'[t] = peer[t]
    <3>1. Informed(t)'
      BY <1>1, <2>1, <2>2, InformedServed
    <3>2. GreetsOnce(t)'
      BY <1>1, <2>1, <2>2, GreetsOnceServed
    <3>3. AsksOnce(t)'
      BY <1>1, <2>1, <2>2 DEF AsksOnce, St, Saved, Pc
    <3>4. CASE peer[t].role = "HOST"
      BY <1>1, <2>1, <2>2, <3>1, <3>2, <3>3, <3>4, HostStreamServed DEF RoleStream
    <3>5. CASE peer[t].role # "HOST"
      BY <1>1, <2>1, <2>2, <3>1, <3>2, <3>3, <3>5, GuestStreamServed DEF RoleStream
    <3>6. QED
      BY <3>4, <3>5
  <2>3. CASE /\ thr[t].pc = "none" /\ UNCHANGED <<sent, conn>>
             /\ peer'[t].greeted = peer[t].greeted /\ peer'[t].asked = peer[t].asked
    <3>1. Silent(t)
      BY <2>3 DEF Silent
    <3>2. /\ St(t) = P2P_STATUS_NONE /\ s2c[t] = <<>> /\ peer[t].asked = 0
          /\ \A type : ~Told(t, type)
      BY <1>1, <2>1, <3>1, SilentClient
    <3>3. s2c'[t] = <<>>
      BY <1>1, <2>3, <3>2 DEF Deliver
    <3>4. Informed(t)'
      BY <1>1, <2>1, <2>3, InformedServed
    <3>5. /\ St(t)' = St(t) /\ Pc(t)' = Pc(t) /\ Saved(t)' = Saved(t)
          /\ ~Told(t, "TPT_START_UDP")'
      BY <1>1, <2>3, <3>2 DEF St, Pc, Saved, Told
    <3>6. GreetsOnce(t)'
      BY <1>1, <2>1, <2>3, <3>2, <3>3, <3>5 DEF GreetsOnce
    <3>7. AsksOnce(t)'
      BY <2>3, <3>2 DEF AsksOnce
    <3>8. ~Exchanges(t)' /\ ~Engaged(t)'
      BY <3>2, <3>4, <3>5 DEF Informed, Engaged
    <3>9. GuestStream(t)'
      BY <3>3, <3>8, EmptyStream DEF GuestStream
    <3>10. ~HostActs(t)'
      BY <1>1, <2>1, <2>3, <3>2, <3>5 DEF HostActs, GreetsOnce
    <3>11. conn'[t].guest = None
      BY <1>1, <2>3 DEF IInv, SessionInv, NoConnection
    <3>12. HostStream(t)'
      BY <3>3, <3>8, <3>10, <3>11, EmptyStream DEF HostStream
    <3>13. QED
      BY <3>4, <3>6, <3>7, <3>9, <3>12 DEF RoleStream
  <2>4. QED
    BY <1>1, <2>2, <2>3, PeerStays
<1>3. NotStartedInv'
  BY <1>1, NotStartedNext DEF TInv
<1>4. RoleInv'
  BY <1>1, PeerStays DEF TInv, RoleInv
<1>5. QED
  BY <1>2, <1>3, <1>4 DEF ClientInv

-----------------------------------------------------------------------------
(* The theorems                                                            *)

(* Nothing that the invariant speaks of changes.                           *)
LEMMA TunnelStutters ==
    ASSUME TInv, UNCHANGED tunnelVars
    PROVE  TunnelTypeOK' /\ ClientInv' /\ NotStartedInv' /\ RoleInv'
<1>1. UNCHANGED <<s2c, p2p, client, mainThr, tcpThr, udpRecv>> /\ UNCHANGED vars
  BY DEF tunnelVars, clientVars
<1>2. UNCHANGED <<link, peer, sent, conn, thr>>
  BY <1>1 DEF vars, netVars
<1>3. TunnelTypeOK'
  BY <1>1, TunnelTypes DEF TInv, TunnelTypeOK, C!ClientTypeOK
<1>4. ASSUME NEW t \in Tcp
      PROVE  (Informed(t) /\ GreetsOnce(t) /\ AsksOnce(t) /\ RoleStream(t))'
  <2>1. Informed(t) /\ GreetsOnce(t) /\ AsksOnce(t) /\ RoleStream(t)
    BY DEF TInv, ClientInv
  <2>2. Exchanges(t)' = Exchanges(t)
    BY <1>1, <1>2 DEF Exchanges, St, Saved, Pc
  <2>3. Informed(t)'
    BY <1>1, <1>2, <2>1, <2>2 DEF Informed, St, Saved, Told
  <2>4. GreetsOnce(t)'
    BY <1>1, <1>2, <2>1 DEF GreetsOnce, St, Saved, Pc, Told, GreetingStatus
  <2>5. AsksOnce(t)'
    BY <1>1, <1>2, <2>1 DEF AsksOnce, St, Saved, Pc
  <2>6. GuestStream(t)' = GuestStream(t)
    BY <1>1, <2>2 DEF GuestStream
  <2>7. /\ HostActs(t)' = HostActs(t) /\ Engaged(t)' = Engaged(t)
        /\ Told(t, "TPT_START_UDP")' = Told(t, "TPT_START_UDP")
    BY <1>1, <1>2 DEF HostActs, Engaged, St, Saved, Pc, Told
  <2>8. HostStream(t)' = HostStream(t)
    BY <1>1, <1>2, <2>7 DEF HostStream
  <2>9. RoleStream(t)'
    BY <1>2, <2>1, <2>6, <2>8 DEF RoleStream
  <2>10. QED
    BY <2>3, <2>4, <2>5, <2>9
<1>5. NotStartedInv'
  BY <1>2 DEF TInv, NotStartedInv, NotStarted, Told
<1>6. RoleInv'
  BY <1>2 DEF TInv, RoleInv
<1>7. QED
  BY <1>3, <1>4, <1>5, <1>6 DEF ClientInv

(* Every step of the whole is one of the server's model or none, and keeps *)
(* the invariant.                                                          *)
LEMMA TunnelStep == TInv /\ [TunnelNext]_tunnelVars => [Next]_vars /\ TInv'
<1> SUFFICES ASSUME TInv, [TunnelNext]_tunnelVars
             PROVE  [Next]_vars /\ TInv'
  OBVIOUS
<1>1. [Next]_vars /\ TunnelTypeOK' /\ ClientInv' /\ NotStartedInv' /\ RoleInv'
  <2>1. CASE ServerStep(ServerNext)
    BY <2>1, ServerSteps, ServerStepType, ServerInvStep DEF TInv
  <2>2. ASSUME NEW t \in Tcp, ClientStep(t, C!ClientNext(t))
        PROVE  [Next]_vars /\ TunnelTypeOK' /\ ClientInv' /\ NotStartedInv' /\ RoleInv'
    <3>1. TypeOK /\ TunnelTypeOK
      BY DEF TInv, IInv
    <3>2. QED
      BY <2>2, <3>1, ClientImplements, ClientStepType, ClientInvStep
  <2>3. CASE UNCHANGED tunnelVars
    <3>1. UNCHANGED vars
      BY <2>3 DEF tunnelVars
    <3>2. QED
      BY <2>3, <3>1, TunnelStutters
  <2>4. QED
    BY <2>1, <2>2, <2>3 DEF TunnelNext
<1>2. IInv' /\ SilentInv' /\ GreetInv' /\ OrderInv'
  BY <1>1, InvNext, SilentNext, GreetNext, OrderNext DEF TInv
<1>3. QED
  BY <1>1, <1>2 DEF TInv

(* The invariant of the whole system: what the server, its clients and the *)
(* packets between them agree on.                                          *)
THEOREM TunnelInvariance == TunnelSpec => []TInv
<1>1. TunnelInit => TInv
  BY TunnelInvInit
<1>2. TInv /\ [TunnelNext]_tunnelVars => TInv'
  BY TunnelStep
<1>3. QED
  BY <1>1, <1>2, PTL DEF TunnelSpec

(* The clients of P2PClient do nothing that P2PServer does not allow its   *)
(* own: one greeting, one request for the relay, and no packet of a client *)
(* before the packet of the server that it takes to send it.  What is      *)
(* proved of the server alone thus holds of the server among its clients.  *)
THEOREM TunnelImplementsServer == TunnelSpec => Spec
<1>1. TunnelInit => Init
  BY DEF TunnelInit
<1>2. TInv /\ [TunnelNext]_tunnelVars => [Next]_vars
  BY TunnelStep
<1>3. TunnelSpec => []TInv
  BY TunnelInvariance
<1>4. QED
  BY <1>1, <1>2, <1>3, PTL DEF TunnelSpec, Spec

(* Every member of a client, every packet and every datagram has its type, *)
(* and no handler begins a round beyond its last.                          *)
THEOREM TunnelTypeCorrectness == TunnelSpec => []TunnelTypeOK
<1>1. TInv => TunnelTypeOK
  BY DEF TInv
<1>2. QED
  BY <1>1, TunnelInvariance, PTL

(* An engaged host that has read all the server sent it was told to start, *)
(* so it has a session; the session is listed, for only a host that left   *)
(* has one that is not; and no TPT_RESET being under way, a guest is in it.*)
LEMMA EngagedHasGuest == TInv => HostNotStranded
<1> SUFFICES ASSUME TInv, NEW h \in Host, client[h].status > P2P_TCP_CONNECTED,
                    link[h] = "up", s2c[h] = <<>>, ~client[h].stop
             PROVE  Listed(h) /\ conn[h].guest # None
  BY DEF HostNotStranded
<1>1. h \in Tcp /\ peer[h].role = "HOST" /\ Engaged(h)
  BY SocketAssumption DEF TInv, RoleInv, Engaged, St
<1>2. HostStream(h) /\ NotStarted(h)
  BY <1>1 DEF TInv, ClientInv, RoleStream, NotStartedInv
<1>3. conn[h].keyword # None
  BY <1>1, <1>2 DEF HostStream, NotStarted
<1>4. conn[h].main = h
  BY <1>1, <1>3 DEF TInv, IInv, SessionInv, ThreadInv
<1>5. Listed(h)
  <2>1. m_P2PConnectList[conn[h].mainId] = h /\ conn[h].mainId \in Id
    BY <1>1, <1>4, ListedFacts DEF TInv
  <2>2. QED
    BY <2>1 DEF Listed
<1>6. conn[h].guest # None
  BY <1>1, <1>2, <1>4, EmptyStream DEF HostStream
<1>7. QED
  BY <1>5, <1>6

(* A host that takes itself for engaged, and was told nothing else, has    *)
(* its guest on the server too: P2PHost's status never outlives the        *)
(* session that TCPEndProcess and ConnTCPDisconnect take apart.            *)
THEOREM HostsKeepTheirGuests == TunnelSpec => []HostNotStranded
<1>1. TInv => HostNotStranded
  BY EngagedHasGuest
<1>2. QED
  BY <1>1, TunnelInvariance, PTL

-----------------------------------------------------------------------------
(* The addresses that TPT_CLIENT_INFO carries                              *)

(* The server sent x the address of y.                                     *)
Points(x, y) == \E i \in Id : CreateTCPStartPunchingPkt(i, y) \in BagToSet(sent[x])

(* The clients that were told to start the exchange of addresses, which    *)
(* alone have sent theirs.                                                 *)
Started == {t \in Tcp : Told(t, "TPT_START_UDP")}

Addresses ==
    /\ \A d \in udp : d.from \in Started
    /\ udpThr.pkt # None => udpThr.pkt.from \in Started
    /\ \A h \in Tcp : conn[h].mainUDP # None => conn[h].mainUDP \in Started

(* A host that was told to start and has no guest has lost one.            *)
LostGuest(h) ==
    peer[h].role = "HOST" /\ Told(h, "TPT_START_UDP") /\ conn[h].main = h /\ conn[h].guest = None
      => ~FirstGuest(h)

(* Whom the server sent the address of y: y's guest if y is a host, the    *)
(* host of y's session if y is a guest.                                    *)
PointsTo(x, y) ==
    Points(x, y) =>
      /\ Told(y, "TPT_START_UDP")
      /\ peer[y].role = "HOST" \/ peer[y].role = "GUEST"
      /\ peer[y].role = "HOST" /\ conn[y].main = y /\ FirstGuest(y) => conn[y].guest = x
      /\ peer[y].role = "GUEST" => \A h \in Tcp : conn[h].guest = y => x = h

PunchStatuses == {P2P_PUNCHING, P2P_CONNECTED}

(* A client is sent one address in a session.                              *)
PointsOnce(t) ==
    /\ \A u, v \in Tcp : Points(t, u) /\ Points(t, v)
         => u = v \/ (peer[t].role = "HOST" /\ ~FirstGuest(t))
    /\ \A u \in Tcp : Points(t, u) =>
         /\ peer[t].role = "HOST" /\ conn[t].main = t /\ FirstGuest(t)
              => conn[t].status \in PunchStatuses
         /\ \A h \in Tcp : conn[h].guest = t => conn[h].status \in PunchStatuses

PointInv ==
    /\ Addresses
    /\ \A t \in Tcp : LostGuest(t) /\ PointsOnce(t) /\ \A u \in Tcp : PointsTo(t, u)

(* What was sent stays sent, and what is new has a cause.                  *)
LEMMA ToldSteps ==
    ASSUME IInv, [Next]_vars, NEW t \in Tcp
    PROVE  /\ BagToSet(sent[t]) \subseteq BagToSet(sent'[t])
           /\ \A p \in BagToSet(sent'[t]) : p \in BagToSet(sent[t]) \/ Cause(t, p)
           /\ \A type : Told(t, type) => Told(t, type)'
<1>1. IsABag(sent[t])
  BY DEF IInv, TypeOK, PacketBags
<1>2. /\ BagToSet(sent[t]) \subseteq BagToSet(sent'[t])
      /\ \A p \in BagToSet(sent'[t]) : p \in BagToSet(sent[t]) \/ Cause(t, p)
  BY <1>1, SentSteps, BagGrows
<1>3. QED
  BY <1>2 DEF Told

(* Who is sent an address, and whose.                                      *)
LEMMA PointsSteps ==
    ASSUME IInv, [Next]_vars, NEW x \in Tcp, NEW y \in Tcp, Points(x, y)', ~Points(x, y)
    PROVE  \E h \in Tcp : /\ Punches(h)
                          /\ \/ x = h /\ y = udpThr.pkt.from
                             \/ x = conn[h].guest /\ y = conn[h].mainUDP
<1>1. PICK i \in Id : CreateTCPStartPunchingPkt(i, y) \in BagToSet(sent'[x])
  BY DEF Points
<1> DEFINE p == CreateTCPStartPunchingPkt(i, y)
<1>2. p.type = "TPT_CLIENT_INFO" /\ p.ClientInfo = y
  BY DEF CreateTCPStartPunchingPkt
<1>3. Cause(x, p)
  BY <1>1, ToldSteps DEF Points
<1> HIDE DEF p
<1>4. PICK h \in Tcp : /\ Punches(h) /\ x \in {h, conn[h].guest}
                       /\ p = CreateTCPStartPunchingPkt(conn[h].mainId,
                                IF x = h THEN udpThr.pkt.from ELSE conn[h].mainUDP)
  BY <1>2, <1>3 DEF Cause, CreateTCPStartUDPPkt, CreateTCPResultPkt, CreateP2PSuccessPkt,
                    CreateTCPProxyResultPkt
<1>5. p.ClientInfo = IF x = h THEN udpThr.pkt.from ELSE conn[h].mainUDP
  BY <1>4 DEF CreateTCPStartPunchingPkt
<1>6. QED
  BY <1>2, <1>4, <1>5

(* What a step does to one session.                                        *)
LEMMA SessionSteps ==
    ASSUME IInv, [Next]_vars, NEW h \in Tcp
    PROVE  \/ conn'[h] = conn[h]
           \/ Opens(h) \/ Listens(h) \/ Punches(h) \/ Confirms(h) \/ GuestLeaves(h) \/ HostLeaves(h)
           \/ \E g \in Tcp : Joins(g, h)
<1>1. ASSUME NEW k \in Tcp, SessionEvent(k), k # h PROVE conn'[h] = conn[h]
  BY <1>1 DEF SessionEvent, Opens, Joins, Listens, Punches, Confirms, Relays, GuestLeaves,
              HostLeaves, Becomes
<1>2. Relays(h) => conn'[h] = conn[h]
  BY DEF Relays
<1>3. ASSUME NEW k \in Tcp, Admits(k) \/ Answers(k) PROVE conn'[h] = conn[h]
  BY <1>3 DEF Admits, Answers
<1>4. QED
  BY <1>1, <1>2, <1>3, Events DEF SessionEvent

(* Where the datagrams at the server come from.                            *)
LEMMA DatagramSteps ==
    ASSUME IInv, [Next]_vars
    PROVE  /\ \A d \in udp' : d \in udp \/ d.from \in Started
           /\ udpThr'.pkt \in {udpThr.pkt, None} \cup udp
<1> DEFINE Good == /\ \A d \in udp' : d \in udp \/ d.from \in Started
                   /\ udpThr'.pkt \in {udpThr.pkt, None} \cup udp
<1>1. CASE UNCHANGED <<udp, udpThr>>
  BY <1>1
<1>2. ASSUME NEW t \in Tcp, SendUDPToServer(t) PROVE Good
  BY <1>2 DEF SendUDPToServer, Started
<1>3. CASE RecvUDPPacketProcess
  <2>1. UNCHANGED udp /\ \E d \in udp : udpThr'.pkt = d
    BY <1>3 DEF RecvUDPPacketProcess, netVars
  <2>2. QED
    BY <2>1
<1>4. CASE UDPListening \/ UDPConnected
  <2>1. UNCHANGED udp /\ (udpThr' = udpThr \/ udpThr' = UDPIdle)
    BY <1>4 DEF UDPListening, UDPConnected, IgnoreDatagram, Crash, netVars
  <2>2. QED
    BY <2>1 DEF UDPIdle
<1>5. ASSUME NEW t \in Tcp, RecvThread(t) PROVE UNCHANGED <<udp, udpThr>>
  BY <1>5 DEF RecvThread, Waiting, FindSession, DataProxy, TCPConnected, SetP2POK, TCPProxyRequest,
              Reply, TCPEndProcess, RemoveTCPID, Refuse, Crash, Dispatch, netVars
<1>6. ASSUME NEW t \in Tcp, Client(t) PROVE Good
  BY <1>1, <1>2, <1>6 DEF Client, ClientSend, ClientGone
<1>7. QED
  BY <1>1, <1>3, <1>4, <1>5, <1>6
     DEF Next, AcceptTCPSocketProcess, CreateTCPID, vars, netVars

(* What a step does to the host's address and the two flags.               *)
LEMMA MemberSteps ==
    ASSUME IInv, [Next]_vars, NEW h \in Tcp
    PROVE  /\ \/ conn'[h].mainUDP \in {conn[h].mainUDP, None}
              \/ udpThr.pkt # None /\ conn'[h].mainUDP = udpThr.pkt.from
           /\ conn'[h].mainOK => conn[h].mainOK \/ At(h, "TPT_P2P_RESULT")
           /\ conn'[h].guestOK => \/ conn[h].guestOK
                                  \/ conn[h].guest # None /\ At(conn[h].guest, "TPT_P2P_RESULT")
<1> DEFINE From(d) ==
             /\ \/ d.mainUDP \in {conn[h].mainUDP, None}
                \/ udpThr.pkt # None /\ d.mainUDP = udpThr.pkt.from
             /\ d.mainOK => conn[h].mainOK \/ At(h, "TPT_P2P_RESULT")
             /\ d.guestOK => \/ conn[h].guestOK
                             \/ conn[h].guest # None /\ At(conn[h].guest, "TPT_P2P_RESULT")
<1>1. conn \in [Tcp -> Connection] /\ conn[h].main \in {None, h}
  BY DEF IInv, TypeOK, SessionInv
<1>2. CASE conn'[h] = conn[h]
  BY <1>2
<1>3. ASSUME NEW k \in Tcp, NEW d, conn' = [conn EXCEPT ![k] = d], k = h => From(d)
      PROVE  From(conn'[h])
  BY <1>1, <1>2, <1>3
<1>4. ASSUME NEW t \in Tcp, Waiting(t) PROVE From(conn'[h])
  <2>1. ASSUME NEW i \in Id,
               conn' = [conn EXCEPT ![t] =
                  [NoConnection EXCEPT !.keyword = peer[t].keyword, !.main = t,
                                       !.mainId = i, !.status = P2P_TCP_LISTENING]]
        PROVE  From(conn'[h])
    <3> DEFINE d == [NoConnection EXCEPT !.keyword = peer[t].keyword, !.main = t,
                                         !.mainId = i, !.status = P2P_TCP_LISTENING]
    <3>1. d.mainUDP = None /\ d.mainOK = FALSE /\ d.guestOK = FALSE
      BY DEF NoConnection
    <3> HIDE DEF d
    <3>2. QED
      BY <1>3, <2>1, <3>1 DEF d
  <2>2. QED
    BY <1>2, <1>4, <2>1 DEF Waiting
<1>5. ASSUME NEW t \in Tcp, TCPConnected(t) PROVE From(conn'[h])
  <2>1. PICK k \in Tcp : k = thr[t].p2p
    BY <1>5, AtFacts DEF TCPConnected
  <2> DEFINE d == [conn[k] EXCEPT !.guest = t, !.mainUDP = None, !.guestUDP = None,
                                  !.status = P2P_TCP_CONNECTED]
  <2>2. d.mainUDP = None /\ d.mainOK = conn[k].mainOK /\ d.guestOK = conn[k].guestOK
    BY <1>1 DEF Connection
  <2>3. UNCHANGED conn \/ conn' = [conn EXCEPT ![k] = d]
    BY <1>5, <2>1 DEF TCPConnected, Refuse, Crash
  <2> HIDE DEF d
  <2>4. QED
    BY <1>2, <1>3, <2>2, <2>3
<1>6. ASSUME NEW t \in Tcp, SetP2POK(t) PROVE From(conn'[h])
  <2>1. PICK k \in Tcp : k = thr[t].p2p /\ At(t, "TPT_P2P_RESULT")
    BY <1>6, AtFacts DEF SetP2POK
  <2> DEFINE f == [conn[k] EXCEPT !.mainOK = @ \/ conn[k].main = t,
                                  !.guestOK = @ \/ conn[k].guest = t]
             d == [f EXCEPT !.status = IF BothOK(f) THEN P2P_CONNECTED ELSE @]
  <2>2. /\ f.mainUDP = conn[k].mainUDP
        /\ f.mainOK = (conn[k].mainOK \/ conn[k].main = t)
        /\ f.guestOK = (conn[k].guestOK \/ conn[k].guest = t)
        /\ DOMAIN f = {"keyword", "status", "main", "mainId", "mainOK", "mainUDP",
                       "guest", "guestOK", "guestUDP"}
    BY <1>1 DEF Connection
  <2>3. UNCHANGED conn \/ conn' = [conn EXCEPT ![k] = d]
    BY <1>6, <2>1 DEF SetP2POK, Refuse, Crash
  <2> HIDE DEF f
  <2>4. d.mainUDP = f.mainUDP /\ d.mainOK = f.mainOK /\ d.guestOK = f.guestOK
    BY <2>2
  <2> HIDE DEF d
  <2>5. k = h => From(d)
    BY <1>1, <2>1, <2>2, <2>4, NoneAssumption
  <2>6. QED
    BY <1>2, <1>3, <2>3, <2>5
<1>7. ASSUME NEW t \in Tcp, TCPEndProcess(t) PROVE From(conn'[h])
  <2>1. ASSUME NEW i \in Id, m_P2PConnectList[i] # None,
               \/ ConnTCPDisconnect(m_P2PConnectList[i])
               \/ MainTCPDisconnect(m_P2PConnectList[i])
        PROVE  From(conn'[h])
    <3>1. PICK k \in Tcp : k = m_P2PConnectList[i]
      BY <2>1 DEF IInv, TypeOK
    <3>2. \/ UNCHANGED conn
          \/ conn' = [conn EXCEPT ![k] = WithoutGuest(conn[k])]
          \/ conn' = [conn EXCEPT ![k] = WithoutHost(conn[k])]
      BY <2>1, <3>1 DEF ConnTCPDisconnect, MainTCPDisconnect
    <3>3. \A d \in {WithoutGuest(conn[k]), WithoutHost(conn[k])} :
            d.mainUDP = None /\ d.mainOK = conn[k].mainOK /\ d.guestOK = conn[k].guestOK
      BY <1>1 DEF Connection, WithoutGuest, WithoutHost
    <3>4. QED
      BY <1>2, <1>3, <3>2, <3>3
  <2>2. QED
    BY <1>2, <1>7, <2>1 DEF TCPEndProcess
<1>8. CASE UDPListening \/ UDPConnected
  <2>1. PICK k \in Tcp : k = udpThr.p2p
    BY <1>8, HoldsFacts DEF UDPListening, UDPConnected, ServerUDPType
  <2>2. udpThr.pkt # None
    BY <1>8 DEF UDPListening, UDPConnected, Holds
  <2> DEFINE a == [conn[k] EXCEPT !.mainUDP = udpThr.pkt.from, !.status = P2P_UDP_LISTENING]
             b == [conn[k] EXCEPT !.guestUDP = udpThr.pkt.from, !.status = P2P_PUNCHING]
  <2>3. /\ a.mainUDP = udpThr.pkt.from /\ a.mainOK = conn[k].mainOK /\ a.guestOK = conn[k].guestOK
        /\ b.mainUDP = conn[k].mainUDP /\ b.mainOK = conn[k].mainOK /\ b.guestOK = conn[k].guestOK
    BY <1>1 DEF Connection
  <2>4. UNCHANGED conn \/ conn' = [conn EXCEPT ![k] = a] \/ conn' = [conn EXCEPT ![k] = b]
    BY <1>8, <2>1 DEF UDPListening, UDPConnected, IgnoreDatagram, Crash
  <2> HIDE DEF a, b
  <2>5. k = h => From(a) /\ From(b)
    BY <2>2, <2>3
  <2>6. QED
    BY <1>2, <1>3, <2>4, <2>5
<1>9. ASSUME NEW t \in Tcp, RecvThread(t) PROVE From(conn'[h])
  BY <1>2, <1>4, <1>5, <1>6, <1>7, <1>9
     DEF RecvThread, FindSession, DataProxy, TCPProxyRequest, Reply, RemoveTCPID, Refuse, Crash
<1>10. QED
  BY <1>2, <1>8, <1>9
     DEF Next, AcceptTCPSocketProcess, Client, ClientSend, SendUDPToServer, ClientGone, CreateTCPID,
         RecvUDPPacketProcess, vars

ServerInv == IInv /\ SilentInv /\ GreetInv /\ OrderInv /\ NotStartedInv

(* Who is told to start for the first time.                                *)
LEMMA StartSteps ==
    ASSUME IInv, [Next]_vars, NEW t \in Tcp, Told(t, "TPT_START_UDP")'
    PROVE  \/ Told(t, "TPT_START_UDP")
           \/ \E g \in Tcp : Joins(g, t)
           \/ \E h \in Tcp : Listens(h) /\ t = conn[h].guest
<1>1. PICK p \in BagToSet(sent'[t]) : p.type = "TPT_START_UDP"
  BY DEF Told
<1>2. p \in BagToSet(sent[t]) \/ Cause(t, p)
  BY <1>1, ToldSteps
<1>3. QED
  BY <1>1, <1>2 DEF Told, Cause, CreateTCPResultPkt, CreateP2PSuccessPkt, CreateTCPProxyResultPkt

(* A client that was sent more than its id keeps its role.                 *)
LEMMA RoleKept ==
    ASSUME IInv, SilentInv, [Next]_vars, NEW t \in Tcp, NEW type, Told(t, type)', type # "TPT_INIT"
    PROVE  peer'[t].role = peer[t].role
<1>1. CASE OnlyInit(t) /\ UNCHANGED sent
  BY <1>1 DEF Told, OnlyInit
<1>2. QED
  BY <1>1, RoleSteps DEF OnlyInit

(* Sessions of one keyword are one session.                                *)
LEMMA SameKeyword ==
    ASSUME IInv, NEW g \in Tcp, NEW h \in Tcp, conn[g].main # None, conn[h].main # None,
           conn[g].keyword = conn[h].keyword
    PROVE  g = h
<1>1. /\ conn[g].mainId \in Id /\ m_P2PConnectList[conn[g].mainId] = g
      /\ conn[h].mainId \in Id /\ m_P2PConnectList[conn[h].mainId] = h
  BY ListedFacts
<1>2. QED
  BY <1>1, NoneAssumption DEF IInv, UniqueKeyword

(* No CLIENT_INFO without a START_UDP.                                     *)
LEMMA InfoAfterStart ==
    ASSUME IInv, OrderInv, NEW t \in Tcp, Told(t, "TPT_CLIENT_INFO")
    PROVE  Told(t, "TPT_START_UDP")
<1>1. Ordered(t) /\ IsABag(sent[t])
  BY DEF OrderInv, IInv, TypeOK, PacketBags
<1>2. /\ Count(t, "TPT_CLIENT_INFO") \in Nat /\ Count(t, "TPT_CLIENT_INFO") > 0
      /\ Count(t, "TPT_START_UDP") \in Nat
  BY <1>1, CountNat DEF Ordered
<1>3. Count(t, "TPT_START_UDP") > 0
  BY <1>1, <1>2 DEF Ordered
<1>4. QED
  BY <1>1, <1>3, CountNat DEF Ordered

(* A client that opens its session has none yet, so its flags are down.    *)
LEMMA OpensClean ==
    ASSUME IInv, GreetInv, NEW h \in Tcp, Opens(h)
    PROVE  conn[h] = NoConnection
<1>1. Dispatch(h, "TPT_WAITING")
  BY DEF Opens, Waiting
<1>2. c2s[h] \in Seq(ClientTCPType) /\ c2s[h] # <<>> /\ Head(c2s[h]) = "TPT_WAITING"
  BY <1>1 DEF IInv, TypeOK, Dispatch
<1>3. Asking(h)
  BY <1>2, TailGreets DEF Asking, GreetingType
<1>4. conn[h].keyword = None
  BY <1>3 DEF GreetInv, GreetedOnce
<1>5. QED
  BY <1>4 DEF IInv, SessionInv

(* A guest that joins, and a host that opens its session, were not told to *)
(* start.                                                                  *)
LEMMA JoinsAfresh ==
    ASSUME IInv, OrderInv, NEW g \in Tcp, NEW h \in Tcp, Joins(g, h)
    PROVE  ~Told(g, "TPT_START_UDP") /\ peer[g].role = "GUEST"
<1>1. Joining(g) /\ peer[g].role = "GUEST"
  BY AtFacts DEF Joins, TCPConnected, At, Joining
<1>2. Ordered(g) /\ IsABag(sent[g])
  BY DEF OrderInv, IInv, TypeOK, PacketBags
<1>3. ~(Count(g, "TPT_START_UDP") > 0)
  BY <1>1, <1>2 DEF Ordered
<1>4. QED
  BY <1>1, <1>2, <1>3, CountNat DEF Ordered

LEMMA OpensAfresh ==
    ASSUME IInv, GreetInv, NotStartedInv, NEW h \in Tcp, Opens(h)
    PROVE  ~Told(h, "TPT_START_UDP")
<1>1. peer[h].role = "HOST"
  BY DispatchFacts DEF Opens, Waiting
<1>2. conn[h].keyword = None
  BY OpensClean DEF NoConnection
<1>3. QED
  BY <1>1, <1>2 DEF NotStartedInv, NotStarted

(* A host learns that its guest left.                                      *)
LEMMA LeavesTold ==
    ASSUME IInv, NEW h \in Tcp, GuestLeaves(h)
    PROVE  ~FirstGuest(h)'
<1> DEFINE p == CreateTCPResultPkt("TPT_RESET", "NONE")
<1>1. sent'[h] = Ext!BagAdd(sent[h], p) /\ IsABag(sent[h])
  BY DEF GuestLeaves, Sends, IInv, TypeOK, PacketBags
<1>2. p \in BagToSet(sent'[h]) /\ p.type = "TPT_RESET"
  BY <1>1, BagGrows DEF CreateTCPResultPkt
<1>3. QED
  BY <1>2 DEF FirstGuest, Told

(* A host that was told to start has its session, and a step leaves it so  *)
(* or costs it its guest.                                                  *)
LEMMA HostSteps ==
    ASSUME ServerInv, [Next]_vars, NEW h \in Tcp, Told(h, "TPT_START_UDP"),
           conn'[h].main = h, FirstGuest(h)'
    PROVE  /\ conn[h].main = h /\ FirstGuest(h)
           /\ \/ conn'[h] = conn[h]
              \/ Listens(h) \/ Punches(h) \/ Confirms(h)
              \/ \E g \in Tcp : Joins(g, h)
<1>1. FirstGuest(h)
  BY ToldSteps DEF FirstGuest, ServerInv
<1>2. ~Opens(h)
  BY OpensAfresh DEF ServerInv
<1>3. ~GuestLeaves(h)
  BY LeavesTold DEF ServerInv
<1>4. ~HostLeaves(h)
  BY NoneAssumption DEF HostLeaves, Becomes
<1>5. \/ conn'[h] = conn[h]
      \/ Listens(h) \/ Punches(h) \/ Confirms(h)
      \/ \E g \in Tcp : Joins(g, h)
  BY <1>2, <1>3, <1>4, SessionSteps DEF ServerInv
<1>6. conn[h].main = h
  BY <1>5 DEF Listens, Punches, Confirms, Held, Joins
<1>7. QED
  BY <1>1, <1>5, <1>6

(* The session of a guest that was told to start is the one it was in.     *)
LEMMA GuestStays ==
    ASSUME ServerInv, [Next]_vars, NEW t \in Tcp, Told(t, "TPT_START_UDP"),
           NEW h \in Tcp, conn'[h].guest = t
    PROVE  /\ conn[h].guest = t
           /\ \/ conn'[h] = conn[h]
              \/ Listens(h) \/ Punches(h) \/ Confirms(h)
<1>1. ~Joins(t, h)
  BY JoinsAfresh DEF ServerInv
<1>2. conn[h].guest = t
  BY <1>1, PartySteps, NoneAssumption DEF ServerInv
<1>3. ~Opens(h) /\ ~GuestLeaves(h) /\ ~HostLeaves(h) /\ \A g \in Tcp : ~Joins(g, h)
  BY <1>2, NoneAssumption DEF Opens, GuestLeaves, HostLeaves, Joins, Becomes
<1>4. QED
  BY <1>2, <1>3, SessionSteps DEF ServerInv

LEMMA AddressesNext ==
    ASSUME IInv, Addresses, [Next]_vars
    PROVE  Addresses'
<1>1. Started \subseteq Started'
  BY ToldSteps DEF Started
<1>2. \A d \in udp' : d.from \in Started'
  BY <1>1, DatagramSteps DEF Addresses
<1>3. udpThr'.pkt # None => udpThr'.pkt.from \in Started'
  BY <1>1, DatagramSteps DEF Addresses
<1>4. \A h \in Tcp : conn'[h].mainUDP # None => conn'[h].mainUDP \in Started'
  BY <1>1, MemberSteps DEF Addresses
<1>5. QED
  BY <1>2, <1>3, <1>4 DEF Addresses

LEMMA LostGuestNext ==
    ASSUME ServerInv, [Next]_vars, NEW h \in Tcp, LostGuest(h)
    PROVE  LostGuest(h)'
<1> SUFFICES ASSUME peer'[h].role = "HOST", Told(h, "TPT_START_UDP")', FirstGuest(h)',
                    conn'[h].main = h, conn'[h].guest = None
             PROVE  FALSE
  BY DEF LostGuest
<1>1. peer[h].role = "HOST"
  BY RoleKept DEF ServerInv
<1>2. Told(h, "TPT_START_UDP")
  <2>1. \A g \in Tcp : ~Joins(g, h)
    BY NoneAssumption DEF Joins, Becomes
  <2>2. ASSUME NEW k \in Tcp, Listens(k), h = conn[k].guest PROVE FALSE
    BY <1>1, <2>2, NoneAssumption DEF ServerInv, IInv, SessionInv
  <2>3. QED
    BY <2>1, <2>2, StartSteps DEF ServerInv
<1>3. /\ conn[h].main = h /\ FirstGuest(h)
      /\ \/ conn'[h] = conn[h]
         \/ Listens(h) \/ Punches(h) \/ Confirms(h)
         \/ \E g \in Tcp : Joins(g, h)
  BY <1>2, HostSteps
<1>4. conn'[h] = conn[h]
  BY <1>3, NoneAssumption DEF Listens, Punches, Confirms, Joins, Held, Becomes
<1>5. QED
  BY <1>1, <1>2, <1>3, <1>4 DEF LostGuest

(* The addresses that are sent: one of the guest, one of the host.         *)
LEMMA PunchFacts ==
    ASSUME IInv, Addresses, [Next]_vars, NEW h \in Tcp, Punches(h)
    PROVE  LET u == udpThr.pkt.from
               v == conn[h].mainUDP
           IN  /\ u \in Tcp /\ peer[u].role = "GUEST" /\ peer[u].keyword = conn[h].keyword
               /\ v \in Tcp /\ peer[v].role = "HOST" /\ peer[v].keyword = conn[h].keyword
               /\ Told(u, "TPT_START_UDP") /\ Told(v, "TPT_START_UDP")
<1> DEFINE u == udpThr.pkt.from
           v == conn[h].mainUDP
<1>1. u \in Tcp /\ v \in Tcp /\ Holds("UPT_CONNECT") /\ udpThr.p2p = h
  BY DEF Punches
<1>2. udpThr.pkt # None /\ udpThr.pkt.type = "UPT_CONNECT"
  BY <1>1 DEF Holds
<1>3. peer[u].role = "GUEST" /\ peer[u].keyword = conn[h].keyword
  BY <1>1, <1>2 DEF IInv, UDPInv, FromClient
<1>4. peer[v].role = "HOST" /\ peer[v].keyword = conn[h].keyword
  BY DEF Punches, Held, IInv, AddressInv, P2P_UDP_LISTENING
<1>5. QED
  BY <1>1, <1>2, <1>3, <1>4, NoneAssumption DEF Addresses, Started

(* An address sent is that of a client that was sent START_UDP; the one it *)
(* was sent to was too, and neither changes its role.                      *)
LEMMA PointsStarted ==
    ASSUME IInv, OrderInv, NEW x \in Tcp, NEW y, Points(x, y)
    PROVE  Told(x, "TPT_CLIENT_INFO") /\ Told(x, "TPT_START_UDP")
<1>1. Told(x, "TPT_CLIENT_INFO")
  BY DEF Points, Told, CreateTCPStartPunchingPkt
<1>2. QED
  BY <1>1, InfoAfterStart

LEMMA PointsToNext ==
    ASSUME ServerInv, Addresses, [Next]_vars, NEW x \in Tcp, NEW y \in Tcp, PointsTo(x, y)
    PROVE  PointsTo(x, y)'
<1> SUFFICES ASSUME Points(x, y)'
             PROVE  /\ Told(y, "TPT_START_UDP")'
                    /\ peer'[y].role = "HOST" \/ peer'[y].role = "GUEST"
                    /\ peer'[y].role = "HOST" /\ conn'[y].main = y /\ FirstGuest(y)'
                         => conn'[y].guest = x
                    /\ peer'[y].role = "GUEST" => \A h \in Tcp : conn'[h].guest = y => x = h
  BY DEF PointsTo
<1>1. IInv /\ SilentInv
  BY DEF ServerInv
<1>2. CASE Points(x, y)
  <2>1. Told(y, "TPT_START_UDP") /\ Told(y, "TPT_START_UDP")'
    BY <1>1, <1>2, ToldSteps DEF PointsTo
  <2>2. peer'[y].role = peer[y].role
    BY <1>1, <2>1, RoleKept
  <2>3. ASSUME peer[y].role = "HOST", conn'[y].main = y, FirstGuest(y)'
        PROVE  conn'[y].guest = x
    <3>1. /\ conn[y].main = y /\ FirstGuest(y)
          /\ \/ conn'[y] = conn[y]
             \/ Listens(y) \/ Punches(y) \/ Confirms(y)
             \/ \E g \in Tcp : Joins(g, y)
      BY <2>1, <2>3, HostSteps
    <3>2. conn[y].guest = x
      BY <1>2, <2>3, <3>1 DEF PointsTo
    <3>3. \A g \in Tcp : ~Joins(g, y)
      BY <3>2, NoneAssumption DEF Joins
    <3>4. QED
      BY <3>1, <3>2, <3>3 DEF Listens, Punches, Confirms, Becomes
  <2>4. ASSUME peer[y].role = "GUEST", NEW h \in Tcp, conn'[h].guest = y
        PROVE  x = h
    BY <1>2, <2>1, <2>4, GuestStays DEF PointsTo
  <2>5. QED
    BY <1>2, <2>1, <2>2, <2>3, <2>4 DEF PointsTo
<1>3. CASE ~Points(x, y)
  <2>1. PICK h \in Tcp : /\ Punches(h)
                         /\ \/ x = h /\ y = udpThr.pkt.from
                            \/ x = conn[h].guest /\ y = conn[h].mainUDP
    BY <1>1, <1>3, PointsSteps
  <2>2. /\ Told(y, "TPT_START_UDP") /\ Told(y, "TPT_START_UDP")'
        /\ peer[y].keyword = conn[h].keyword
        /\ IF x = h /\ y = udpThr.pkt.from THEN peer[y].role = "GUEST"
           ELSE x = conn[h].guest /\ peer[y].role = "HOST"
    BY <1>1, <2>1, PunchFacts, ToldSteps
  <2>3. peer'[y].role = peer[y].role
    BY <1>1, <2>2, RoleKept
  <2>4. /\ conn[h].main = h /\ conn'[h].guest = conn[h].guest
        /\ \A k \in Tcp \ {h} : conn'[k] = conn[k]
    BY <2>1 DEF Punches, Held, Becomes
  <2>5. ASSUME peer[y].role = "HOST", conn'[y].main = y
        PROVE  conn'[y].guest = x
    <3>1. CASE y = h
      BY <2>2, <2>4, <2>5, <3>1
    <3>2. CASE y # h
      <4>1. conn[y].main = y /\ conn[y].keyword = conn[h].keyword
        BY <1>1, <2>2, <2>4, <2>5, <3>2, ListedFacts
      <4>2. QED
        BY <1>1, <2>4, <3>2, <4>1, SameKeyword, NoneAssumption
    <3>3. QED
      BY <3>1, <3>2
  <2>6. ASSUME peer[y].role = "GUEST", NEW k \in Tcp, conn'[k].guest = y
        PROVE  x = k
    <3>1. conn[k].guest = y /\ y # None
      BY <2>4, <2>6, NoneAssumption
    <3>2. conn[k].main # None /\ conn[k].keyword = conn[h].keyword
      BY <1>1, <2>2, <3>1 DEF IInv, SessionInv
    <3>3. k = h
      BY <1>1, <2>4, <3>2, SameKeyword, NoneAssumption
    <3>4. QED
      BY <2>2, <2>6, <3>3
  <2>7. QED
    BY <2>2, <2>3, <2>5, <2>6
<1>4. QED
  BY <1>2, <1>3

LEMMA PunchedStays ==
    ASSUME ServerInv, [Next]_vars, NEW t \in Tcp, PointsOnce(t), NEW u \in Tcp, Points(t, u)'
    PROVE  /\ peer'[t].role = "HOST" /\ conn'[t].main = t /\ FirstGuest(t)'
                => conn'[t].status \in PunchStatuses
           /\ \A h \in Tcp : conn'[h].guest = t => conn'[h].status \in PunchStatuses
<1>1. IInv /\ SilentInv /\ OrderInv
  BY DEF ServerInv
<1>2. \A h \in Tcp : Punches(h) \/ Confirms(h) => conn'[h].status \in PunchStatuses
  BY DEF Punches, Confirms, Becomes, PunchStatuses
<1>3. P2P_TCP_CONNECTED \notin PunchStatuses /\ P2P_UDP_LISTENING \notin PunchStatuses
      /\ \A s \in PunchStatuses : s >= P2P_TCP_CONNECTED
  BY DEF PunchStatuses, P2P_PUNCHING, P2P_CONNECTED, P2P_TCP_CONNECTED, P2P_UDP_LISTENING
<1>4. CASE Points(t, u)
  <2>1. Told(t, "TPT_START_UDP") /\ Told(t, "TPT_START_UDP")'
    BY <1>1, <1>4, PointsStarted, ToldSteps
  <2>2. peer'[t].role = peer[t].role
    BY <1>1, <2>1, RoleKept
  <2>3. ASSUME peer[t].role = "HOST", conn'[t].main = t, FirstGuest(t)'
        PROVE  conn'[t].status \in PunchStatuses
    <3>1. /\ conn[t].main = t /\ FirstGuest(t)
          /\ \/ conn'[t] = conn[t]
             \/ Listens(t) \/ Punches(t) \/ Confirms(t)
             \/ \E g \in Tcp : Joins(g, t)
      BY <2>1, <2>3, HostSteps
    <3>2. conn[t].status \in PunchStatuses
      BY <1>4, <2>3, <3>1 DEF PointsOnce
    <3>3. ~Listens(t)
      BY <1>3, <3>2 DEF Listens
    <3>4. conn[t].guest # None
      BY <1>1, <1>3, <3>1, <3>2, Parties, NoneAssumption
    <3>5. \A g \in Tcp : ~Joins(g, t)
      BY <3>4 DEF Joins
    <3>6. QED
      BY <1>2, <3>1, <3>2, <3>3, <3>5
  <2>4. ASSUME NEW h \in Tcp, conn'[h].guest = t
        PROVE  conn'[h].status \in PunchStatuses
    <3>1. /\ conn[h].guest = t
          /\ \/ conn'[h] = conn[h]
             \/ Listens(h) \/ Punches(h) \/ Confirms(h)
      BY <2>1, <2>4, GuestStays
    <3>2. conn[h].status \in PunchStatuses
      BY <1>4, <3>1 DEF PointsOnce
    <3>3. ~Listens(h)
      BY <1>3, <3>2 DEF Listens
    <3>4. QED
      BY <1>2, <3>1, <3>2, <3>3
  <2>5. QED
    BY <2>2, <2>3, <2>4
<1>5. CASE ~Points(t, u)
  <2>1. PICK h \in Tcp : Punches(h) /\ t \in {h, conn[h].guest}
    BY <1>1, <1>5, PointsSteps
  <2>2. /\ Held(h) /\ conn[h].main = h /\ conn'[h].guest = conn[h].guest
        /\ conn'[h].status \in PunchStatuses
        /\ \A k \in Tcp \ {h} : conn'[k] = conn[k]
    BY <1>2, <2>1 DEF Punches, Held, Becomes
  <2>3. ASSUME NEW k \in Tcp, Party(t, k) PROVE k = h
    <3>1. Party(t, h)
      BY <2>1, <2>2, NoneAssumption DEF Party
    <3>2. QED
      BY <1>1, <2>3, <3>1, OneParty
  <2>4. ASSUME NEW k \in Tcp, conn'[k].guest = t PROVE k = h
    <3>1. conn[k].guest = t /\ t # None
      BY <2>2, <2>4, NoneAssumption
    <3>2. conn[k].main # None
      BY <1>1, <3>1 DEF IInv, SessionInv
    <3>3. QED
      BY <2>3, <3>1, <3>2 DEF Party
  <2>5. conn'[t].main = t => t = h
    <3> SUFFICES ASSUME conn'[t].main = t, t # h PROVE FALSE
      OBVIOUS
    <3>1. conn[t].main = t
      BY <2>2
    <3>2. QED
      BY <2>3, <3>1, NoneAssumption DEF Party
  <2>6. QED
    BY <2>2, <2>4, <2>5
<1>6. QED
  BY <1>4, <1>5

LEMMA PointsOnceNext ==
    ASSUME ServerInv, [Next]_vars, NEW t \in Tcp, PointsOnce(t)
    PROVE  PointsOnce(t)'
<1>1. IInv /\ SilentInv /\ OrderInv
  BY DEF ServerInv
<1>2. ASSUME NEW u \in Tcp, Points(t, u)'
      PROVE  peer'[t].role = peer[t].role
  <2>1. Told(t, "TPT_CLIENT_INFO")'
    BY <1>2 DEF Points, Told, CreateTCPStartPunchingPkt
  <2>2. QED
    BY <1>1, <2>1, RoleKept
<1>3. ASSUME NEW u \in Tcp, NEW v \in Tcp, Points(t, u)', ~Points(t, u), Points(t, v)
      PROVE  peer[t].role = "HOST" /\ ~FirstGuest(t)
  <2>1. PICK h \in Tcp : Punches(h) /\ t \in {h, conn[h].guest}
    BY <1>1, <1>3, PointsSteps
  <2>2. Held(h) /\ conn[h].status \notin PunchStatuses
    BY <2>1 DEF Punches, PunchStatuses, P2P_UDP_LISTENING, P2P_PUNCHING, P2P_CONNECTED
  <2>3. t = h
    BY <1>3, <2>1, <2>2 DEF PointsOnce
  <2>4. conn[t].main = t /\ peer[t].role = "HOST"
    BY <1>1, <2>2, <2>3, ListedFacts DEF Held
  <2>5. QED
    BY <1>3, <2>2, <2>3, <2>4 DEF PointsOnce
<1>4. ASSUME NEW u \in Tcp, NEW v \in Tcp, Points(t, u)', ~Points(t, u), Points(t, v)', ~Points(t, v)
      PROVE  u = v
  <2>1. PICK h \in Tcp : /\ Punches(h)
                         /\ \/ t = h /\ u = udpThr.pkt.from
                            \/ t = conn[h].guest /\ u = conn[h].mainUDP
    BY <1>1, <1>4, PointsSteps
  <2>2. PICK k \in Tcp : /\ Punches(k)
                         /\ \/ t = k /\ v = udpThr.pkt.from
                            \/ t = conn[k].guest /\ v = conn[k].mainUDP
    BY <1>1, <1>4, PointsSteps
  <2>3. Held(h) /\ Held(k) /\ Party(t, h) /\ Party(t, k)
    BY <2>1, <2>2, NoneAssumption DEF Punches, Held, Party
  <2>4. h = k
    BY <1>1, <2>3, OneParty
  <2>5. QED
    BY <2>1, <2>2, <2>3, <2>4 DEF Held
<1>5. ~FirstGuest(t) => ~FirstGuest(t)'
  BY <1>1, ToldSteps DEF FirstGuest
<1>6. ASSUME NEW u \in Tcp, NEW v \in Tcp, Points(t, u)', Points(t, v)'
      PROVE  u = v \/ (peer'[t].role = "HOST" /\ ~FirstGuest(t)')
  <2>1. CASE Points(t, u) /\ Points(t, v)
    BY <1>2, <1>5, <1>6, <2>1 DEF PointsOnce
  <2>2. QED
    BY <1>2, <1>3, <1>4, <1>5, <1>6, <2>1
<1>7. QED
  BY <1>6, PunchedStays DEF PointsOnce

LEMMA PointInit == Init => PointInv
<1> SUFFICES ASSUME Init PROVE PointInv
  OBVIOUS
<1>1. \A t \in Tcp : BagToSet(sent[t]) = {}
  BY DEF Init, EmptyBag, SetToBag, BagToSet
<1>2. /\ udp = {} /\ udpThr.pkt = None
      /\ \A h \in Tcp : conn[h].main = None /\ conn[h].mainUDP = None
  BY DEF Init, UDPIdle, NoConnection
<1>3. Addresses
  BY <1>2 DEF Addresses
<1>4. \A x, y \in Tcp : ~Points(x, y)
  BY <1>1 DEF Points
<1>5. \A h \in Tcp : LostGuest(h)
  BY <1>2, NoneAssumption DEF LostGuest
<1>6. QED
  BY <1>3, <1>4, <1>5 DEF PointInv, PointsOnce, PointsTo

LEMMA PointNext == ServerInv /\ PointInv /\ [Next]_vars => PointInv'
<1> SUFFICES ASSUME ServerInv, PointInv, [Next]_vars PROVE PointInv'
  OBVIOUS
<1>1. Addresses /\ Addresses'
  BY AddressesNext DEF PointInv, ServerInv
<1>2. \A t \in Tcp : LostGuest(t)'
  BY LostGuestNext DEF PointInv
<1>3. \A t \in Tcp : PointsOnce(t)'
  BY PointsOnceNext DEF PointInv
<1>4. \A t, u \in Tcp : PointsTo(t, u)'
  BY <1>1, PointsToNext DEF PointInv
<1>5. QED
  BY <1>1, <1>2, <1>3, <1>4 DEF PointInv

-----------------------------------------------------------------------------
(* The punch: what confirmations and the address of the peer are worth     *)

(* A keepalive has been sent to y by x, and so may have reached it.        *)
Keepalive(x, y) == \E d \in p2p : d.type = "UPT_KEEPALIVE" /\ d.from = x /\ d.to = y

Reached == {t \in Tcp : \E x \in Tcp : Keepalive(x, t)}

(* A client sends datagrams to the address that the server sent it.        *)
Aimed(x, y) == (\E d \in p2p : d.from = x /\ d.to = y) => Points(x, y)

InStream(t, type) == \E n \in 1 .. Len(c2s[t]) : c2s[t][n] = type

(* A confirmation of t is about to be sent, under way or being handled.    *)
Confirming(t) ==
    udpRecv[t] = "confirm" \/ InStream(t, "TPT_P2P_RESULT") \/ Carries(t, "TPT_P2P_RESULT")

(* The flags of a session whose first guest has not left are worth what    *)
(* the confirmations are.                                                  *)
Flags(h) ==
    conn[h].main = h /\ FirstGuest(h) =>
      /\ conn[h].mainOK => h \in Reached
      /\ conn[h].guestOK => conn[h].guest \in Reached

Settled(t) == \A h \in Tcp : peer[h].keyword = peer[t].keyword => FirstGuest(h)

BothReached(t) ==
    Told(t, "TPT_P2P_RESULT") /\ Settled(t) =>
      \E u \in Tcp : Keepalive(t, u) /\ Keepalive(u, t)

(* A client that punches knows the address, one that takes itself for      *)
(* connected was told so.                                                  *)
Punching(t) ==
    \/ St(t) \in PunchStatuses \/ Saved(t) = P2P_CONNECTED
    \/ tcpThr[t] \in {"punching", "connected"} \/ client[t].type = "PCT_ENET"

Connecting(t) ==
    \/ St(t) = P2P_CONNECTED \/ Saved(t) = P2P_CONNECTED
    \/ tcpThr[t] = "connected" \/ client[t].type = "PCT_ENET"

Remote(t) ==
    /\ \A a \in Tcp : client[t].remote = a => Points(t, a)
    /\ Punching(t) => client[t].remote # None
    /\ Connecting(t) => Told(t, "TPT_P2P_RESULT")

PunchInv ==
    \A t \in Tcp :
      /\ Confirming(t) => t \in Reached
      /\ Flags(t) /\ BothReached(t) /\ Remote(t)
      /\ \A u \in Tcp : Aimed(t, u)

(* What a client sends to its peer goes to the address it knows.           *)
LEMMA PeerDatagrams ==
    ASSUME NEW t \in Tcp, C!ClientNext(t)
    PROVE  /\ p2p \subseteq p2p'
           /\ \A d \in p2p' : d \in p2p \/ (d.from = t /\ d.to = client[t].remote)
<1>1. CASE UNCHANGED p2p
  BY <1>1
<1>2. ASSUME NEW type, C!SendUDPToPeer(t, type)
      PROVE  /\ p2p \subseteq p2p'
             /\ \A d \in p2p' : d \in p2p \/ (d.from = t /\ d.to = client[t].remote)
  BY <1>2 DEF C!SendUDPToPeer
<1>3. CASE C!Punch(t) \/ C!PunchTimeout(t) \/ C!SendKeepalive(t)
  BY <1>1, <1>2, <1>3 DEF C!Punch, C!PunchTimeout, C!SendKeepalive
<1>4. CASE C!TCPRecvThread(t)
  BY <1>1, <1>4
     DEF C!TCPRecvThread, C!SetPunching, C!SetConnected, C!SetStatusEvent, C!RecvInit,
         C!RecvWaitResult, C!RecvConnectResult, C!RecvStartUDP, C!RecvClientInfo, C!RecvP2PResult,
         C!RecvProxyResult, C!RecvReset, C!TCPEndProcess, C!SetState, C!SetStopEvent, C!Skip,
         C!netVars
<1>5. CASE C!SendPacket(t) \/ C!RecvHandshake(t) \/ C!RecvKeepalive(t) \/ C!SendP2PResult(t)
  BY <1>1, <1>5 DEF C!SendPacket, C!RecvHandshake, C!RecvKeepalive, C!SendP2PResult, C!netVars
<1>6. CASE C!Begin(t) \/ C!WakeUp(t) \/ C!LoopEnds(t) \/ C!Greet(t) \/ C!AwaitGuest(t)
           \/ C!Exchange(t) \/ C!WaitSignalled(t) \/ C!ExchangeTimeout(t) \/ C!TurnToRelay(t)
           \/ C!EnterUDPLock(t) \/ C!StopUDP(t) \/ C!Close(t)
  BY <1>1, <1>6 DEF C!Begin, C!WakeUp, C!LoopEnds, C!Greet, C!AwaitGuest, C!Exchange,
                    C!WaitSignalled, C!ExchangeTimeout, C!TurnToRelay, C!EnterUDPLock, C!StopUDP,
                    C!Close, C!netVars
<1>7. QED
  BY <1>3, <1>4, <1>5, <1>6 DEF C!ClientNext, C!MainThread, C!UDPCallback

(* The address a client knows comes with TPT_CLIENT_INFO.                  *)
Learns(t) ==
    /\ s2c[t] # <<>>
    /\ Head(s2c[t]).type = "TPT_CLIENT_INFO"
    /\ client'[t].remote = Head(s2c[t]).ClientInfo

LEMMA RemoteMoves ==
    ASSUME TunnelTypeOK, NEW t \in Tcp, C!ClientNext(t)
    PROVE  Learns(t) \/ /\ client'[t].remote = client[t].remote
                        /\ tcpThr'[t] = "punching" => tcpThr[t] = "punching"
<1> DEFINE c == client[t]
           Kept == client'[t].remote = c.remote
           Same == Kept /\ (tcpThr'[t] = "punching" => tcpThr[t] = "punching")
<1>1. client \in [Tcp -> Members] /\ c \in Members
  BY TunnelTypes
<1>2. tcpThr \in [Tcp -> {"idle", "punching", "connected", "signal", "ended"}]
  BY TunnelTypes
<1>3. ASSUME NEW d, client' = [client EXCEPT ![t] = d], d.remote = c.remote PROVE Kept
  BY <1>1, <1>3
<1>4. UNCHANGED client => Kept
  OBVIOUS
<1>5. \A s : [c EXCEPT !.status = s].remote = c.remote
  BY <1>1 DEF Members
<1>6. \A b : /\ [c EXCEPT !.stop = b].remote = c.remote
             /\ [c EXCEPT !.change = b].remote = c.remote
             /\ [c EXCEPT !.connected = b].remote = c.remote
  BY <1>1 DEF Members
<1>7. ASSUME NEW d, C!SetState(t, d), d.remote = c.remote PROVE Same
  BY <1>2, <1>3, <1>7 DEF C!SetState
<1>8. CASE C!SetStopEvent(t) \/ C!Skip(t)
  BY <1>3, <1>4, <1>6, <1>8 DEF C!SetStopEvent, C!Skip
<1>9. CASE C!MainThread(t)
  <2>1. CASE C!Begin(t) \/ C!LoopEnds(t)
    BY <1>3, <1>6, <2>1 DEF C!Begin, C!LoopEnds
  <2>2. CASE C!TurnToRelay(t)
    BY <1>3, <1>5, <2>2 DEF C!TurnToRelay
  <2>3. CASE C!StopUDP(t)
    <3> DEFINE d == [c EXCEPT !.udpOn = FALSE]
               s == mainThr[t].saved
    <3>1. d.remote = c.remote /\ DOMAIN d = DOMAIN c
      BY <1>1 DEF Members
    <3>2. client' = [client EXCEPT ![t] = C!Started(d, s)]
      BY <2>3 DEF C!StopUDP
    <3> HIDE DEF d, s
    <3>3. C!Started(d, s).remote = c.remote
      BY <1>1, <3>1 DEF C!Started, Members
    <3>4. Kept
      BY <1>3, <3>2, <3>3
    <3>5. QED
      BY <2>3, <3>4 DEF C!StopUDP
  <2>4. CASE C!Greet(t) \/ C!AwaitGuest(t) \/ C!Exchange(t) \/ C!Punch(t) \/ C!EnterUDPLock(t)
    <3>1. client' = [client EXCEPT ![t] = [c EXCEPT !.change = FALSE]]
      BY <2>4 DEF C!Greet, C!AwaitGuest, C!Exchange, C!Punch, C!EnterUDPLock, C!Handle, C!ResetEvent
    <3>2. Kept
      BY <1>3, <1>6, <3>1
    <3>3. QED
      BY <2>4, <3>2 DEF C!Greet, C!AwaitGuest, C!Exchange, C!Punch, C!EnterUDPLock, C!netVars
  <2>5. CASE C!WakeUp(t) \/ C!WaitSignalled(t) \/ C!ExchangeTimeout(t) \/ C!PunchTimeout(t)
    BY <1>4, <2>5 DEF C!WakeUp, C!WaitSignalled, C!ExchangeTimeout, C!PunchTimeout, C!Round
  <2>6. CASE C!Close(t)
    BY <1>2, <1>4, <2>6 DEF C!Close
  <2>7. QED
    BY <1>9, <2>1, <2>2, <2>3, <2>4, <2>5, <2>6
       DEF C!MainThread, C!Begin, C!LoopEnds, C!TurnToRelay, C!WakeUp, C!WaitSignalled,
           C!ExchangeTimeout, C!PunchTimeout, C!Round
<1>10. CASE C!TCPRecvThread(t)
  <2>1. CASE C!SetPunching(t) \/ C!SetConnected(t)
    BY <1>5, <1>7, <2>1 DEF C!SetPunching, C!SetConnected
  <2>2. CASE C!SetStatusEvent(t) \/ C!TCPEndProcess(t)
    BY <1>2, <1>3, <1>6, <2>2 DEF C!SetStatusEvent, C!TCPEndProcess
  <2>3. CASE C!RecvInit(t)
    <3> DEFINE d == [c EXCEPT !.Peerid = 0, !.type = "PCT_NONE",
                        !.status = IF C!IsHost(t) THEN P2P_TCP_LISTENING ELSE P2P_TCP_CONNECTED]
    <3>1. C!SetState(t, d)
      BY <2>3, SameStatus DEF C!RecvInit
    <3>2. d.remote = c.remote
      BY <1>1 DEF Members
    <3> HIDE DEF d
    <3>3. QED
      BY <1>7, <3>1, <3>2
  <2>4. CASE C!RecvWaitResult(t) \/ C!RecvStartUDP(t) \/ C!RecvProxyResult(t)
    BY <1>5, <1>7, <1>8, <2>4 DEF C!RecvWaitResult, C!RecvStartUDP, C!RecvProxyResult,
                                  C!SetStopEvent, C!Skip
  <2>5. CASE C!RecvConnectResult(t) \/ C!RecvReset(t)
    BY <1>8, <2>5 DEF C!RecvConnectResult, C!RecvReset, C!SetStopEvent, C!Skip
  <2>6. CASE C!RecvClientInfo(t)
    <3> DEFINE p == Head(s2c[t])
               d == [c EXCEPT !.Peerid = p.Peerid, !.remote = p.ClientInfo]
    <3>1. CASE client' = [client EXCEPT ![t] = d]
      <4>1. d.remote = p.ClientInfo
        BY <1>1 DEF Members
      <4> HIDE DEF d
      <4>2. client'[t].remote = p.ClientInfo
        BY <1>1, <3>1, <4>1
      <4>3. QED
        BY <2>6, <4>2 DEF Learns, C!RecvClientInfo, C!Dispatch
    <3>2. CASE C!Skip(t)
      BY <1>4, <3>2 DEF C!Skip
    <3>3. QED
      BY <2>6, <3>1, <3>2 DEF C!RecvClientInfo
  <2>7. CASE C!RecvP2PResult(t)
    BY <1>2, <1>4, <2>7 DEF C!RecvP2PResult, C!Skip
  <2>8. QED
    BY <1>10, <2>1, <2>2, <2>3, <2>4, <2>5, <2>6, <2>7 DEF C!TCPRecvThread
<1>11. CASE C!SendPacket(t) \/ C!RecvHandshake(t) \/ C!RecvKeepalive(t) \/ C!UDPCallback(t)
  BY <1>4, <1>11 DEF C!SendPacket, C!RecvHandshake, C!RecvKeepalive, C!UDPCallback,
                     C!SendKeepalive, C!SendP2PResult
<1>12. QED
  BY <1>9, <1>10, <1>11 DEF C!ClientNext

(* A confirmation begins with a keepalive; what is sent to the server is   *)
(* said by SendTCP, and a confirmation only by the UDP thread.             *)
LEMMA ConfirmMoves ==
    ASSUME TypeOK, TunnelTypeOK, NEW t \in Tcp, C!ClientNext(t)
    PROVE  /\ udpRecv'[t] = "confirm" => udpRecv[t] = "confirm" \/ t \in Reached
           /\ \/ c2s' = c2s
              \/ \E type \in ClientTCPType :
                   /\ c2s' = [c2s EXCEPT ![t] = Append(@, type)]
                   /\ type = "TPT_P2P_RESULT" => udpRecv[t] = "confirm"
                   /\ type = "TPT_PROXY_REQUEST" => Pc(t) = "giveup"
<1> DEFINE Prompted == udpRecv'[t] = "confirm" => udpRecv[t] = "confirm" \/ t \in Reached
           Said == \/ c2s' = c2s
                   \/ \E type \in ClientTCPType :
                        /\ c2s' = [c2s EXCEPT ![t] = Append(@, type)]
                        /\ type = "TPT_P2P_RESULT" => udpRecv[t] = "confirm"
                        /\ type = "TPT_PROXY_REQUEST" => Pc(t) = "giveup"
<1>1. udpRecv \in [Tcp -> {"idle", "reply", "confirm"}] /\ p2p \subseteq C!PeerDatagram
  BY TunnelTypes
<1>2. ASSUME NEW type \in ClientTCPType, C!SendTCP(t, type),
             type = "TPT_P2P_RESULT" => udpRecv[t] = "confirm",
             type = "TPT_PROXY_REQUEST" => Pc(t) = "giveup"
      PROVE  Said
  BY <1>2 DEF C!SendTCP
<1>3. {"TPT_WAITING", "TPT_CONNECT", "TPT_PROXY_REQUEST", "TPT_DATA_PROXY", "TPT_P2P_RESULT"}
        \subseteq ClientTCPType
  BY DEF ClientTCPType
<1>4. CASE C!MainThread(t)
  <2>1. Prompted
    BY <1>4 DEF C!MainThread, C!Begin, C!WakeUp, C!LoopEnds, C!Greet, C!AwaitGuest, C!Exchange,
                C!Punch, C!WaitSignalled, C!ExchangeTimeout, C!PunchTimeout, C!Round, C!TurnToRelay,
                C!EnterUDPLock, C!StopUDP, C!Close
  <2>2. CASE C!Greet(t) \/ C!TurnToRelay(t)
    BY <1>2, <1>3, <2>2 DEF C!Greet, C!TurnToRelay, C!At, Pc
  <2>3. CASE ~(C!Greet(t) \/ C!TurnToRelay(t))
    BY <1>4, <2>3 DEF C!MainThread, C!Begin, C!WakeUp, C!LoopEnds, C!AwaitGuest, C!Exchange,
                C!Punch, C!WaitSignalled, C!ExchangeTimeout, C!PunchTimeout, C!Round,
                C!EnterUDPLock, C!StopUDP, C!Close, C!netVars
  <2>4. QED
    BY <2>1, <2>2, <2>3
<1>5. CASE C!TCPRecvThread(t)
  BY <1>5
     DEF C!TCPRecvThread, C!SetPunching, C!SetConnected, C!SetStatusEvent, C!RecvInit,
         C!RecvWaitResult, C!RecvConnectResult, C!RecvStartUDP, C!RecvClientInfo, C!RecvP2PResult,
         C!RecvProxyResult, C!RecvReset, C!TCPEndProcess, C!SetState, C!SetStopEvent, C!Skip,
         C!netVars
<1>6. CASE C!SendPacket(t)
  BY <1>2, <1>3, <1>6 DEF C!SendPacket
<1>7. CASE C!SendP2PResult(t)
  BY <1>1, <1>2, <1>3, <1>7 DEF C!SendP2PResult
<1>8. CASE C!RecvHandshake(t) \/ C!SendKeepalive(t)
  BY <1>1, <1>8 DEF C!RecvHandshake, C!SendKeepalive, C!netVars
<1>9. CASE C!RecvKeepalive(t)
  <2>1. PICK d \in p2p : d.to = t /\ d.type = "UPT_KEEPALIVE"
    BY <1>9 DEF C!RecvKeepalive, C!ForMe
  <2>2. d.from \in Tcp
    BY <1>1 DEF C!PeerDatagram
  <2>3. t \in Reached
    BY <2>1, <2>2 DEF Reached, Keepalive
  <2>4. QED
    BY <1>9, <2>3 DEF C!RecvKeepalive, C!netVars
<1>10. QED
  BY <1>4, <1>5, <1>6, <1>7, <1>8, <1>9 DEF C!ClientNext, C!UDPCallback

(* A step of the server takes a packet from a stream or drops it all.      *)
LEMMA ServerStreams ==
    ASSUME IInv, ServerStep(ServerNext), NEW t \in Tcp
    PROVE  Drained(t)
<1>1. CASE UNCHANGED c2s
  BY <1>1 DEF Drained
<1>2. CASE \E why : Crash(why)
  BY <1>2 DEF Crash, Drained
<1>3. ASSUME NEW u \in Cut, ClientGone(u) PROVE Drained(t)
  BY <1>1, <1>3 DEF ClientGone
<1>4. ASSUME NEW u \in Tcp, Accept(u) PROVE Drained(t)
  BY <1>1, <1>4 DEF Accept, AcceptTCPSocketProcess, netVars
<1>5. CASE CreateTCPID \/ RecvUDPPacketProcess \/ UDPListening \/ UDPConnected
  BY <1>1, <1>2, <1>5 DEF CreateTCPID, RecvUDPPacketProcess, UDPListening, UDPConnected,
                          IgnoreDatagram, netVars
<1>6. QED
  BY <1>3, <1>4, <1>5, RecvStreams DEF ServerStep, ServerNext

(* What a step does to the datagrams between the clients.                  *)
LEMMA PeerToPeerSteps ==
    ASSUME [TunnelNext]_tunnelVars
    PROVE  /\ p2p \subseteq p2p'
           /\ \A d \in p2p' : d \in p2p \/ (d.from \in Tcp /\ d.to = client[d.from].remote)
<1>1. ASSUME NEW t \in Tcp, ClientStep(t, C!ClientNext(t)) PROVE C!ClientNext(t)
  BY <1>1 DEF ClientStep
<1>2. QED
  BY <1>1, PeerDatagrams DEF TunnelNext, ServerStep, tunnelVars, clientVars

LEMMA AimedNext ==
    ASSUME TInv, PunchInv, [TunnelNext]_tunnelVars, NEW x \in Tcp, NEW y \in Tcp
    PROVE  Aimed(x, y)'
<1> SUFFICES ASSUME NEW d \in p2p', d.from = x, d.to = y PROVE Points(x, y)'
  BY DEF Aimed
<1>1. Points(x, y)
  BY PeerToPeerSteps DEF PunchInv, Aimed, Remote
<1>2. BagToSet(sent[x]) \subseteq BagToSet(sent'[x])
  BY TunnelStep, ToldSteps DEF TInv
<1>3. QED
  BY <1>1, <1>2 DEF Points

(* A keepalive that has been sent stays so.                                *)
LEMMA KeepaliveStays ==
    ASSUME [TunnelNext]_tunnelVars, NEW x, NEW y, Keepalive(x, y)
    PROVE  Keepalive(x, y)'
BY PeerToPeerSteps DEF Keepalive

LEMMA ConfirmingNext ==
    ASSUME TInv, [TunnelNext]_tunnelVars, NEW t \in Tcp, Confirming(t)'
    PROVE  Confirming(t) \/ t \in Reached
<1>1. c2s \in [Tcp -> Seq(ClientTCPType)] /\ TypeOK /\ IInv /\ TunnelTypeOK
  BY DEF TInv, IInv, TypeOK
<1>2. c2s[t] \in Seq(ClientTCPType)
  BY <1>1
<1>3. CASE ServerStep(ServerNext)
  <2>1. Drained(t) /\ udpRecv' = udpRecv /\ [Next]_vars
    BY <1>1, <1>3, ServerStreams, ServerSteps DEF ServerStep
  <2>2. Dispatch(t, "TPT_P2P_RESULT") => InStream(t, "TPT_P2P_RESULT")
    BY <1>2 DEF Dispatch, InStream
  <2>3. InStream(t, "TPT_P2P_RESULT")' => InStream(t, "TPT_P2P_RESULT")
    <3>1. CASE c2s'[t] = c2s[t] \/ c2s'[t] = <<>>
      BY <3>1 DEF InStream
    <3>2. CASE c2s'[t] = Tail(c2s[t]) /\ Dispatch(t, Head(c2s[t]))
      <4>1. c2s[t] # <<>>
        BY <3>2 DEF Dispatch
      <4>2. /\ Len(c2s'[t]) = Len(c2s[t]) - 1 /\ Len(c2s[t]) \in Nat
            /\ \A n \in 1 .. Len(c2s'[t]) : c2s'[t][n] = c2s[t][n + 1]
        BY <1>2, <3>2, <4>1
      <4>3. QED
        BY <4>2 DEF InStream
    <3>3. QED
      BY <2>1, <3>1, <3>2 DEF Drained
  <2>4. Carries(t, "TPT_P2P_RESULT")' =>
          Carries(t, "TPT_P2P_RESULT") \/ Dispatch(t, "TPT_P2P_RESULT")
    BY <1>1, <2>1, CarrySteps
  <2>5. QED
    BY <2>1, <2>2, <2>3, <2>4 DEF Confirming
<1>4. ASSUME NEW u \in Tcp, ClientStep(u, C!ClientNext(u))
      PROVE  Confirming(t) \/ t \in Reached
  <2>1. /\ udpRecv'[u] = "confirm" => udpRecv[u] = "confirm" \/ u \in Reached
        /\ \/ c2s' = c2s
           \/ \E type \in ClientTCPType :
                /\ c2s' = [c2s EXCEPT ![u] = Append(@, type)]
                /\ type = "TPT_P2P_RESULT" => udpRecv[u] = "confirm"
    BY <1>1, <1>4, ConfirmMoves DEF ClientStep
  <2>2. thr' = thr
    BY <1>4 DEF ClientStep
  <2>3. u # t => udpRecv'[t] = udpRecv[t]
    BY <1>1, <1>4, Moves DEF Unmoved, RecvKept, RecvIs
  <2>4. InStream(t, "TPT_P2P_RESULT")' =>
          InStream(t, "TPT_P2P_RESULT") \/ (u = t /\ udpRecv[t] = "confirm")
    <3>1. CASE c2s'[t] = c2s[t]
      BY <3>1 DEF InStream
    <3>2. ASSUME NEW type \in ClientTCPType, c2s'[t] = Append(c2s[t], type), u = t,
                 type = "TPT_P2P_RESULT" => udpRecv[t] = "confirm"
          PROVE  InStream(t, "TPT_P2P_RESULT")' =>
                   InStream(t, "TPT_P2P_RESULT") \/ udpRecv[t] = "confirm"
      <4>1. \A n \in 1 .. Len(c2s'[t]) :
              c2s'[t][n] = type \/ (n \in 1 .. Len(c2s[t]) /\ c2s'[t][n] = c2s[t][n])
        BY <1>2, <3>2
      <4>2. QED
        BY <3>2, <4>1 DEF InStream
    <3>3. QED
      BY <1>1, <2>1, <3>1, <3>2
  <2>5. QED
    BY <2>1, <2>2, <2>3, <2>4 DEF Confirming, Carries
<1>5. CASE UNCHANGED tunnelVars
  BY <1>5 DEF tunnelVars, clientVars, vars, netVars, Confirming, InStream, Carries
<1>6. QED
  BY <1>3, <1>4, <1>5 DEF TunnelNext

LEMMA FlagsNext ==
    ASSUME TInv, PunchInv, [TunnelNext]_tunnelVars, NEW h \in Tcp
    PROVE  Flags(h)'
<1> SUFFICES ASSUME conn'[h].main = h, FirstGuest(h)'
             PROVE  /\ conn'[h].mainOK => h \in Reached'
                    /\ conn'[h].guestOK => conn'[h].guest \in Reached'
  BY DEF Flags
<1>1. IInv /\ GreetInv /\ [Next]_vars
  BY TunnelStep DEF TInv
<1>2. FirstGuest(h)
  BY <1>1, ToldSteps DEF FirstGuest
<1>3. \A t \in Tcp : At(t, "TPT_P2P_RESULT") => t \in Reached
  BY DEF At, PunchInv, Confirming, Carries
<1>4. Reached \subseteq Reached'
  BY KeepaliveStays DEF Reached
<1>5. /\ conn'[h].mainOK => conn[h].mainOK \/ h \in Reached
      /\ conn'[h].guestOK => conn[h].guestOK \/ conn[h].guest \in Reached
  <2>1. conn[h].guest \in Tcp \cup {None}
    BY <1>1 DEF IInv, TypeOK, Connection
  <2>2. QED
    BY <1>1, <1>3, <2>1, MemberSteps
<1>6. None \notin Reached
  BY NoneAssumption DEF Reached
<1>7. CASE Opens(h)
  <2>1. ~conn[h].mainOK /\ ~conn[h].guestOK /\ conn[h].guest = None
    BY <1>1, <1>7, OpensClean DEF NoConnection
  <2>2. QED
    BY <1>4, <1>5, <1>6, <2>1
<1>8. CASE ~Opens(h)
  <2>1. ~HostLeaves(h)
    BY NoneAssumption DEF HostLeaves, Becomes
  <2>2. ~GuestLeaves(h)
    BY <1>1, LeavesTold
  <2>3. \/ conn'[h] = conn[h]
        \/ Listens(h) \/ Punches(h) \/ Confirms(h)
        \/ \E g \in Tcp : Joins(g, h)
    BY <1>1, <1>8, <2>1, <2>2, SessionSteps
  <2>4. conn[h].main = h
    BY <2>3 DEF Listens, Punches, Confirms, Held, Joins
  <2>5. conn[h].mainOK => h \in Reached
    BY <1>2, <2>4 DEF PunchInv, Flags
  <2>6. conn[h].guestOK => conn[h].guest \in Reached
    BY <1>2, <2>4 DEF PunchInv, Flags
  <2>7. conn'[h].guest = conn[h].guest \/ conn[h].guest = None
    BY <2>3 DEF Listens, Punches, Confirms, Joins, Becomes
  <2>8. QED
    BY <1>4, <1>5, <1>6, <2>5, <2>6, <2>7
<1>9. QED
  BY <1>7, <1>8

(* A keyword no guest has left is as it was a step before.                 *)
LEMMA SettledBefore ==
    ASSUME TInv, [TunnelNext]_tunnelVars, NEW t \in Tcp, NEW type, Told(t, type), Settled(t)'
    PROVE  Settled(t)
<1>1. IInv /\ SilentInv /\ [Next]_vars
  BY TunnelStep DEF TInv
<1>2. peer'[t].keyword = peer[t].keyword
  BY <1>1, RoleSteps DEF Told
<1>3. ASSUME NEW h \in Tcp, peer[h].keyword = peer[t].keyword PROVE FirstGuest(h)
  <2>1. CASE peer'[h].keyword = peer[h].keyword
    <3>1. FirstGuest(h)'
      BY <1>2, <1>3, <2>1 DEF Settled
    <3>2. QED
      BY <1>1, <3>1, ToldSteps DEF FirstGuest
  <2>2. CASE BagToSet(sent[h]) = {}
    BY <2>2 DEF FirstGuest, Told
  <2>3. QED
    BY <1>1, <2>1, <2>2, RoleSteps
<1>4. QED
  BY <1>3 DEF Settled

LEMMA BothReachedNext ==
    ASSUME TInv, PointInv', PunchInv, [TunnelNext]_tunnelVars, NEW t \in Tcp
    PROVE  BothReached(t)'
<1> SUFFICES ASSUME Told(t, "TPT_P2P_RESULT")', Settled(t)'
             PROVE  \E u \in Tcp : Keepalive(t, u)' /\ Keepalive(u, t)'
  BY DEF BothReached
<1>1. IInv /\ SilentInv /\ [Next]_vars
  BY TunnelStep DEF TInv
<1>2. CASE Told(t, "TPT_P2P_RESULT")
  <2>1. \E u \in Tcp : Keepalive(t, u) /\ Keepalive(u, t)
    BY <1>2, SettledBefore DEF PunchInv, BothReached
  <2>2. QED
    BY <2>1, KeepaliveStays
<1>3. CASE ~Told(t, "TPT_P2P_RESULT")
  <2>1. PICK p \in BagToSet(sent'[t]) : p.type = "TPT_P2P_RESULT"
    BY DEF Told
  <2>2. Cause(t, p) /\ ~UNCHANGED sent
    BY <1>1, <1>3, <2>1, ToldSteps DEF Told
  <2>3. PICK h \in Tcp : Confirms(h) /\ BothOK(conn'[h]) /\ t \in {h, conn[h].guest}
    BY <2>1, <2>2 DEF Cause, CreateTCPResultPkt, CreateTCPStartUDPPkt, CreateTCPStartPunchingPkt,
                      CreateTCPProxyResultPkt
  <2>4. PICK g \in Tcp : /\ g = conn[h].guest /\ g # h
                        /\ conn[h].main = h /\ conn'[h].main = h /\ conn'[h].guest = g
    BY <2>3 DEF Confirms, Held, Becomes
  <2>5. /\ peer[h].role = "HOST" /\ peer[g].role = "GUEST"
        /\ peer[g].keyword = peer[h].keyword
    BY <1>1, <2>4, NoneAssumption, Parties DEF IInv, SessionInv
  <2>6. \A x \in Tcp : peer'[x].role = peer[x].role /\ peer'[x].keyword = peer[x].keyword
    BY <1>1, <2>2, RoleSteps
  <2>7. FirstGuest(h)'
    BY <2>3, <2>4, <2>5, <2>6 DEF Settled
  <2>8. h \in Reached' /\ g \in Reached'
    BY <2>3, <2>4, <2>7, FlagsNext DEF Flags, BothOK
  <2>9. PICK x \in Tcp : Keepalive(x, h)'
    BY <2>8 DEF Reached
  <2>10. PICK y \in Tcp : Keepalive(y, g)'
    BY <2>8 DEF Reached
  <2>11. Points(x, h)' /\ Points(y, g)'
    BY <2>4, <2>9, <2>10, AimedNext DEF Aimed, Keepalive
  <2>12. x = g
    BY <2>4, <2>5, <2>6, <2>7, <2>11 DEF PointInv, PointsTo
  <2>13. y = h
    BY <2>4, <2>5, <2>6, <2>11 DEF PointInv, PointsTo
  <2>14. QED
    BY <2>3, <2>4, <2>9, <2>10, <2>12, <2>13
<1>4. QED
  BY <1>2, <1>3

(* The head of t's stream is a packet of the type, in the status for it.   *)
Obeys(t, type, status) ==
    s2c[t] # <<>> /\ Head(s2c[t]).type = type /\ St(t) = status

(* What a client has come to believe: that it knows the address and that   *)
(* both sides have confirmed.                                              *)
LEMMA PunchingMoves ==
    ASSUME NEW t \in Tcp, Move(t)
    PROVE  /\ Punching(t)' => Punching(t) \/ (tcpThr[t] # "punching" /\ tcpThr'[t] = "punching")
           /\ Connecting(t)' => \/ Connecting(t)
                                \/ ReceiveMove(t) /\ Obeys(t, "TPT_P2P_RESULT", P2P_PUNCHING)
<1> DEFINE Punched == Punching(t)' =>
             Punching(t) \/ (tcpThr[t] # "punching" /\ tcpThr'[t] = "punching")
           Connected == Connecting(t)' =>
             Connecting(t) \/ (ReceiveMove(t) /\ Obeys(t, "TPT_P2P_RESULT", P2P_PUNCHING))
<1>1. CASE MainMove(t)
  <2>1. /\ St(t)' = St(t) /\ tcpThr'[t] = tcpThr[t]
        /\ Saved(t)' \in {Saved(t), St(t), P2P_STATUS_NONE}
        /\ client'[t].type = "PCT_ENET" => client[t].type = "PCT_ENET" \/ Saved(t) = P2P_CONNECTED
    BY <1>1 DEF MainMove, RecvKept, RecvIs, ClientIs, MainIs, St, Saved
  <2>2. P2P_STATUS_NONE # P2P_CONNECTED /\ P2P_CONNECTED \in PunchStatuses
    BY DEF P2P_STATUS_NONE, P2P_CONNECTED, PunchStatuses
  <2>3. QED
    BY <2>1, <2>2 DEF Punching, Connecting
<1>2. CASE CloseMove(t)
  <2>1. St(t)' = St(t) /\ tcpThr'[t] = "ended" /\ Saved(t)' = P2P_STATUS_NONE
        /\ client'[t].type = client[t].type
    BY <1>2 DEF CloseMove, RecvIs, ClientIs, MainIs, St, Saved
  <2>2. P2P_STATUS_NONE # P2P_CONNECTED
    BY DEF P2P_STATUS_NONE, P2P_CONNECTED
  <2>3. QED
    BY <2>1, <2>2 DEF Punching, Connecting
<1>3. CASE SendMove(t)
  <2>1. /\ St(t)' \in {St(t), P2P_TCP_PROXY_REQUEST} /\ tcpThr'[t] = tcpThr[t]
        /\ Saved(t)' \in {Saved(t), P2P_STATUS_NONE} /\ client'[t].type = client[t].type
    BY <1>3 DEF SendMove, RecvKept, RecvIs, MainKept, ClientIs, MainIs, St, Saved
  <2>2. /\ P2P_STATUS_NONE # P2P_CONNECTED /\ P2P_TCP_PROXY_REQUEST # P2P_CONNECTED
        /\ P2P_TCP_PROXY_REQUEST \notin PunchStatuses
    BY DEF P2P_STATUS_NONE, P2P_CONNECTED, P2P_TCP_PROXY_REQUEST, P2P_PUNCHING, PunchStatuses
  <2>3. QED
    BY <2>1, <2>2 DEF Punching, Connecting
<1>4. CASE ReceiveMove(t)
  <2> DEFINE type == Head(s2c[t]).type
  <2>1. /\ St(t)' \in PunchStatuses => St(t)' = St(t)
        /\ St(t)' = P2P_CONNECTED => St(t)' = St(t)
    BY <1>4 DEF ReceiveMove, ClientIs, St, PunchStatuses, P2P_PUNCHING, P2P_CONNECTED,
                GreetingStatus, P2P_TCP_LISTENING, P2P_TCP_CONNECTED, ExchangeStatus,
                P2P_UDP_LISTENING, P2P_UDP_CONNECTED, P2P_TCP_PROXY
  <2>2. /\ Saved(t)' = Saved(t) /\ client'[t].type \in {client[t].type, "PCT_NONE"}
        /\ tcpThr[t] = "idle" /\ s2c[t] # <<>>
        /\ tcpThr'[t] = "connected" => type = "TPT_P2P_RESULT" /\ St(t) = P2P_PUNCHING
    BY <1>4 DEF ReceiveMove, RecvKept, RecvIs, MainKept, ClientIs, Saved, St
  <2>3. P2P_PUNCHING \in PunchStatuses
    BY DEF PunchStatuses
  <2>4. QED
    BY <1>4, <2>1, <2>2, <2>3 DEF Punching, Connecting, Obeys
<1>5. CASE RecvMove(t)
  <2>1. /\ St(t)' = St(t) \/ (St(t)' = P2P_PUNCHING /\ tcpThr[t] = "punching")
           \/ (St(t)' = P2P_CONNECTED /\ tcpThr[t] = "connected")
        /\ Saved(t)' = Saved(t) /\ client'[t].type = client[t].type
        /\ tcpThr'[t] \in {tcpThr[t], "idle", "signal", "ended"}
    BY <1>5 DEF RecvMove, RecvIs, MainKept, ClientIs, Saved, St
  <2>2. P2P_PUNCHING # P2P_CONNECTED
    BY DEF P2P_PUNCHING, P2P_CONNECTED
  <2>3. QED
    BY <2>1, <2>2 DEF Punching, Connecting
<1>6. QED
  BY <1>1, <1>2, <1>3, <1>4, <1>5 DEF Move

(* The packet that carries an address.                                     *)
LEMMA InfoPoints ==
    ASSUME TInv, NEW t \in Tcp, s2c[t] # <<>>, Head(s2c[t]).type = "TPT_CLIENT_INFO"
    PROVE  /\ Head(s2c[t]).ClientInfo \in Tcp
           /\ \A a \in Tcp : Head(s2c[t]).ClientInfo = a => Points(t, a)
<1> DEFINE p == Head(s2c[t])
<1>1. p \in ServerPacket(Id, Tcp) /\ p \in BagToSet(sent[t])
  BY TunnelTypes, HeadPacket DEF TInv, ClientInv, Informed
<1>2. p.type = "TPT_CLIENT_INFO"
  OBVIOUS
<1> HIDE DEF p
<1>3. PICK i \in Id, a \in Tcp : p = CreateTCPStartPunchingPkt(i, a)
  BY <1>1, <1>2 DEF ServerPacket, CreateTCPInitPkt, CreateTCPResultPkt, CreateTCPStartUDPPkt,
       CreateP2PSuccessPkt, CreateTCPProxyResultPkt
<1>4. p.ClientInfo = a
  BY <1>3 DEF CreateTCPStartPunchingPkt
<1>5. Points(t, a)
  BY <1>1, <1>3 DEF Points
<1>6. QED
  BY <1>4, <1>5 DEF p

LEMMA RemoteNext ==
    ASSUME TInv, PunchInv, [TunnelNext]_tunnelVars, NEW t \in Tcp
    PROVE  Remote(t)'
<1>1. /\ BagToSet(sent[t]) \subseteq BagToSet(sent'[t])
      /\ \A type : Told(t, type) => Told(t, type)'
  BY TunnelStep, ToldSteps DEF TInv
<1>2. \A a : Points(t, a) => Points(t, a)'
  BY <1>1 DEF Points
<1>3. Remote(t)
  BY DEF PunchInv
<1>4. CASE /\ client'[t] = client[t] /\ mainThr'[t] = mainThr[t] /\ tcpThr'[t] = tcpThr[t]
  BY <1>1, <1>2, <1>3, <1>4 DEF Remote, Punching, Connecting, St, Saved
<1>5. CASE ClientStep(t, C!ClientNext(t))
  <2>1. TypeOK /\ TunnelTypeOK /\ Informed(t)
    BY DEF TInv, IInv, ClientInv
  <2>2. Move(t) /\ C!ClientNext(t)
    BY <1>5, <2>1, Moves DEF ClientStep
  <2>3. CASE Learns(t)
    <3>1. client'[t].remote \in Tcp /\ \A a \in Tcp : client'[t].remote = a => Points(t, a)'
      BY <1>2, <2>3, InfoPoints DEF Learns
    <3>2. Connecting(t)' => Told(t, "TPT_P2P_RESULT")'
      <4>1. Connecting(t)' => Connecting(t)
        BY <2>2, <2>3, PunchingMoves DEF Learns, Obeys
      <4>2. QED
        BY <1>1, <1>3, <4>1 DEF Remote
    <3>3. QED
      BY <3>1, <3>2, NoneAssumption DEF Remote
  <2>4. CASE ~Learns(t)
    <3>1. /\ client'[t].remote = client[t].remote
          /\ tcpThr'[t] = "punching" => tcpThr[t] = "punching"
      BY <2>1, <2>2, <2>4, RemoteMoves
    <3>2. Punching(t)' => Punching(t)
      BY <2>2, <3>1, PunchingMoves
    <3>3. Connecting(t)' => Told(t, "TPT_P2P_RESULT")
      <4>1. s2c[t] # <<>> /\ Head(s2c[t]).type = "TPT_P2P_RESULT" => Told(t, "TPT_P2P_RESULT")
        BY <2>1, TunnelTypes, HeadPacket DEF Informed, Told
      <4>2. QED
        BY <1>3, <2>2, <4>1, PunchingMoves DEF Remote, Obeys
    <3>4. QED
      BY <1>1, <1>2, <1>3, <3>1, <3>2, <3>3 DEF Remote
  <2>5. QED
    BY <2>3, <2>4
<1>6. ASSUME NEW u \in Tcp, u # t, ClientStep(u, C!ClientNext(u))
      PROVE  /\ client'[t] = client[t] /\ mainThr'[t] = mainThr[t] /\ tcpThr'[t] = tcpThr[t]
  BY <1>6, Moves DEF TInv, IInv, Unmoved, MainKept, RecvKept, RecvIs
<1>7. QED
  BY <1>4, <1>5, <1>6 DEF TunnelNext, ServerStep, tunnelVars, clientVars

LEMMA PunchInit == TunnelInit => PunchInv
<1> SUFFICES ASSUME TunnelInit PROVE PunchInv
  OBVIOUS
<1>1. Init /\ C!ClientInit
  BY DEF TunnelInit
<1>2. \A t \in Tcp : ~Confirming(t)
  BY <1>1 DEF Init, C!ClientInit, Confirming, InStream, Carries, Idle
<1>3. \A t \in Tcp : Flags(t)
  BY <1>1, NoneAssumption DEF Init, NoConnection, Flags
<1>4. \A t \in Tcp : BothReached(t)
  BY <1>1 DEF Init, EmptyBag, SetToBag, BagToSet, Told, BothReached
<1>5. ASSUME NEW t \in Tcp PROVE Remote(t)
  <2>1. /\ client[t] = C!NewClient /\ tcpThr[t] = "idle" /\ Saved(t) = P2P_STATUS_NONE
    BY <1>1, SameStatus DEF C!ClientInit, Saved
  <2>2. client[t].remote = None /\ client[t].type = "PCT_NONE" /\ St(t) = P2P_STATUS_NONE
    BY <2>1, SameStatus DEF C!NewClient, St
  <2>3. P2P_STATUS_NONE \notin PunchStatuses /\ P2P_STATUS_NONE # P2P_CONNECTED
    BY DEF PunchStatuses, P2P_STATUS_NONE, P2P_PUNCHING, P2P_CONNECTED
  <2>4. QED
    BY <2>1, <2>2, <2>3, NoneAssumption DEF Remote, Punching, Connecting
<1>6. \A x, y \in Tcp : Aimed(x, y)
  BY <1>1 DEF C!ClientInit, Aimed
<1>7. QED
  BY <1>2, <1>3, <1>4, <1>5, <1>6 DEF PunchInv

(* The invariant of the whole system that the punch rests on.              *)
PathInv == TInv /\ PointInv /\ PunchInv

LEMMA PathStep == PathInv /\ [TunnelNext]_tunnelVars => PathInv'
<1> SUFFICES ASSUME TInv, PointInv, PunchInv, [TunnelNext]_tunnelVars
             PROVE  TInv' /\ PointInv' /\ PunchInv'
  BY DEF PathInv
<1>1. TInv' /\ [Next]_vars
  BY TunnelStep
<1>2. PointInv'
  BY <1>1, PointNext DEF TInv, ServerInv
<1>3. ASSUME NEW t \in Tcp
      PROVE  /\ (Confirming(t) => t \in Reached)'
             /\ Flags(t)' /\ BothReached(t)' /\ Remote(t)'
  <2>1. Confirming(t)' => t \in Reached'
    <3>1. Reached \subseteq Reached'
      BY KeepaliveStays DEF Reached
    <3>2. Confirming(t)' => t \in Reached
      BY ConfirmingNext DEF PunchInv
    <3>3. QED
      BY <3>1, <3>2
  <2>2. QED
    BY <1>2, <2>1, FlagsNext, BothReachedNext, RemoteNext
<1>4. \A t, u \in Tcp : Aimed(t, u)'
  BY AimedNext
<1>5. QED
  BY <1>1, <1>2, <1>3, <1>4 DEF PunchInv

(* The two keepalives of a client that was told of the confirmations: they *)
(* passed between it and the one client whose address it was sent.         *)
LEMMA PathIsPunched == PathInv => ENetMeansPunched
<1> SUFFICES ASSUME PathInv, NEW t \in Tcp, client[t].type = "PCT_ENET", Settled(t)
             PROVE  Keepalive(t, client[t].remote) /\ Keepalive(client[t].remote, t)
  BY DEF ENetMeansPunched, Settled, Keepalive
<1>1. TunnelTypeOK /\ PointsOnce(t) /\ Remote(t) /\ BothReached(t)
  BY DEF PathInv, TInv, PointInv, PunchInv
<1>2. client[t].remote \in Tcp /\ Points(t, client[t].remote)
  BY <1>1, TunnelTypes DEF Remote, Punching, Members
<1>3. PICK u \in Tcp : Keepalive(t, u) /\ Keepalive(u, t)
  BY <1>1 DEF Remote, Connecting, BothReached
<1>4. Points(t, u)
  BY <1>3 DEF PathInv, PunchInv, Aimed, Keepalive
<1>5. u = client[t].remote
  BY <1>1, <1>2, <1>4 DEF PointsOnce, Settled
<1>6. QED
  BY <1>3, <1>5

(* A client that uses ENet has a punched path, as long as no guest has     *)
(* left a host of its keyword: SetP2POK announces the confirmations of the *)
(* two clients that TPT_CLIENT_INFO pointed at each other.                 *)
THEOREM ENetPathsArePunched == TunnelSpec => []ENetMeansPunched
<1>1. TunnelInit => PathInv
  BY TunnelInvInit, PointInit, PunchInit DEF PathInv, TunnelInit
<1>2. PathInv /\ [TunnelNext]_tunnelVars => PathInv'
  BY PathStep
<1>3. PathInv => ENetMeansPunched
  BY PathIsPunched
<1>4. QED
  BY <1>1, <1>2, <1>3, PTL DEF TunnelSpec

-----------------------------------------------------------------------------
(* The relay: how a host and its guest come to agree on it                 *)

(* A handshake has been sent to y by x.                                    *)
Handshake(x, y) == \E d \in p2p : d.type = "UPT_HANDSHAKE" /\ d.from = x /\ d.to = y

Shook(t) == \E y \in Tcp : Handshake(t, y)

(* Keepalives answer handshakes.                                           *)
Shaken(x) == \E y \in Tcp : Handshake(y, x)

AnswersOnly(x) == udpRecv[x] = "reply" \/ (\E y \in Tcp : Keepalive(x, y)) => Shaken(x)

(* t punches or has begun to; t runs an exchange or is about to; t has had *)
(* its exchange.                                                           *)
PunchBegun(t) == Saved(t) = P2P_PUNCHING \/ Pc(t) = "punch" \/ Shook(t)

InExchange(t) ==
    \/ St(t) \in ExchangeStatuses \/ Saved(t) \in ExchangeStatuses
    \/ Pc(t) \in {"exchange", "giveup"}

Exchanged(t) ==
    InExchange(t) \/ St(t) = P2P_PUNCHING \/ tcpThr[t] = "punching" \/ PunchBegun(t)

(* One exchange: the TPT_START_UDP of the first session is not followed by *)
(* another, and whoever punches has left the exchange for good.            *)
OneStart(t) == peer[t].role = "HOST" => FirstGuest(t)

ExchangesOnce(t) ==
    /\ PunchBegun(t) => Told(t, "TPT_CLIENT_INFO")
    /\ OneStart(t) =>
         /\ AtMostOne(s2c[t], "TPT_START_UDP")
         /\ Exchanged(t) => ~Has(s2c[t], "TPT_START_UDP")
         /\ PunchBegun(t) => ~InExchange(t)

(* A request of t for the relay is under way or being handled.             *)
Requesting(t) == InStream(t, "TPT_PROXY_REQUEST") \/ Carries(t, "TPT_PROXY_REQUEST")

(* The server has told t that the relay is open.                           *)
Allowed(t) == Opened \in BagToSet(sent[t])

(* What a client was sent, it was sent in a session of two.                *)
Invitation(t) == IF peer[t].role = "HOST" THEN "TPT_START_UDP" ELSE "TPT_CONNECT_RESULT"

Joined(t) ==
    /\ Requesting(t) => Told(t, "TPT_START_UDP")
    /\ conn[t].main = t /\ conn[t].guest # None => Told(t, "TPT_START_UDP")
    /\ Allowed(t) \/ Told(t, "TPT_P2P_RESULT") => Told(t, Invitation(t))

(* A guest that was told to start was the guest of a host of its keyword,  *)
(* and still is as long as that host has lost none.                        *)
Hosted(t) ==
    peer[t].role = "GUEST" /\ Told(t, "TPT_START_UDP") =>
      \E k \in Tcp :
        /\ peer[k].role = "HOST" /\ peer[k].keyword = peer[t].keyword
        /\ Told(k, "TPT_START_UDP")
        /\ conn[k].main = k /\ FirstGuest(k) => conn[k].guest = t

(* The session of h, its only one and the only one of its keyword.         *)
FirstSession(h) == conn[h].main = h /\ conn[h].guest # None /\ FirstGuest(h) /\ OnlyHost(h)

(* What is sent to both is sent to both.                                   *)
Twins(h) ==
    LET g == conn[h].guest
    IN  /\ Told(h, "TPT_CLIENT_INFO") <=> Told(g, "TPT_CLIENT_INFO")
        /\ Told(h, "TPT_P2P_RESULT") <=> Told(g, "TPT_P2P_RESULT")
        /\ Allowed(h) <=> Allowed(g)

(* A confirmation comes after the request of its sender.                   *)
AsksFirst(t) ==
    /\ \A m, n \in 1 .. Len(c2s[t]) :
         c2s[t][m] = "TPT_P2P_RESULT" /\ c2s[t][n] = "TPT_PROXY_REQUEST" => n < m
    /\ Carries(t, "TPT_P2P_RESULT") => ~InStream(t, "TPT_PROXY_REQUEST")

(* t has punched, so it requests no relay any more.                        *)
Settles(t) == Shook(t) /\ ~Requesting(t)

AsksNoMore(h) ==
    LET c == conn[h]
    IN  /\ c.mainOK \/ Told(h, "TPT_P2P_RESULT") => Settles(h)
        /\ c.guestOK \/ Told(h, "TPT_P2P_RESULT") => Settles(c.guest)

(* t is in relay mode and skips what would lead it out.                    *)
Aside(t) ==
    /\ St(t) \in {P2P_TCP_PROXY_REQUEST, P2P_TCP_PROXY}
    /\ tcpThr[t] \notin {"punching", "connected"}
    /\ ~Has(s2c[t], "TPT_START_UDP")

(* No packet of this type will be obeyed: before it the client is put in   *)
(* relay mode, by a packet that no TPT_START_UDP follows.                  *)
Passes(t, type) ==
    \/ tcpThr[t] = "ended"
    \/ Aside(t)
    \/ \E m \in 1 .. Len(s2c[t]) :
         /\ s2c[t][m] = Opened
         /\ \A n \in 1 .. Len(s2c[t]) :
              /\ s2c[t][n].type = "TPT_START_UDP" => n < m
              /\ s2c[t][n].type = type => m < n

(* t will not use ENet; t will not punch.                                  *)
Quits(t) == ~Connecting(t) /\ Passes(t, "TPT_P2P_RESULT")

NeverPunches(t) ==
    /\ St(t) # P2P_PUNCHING /\ tcpThr[t] # "punching" /\ ~PunchBegun(t)
    /\ Passes(t, "TPT_CLIENT_INFO")

(* Once the relay is allowed the host takes it, and so does the guest, or  *)
(* the host never punches.                                                 *)
Relayed(h) ==
    LET g == conn[h].guest
    IN  Allowed(h) =>
          /\ Quits(h)
          /\ Quits(g) \/ NeverPunches(h)
          /\ ~Told(g, "TPT_START_UDP") => NeverPunches(h)

RelaySession(h) ==
    /\ Twins(h) /\ AsksNoMore(h) /\ Relayed(h)
    /\ AsksFirst(h) /\ AsksFirst(conn[h].guest)

(* The inductive invariant that TransportsAgree rests on, with PathInv.    *)
AgreeInv ==
    /\ \A t \in Tcp : AnswersOnly(t) /\ ExchangesOnce(t) /\ Joined(t) /\ Hosted(t)
    /\ \A h \in Tcp : FirstSession(h) => RelaySession(h)

-----------------------------------------------------------------------------
(* What a client does that bears on the relay.                             *)

(* Keepalives answer handshakes, and handshakes are sent by the handler of *)
(* P2P_PUNCHING.                                                           *)
LEMMA ShakeMoves ==
    ASSUME TunnelTypeOK, NEW t \in Tcp, C!ClientNext(t)
    PROVE  /\ udpRecv'[t] = "reply" => udpRecv[t] = "reply" \/ Shaken(t)
           /\ \A y : Keepalive(t, y)' => Keepalive(t, y) \/ udpRecv[t] = "reply"
           /\ Shook(t)' => PunchBegun(t)
<1> DEFINE Kept == /\ udpRecv'[t] = "reply" => udpRecv[t] = "reply" \/ Shaken(t)
                   /\ \A y : Keepalive(t, y)' => Keepalive(t, y) \/ udpRecv[t] = "reply"
                   /\ Shook(t)' => PunchBegun(t)
<1>1. udpRecv \in [Tcp -> {"idle", "reply", "confirm"}] /\ p2p \subseteq C!PeerDatagram
  BY TunnelTypes
<1>2. CASE UNCHANGED <<p2p, udpRecv>>
  BY <1>2 DEF Keepalive, Shook, Handshake, PunchBegun
<1>3. ASSUME NEW type, C!SendUDPToPeer(t, type)
      PROVE  \A d \in p2p' : d \in p2p \/ d.type = type
  BY <1>3 DEF C!SendUDPToPeer
<1>4. CASE C!Punch(t)
  <2>1. Saved(t) = P2P_PUNCHING /\ C!SendUDPToPeer(t, "UPT_HANDSHAKE") /\ UNCHANGED udpRecv
    BY <1>4, SameStatus DEF C!Punch, C!Handle, Saved
  <2>2. QED
    BY <1>3, <2>1 DEF Keepalive, PunchBegun
<1>5. CASE C!PunchTimeout(t)
  <2>1. /\ Pc(t) = "punch" /\ UNCHANGED udpRecv
        /\ C!SendUDPToPeer(t, "UPT_HANDSHAKE") \/ UNCHANGED p2p
    BY <1>5 DEF C!PunchTimeout, C!Round, C!At, Pc
  <2>2. QED
    BY <1>3, <2>1 DEF Keepalive, PunchBegun
<1>6. CASE C!SendKeepalive(t)
  <2>1. /\ udpRecv[t] = "reply" /\ udpRecv'[t] = "idle" /\ C!SendUDPToPeer(t, "UPT_KEEPALIVE")
    BY <1>1, <1>6 DEF C!SendKeepalive
  <2>2. QED
    BY <1>3, <2>1 DEF Shook, Handshake, PunchBegun
<1>7. CASE C!RecvHandshake(t)
  <2>1. PICK d \in p2p : d.to = t /\ d.type = "UPT_HANDSHAKE"
    BY <1>7 DEF C!RecvHandshake, C!ForMe
  <2>2. d.from \in Tcp
    BY <1>1 DEF C!PeerDatagram
  <2>3. Shaken(t) /\ UNCHANGED p2p
    BY <1>7, <2>1, <2>2 DEF Shaken, Handshake, C!RecvHandshake, C!netVars
  <2>4. QED
    BY <2>3 DEF Keepalive, Shook, Handshake, PunchBegun
<1>8. CASE C!RecvKeepalive(t) \/ C!SendP2PResult(t)
  <2>1. udpRecv'[t] # "reply" /\ UNCHANGED p2p
    BY <1>1, <1>8 DEF C!RecvKeepalive, C!SendP2PResult, C!netVars
  <2>2. QED
    BY <2>1 DEF Keepalive, Shook, Handshake, PunchBegun
<1>9. CASE C!TCPRecvThread(t)
  BY <1>2, <1>9
     DEF C!TCPRecvThread, C!SetPunching, C!SetConnected, C!SetStatusEvent, C!RecvInit,
         C!RecvWaitResult, C!RecvConnectResult, C!RecvStartUDP, C!RecvClientInfo, C!RecvP2PResult,
         C!RecvProxyResult, C!RecvReset, C!TCPEndProcess, C!SetState, C!SetStopEvent, C!Skip,
         C!netVars
<1>10. CASE C!SendPacket(t)
  BY <1>2, <1>10 DEF C!SendPacket
<1>11. CASE C!Begin(t) \/ C!WakeUp(t) \/ C!LoopEnds(t) \/ C!Greet(t) \/ C!AwaitGuest(t)
           \/ C!Exchange(t) \/ C!WaitSignalled(t) \/ C!ExchangeTimeout(t) \/ C!TurnToRelay(t)
           \/ C!EnterUDPLock(t) \/ C!StopUDP(t) \/ C!Close(t)
  BY <1>2, <1>11 DEF C!Begin, C!WakeUp, C!LoopEnds, C!Greet, C!AwaitGuest, C!Exchange,
                    C!WaitSignalled, C!ExchangeTimeout, C!TurnToRelay, C!EnterUDPLock, C!StopUDP,
                    C!Close, C!netVars, C!Round
<1>12. QED
  BY <1>4, <1>5, <1>6, <1>7, <1>8, <1>9, <1>10, <1>11 DEF C!ClientNext, C!MainThread, C!UDPCallback

(* A client comes to punch in a handler of P2P_PUNCHING, and to exchange   *)
(* by TPT_START_UDP.                                                       *)
LEMMA BegunMoves ==
    ASSUME NEW t \in Tcp, Move(t), Shook(t)' => PunchBegun(t)
    PROVE  PunchBegun(t)' =>
             \/ PunchBegun(t)
             \/ /\ St(t) = P2P_PUNCHING /\ St(t)' = P2P_PUNCHING
                /\ Saved(t)' = P2P_PUNCHING /\ Pc(t)' = "reset"
<1>1. Saved(t)' = P2P_PUNCHING =>
        \/ PunchBegun(t)
        \/ St(t) = P2P_PUNCHING /\ St(t)' = P2P_PUNCHING /\ Pc(t)' = "reset"
  BY DEF Move, MainMove, CloseMove, SendMove, ReceiveMove, RecvMove, MainIs, MainKept, ClientIs,
         St, Pc, Saved, PunchBegun
<1>2. Pc(t)' = "punch" => PunchBegun(t)
  BY DEF Move, MainMove, CloseMove, SendMove, ReceiveMove, RecvMove, MainIs, MainKept, ClientIs,
         St, Pc, Saved, PunchBegun
<1>3. QED
  BY <1>1, <1>2 DEF PunchBegun

LEMMA InExchangeMoves ==
    ASSUME NEW t \in Tcp, Move(t), InExchange(t)'
    PROVE  InExchange(t) \/ (ReceiveMove(t) /\ Head(s2c[t]).type = "TPT_START_UDP")
<1>1. CASE MainMove(t)
  <2>1. /\ St(t)' = St(t)
        /\ Saved(t)' \in {Saved(t), St(t), P2P_STATUS_NONE}
        /\ Pc(t)' \in {"exchange", "giveup"} => Pc(t) = "exchange" \/ Saved(t) \in ExchangeStatuses
    BY <1>1 DEF MainMove, MainIs, ClientIs, St, Pc, Saved
  <2>2. QED
    BY <2>1 DEF InExchange, ExchangeStatuses
<1>2. CASE CloseMove(t)
  BY <1>2 DEF CloseMove, MainIs, ClientIs, St, Pc, Saved, InExchange, ExchangeStatuses
<1>3. CASE SendMove(t)
  BY <1>3 DEF SendMove, MainIs, MainKept, ClientIs, St, Pc, Saved, InExchange, ExchangeStatuses
<1>4. CASE ReceiveMove(t)
  BY <1>4 DEF ReceiveMove, MainKept, ClientIs, St, Pc, Saved, InExchange, ExchangeStatuses,
              GreetingStatus
<1>5. CASE RecvMove(t)
  BY <1>5 DEF RecvMove, MainKept, ClientIs, St, Pc, Saved, InExchange, ExchangeStatuses
<1>6. QED
  BY <1>1, <1>3, <1>4, <1>5, <1>2 DEF Move

(* A client learns the address in an exchange, and then punches.           *)
LEMMA LearnMoves ==
    ASSUME NEW t \in Tcp, Move(t)
    PROVE  /\ St(t)' = P2P_PUNCHING => St(t) = P2P_PUNCHING \/ tcpThr[t] = "punching"
           /\ tcpThr'[t] = "punching" =>
                \/ tcpThr[t] = "punching"
                \/ ReceiveMove(t) /\ Obeys(t, "TPT_CLIENT_INFO", ExchangeStatus(t))
<1>1. CASE MainMove(t)
  BY <1>1 DEF MainMove, RecvKept, RecvIs, ClientIs, St
<1>2. CASE CloseMove(t) \/ SendMove(t)
  BY <1>2 DEF CloseMove, SendMove, RecvKept, RecvIs, ClientIs, St
<1>3. CASE ReceiveMove(t)
  BY <1>3 DEF ReceiveMove, RecvKept, RecvIs, ClientIs, St, GreetingStatus, ExchangeStatus, Obeys
<1>4. CASE RecvMove(t)
  BY <1>4 DEF RecvMove, RecvIs, ClientIs, St
<1>5. QED
  BY <1>1, <1>3, <1>4, <1>2 DEF Move

LEMMA ExchangedMoves ==
    ASSUME NEW t \in Tcp, Move(t), Shook(t)' => PunchBegun(t), Exchanged(t)'
    PROVE  Exchanged(t) \/ (ReceiveMove(t) /\ Head(s2c[t]).type = "TPT_START_UDP")
<1>1. ExchangeStatus(t) \in ExchangeStatuses
  BY DEF ExchangeStatus, ExchangeStatuses
<1>2. QED
  BY <1>1, BegunMoves, InExchangeMoves, LearnMoves DEF Exchanged, InExchange, Obeys

(* A client in relay mode leaves it by TPT_START_UDP only.                 *)
LEMMA AsideMoves ==
    ASSUME TunnelTypeOK, NEW t \in Tcp, GreetsOnce(t), Move(t), Aside(t)
    PROVE  Aside(t)'
<1>1. s2c[t] \in ServerStream /\ s2c \in [Tcp -> ServerStream]
  BY TunnelTypes
<1>2. ~Has(s2c[t], "TPT_INIT") /\ ~Has(s2c[t], "TPT_START_UDP")
  BY DEF Aside, GreetsOnce
<1>3. CASE MainMove(t) \/ CloseMove(t) \/ SendMove(t)
  BY <1>3 DEF MainMove, CloseMove, SendMove, Says, Quiet, RecvKept, RecvIs, ClientIs, St, Aside
<1>4. CASE ReceiveMove(t)
  <2>1. s2c[t] # <<>> /\ s2c'[t] = Tail(s2c[t])
    BY <1>4 DEF ReceiveMove
  <2>2. 1 \in 1 .. Len(s2c[t]) /\ Head(s2c[t]) = s2c[t][1]
    BY <1>1, <2>1, HeadPacket
  <2>3. Head(s2c[t]).type \notin {"TPT_INIT", "TPT_START_UDP"}
    BY <1>2, <2>2 DEF Has
  <2>4. ~Has(s2c'[t], "TPT_START_UDP")
    BY <1>1, <1>2, <2>1, TailStream
  <2>5. /\ St(t)' \in {P2P_TCP_PROXY_REQUEST, P2P_TCP_PROXY}
        /\ tcpThr'[t] \notin {"punching", "connected"}
    BY <1>4, <2>3 DEF ReceiveMove, ExchangeStatus, RecvKept, RecvIs, ClientIs, St, Aside
  <2>6. QED
    BY <2>4, <2>5 DEF Aside
<1>5. CASE RecvMove(t)
  <2>1. ~Has(s2c'[t], "TPT_START_UDP")
    BY <1>2, <1>5, EmptyStream DEF RecvMove
  <2>2. QED
    BY <1>5, <2>1 DEF RecvMove, RecvIs, ClientIs, St, Aside
<1>6. QED
  BY <1>3, <1>4, <1>5 DEF Move

(* What a client passes over, it does not obey.                            *)
LEMMA PassesOver ==
    ASSUME TunnelTypeOK, NEW t \in Tcp, NEW type, Passes(t, type),
           ReceiveMove(t), NEW status, Obeys(t, type, status),
           status \notin {P2P_TCP_PROXY_REQUEST, P2P_TCP_PROXY}
    PROVE  FALSE
<1>1. s2c \in [Tcp -> ServerStream] /\ s2c[t] # <<>> /\ Head(s2c[t]).type = type /\ St(t) = status
      /\ tcpThr[t] = "idle"
  BY TunnelTypes DEF Obeys, ReceiveMove
<1>2. Head(s2c[t]) = s2c[t][1] /\ Len(s2c[t]) \in Nat \ {0}
  BY <1>1, HeadPacket
<1>3. ASSUME NEW m \in 1 .. Len(s2c[t]),
             \A n \in 1 .. Len(s2c[t]) : s2c[t][n].type = type => m < n
      PROVE  FALSE
  BY <1>1, <1>2, <1>3
<1>4. QED
  BY <1>1, <1>3 DEF Passes, Aside

LEMMA PassesMoves ==
    ASSUME TunnelTypeOK, NEW t \in Tcp, GreetsOnce(t), Move(t), NEW type, Passes(t, type)
    PROVE  Passes(t, type)'
<1>1. s2c[t] \in ServerStream /\ s2c \in [Tcp -> ServerStream]
  BY TunnelTypes
<1>2. CASE tcpThr[t] = "ended"
  <2>1. tcpThr'[t] = "ended"
    BY <1>2 DEF Move, MainMove, CloseMove, SendMove, ReceiveMove, RecvMove, RecvKept, RecvIs
  <2>2. QED
    BY <2>1 DEF Passes
<1>3. CASE Aside(t)
  BY <1>3, AsideMoves DEF Passes
<1>4. ASSUME NEW m \in 1 .. Len(s2c[t]), s2c[t][m] = Opened,
             \A n \in 1 .. Len(s2c[t]) : /\ s2c[t][n].type = "TPT_START_UDP" => n < m
                                         /\ s2c[t][n].type = type => m < n
      PROVE  Passes(t, type)'
  <2>1. CASE s2c'[t] = s2c[t]
    BY <1>4, <2>1 DEF Passes
  <2>2. CASE ReceiveMove(t)
    <3>1. s2c[t] # <<>> /\ s2c'[t] = Tail(s2c[t])
      BY <2>2 DEF ReceiveMove
    <3>2. /\ Head(s2c[t]) = s2c[t][1] /\ Len(s2c[t]) \in Nat \ {0}
          /\ Len(s2c'[t]) = Len(s2c[t]) - 1
          /\ \A n \in 1 .. Len(s2c'[t]) : s2c'[t][n] = s2c[t][n + 1]
      BY <1>1, <3>1, HeadPacket
    <3>3. CASE m = 1
      <4>1. Head(s2c[t]) = Opened
        BY <1>4, <3>2, <3>3
      <4>2. Head(s2c[t]).type = "TPT_PROXY_RESULT" /\ Head(s2c[t]).Result = "NONE"
        BY <4>1 DEF Opened, CreateTCPProxyResultPkt
      <4>3. St(t)' = P2P_TCP_PROXY /\ tcpThr'[t] = "signal"
        BY <2>2, <4>2 DEF ReceiveMove, RecvIs, ClientIs, St
      <4>4. ~Has(s2c'[t], "TPT_START_UDP")
        BY <1>4, <3>2, <3>3 DEF Has
      <4>5. QED
        BY <4>3, <4>4 DEF Passes, Aside
    <3>4. CASE m # 1
      <4>1. m - 1 \in 1 .. Len(s2c'[t]) /\ s2c'[t][m - 1] = Opened
        BY <1>4, <3>2, <3>4
      <4>2. \A n \in 1 .. Len(s2c'[t]) : /\ s2c'[t][n].type = "TPT_START_UDP" => n < m - 1
                                         /\ s2c'[t][n].type = type => m - 1 < n
        BY <1>4, <3>2
      <4>3. QED
        BY <4>1, <4>2 DEF Passes
    <3>5. QED
      BY <3>3, <3>4
  <2>3. CASE tcpThr'[t] = "ended"
    BY <2>3 DEF Passes
  <2>4. QED
    BY <2>1, <2>2, <2>3
       DEF Move, MainMove, CloseMove, SendMove, RecvMove, Says, Quiet, RecvIs
<1>5. QED
  BY <1>2, <1>3, <1>4 DEF Passes

-----------------------------------------------------------------------------
(* What the server does that bears on the relay.                           *)

(* What is sent to a host and its guest at once.                           *)
LEMMA PairSteps ==
    ASSUME IInv, NotStartedInv, [Next]_vars, NEW t \in Tcp
    PROVE  /\ Told(t, "TPT_CLIENT_INFO")' /\ ~Told(t, "TPT_CLIENT_INFO") =>
                \E k \in Tcp : Punches(k) /\ t \in {k, conn[k].guest}
           /\ Told(t, "TPT_P2P_RESULT")' /\ ~Told(t, "TPT_P2P_RESULT") =>
                \E k \in Tcp :
                  /\ Confirms(k) /\ BothOK(conn'[k]) /\ t \in {k, conn[k].guest}
                  /\ SendsBoth(k, CreateP2PSuccessPkt, conn[k].guest, CreateP2PSuccessPkt)
           /\ Allowed(t)' /\ ~Allowed(t) =>
                \E k \in Tcp : Relays(k) /\ t \in {k, conn[k].guest}
<1>1. ASSUME Told(t, "TPT_CLIENT_INFO")', ~Told(t, "TPT_CLIENT_INFO")
      PROVE  \E k \in Tcp : Punches(k) /\ t \in {k, conn[k].guest}
  <2>1. PICK p \in BagToSet(sent'[t]) : p.type = "TPT_CLIENT_INFO"
    BY <1>1 DEF Told
  <2>2. Cause(t, p)
    BY <1>1, <2>1, ToldSteps DEF Told
  <2>3. QED
    BY <2>1, <2>2 DEF Cause, CreateTCPResultPkt, CreateTCPStartUDPPkt, CreateP2PSuccessPkt,
                      CreateTCPProxyResultPkt
<1>2. ASSUME Told(t, "TPT_P2P_RESULT")', ~Told(t, "TPT_P2P_RESULT")
      PROVE  \E k \in Tcp :
               /\ Confirms(k) /\ BothOK(conn'[k]) /\ t \in {k, conn[k].guest}
               /\ SendsBoth(k, CreateP2PSuccessPkt, conn[k].guest, CreateP2PSuccessPkt)
  <2>1. PICK p \in BagToSet(sent'[t]) : p.type = "TPT_P2P_RESULT"
    BY <1>2 DEF Told
  <2>2. Cause(t, p) /\ ~UNCHANGED sent
    BY <1>2, <2>1, ToldSteps DEF Told
  <2>3. PICK k \in Tcp : Confirms(k) /\ BothOK(conn'[k]) /\ t \in {k, conn[k].guest}
    BY <2>1, <2>2 DEF Cause, CreateTCPResultPkt, CreateTCPStartUDPPkt, CreateTCPStartPunchingPkt,
                      CreateTCPProxyResultPkt
  <2>4. SendsBoth(k, CreateP2PSuccessPkt, conn[k].guest, CreateP2PSuccessPkt)
    BY <2>2, <2>3 DEF Confirms
  <2>5. QED
    BY <2>3, <2>4
<1>3. ASSUME Allowed(t)', ~Allowed(t)
      PROVE  \E k \in Tcp : Relays(k) /\ t \in {k, conn[k].guest}
  <2>1. IsABag(sent[t]) /\ sent'[t] # sent[t]
    BY <1>3 DEF IInv, TypeOK, PacketBags, Allowed
  <2>2. PICK p : sent'[t] = Ext!BagAdd(sent[t], p) /\ Cause(t, p)
    BY <2>1, SentSteps
  <2>3. p = Opened
    BY <1>3, <2>1, <2>2, BagGrows DEF Allowed
  <2>4. QED
    BY <2>2, <2>3, OpenedBy DEF NotStartedInv
<1>4. QED
  BY <1>1, <1>2, <1>3

(* The same for a host and its guest: none of the two is in another        *)
(* session.                                                                *)
LEMMA TwinSteps ==
    ASSUME IInv, NotStartedInv, [Next]_vars, NEW h \in Tcp, Held(h),
           NEW t \in {h, conn[h].guest}
    PROVE  /\ Told(t, "TPT_CLIENT_INFO")' /\ ~Told(t, "TPT_CLIENT_INFO") => Punches(h)
           /\ Told(t, "TPT_P2P_RESULT")' /\ ~Told(t, "TPT_P2P_RESULT") =>
                /\ Confirms(h) /\ BothOK(conn'[h])
                /\ SendsBoth(h, CreateP2PSuccessPkt, conn[h].guest, CreateP2PSuccessPkt)
           /\ Allowed(t)' /\ ~Allowed(t) => Relays(h)
<1>1. t \in Tcp /\ Party(t, h)
  BY NoneAssumption DEF Held, Party
<1>2. ASSUME NEW k \in Tcp, Held(k), t \in {k, conn[k].guest} PROVE k = h
  <2>1. Party(t, k)
    BY <1>2, NoneAssumption DEF Held, Party
  <2>2. QED
    BY <1>1, <2>1, OneParty
<1>3. \A k \in Tcp : Punches(k) \/ Confirms(k) \/ Relays(k) => Held(k)
  BY DEF Punches, Confirms, Relays
<1>4. QED
  BY <1>1, <1>2, <1>3, PairSteps

(* SendPackets sends each of the three kinds to both.                      *)
LEMMA TwinsNext ==
    ASSUME IInv, NotStartedInv, [Next]_vars, NEW h \in Tcp, Held(h),
           conn'[h].guest = conn[h].guest, Twins(h)
    PROVE  Twins(h)'
<1> DEFINE g == conn[h].guest
<1>1. g \in Tcp /\ IsABag(sent[h]) /\ IsABag(sent[g])
  BY DEF Held, IInv, TypeOK, PacketBags
<1>2. ASSUME NEW p, NEW q, SendsBoth(h, p, g, q)
      PROVE  p \in BagToSet(sent'[h]) /\ q \in BagToSet(sent'[g])
  BY <1>1, <1>2, BagGrows DEF SendsBoth
<1>3. Punches(h) => Told(h, "TPT_CLIENT_INFO")' /\ Told(g, "TPT_CLIENT_INFO")'
  BY <1>2 DEF Punches, Told, CreateTCPStartPunchingPkt
<1>4. SendsBoth(h, CreateP2PSuccessPkt, g, CreateP2PSuccessPkt) =>
        Told(h, "TPT_P2P_RESULT")' /\ Told(g, "TPT_P2P_RESULT")'
  BY <1>2 DEF Told, CreateP2PSuccessPkt
<1>5. Relays(h) => Allowed(h)' /\ Allowed(g)'
  BY <1>2 DEF Relays, Allowed, Opened
<1>6. /\ Told(h, "TPT_CLIENT_INFO")' <=> Told(g, "TPT_CLIENT_INFO")'
      /\ Told(h, "TPT_P2P_RESULT")' <=> Told(g, "TPT_P2P_RESULT")'
      /\ Allowed(h)' <=> Allowed(g)'
  <2>1. \A t \in {h, g} : \A type : Told(t, type) => Told(t, type)'
    BY <1>1, ToldSteps
  <2>2. \A t \in {h, g} : Allowed(t) => Allowed(t)'
    BY <1>1, ToldSteps DEF Allowed
  <2>3. QED
    BY <1>3, <1>4, <1>5, <2>1, <2>2, TwinSteps DEF Twins
<1>7. QED
  BY <1>6 DEF Twins

(* A session with its first guest is the one of a step before, or begins.  *)
LEMMA FirstSessionSteps ==
    ASSUME ServerInv, [Next]_vars, NEW h \in Tcp, Joined(h), FirstSession(h)'
    PROVE  \/ /\ FirstSession(h) /\ conn'[h].guest = conn[h].guest
              /\ conn'[h] = conn[h] \/ Listens(h) \/ Punches(h) \/ Confirms(h)
           \/ FirstGuest(h) /\ \E g \in Tcp : Joins(g, h) /\ conn'[h].guest = g
<1>1. IInv /\ SilentInv
  BY DEF ServerInv
<1>2. FirstGuest(h)
  BY <1>1, ToldSteps DEF FirstSession, FirstGuest
<1>3. CASE \E g \in Tcp : Joins(g, h)
  BY <1>2, <1>3 DEF Joins, Becomes
<1>4. CASE \A g \in Tcp : ~Joins(g, h)
  <2>1. conn'[h].main = h /\ conn'[h].guest # None
    BY DEF FirstSession
  <2>2. conn'[h] = conn[h] \/ Listens(h) \/ Punches(h) \/ Confirms(h)
    BY <1>1, <1>4, <2>1, SessionSteps, NoneAssumption DEF Opens, GuestLeaves, HostLeaves, Becomes
  <2>3. conn[h].main = h /\ conn'[h].guest = conn[h].guest
    BY <2>1, <2>2 DEF Listens, Punches, Confirms, Held, Becomes
  <2>4. Told(h, "TPT_START_UDP")
    BY <2>1, <2>3 DEF Joined
  <2>5. peer'[h].keyword = peer[h].keyword
    BY <1>1, <2>4, RoleSteps DEF Told
  <2>6. OnlyHost(h)
    <3> SUFFICES ASSUME NEW k \in Tcp \ {h}, peer[k].role = "HOST",
                        peer[k].keyword = peer[h].keyword, Told(k, "TPT_START_UDP")
                 PROVE  FALSE
      BY DEF OnlyHost
    <3>1. peer'[k].role = "HOST" /\ peer'[k].keyword = peer[k].keyword
      BY <1>1, RoleSteps DEF Told
    <3>2. Told(k, "TPT_START_UDP")'
      BY <1>1, ToldSteps
    <3>3. QED
      BY <2>5, <3>1, <3>2 DEF FirstSession, OnlyHost
  <2>7. QED
    BY <1>2, <2>1, <2>2, <2>3, <2>6 DEF FirstSession
<1>5. QED
  BY <1>3, <1>4

(* Only the two of a first session ask for its relay: another host of the  *)
(* keyword has had no guest, and another guest was the guest of a host.    *)
LEMMA OneAsker ==
    ASSUME IInv, NEW h \in Tcp, FirstSession(h), NEW t \in Tcp, Joined(t), Hosted(t),
           At(t, "TPT_PROXY_REQUEST"), thr[t].p2p = h
    PROVE  t \in {h, conn[h].guest} /\ Requesting(t)
<1>1. Requesting(t) /\ Told(t, "TPT_START_UDP")
  BY DEF At, Requesting, Carries, Joined
<1>2. peer[t].keyword = peer[h].keyword
  BY AtFacts, Parties, NoneAssumption DEF FirstSession
<1>3. peer[t].role \in Role
  BY DEF At, IInv, ThreadInv
<1>4. CASE peer[t].role = "HOST"
  BY <1>1, <1>2, <1>4 DEF FirstSession, OnlyHost
<1>5. CASE peer[t].role = "GUEST"
  <2>1. PICK k \in Tcp : /\ peer[k].role = "HOST" /\ peer[k].keyword = peer[t].keyword
                         /\ Told(k, "TPT_START_UDP")
                         /\ conn[k].main = k /\ FirstGuest(k) => conn[k].guest = t
    BY <1>1, <1>5 DEF Hosted
  <2>2. k = h
    BY <1>2, <2>1 DEF FirstSession, OnlyHost
  <2>3. QED
    BY <1>1, <2>1, <2>2 DEF FirstSession
<1>6. QED
  BY <1>1, <1>3, <1>4, <1>5 DEF Role

(* The host of a guest that was told to start stays the same.              *)
LEMMA HostedNext ==
    ASSUME ServerInv, [Next]_vars, NEW t \in Tcp, Hosted(t), \A h \in Tcp : Joined(h)
    PROVE  Hosted(t)'
<1> SUFFICES ASSUME peer'[t].role = "GUEST", Told(t, "TPT_START_UDP")'
             PROVE  \E k \in Tcp :
                      /\ peer'[k].role = "HOST" /\ peer'[k].keyword = peer'[t].keyword
                      /\ Told(k, "TPT_START_UDP")'
                      /\ conn'[k].main = k /\ FirstGuest(k)' => conn'[k].guest = t
  BY DEF Hosted
<1>1. IInv /\ SilentInv /\ OrderInv
  BY DEF ServerInv
<1>2. ASSUME NEW x \in Tcp, Told(x, "TPT_START_UDP")
      PROVE  /\ peer'[x].role = peer[x].role /\ peer'[x].keyword = peer[x].keyword
             /\ Told(x, "TPT_START_UDP")'
  BY <1>1, <1>2, RoleSteps, ToldSteps DEF Told
<1>3. CASE Told(t, "TPT_START_UDP")
  <2>1. PICK k \in Tcp : /\ peer[k].role = "HOST" /\ peer[k].keyword = peer[t].keyword
                         /\ Told(k, "TPT_START_UDP")
                         /\ conn[k].main = k /\ FirstGuest(k) => conn[k].guest = t
    BY <1>2, <1>3 DEF Hosted
  <2>2. ASSUME conn'[k].main = k, FirstGuest(k)' PROVE conn'[k].guest = t
    <3>1. /\ conn[k].main = k /\ FirstGuest(k)
          /\ \/ conn'[k] = conn[k]
             \/ Listens(k) \/ Punches(k) \/ Confirms(k)
             \/ \E g \in Tcp : Joins(g, k)
      BY <2>1, <2>2, HostSteps
    <3>2. conn[k].guest = t
      BY <2>1, <3>1
    <3>3. QED
      BY <3>1, <3>2, NoneAssumption DEF Listens, Punches, Confirms, Joins, Becomes
  <2>3. QED
    BY <1>2, <1>3, <2>1, <2>2
<1>4. CASE ~Told(t, "TPT_START_UDP")
  <2>1. ~UNCHANGED sent
    BY <1>4 DEF Told
  <2>2. \A x \in Tcp : peer'[x].role = peer[x].role /\ peer'[x].keyword = peer[x].keyword
    BY <1>1, <2>1, RoleSteps
  <2>3. \A g \in Tcp : ~Joins(g, t)
    BY <1>1, <2>2, Parties, NoneAssumption DEF Joins
  <2>4. PICK h \in Tcp : Listens(h) /\ t = conn[h].guest
    BY <1>1, <1>4, <2>3, StartSteps
  <2>5. /\ conn[h].main = h /\ conn[h].guest # None /\ conn'[h].guest = t
    BY <2>4, NoneAssumption DEF Listens, Held, Becomes
  <2>6. Told(h, "TPT_START_UDP")
    BY <2>5 DEF Joined
  <2>7. peer[h].role = "HOST" /\ peer[h].keyword = peer[t].keyword
    BY <1>1, <2>4, <2>5, Parties, NoneAssumption DEF IInv, SessionInv
  <2>8. QED
    BY <1>2, <2>2, <2>5, <2>6, <2>7
<1>5. QED
  BY <1>3, <1>4

(* No second TPT_START_UDP as long as the first guest stays.               *)
LEMMA StartsOnce ==
    ASSUME ServerInv, NEW t \in Tcp, LostGuest(t), OneStart(t),
           NEW p, p.type = "TPT_START_UDP", Cause(t, p)
    PROVE  ~Told(t, "TPT_START_UDP")
<1>1. IInv
  BY DEF ServerInv
<1>2. CASE peer[t].role = "HOST"
  <2>1. PICK g \in Tcp : Joins(g, t)
    BY <1>1, <1>2, StartCause
  <2>2. QED
    BY <1>2, <2>1 DEF Joins, LostGuest, OneStart
<1>3. CASE peer[t].role # "HOST"
  BY <1>1, <1>3, StartCause DEF ServerInv, NotStartedInv, NotStarted
<1>4. QED
  BY <1>2, <1>3

-----------------------------------------------------------------------------
(* The relay, step by step.                                                *)

(* A step of the whole, as one client sees it: its own, or another's that  *)
(* may bring it a packet or take the packets it sent.                      *)
Acts(t) ==
    /\ C!ClientNext(t) /\ Move(t)
    /\ UNCHANGED <<sent, conn, thr>>
    /\ \/ c2s'[t] = c2s[t]
       \/ \E type \in ClientTCPType :
            /\ c2s'[t] = Append(c2s[t], type)
            /\ type = "TPT_PROXY_REQUEST" => Pc(t) = "giveup"

Rests(t) ==
    /\ client'[t] = client[t] /\ MainKept(t) /\ RecvKept(t)
    /\ Drained(t)
    /\ \A d \in p2p' : d \in p2p \/ d.from # t
    /\ \/ sent'[t] = sent[t] /\ s2c'[t] = s2c[t]
       \/ \E p \in ServerPacket(Id, Tcp) :
            sent'[t] = Ext!BagAdd(sent[t], p) /\ Cause(t, p) /\ s2c'[t] = Append(s2c[t], p)

LEMMA ActsOrRests ==
    ASSUME TInv, [TunnelNext]_tunnelVars, NEW t \in Tcp
    PROVE  Acts(t) \/ Rests(t)
<1>1. TypeOK /\ IInv /\ TunnelTypeOK /\ [Next]_vars /\ c2s \in [Tcp -> Seq(ClientTCPType)]
  BY TunnelStep DEF TInv, IInv, TypeOK
<1>2. CASE ServerStep(ServerNext)
  <2>1. Deliver /\ Drained(t) /\ UNCHANGED <<p2p, client, mainThr, tcpThr, udpRecv>>
    BY <1>1, <1>2, ServerStreams DEF ServerStep
  <2>2. \/ sent'[t] = sent[t] /\ s2c'[t] = s2c[t]
        \/ \E p \in ServerPacket(Id, Tcp) :
             sent'[t] = Ext!BagAdd(sent[t], p) /\ Cause(t, p) /\ s2c'[t] = Append(s2c[t], p)
    BY <1>1, <2>1, DeliverSteps
  <2>3. QED
    BY <2>1, <2>2 DEF Rests, MainKept, RecvKept, RecvIs
<1>3. ASSUME NEW u \in Tcp, ClientStep(u, C!ClientNext(u)) PROVE Acts(t) \/ Rests(t)
  <2>1. C!ClientNext(u) /\ UNCHANGED <<sent, conn, thr>>
    BY <1>3 DEF ClientStep
  <2>2. Move(u) /\ \A x \in Tcp \ {u} : Unmoved(x)
    BY <1>1, <1>3, Moves
  <2>3. \/ c2s' = c2s
        \/ \E type \in ClientTCPType :
             /\ c2s' = [c2s EXCEPT ![u] = Append(@, type)]
             /\ type = "TPT_PROXY_REQUEST" => Pc(u) = "giveup"
    BY <1>1, <2>1, ConfirmMoves
  <2>4. CASE u = t
    BY <1>1, <2>1, <2>2, <2>3, <2>4 DEF Acts
  <2>5. CASE u # t
    <3>1. Unmoved(t) /\ c2s'[t] = c2s[t]
      BY <1>1, <2>2, <2>3, <2>5
    <3>2. \A d \in p2p' : d \in p2p \/ d.from # t
      BY <2>1, <2>5, PeerDatagrams
    <3>3. QED
      BY <2>1, <3>1, <3>2 DEF Unmoved, Quiet, Rests, Drained
  <2>6. QED
    BY <2>4, <2>5
<1>4. CASE UNCHANGED tunnelVars
  BY <1>4 DEF tunnelVars, clientVars, vars, netVars, Rests, Drained, MainKept, RecvKept, RecvIs
<1>5. QED
  BY <1>2, <1>3, <1>4 DEF TunnelNext

(* The server takes the packets of a client in their order.                *)
LEMMA DrainedStream ==
    ASSUME c2s \in [Tcp -> Seq(ClientTCPType)], NEW t \in Tcp, Drained(t)
    PROVE  \/ c2s'[t] = c2s[t]
           \/ c2s'[t] = <<>>
           \/ /\ Dispatch(t, c2s[t][1]) /\ c2s[t] # <<>>
              /\ Len(c2s[t]) \in Nat \ {0} /\ Len(c2s'[t]) = Len(c2s[t]) - 1
              /\ \A n \in 1 .. Len(c2s'[t]) :
                   n + 1 \in 1 .. Len(c2s[t]) /\ c2s'[t][n] = c2s[t][n + 1]
<1>1. c2s[t] \in Seq(ClientTCPType)
  OBVIOUS
<1>2. ASSUME Dispatch(t, Head(c2s[t])), c2s'[t] = Tail(c2s[t])
      PROVE  /\ Dispatch(t, c2s[t][1]) /\ c2s[t] # <<>>
             /\ Len(c2s[t]) \in Nat \ {0} /\ Len(c2s'[t]) = Len(c2s[t]) - 1
             /\ \A n \in 1 .. Len(c2s'[t]) :
                  n + 1 \in 1 .. Len(c2s[t]) /\ c2s'[t][n] = c2s[t][n + 1]
  <2>1. c2s[t] # <<>>
    BY <1>2 DEF Dispatch
  <2>2. Head(c2s[t]) = c2s[t][1]
    BY <1>1, <2>1
  <2>3. QED
    BY <1>1, <1>2, <2>1, <2>2
<1>3. QED
  BY <1>2 DEF Drained

(* A request comes from a client that gives up its exchange.               *)
LEMMA RequestingNext ==
    ASSUME TInv, [TunnelNext]_tunnelVars, NEW t \in Tcp, Requesting(t)'
    PROVE  Requesting(t) \/ (Acts(t) /\ Pc(t) = "giveup")
<1>1. c2s \in [Tcp -> Seq(ClientTCPType)] /\ IInv /\ [Next]_vars
  BY TunnelStep DEF TInv, IInv, TypeOK
<1>2. c2s[t] \in Seq(ClientTCPType)
  BY <1>1
<1>3. CASE Acts(t)
  <2>1. Carries(t, "TPT_PROXY_REQUEST")' => Carries(t, "TPT_PROXY_REQUEST")
    BY <1>3 DEF Acts, Carries
  <2>2. ASSUME NEW type, c2s'[t] = Append(c2s[t], type), type # "TPT_PROXY_REQUEST",
               InStream(t, "TPT_PROXY_REQUEST")'
        PROVE  InStream(t, "TPT_PROXY_REQUEST")
    <3>1. \A n \in 1 .. Len(c2s'[t]) :
            c2s'[t][n] = type \/ (n \in 1 .. Len(c2s[t]) /\ c2s'[t][n] = c2s[t][n])
      BY <1>2, <2>2
    <3>2. QED
      BY <2>2, <3>1 DEF InStream
  <2>3. CASE c2s'[t] = c2s[t]
    BY <1>3, <2>1, <2>3 DEF Requesting, InStream
  <2>4. QED
    BY <1>3, <2>1, <2>2, <2>3 DEF Acts, Requesting
<1>4. CASE Rests(t)
  <2>1. Carries(t, "TPT_PROXY_REQUEST")' =>
          Carries(t, "TPT_PROXY_REQUEST") \/ Dispatch(t, "TPT_PROXY_REQUEST")
    BY <1>1, CarrySteps
  <2>2. Dispatch(t, "TPT_PROXY_REQUEST") => InStream(t, "TPT_PROXY_REQUEST")
    BY <1>2 DEF Dispatch, InStream
  <2>3. InStream(t, "TPT_PROXY_REQUEST")' => InStream(t, "TPT_PROXY_REQUEST")
    <3>1. \A n \in 1 .. Len(c2s'[t]) : \E m \in 1 .. Len(c2s[t]) : c2s'[t][n] = c2s[t][m]
      BY <1>1, <1>4, DrainedStream DEF Rests
    <3>2. QED
      BY <3>1 DEF InStream
  <2>4. QED
    BY <1>4, <2>1, <2>2, <2>3 DEF Requesting
<1>5. QED
  BY <1>3, <1>4, ActsOrRests

(* A client that gives up its exchange has confirmed nothing, so a         *)
(* confirmation is behind its request.                                     *)
LEMMA AsksFirstNext ==
    ASSUME TInv, [TunnelNext]_tunnelVars, NEW t \in Tcp, AsksFirst(t),
           Pc(t) = "giveup" => ~Confirming(t)
    PROVE  AsksFirst(t)'
<1>1. c2s \in [Tcp -> Seq(ClientTCPType)] /\ IInv /\ [Next]_vars
  BY TunnelStep DEF TInv, IInv, TypeOK
<1>2. c2s[t] \in Seq(ClientTCPType)
  BY <1>1
<1>3. CASE Acts(t)
  <2>1. Carries(t, "TPT_P2P_RESULT")' = Carries(t, "TPT_P2P_RESULT")
    BY <1>3 DEF Acts, Carries
  <2>2. CASE c2s'[t] = c2s[t]
    BY <2>1, <2>2 DEF AsksFirst, InStream
  <2>3. ASSUME NEW type \in ClientTCPType, c2s'[t] = Append(c2s[t], type),
               type = "TPT_PROXY_REQUEST" => Pc(t) = "giveup"
        PROVE  AsksFirst(t)'
    <3>1. /\ Len(c2s[t]) \in Nat /\ Len(c2s'[t]) = Len(c2s[t]) + 1
          /\ \A n \in 1 .. Len(c2s[t]) : c2s'[t][n] = c2s[t][n]
          /\ c2s'[t][Len(c2s[t]) + 1] = type
      BY <1>2, <2>3
    <3>2. CASE type = "TPT_PROXY_REQUEST"
      <4>1. ~InStream(t, "TPT_P2P_RESULT") /\ ~Carries(t, "TPT_P2P_RESULT")
        BY <2>3, <3>2 DEF Confirming
      <4>2. \A m \in 1 .. Len(c2s'[t]) : c2s'[t][m] # "TPT_P2P_RESULT"
        BY <3>1, <3>2, <4>1 DEF InStream
      <4>3. QED
        BY <2>1, <4>1, <4>2 DEF AsksFirst
    <3>3. CASE type # "TPT_PROXY_REQUEST"
      <4>1. \A n \in 1 .. Len(c2s'[t]) : c2s'[t][n] = "TPT_PROXY_REQUEST" =>
              n \in 1 .. Len(c2s[t]) /\ c2s[t][n] = "TPT_PROXY_REQUEST"
        BY <3>1, <3>3
      <4>2. \A m, n \in 1 .. Len(c2s'[t]) :
              c2s'[t][m] = "TPT_P2P_RESULT" /\ c2s'[t][n] = "TPT_PROXY_REQUEST" => n < m
        BY <3>1, <4>1 DEF AsksFirst
      <4>3. InStream(t, "TPT_PROXY_REQUEST")' => InStream(t, "TPT_PROXY_REQUEST")
        BY <4>1 DEF InStream
      <4>4. QED
        BY <2>1, <4>2, <4>3 DEF AsksFirst
    <3>4. QED
      BY <3>2, <3>3
  <2>4. QED
    BY <1>3, <2>2, <2>3 DEF Acts
<1>4. CASE Rests(t)
  <2>1. Carries(t, "TPT_P2P_RESULT")' =>
          Carries(t, "TPT_P2P_RESULT") \/ Dispatch(t, "TPT_P2P_RESULT")
    BY <1>1, CarrySteps
  <2>2. Dispatch(t, "TPT_P2P_RESULT") =>
          c2s[t] # <<>> /\ c2s[t][1] = "TPT_P2P_RESULT" /\ c2s'[t] = Tail(c2s[t])
    BY <1>1, <1>2 DEF Dispatch
  <2>3. CASE c2s'[t] = c2s[t]
    <3>1. c2s[t] # <<>> => Tail(c2s[t]) # c2s[t]
      BY <1>2, TailGreets
    <3>2. QED
      BY <2>1, <2>2, <2>3, <3>1 DEF AsksFirst, InStream
  <2>4. CASE c2s'[t] = <<>>
    BY <2>4 DEF AsksFirst, InStream
  <2>5. ASSUME /\ Len(c2s[t]) \in Nat \ {0} /\ Len(c2s'[t]) = Len(c2s[t]) - 1
               /\ \A n \in 1 .. Len(c2s'[t]) :
                    n + 1 \in 1 .. Len(c2s[t]) /\ c2s'[t][n] = c2s[t][n + 1]
        PROVE  AsksFirst(t)'
    <3>1. ASSUME NEW m \in 1 .. Len(c2s'[t]), NEW n \in 1 .. Len(c2s'[t]),
                 c2s'[t][m] = "TPT_P2P_RESULT", c2s'[t][n] = "TPT_PROXY_REQUEST"
          PROVE  n < m
      <4>1. n + 1 < m + 1
        BY <2>5, <3>1 DEF AsksFirst
      <4>2. QED
        BY <4>1, <2>5
    <3>2. InStream(t, "TPT_PROXY_REQUEST")' => InStream(t, "TPT_PROXY_REQUEST")
      BY <2>5 DEF InStream
    <3>3. c2s[t][1] = "TPT_P2P_RESULT" => ~InStream(t, "TPT_PROXY_REQUEST")'
      <4>1. ASSUME c2s[t][1] = "TPT_P2P_RESULT", NEW n \in 1 .. Len(c2s'[t]),
                   c2s'[t][n] = "TPT_PROXY_REQUEST"
            PROVE  FALSE
        <5>1. n + 1 < 1
          BY <2>5, <4>1 DEF AsksFirst
        <5>2. QED
          BY <5>1
      <4>2. QED
        BY <4>1 DEF InStream
    <3>4. QED
      BY <2>1, <2>2, <3>1, <3>2, <3>3 DEF AsksFirst
  <2>6. QED
    BY <1>1, <1>4, <2>3, <2>4, <2>5, DrainedStream DEF Rests
<1>5. QED
  BY <1>3, <1>4, ActsOrRests

LEMMA QuietAsksFirst == \A t : ~Confirming(t) => AsksFirst(t)
BY DEF Confirming, AsksFirst, InStream

(* The keepalives of a first session are answers to handshakes of its two. *)
LEMMA PeersShake ==
    ASSUME PathInv, \A t \in Tcp : AnswersOnly(t), NEW h \in Tcp, FirstSession(h)
    PROVE  LET g == conn[h].guest
           IN  /\ g \in Tcp /\ g # h /\ peer[h].role = "HOST" /\ peer[g].role = "GUEST"
               /\ h \in Reached => Shook(h)
               /\ g \in Reached => Shook(g)
<1> DEFINE g == conn[h].guest
<1>1. g \in Tcp /\ g # h /\ conn[h].main = h /\ FirstGuest(h)
      /\ peer[h].role = "HOST" /\ peer[g].role = "GUEST"
  BY Parties, NoneAssumption DEF PathInv, TInv, FirstSession, Held
<1>2. \A x, y \in Tcp : Aimed(x, y) /\ PointsTo(x, y)
  BY DEF PathInv, PunchInv, PointInv
<1>3. \A x \in Tcp : Points(x, h) => x = g
  BY <1>1, <1>2 DEF PointsTo
<1>4. \A x \in Tcp : Points(x, g) => x = h
  BY <1>1, <1>2 DEF PointsTo
<1>5. \A x, y \in Tcp : Keepalive(x, y) \/ Handshake(x, y) => Points(x, y)
  BY <1>2 DEF Aimed, Keepalive, Handshake
<1>6. h \in Reached => Shook(h)
  <2> SUFFICES ASSUME NEW x \in Tcp, Keepalive(x, h) PROVE Shook(h)
    BY DEF Reached
  <2>1. x = g
    BY <1>1, <1>3, <1>5
  <2>2. PICK y \in Tcp : Handshake(y, g)
    BY <1>1, <2>1 DEF AnswersOnly, Shaken
  <2>3. y = h
    BY <1>1, <1>4, <1>5, <2>2
  <2>4. QED
    BY <1>1, <2>2, <2>3 DEF Shook
<1>7. g \in Reached => Shook(g)
  <2> SUFFICES ASSUME NEW x \in Tcp, Keepalive(x, g) PROVE Shook(g)
    BY DEF Reached
  <2>1. x = h
    BY <1>1, <1>4, <1>5
  <2>2. PICK y \in Tcp : Handshake(y, h)
    BY <1>1, <2>1 DEF AnswersOnly, Shaken
  <2>3. y = g
    BY <1>1, <1>3, <1>5, <2>2
  <2>4. QED
    BY <1>1, <2>2, <2>3 DEF Shook
<1>8. QED
  BY <1>1, <1>6, <1>7

(* Datagrams stay, and a keepalive is sent for a handshake received.       *)
LEMMA ShookStays ==
    ASSUME [TunnelNext]_tunnelVars, NEW t \in Tcp
    PROVE  /\ Shook(t) => Shook(t)'
           /\ Shaken(t) => Shaken(t)'
BY PeerToPeerSteps DEF Shook, Shaken, Handshake

LEMMA AnswersOnlyNext ==
    ASSUME TInv, [TunnelNext]_tunnelVars, NEW t \in Tcp, AnswersOnly(t)
    PROVE  AnswersOnly(t)'
<1>1. CASE Acts(t)
  <2>1. /\ udpRecv'[t] = "reply" => udpRecv[t] = "reply" \/ Shaken(t)
        /\ \A y : Keepalive(t, y)' => Keepalive(t, y) \/ udpRecv[t] = "reply"
    BY <1>1, ShakeMoves DEF Acts, TInv
  <2>2. QED
    BY <2>1, ShookStays DEF AnswersOnly
<1>2. CASE Rests(t)
  <2>1. udpRecv'[t] = udpRecv[t] /\ \A y : Keepalive(t, y)' => Keepalive(t, y)
    BY <1>2 DEF Rests, RecvKept, RecvIs, Keepalive
  <2>2. QED
    BY <2>1, ShookStays DEF AnswersOnly
<1>3. QED
  BY <1>1, <1>2, ActsOrRests

(* What is sent to the two of a session comes after what made them two.    *)
LEMMA JoinedNext ==
    ASSUME TInv, [TunnelNext]_tunnelVars, NEW t \in Tcp, \A k \in Tcp : Joined(k)
    PROVE  Joined(t)'
<1>1. IInv /\ SilentInv /\ OrderInv /\ NotStartedInv /\ [Next]_vars
  BY TunnelStep DEF TInv
<1>2. \A type : Told(t, type) => Told(t, type)'
  BY <1>1, ToldSteps
<1>3. Requesting(t)' => Told(t, "TPT_START_UDP")'
  <2>1. Pc(t) = "giveup" => Told(t, "TPT_START_UDP")
    BY DEF TInv, ClientInv, Informed, Exchanges
  <2>2. QED
    BY <1>2, <2>1, RequestingNext DEF Joined
<1>4. ASSUME conn'[t].main = t, conn'[t].guest # None PROVE Told(t, "TPT_START_UDP")'
  <2>1. CASE \E g \in Tcp : Joins(g, t)
    <3>1. sent'[t] = Ext!BagAdd(sent[t], CreateTCPStartUDPPkt) /\ IsABag(sent[t])
      BY <1>1, <2>1 DEF Joins, SendsBoth, IInv, TypeOK, PacketBags
    <3>2. CreateTCPStartUDPPkt \in BagToSet(sent'[t])
      BY <3>1, BagGrows
    <3>3. QED
      BY <3>2 DEF Told, CreateTCPStartUDPPkt
  <2>2. CASE \A g \in Tcp : ~Joins(g, t)
    <3>1. conn'[t] = conn[t] \/ Listens(t) \/ Punches(t) \/ Confirms(t)
      BY <1>1, <1>4, <2>2, SessionSteps, NoneAssumption DEF Opens, GuestLeaves, HostLeaves, Becomes
    <3>2. conn[t].main = t /\ conn[t].guest # None
      BY <1>4, <3>1, NoneAssumption DEF Listens, Punches, Confirms, Held
    <3>3. QED
      BY <1>2, <3>2 DEF Joined
  <2>3. QED
    BY <2>1, <2>2
<1>5. ASSUME Allowed(t)' \/ Told(t, "TPT_P2P_RESULT")' PROVE Told(t, Invitation(t))'
  <2>1. CASE Allowed(t) \/ Told(t, "TPT_P2P_RESULT")
    <3>1. Told(t, Invitation(t)) /\ BagToSet(sent[t]) # {}
      BY <2>1 DEF Joined, Allowed, Told
    <3>2. peer'[t].role = peer[t].role
      BY <1>1, <3>1, RoleSteps
    <3>3. QED
      BY <1>2, <3>1, <3>2 DEF Invitation
  <2>2. CASE ~Allowed(t) /\ ~Told(t, "TPT_P2P_RESULT")
    <3>1. PICK k \in Tcp : Held(k) /\ t \in {k, conn[k].guest}
      BY <1>1, <1>5, <2>2, PairSteps DEF Confirms, Relays
    <3>2. peer'[t].role = peer[t].role
      BY <1>1, <1>5, <2>2, RoleSteps DEF Allowed, Told
    <3>3. conn[k].main = k /\ peer[k].role = "HOST" /\ peer[conn[k].guest].role = "GUEST"
      BY <1>1, <3>1, Parties, NoneAssumption DEF Held
    <3>4. CASE t = k
      <4>1. Told(t, "TPT_START_UDP")
        BY <3>1, <3>3, <3>4, NoneAssumption DEF Joined, Held
      <4>2. QED
        BY <1>2, <3>2, <3>3, <3>4, <4>1 DEF Invitation
    <3>5. CASE t = conn[k].guest
      <4>1. Count(t, "TPT_CONNECT_RESULT") = 1 /\ IsFiniteSet(Copies(sent[t], "TPT_CONNECT_RESULT"))
        BY <1>1, <3>5 DEF OrderInv, Ordered
      <4>2. IsABag(sent[t])
        BY <1>1 DEF IInv, TypeOK, PacketBags
      <4>3. Told(t, "TPT_CONNECT_RESULT")
        BY <4>1, <4>2, CountNat
      <4>4. QED
        BY <1>2, <3>2, <3>3, <3>5, <4>3 DEF Invitation
    <3>6. QED
      BY <3>1, <3>4, <3>5
  <2>3. QED
    BY <2>1, <2>2
<1>6. QED
  BY <1>3, <1>4, <1>5 DEF Joined

(* Whoever has been in an exchange was told to start one.                  *)
LEMMA ExchangedTold ==
    ASSUME TInv, NEW t \in Tcp, Exchanged(t), PunchBegun(t) => Told(t, "TPT_CLIENT_INFO")
    PROVE  Told(t, "TPT_START_UDP")
<1>1. Informed(t) /\ IInv /\ OrderInv
  BY DEF TInv, ClientInv
<1>2. InExchange(t) => Told(t, "TPT_START_UDP")
  BY <1>1 DEF InExchange, Informed, Exchanges
<1>3. ~InExchange(t) => Told(t, "TPT_CLIENT_INFO")
  BY <1>1 DEF Exchanged, Informed
<1>4. QED
  BY <1>1, <1>2, <1>3, InfoAfterStart

(* No step leads from the punch back into the exchange.                    *)
LEMMA ExchangesOnceNext ==
    ASSUME TInv, PointInv, [TunnelNext]_tunnelVars, NEW t \in Tcp, ExchangesOnce(t)
    PROVE  ExchangesOnce(t)'
<1>1. ServerInv /\ IInv /\ SilentInv /\ [Next]_vars /\ TunnelTypeOK /\ Informed(t) /\ LostGuest(t)
  BY TunnelStep DEF TInv, ServerInv, ClientInv, PointInv
<1>2. \A type : Told(t, type) => Told(t, type)'
  BY <1>1, ToldSteps
<1>3. OneStart(t)' => OneStart(t)
  <2>1. FirstGuest(t)' => FirstGuest(t)
    BY <1>2 DEF FirstGuest
  <2>2. BagToSet(sent[t]) = {} => FirstGuest(t)
    BY DEF FirstGuest, Told
  <2>3. QED
    BY <1>1, <2>1, <2>2, RoleSteps DEF OneStart
<1>4. s2c[t] \in ServerStream /\ s2c \in [Tcp -> ServerStream]
  BY <1>1, TunnelTypes
<1>5. CASE Acts(t)
  <2>1. Move(t) /\ (Shook(t)' => PunchBegun(t))
    BY <1>1, <1>5, ShakeMoves DEF Acts
  <2>2. PunchBegun(t)' => \/ PunchBegun(t)
                          \/ /\ St(t) = P2P_PUNCHING /\ St(t)' = P2P_PUNCHING
                             /\ Saved(t)' = P2P_PUNCHING /\ Pc(t)' = "reset"
    BY <2>1, BegunMoves
  <2>3. PunchBegun(t)' => Told(t, "TPT_CLIENT_INFO")'
    BY <1>1, <1>2, <2>2 DEF ExchangesOnce, Informed
  <2>4. ASSUME OneStart(t)
        PROVE  /\ AtMostOne(s2c'[t], "TPT_START_UDP")
               /\ Exchanged(t)' => ~Has(s2c'[t], "TPT_START_UDP")
               /\ PunchBegun(t)' => ~InExchange(t)'
    <3>1. /\ AtMostOne(s2c[t], "TPT_START_UDP")
          /\ Exchanged(t) => ~Has(s2c[t], "TPT_START_UDP")
          /\ PunchBegun(t) => ~InExchange(t)
      BY <2>4 DEF ExchangesOnce
    <3>2. /\ AtMostOne(s2c'[t], "TPT_START_UDP")
          /\ Has(s2c'[t], "TPT_START_UDP") => Has(s2c[t], "TPT_START_UDP")
      <4>1. CASE s2c'[t] = s2c[t]
        BY <3>1, <4>1
      <4>2. CASE s2c'[t] = <<>>
        BY <4>2, EmptyStream
      <4>3. CASE s2c'[t] = Tail(s2c[t]) /\ s2c[t] # <<>>
        BY <1>4, <3>1, <4>3, TailStream
      <4>4. QED
        BY <2>1, <4>1, <4>2, <4>3, MoveStream
    <3>3. ASSUME ReceiveMove(t), Head(s2c[t]).type = "TPT_START_UDP"
          PROVE  Has(s2c[t], "TPT_START_UDP") /\ ~Has(s2c'[t], "TPT_START_UDP")
      <4>1. s2c[t] # <<>> /\ s2c'[t] = Tail(s2c[t])
        BY <3>3 DEF ReceiveMove
      <4>2. s2c[t][1].type = "TPT_START_UDP" /\ 1 \in 1 .. Len(s2c[t])
        BY <1>4, <3>3, <4>1, HeadPacket
      <4>3. QED
        BY <1>4, <3>1, <4>1, <4>2, TailStream DEF Has
    <3>4. Exchanged(t)' => ~Has(s2c'[t], "TPT_START_UDP")
      BY <2>1, <3>1, <3>2, <3>3, ExchangedMoves
    <3>5. PunchBegun(t)' => ~InExchange(t)'
      <4>1. CASE PunchBegun(t)
        <5>1. ~InExchange(t) /\ ~Has(s2c[t], "TPT_START_UDP")
          BY <3>1, <4>1 DEF Exchanged
        <5>2. QED
          BY <2>1, <3>3, <5>1, InExchangeMoves
      <4>2. CASE /\ St(t)' = P2P_PUNCHING /\ Saved(t)' = P2P_PUNCHING /\ Pc(t)' = "reset"
        BY <4>2 DEF InExchange, ExchangeStatuses
      <4>3. QED
        BY <2>2, <4>1, <4>2
    <3>6. QED
      BY <3>2, <3>4, <3>5
  <2>5. QED
    BY <1>3, <2>3, <2>4 DEF ExchangesOnce
<1>6. CASE Rests(t)
  <2>1. Shook(t)' => Shook(t)
    BY <1>6 DEF Rests, Shook, Handshake
  <2>2. St(t)' = St(t) /\ Saved(t)' = Saved(t) /\ Pc(t)' = Pc(t) /\ tcpThr'[t] = tcpThr[t]
    BY <1>6 DEF Rests, MainKept, RecvKept, RecvIs, St, Saved, Pc
  <2>3. PunchBegun(t)' => PunchBegun(t)
    BY <2>1, <2>2 DEF PunchBegun
  <2>4. InExchange(t)' = InExchange(t)
    BY <2>2 DEF InExchange
  <2>5. Exchanged(t)' => Exchanged(t)
    BY <2>2, <2>3, <2>4 DEF Exchanged
  <2>6. ASSUME OneStart(t)
        PROVE  /\ AtMostOne(s2c'[t], "TPT_START_UDP")
               /\ Exchanged(t) => ~Has(s2c'[t], "TPT_START_UDP")
    <3>1. /\ AtMostOne(s2c[t], "TPT_START_UDP")
          /\ Exchanged(t) => ~Has(s2c[t], "TPT_START_UDP")
      BY <2>6 DEF ExchangesOnce
    <3>2. CASE s2c'[t] = s2c[t]
      BY <3>1, <3>2
    <3>3. ASSUME NEW p, Cause(t, p), s2c'[t] = Append(s2c[t], p)
          PROVE  /\ AtMostOne(s2c'[t], "TPT_START_UDP")
                 /\ Exchanged(t) => ~Has(s2c'[t], "TPT_START_UDP")
      <4>1. CASE p.type # "TPT_START_UDP"
        BY <1>4, <3>1, <3>3, <4>1, AppendStream
      <4>2. CASE p.type = "TPT_START_UDP"
        <5>1. ~Told(t, "TPT_START_UDP")
          BY <1>1, <2>6, <3>3, <4>2, StartsOnce
        <5>2. ~Has(s2c[t], "TPT_START_UDP")
          BY <1>1, <5>1 DEF Informed, Has, Told
        <5>3. ~Exchanged(t)
          BY <5>1, ExchangedTold DEF ExchangesOnce
        <5>4. QED
          BY <1>4, <3>1, <3>3, <5>2, <5>3, AppendStream
      <4>3. QED
        BY <4>1, <4>2
    <3>4. QED
      BY <1>6, <3>2, <3>3 DEF Rests
  <2>7. QED
    BY <1>2, <1>3, <2>3, <2>4, <2>5, <2>6 DEF ExchangesOnce
<1>7. QED
  BY <1>5, <1>6, ActsOrRests

(* A first session begins with two that nothing was sent but to start.     *)
LEMMA RelaySessionBegins ==
    ASSUME PathInv, AgreeInv, [TunnelNext]_tunnelVars, NEW h \in Tcp, NEW g \in Tcp,
           FirstGuest(h), Joins(g, h), conn'[h].guest = g
    PROVE  RelaySession(h)'
<1>1. /\ IInv /\ OrderInv /\ TInv /\ PunchInv /\ PointInv /\ [Next]_vars
      /\ Joined(h) /\ Joined(g) /\ LostGuest(h)
  BY TunnelStep DEF PathInv, TInv, AgreeInv, PointInv
<1>2. conn[h].main = h /\ conn[h].guest = None /\ g # h /\ peer[h].role = "HOST"
  BY <1>1, Parties, NoneAssumption DEF Joins
<1>3. ~Told(h, "TPT_START_UDP") /\ ~Told(g, "TPT_START_UDP") /\ peer[g].role = "GUEST"
  BY <1>1, <1>2, JoinsAfresh DEF LostGuest
<1>4. IsABag(sent[g]) /\ IsABag(sent[h])
  BY <1>1 DEF IInv, TypeOK, PacketBags
<1>5. ~Told(g, "TPT_CONNECT_RESULT")
  <2>1. Joining(g)
    BY DEF Joins, TCPConnected, At, Joining
  <2>2. Count(g, "TPT_CONNECT_RESULT") = 0 /\ IsFiniteSet(Copies(sent[g], "TPT_CONNECT_RESULT"))
    BY <1>1, <2>1 DEF OrderInv, Ordered
  <2>3. QED
    BY <1>4, <2>2, CountNat
<1>6. ~Allowed(h) /\ ~Told(h, "TPT_P2P_RESULT") /\ ~Allowed(g) /\ ~Told(g, "TPT_P2P_RESULT")
  BY <1>1, <1>2, <1>3, <1>5 DEF Joined, Invitation
<1>7. ~Told(h, "TPT_CLIENT_INFO") /\ ~Told(g, "TPT_CLIENT_INFO")
  BY <1>1, <1>3, InfoAfterStart
<1>8. /\ BagToSet(sent'[h]) = BagToSet(sent[h]) \cup {CreateTCPStartUDPPkt}
      /\ BagToSet(sent'[g]) =
           BagToSet(sent[g]) \cup {CreateTCPResultPkt("TPT_CONNECT_RESULT", "NONE")}
  BY <1>4, BagGrows DEF Joins, SendsBoth
<1>9. /\ ~Allowed(h)' /\ ~Told(h, "TPT_P2P_RESULT")' /\ ~Told(h, "TPT_CLIENT_INFO")'
      /\ ~Allowed(g)' /\ ~Told(g, "TPT_P2P_RESULT")' /\ ~Told(g, "TPT_CLIENT_INFO")'
  BY <1>6, <1>7, <1>8 DEF Allowed, Told, Opened, CreateTCPProxyResultPkt, CreateTCPStartUDPPkt,
                          CreateTCPResultPkt
<1>10. h \notin Reached /\ g \notin Reached
  <2>1. \A x, y \in Tcp : Keepalive(x, y) => Told(y, "TPT_START_UDP")
    BY <1>1 DEF PunchInv, Aimed, Keepalive, PointInv, PointsTo
  <2>2. QED
    BY <1>3, <2>1 DEF Reached
<1>11. ~conn'[h].mainOK /\ ~conn'[h].guestOK
  <2>1. /\ conn'[h].mainOK => conn[h].mainOK \/ At(h, "TPT_P2P_RESULT")
        /\ conn'[h].guestOK => conn[h].guestOK
    BY <1>1, <1>2, MemberSteps
  <2>2. conn[h].mainOK => h \in Reached
    BY <1>1, <1>2 DEF PunchInv, Flags
  <2>3. conn[h].guestOK => None \in Reached
    BY <1>1, <1>2 DEF PunchInv, Flags
  <2>4. At(h, "TPT_P2P_RESULT") => h \in Reached
    BY <1>1 DEF At, PunchInv, Confirming, Carries
  <2>5. QED
    BY <1>10, <2>1, <2>2, <2>3, <2>4, NoneAssumption DEF Reached
<1>12. AsksFirst(h)' /\ AsksFirst(g)'
  <2>1. ~Confirming(h)' /\ ~Confirming(g)'
    BY <1>1, <1>10, ConfirmingNext DEF PunchInv
  <2>2. QED
    BY <2>1 DEF Confirming, AsksFirst, InStream
<1>13. Twins(h)' /\ AsksNoMore(h)' /\ Relayed(h)'
  BY <1>9, <1>11 DEF Twins, AsksNoMore, Relayed
<1>14. QED
  BY <1>12, <1>13 DEF RelaySession

(* Who has punched neither exchanges nor asks again.                       *)
LEMMA SettlesNext ==
    ASSUME TInv, [TunnelNext]_tunnelVars, NEW t \in Tcp, ExchangesOnce(t), OneStart(t),
           Settles(t)
    PROVE  Settles(t)'
<1>1. Pc(t) # "giveup"
  BY DEF Settles, ExchangesOnce, PunchBegun, InExchange
<1>2. QED
  BY <1>1, ShookStays, RequestingNext DEF Settles

(* A flag is set by a confirmation, and a client confirms after its punch  *)
(* and after its request, if it made one, was served.                      *)
LEMMA AsksNoMoreNext ==
    ASSUME PathInv, AgreeInv, [TunnelNext]_tunnelVars, NEW h \in Tcp, FirstSession(h),
           conn'[h].guest = conn[h].guest
    PROVE  AsksNoMore(h)'
<1>1. PICK g \in Tcp :
        /\ g = conn[h].guest /\ g # h /\ peer[h].role = "HOST" /\ peer[g].role = "GUEST"
        /\ h \in Reached => Shook(h)
        /\ g \in Reached => Shook(g)
  BY PeersShake DEF AgreeInv
<1>2. /\ TInv /\ IInv /\ NotStartedInv /\ PunchInv /\ [Next]_vars
      /\ AsksNoMore(h) /\ AsksFirst(h) /\ AsksFirst(g)
      /\ \A t \in Tcp : ExchangesOnce(t)
  BY <1>1, TunnelStep DEF PathInv, TInv, AgreeInv, RelaySession
<1>3. Settles(h) => Settles(h)'
  BY <1>2, SettlesNext DEF OneStart, FirstSession
<1>4. Settles(g) => Settles(g)'
  BY <1>1, <1>2, SettlesNext DEF OneStart
<1>5. ASSUME NEW t \in {h, g}, At(t, "TPT_P2P_RESULT") PROVE Settles(t)
  <2>1. Carries(t, "TPT_P2P_RESULT") /\ ~Carries(t, "TPT_PROXY_REQUEST")
    BY <1>5 DEF At, Carries
  <2>2. Shook(t)
    BY <1>1, <1>2, <1>5, <2>1 DEF PunchInv, Confirming
  <2>3. ~InStream(t, "TPT_PROXY_REQUEST")
    BY <1>2, <1>5, <2>1 DEF AsksFirst
  <2>4. QED
    BY <2>1, <2>2, <2>3 DEF Settles, Requesting
<1>6. conn'[h].mainOK => Settles(h)
  BY <1>2, <1>5, MemberSteps DEF AsksNoMore
<1>7. conn'[h].guestOK => Settles(g)
  BY <1>1, <1>2, <1>5, MemberSteps DEF AsksNoMore
<1>8. Told(h, "TPT_P2P_RESULT")' => Settles(h) /\ Settles(g)
  <2>1. CASE Told(h, "TPT_P2P_RESULT")
    BY <1>1, <1>2, <2>1 DEF AsksNoMore
  <2>2. CASE ~Told(h, "TPT_P2P_RESULT")
    <3>1. Held(h)
      BY <1>2, Parties, NoneAssumption DEF FirstSession
    <3>2. Told(h, "TPT_P2P_RESULT")' => BothOK(conn'[h])
      BY <1>2, <2>2, <3>1, TwinSteps
    <3>3. QED
      BY <1>6, <1>7, <3>2 DEF BothOK
  <2>3. QED
    BY <2>1, <2>2
<1>9. QED
  BY <1>1, <1>3, <1>4, <1>6, <1>7, <1>8 DEF AsksNoMore

(* What is passed over stays so, unless TPT_START_UDP is sent.             *)
LEMMA PassesNext ==
    ASSUME TInv, [TunnelNext]_tunnelVars, NEW t \in Tcp, NEW type, Passes(t, type),
           \A p : Cause(t, p) => p.type # "TPT_START_UDP"
    PROVE  Passes(t, type)'
<1>1. TunnelTypeOK /\ GreetsOnce(t) /\ s2c[t] \in ServerStream
  BY TunnelTypes DEF TInv, ClientInv
<1>2. CASE Acts(t)
  BY <1>1, <1>2, PassesMoves DEF Acts
<1>3. CASE Rests(t)
  <2>1. St(t)' = St(t) /\ tcpThr'[t] = tcpThr[t]
    BY <1>3 DEF Rests, RecvKept, RecvIs, St
  <2>2. CASE s2c'[t] = s2c[t]
    BY <2>1, <2>2 DEF Passes, Aside
  <2>3. ASSUME NEW p, p.type # "TPT_START_UDP", s2c'[t] = Append(s2c[t], p)
        PROVE  Passes(t, type)'
    <3>1. /\ Len(s2c[t]) \in Nat /\ Len(s2c'[t]) = Len(s2c[t]) + 1
          /\ \A n \in 1 .. Len(s2c[t]) : s2c'[t][n] = s2c[t][n]
          /\ s2c'[t][Len(s2c[t]) + 1] = p
      BY <1>1, <2>3 DEF ServerStream
    <3>2. CASE tcpThr[t] = "ended"
      BY <2>1, <3>2 DEF Passes
    <3>3. CASE Aside(t)
      <4>1. ~Has(s2c'[t], "TPT_START_UDP")
        BY <1>1, <2>3, <3>3, AppendStream DEF Aside
      <4>2. QED
        BY <2>1, <3>3, <4>1 DEF Passes, Aside
    <3>4. ASSUME NEW m \in 1 .. Len(s2c[t]), s2c[t][m] = Opened,
                 \A n \in 1 .. Len(s2c[t]) : /\ s2c[t][n].type = "TPT_START_UDP" => n < m
                                             /\ s2c[t][n].type = type => m < n
          PROVE  Passes(t, type)'
      <4>1. m \in 1 .. Len(s2c'[t]) /\ s2c'[t][m] = Opened
        BY <3>1, <3>4
      <4>2. \A n \in 1 .. Len(s2c'[t]) : /\ s2c'[t][n].type = "TPT_START_UDP" => n < m
                                         /\ s2c'[t][n].type = type => m < n
        BY <2>3, <3>1, <3>4
      <4>3. QED
        BY <4>1, <4>2 DEF Passes
    <3>5. QED
      BY <3>2, <3>3, <3>4 DEF Passes
  <2>4. QED
    BY <1>3, <2>2, <2>3 DEF Rests
<1>4. QED
  BY <1>2, <1>3, ActsOrRests

(* Who passes the announcement over does not come to connect, and who      *)
(* passes the address over does not come to punch.                         *)
LEMMA QuitsNext ==
    ASSUME TInv, [TunnelNext]_tunnelVars, NEW t \in Tcp, Quits(t),
           \A p : Cause(t, p) => p.type # "TPT_START_UDP"
    PROVE  Quits(t)'
<1>1. Passes(t, "TPT_P2P_RESULT")'
  BY PassesNext DEF Quits
<1>2. ~Connecting(t)'
  <2>1. CASE Acts(t)
    <3>1. Connecting(t)' => ReceiveMove(t) /\ Obeys(t, "TPT_P2P_RESULT", P2P_PUNCHING)
      BY <2>1, PunchingMoves DEF Acts, Quits
    <3>2. QED
      BY <3>1, PassesOver DEF Quits, TInv
  <2>2. CASE Rests(t)
    BY <2>2 DEF Rests, MainKept, RecvKept, RecvIs, Quits, Connecting, St, Saved
  <2>3. QED
    BY <2>1, <2>2, ActsOrRests
<1>3. QED
  BY <1>1, <1>2 DEF Quits

LEMMA NeverPunchesNext ==
    ASSUME TInv, [TunnelNext]_tunnelVars, NEW t \in Tcp, NeverPunches(t),
           \A p : Cause(t, p) => p.type # "TPT_START_UDP"
    PROVE  NeverPunches(t)'
<1>1. Passes(t, "TPT_CLIENT_INFO")'
  BY PassesNext DEF NeverPunches
<1>2. St(t)' # P2P_PUNCHING /\ tcpThr'[t] # "punching" /\ ~PunchBegun(t)'
  <2>1. CASE Acts(t)
    <3>1. Move(t) /\ (Shook(t)' => PunchBegun(t))
      BY <2>1, ShakeMoves DEF Acts, TInv
    <3>2. ~PunchBegun(t)' /\ St(t)' # P2P_PUNCHING
      BY <3>1, BegunMoves, LearnMoves DEF NeverPunches
    <3>3. tcpThr'[t] = "punching" =>
            ReceiveMove(t) /\ Obeys(t, "TPT_CLIENT_INFO", ExchangeStatus(t))
      BY <3>1, LearnMoves DEF NeverPunches
    <3>4. ExchangeStatus(t) \notin {P2P_TCP_PROXY_REQUEST, P2P_TCP_PROXY}
      BY DEF ExchangeStatus
    <3>5. QED
      BY <3>2, <3>3, <3>4, PassesOver DEF NeverPunches, TInv
  <2>2. CASE Rests(t)
    <3>1. Shook(t)' => Shook(t)
      BY <2>2 DEF Rests, Shook, Handshake
    <3>2. QED
      BY <2>2, <3>1 DEF Rests, MainKept, RecvKept, RecvIs, NeverPunches, PunchBegun, St, Saved, Pc
  <2>3. QED
    BY <2>1, <2>2, ActsOrRests
<1>3. QED
  BY <1>1, <1>2 DEF NeverPunches

(* The answer to a request that the relay is open makes the client pass    *)
(* over what was not sent before.                                          *)
LEMMA OpensPasses ==
    ASSUME TunnelTypeOK, NEW t \in Tcp, Informed(t), NEW type, type # "TPT_PROXY_RESULT",
           ~Told(t, type), s2c'[t] = Append(s2c[t], Opened)
    PROVE  Passes(t, type)'
<1>1. s2c[t] \in Seq(ServerPacket(Id, Tcp))
  BY TunnelTypes DEF ServerStream
<1>2. /\ Len(s2c[t]) \in Nat /\ Len(s2c'[t]) = Len(s2c[t]) + 1
      /\ \A n \in 1 .. Len(s2c[t]) : s2c'[t][n] = s2c[t][n]
      /\ s2c'[t][Len(s2c[t]) + 1] = Opened
  BY <1>1
<1>3. Opened.type = "TPT_PROXY_RESULT"
  BY DEF Opened, CreateTCPProxyResultPkt
<1>4. \A n \in 1 .. Len(s2c[t]) : s2c[t][n].type # type
  BY DEF Informed, Told
<1> DEFINE m == Len(s2c[t]) + 1
<1>5. m \in 1 .. Len(s2c'[t]) /\ s2c'[t][m] = Opened
  BY <1>2
<1>6. \A n \in 1 .. Len(s2c'[t]) : /\ s2c'[t][n].type = "TPT_START_UDP" => n < m
                                   /\ s2c'[t][n].type = type => m < n
  BY <1>2, <1>3, <1>4
<1> HIDE DEF m
<1>7. QED
  BY <1>5, <1>6 DEF Passes

(* Who settles asks for no relay, so the relay is allowed before the       *)
(* confirmations are announced: both clients will skip the announcement.   *)
LEMMA RelayedNext ==
    ASSUME PathInv, AgreeInv, [TunnelNext]_tunnelVars, NEW h \in Tcp, FirstSession(h),
           conn'[h].guest = conn[h].guest
    PROVE  Relayed(h)'
<1>1. /\ TInv /\ IInv /\ OrderInv /\ NotStartedInv /\ PunchInv /\ ServerInv /\ [Next]_vars
      /\ TunnelTypeOK
      /\ \A t \in Tcp : Informed(t) /\ LostGuest(t) /\ Remote(t)
  BY TunnelStep DEF PathInv, TInv, ServerInv, ClientInv, PointInv, PunchInv
<1>2. /\ Twins(h) /\ AsksNoMore(h) /\ Relayed(h)
      /\ \A t \in Tcp : ExchangesOnce(t) /\ Joined(t) /\ Hosted(t)
  BY DEF AgreeInv, RelaySession
<1>3. PICK g \in Tcp : /\ g = conn[h].guest /\ g # h
                       /\ peer[h].role = "HOST" /\ peer[g].role = "GUEST"
  BY PeersShake DEF AgreeInv
<1>4. Held(h)
  BY <1>1, Parties, NoneAssumption DEF FirstSession
<1>5. \A t \in Tcp : \A type : Told(t, type) => Told(t, type)'
  BY <1>1, ToldSteps
<1>6. \A p : Cause(h, p) => p.type # "TPT_START_UDP"
  <2>1. Told(h, "TPT_START_UDP") /\ OneStart(h)
    BY <1>2 DEF Joined, OneStart, FirstSession
  <2>2. QED
    BY <1>1, <2>1, StartsOnce
<1>7. NeverPunches(h) => NeverPunches(h)'
  BY <1>1, <1>6, NeverPunchesNext
<1>8. ~Told(g, "TPT_START_UDP")' => ~Told(g, "TPT_START_UDP")
  BY <1>5
<1>9. CASE Allowed(h)
  <2>1. /\ Quits(h) /\ (Quits(g) \/ NeverPunches(h))
        /\ ~Told(g, "TPT_START_UDP") => NeverPunches(h)
    BY <1>2, <1>3, <1>9 DEF Relayed
  <2>2. Quits(h)'
    BY <1>1, <1>6, <2>1, QuitsNext
  <2>3. Quits(g)' \/ NeverPunches(h)'
    <3>1. CASE NeverPunches(h)
      BY <1>7, <3>1
    <3>2. CASE ~NeverPunches(h)
      <4>1. Quits(g) /\ Told(g, "TPT_START_UDP") /\ OneStart(g)
        BY <1>3, <2>1, <3>2 DEF OneStart
      <4>2. \A p : Cause(g, p) => p.type # "TPT_START_UDP"
        BY <1>1, <4>1, StartsOnce
      <4>3. QED
        BY <1>1, <4>1, <4>2, QuitsNext
    <3>3. QED
      BY <3>1, <3>2
  <2>4. ~Told(g, "TPT_START_UDP")' => NeverPunches(h)'
    BY <1>7, <1>8, <2>1
  <2>5. QED
    BY <1>3, <2>2, <2>3, <2>4 DEF Relayed
<1>10. ASSUME ~Allowed(h), Allowed(h)' PROVE Relayed(h)'
  <2>1. Relays(h)
    BY <1>1, <1>4, <1>10, TwinSteps
  <2>2. PICK t \in Tcp : At(t, "TPT_PROXY_REQUEST") /\ thr[t].p2p = h
    BY <2>1 DEF Relays
  <2>3. t \in {h, g} /\ Requesting(t)
    BY <1>1, <1>2, <1>3, <2>2, OneAsker
  <2>4. ~Told(h, "TPT_P2P_RESULT") /\ ~Told(g, "TPT_P2P_RESULT")
    BY <1>2, <1>3, <2>3 DEF AsksNoMore, Settles, Twins
  <2>5. ~Connecting(h) /\ ~Connecting(g)
    BY <1>1, <2>4 DEF Remote
  <2>6. ASSUME NEW x \in {h, g}
        PROVE  s2c'[x] = Append(s2c[x], Opened) /\ Rests(x)
    <3>1. IsABag(sent[x]) /\ sent'[x] = Ext!BagAdd(sent[x], Opened)
      BY <1>1, <1>3, <2>1 DEF Relays, SendsBoth, Opened, IInv, TypeOK, PacketBags
    <3>2. sent'[x] # sent[x]
      BY <3>1, BagAddTells
    <3>3. Rests(x)
      BY <1>1, <3>2, ActsOrRests DEF Acts
    <3>4. PICK p : sent'[x] = Ext!BagAdd(sent[x], p) /\ s2c'[x] = Append(s2c[x], p)
      BY <3>2, <3>3 DEF Rests
    <3>5. p = Opened
      BY <3>1, <3>4, BagAddTells
    <3>6. QED
      BY <3>3, <3>4, <3>5
  <2>7. ASSUME NEW x \in {h, g} PROVE Quits(x)'
    <3>1. Passes(x, "TPT_P2P_RESULT")'
      BY <1>1, <2>4, <2>6, OpensPasses
    <3>2. ~Connecting(x)'
      BY <2>5, <2>6 DEF Rests, MainKept, RecvKept, RecvIs, Connecting, St, Saved
    <3>3. QED
      BY <3>1, <3>2 DEF Quits
  <2>8. ~Told(g, "TPT_START_UDP") => NeverPunches(h)'
    <3> SUFFICES ASSUME ~Told(g, "TPT_START_UDP") PROVE NeverPunches(h)'
      OBVIOUS
    <3>1. ~Told(h, "TPT_CLIENT_INFO")
      BY <1>1, <1>2, <1>3, InfoAfterStart DEF Twins
    <3>2. St(h) # P2P_PUNCHING /\ tcpThr[h] # "punching" /\ ~PunchBegun(h)
      BY <1>1, <1>2, <3>1 DEF Informed, ExchangesOnce
    <3>3. Passes(h, "TPT_CLIENT_INFO")'
      BY <1>1, <2>6, <3>1, OpensPasses
    <3>4. Rests(h)
      BY <2>6
    <3>5. Shook(h)' => Shook(h)
      BY <3>4 DEF Rests, Shook, Handshake
    <3>6. QED
      BY <3>2, <3>3, <3>4, <3>5
         DEF Rests, MainKept, RecvKept, RecvIs, NeverPunches, PunchBegun, St, Saved, Pc
  <2>9. QED
    BY <1>3, <1>8, <2>7, <2>8 DEF Relayed
<1>11. QED
  BY <1>9, <1>10 DEF Relayed

(* A step within a first session, and every step.                          *)
LEMMA RelaySessionNext ==
    ASSUME PathInv, AgreeInv, [TunnelNext]_tunnelVars, NEW h \in Tcp, FirstSession(h),
           conn'[h].guest = conn[h].guest
    PROVE  RelaySession(h)'
<1>1. PICK g \in Tcp :
        /\ g = conn[h].guest /\ g # h /\ peer[h].role = "HOST" /\ peer[g].role = "GUEST"
        /\ h \in Reached => Shook(h)
        /\ g \in Reached => Shook(g)
  BY PeersShake DEF AgreeInv
<1>2. /\ TInv /\ IInv /\ NotStartedInv /\ PunchInv /\ [Next]_vars
      /\ Twins(h) /\ AsksFirst(h) /\ AsksFirst(g)
      /\ \A t \in Tcp : ExchangesOnce(t)
  BY <1>1, TunnelStep DEF PathInv, TInv, AgreeInv, RelaySession
<1>3. Held(h)
  BY <1>2, Parties, NoneAssumption DEF FirstSession
<1>4. Twins(h)'
  BY <1>2, <1>3, TwinsNext
<1>5. ASSUME NEW t \in {h, g} PROVE AsksFirst(t)'
  <2>1. t \in Tcp /\ AsksFirst(t) /\ OneStart(t)
    BY <1>1, <1>2 DEF OneStart, FirstSession
  <2>2. Pc(t) = "giveup" => ~Confirming(t)
    <3>1. Confirming(t) => Shook(t)
      BY <1>1, <1>2, <2>1 DEF PunchInv
    <3>2. QED
      BY <1>2, <2>1, <3>1 DEF ExchangesOnce, PunchBegun, InExchange
  <2>3. QED
    BY <1>2, <2>1, <2>2, AsksFirstNext
<1>6. QED
  BY <1>1, <1>4, <1>5, AsksNoMoreNext, RelayedNext DEF RelaySession

LEMMA AgreeNext == PathInv /\ AgreeInv /\ [TunnelNext]_tunnelVars => AgreeInv'
<1> SUFFICES ASSUME PathInv, AgreeInv, [TunnelNext]_tunnelVars PROVE AgreeInv'
  OBVIOUS
<1>1. TInv /\ PointInv /\ ServerInv /\ [Next]_vars
  BY TunnelStep DEF PathInv, TInv, ServerInv
<1>2. ASSUME NEW t \in Tcp
      PROVE  AnswersOnly(t)' /\ ExchangesOnce(t)' /\ Joined(t)' /\ Hosted(t)'
  BY <1>1, AnswersOnlyNext, ExchangesOnceNext, JoinedNext, HostedNext DEF AgreeInv
<1>3. ASSUME NEW h \in Tcp, FirstSession(h)' PROVE RelaySession(h)'
  BY <1>1, <1>3, FirstSessionSteps, RelaySessionNext, RelaySessionBegins DEF AgreeInv
<1>4. QED
  BY <1>2, <1>3 DEF AgreeInv

LEMMA AgreeInit == TunnelInit => AgreeInv
<1> SUFFICES ASSUME TunnelInit PROVE AgreeInv
  OBVIOUS
<1>1. Init /\ C!ClientInit
  BY DEF TunnelInit
<1>2. /\ p2p = {} /\ \A t \in Tcp : udpRecv[t] = "idle" /\ s2c[t] = <<>>
      /\ \A t \in Tcp : St(t) = P2P_STATUS_NONE /\ Saved(t) = P2P_STATUS_NONE
      /\ \A t \in Tcp : Pc(t) = "begin" /\ tcpThr[t] = "idle"
  BY <1>1, SameStatus DEF C!ClientInit, C!NewClient, St, Saved, Pc
<1>3. \A t \in Tcp : BagToSet(sent[t]) = {} /\ c2s[t] = <<>> /\ thr[t].pc = "none"
  BY <1>1 DEF Init, EmptyBag, SetToBag, BagToSet, Idle
<1>4. \A t \in Tcp : conn[t].main = None /\ conn[t].guest = None
  BY <1>1 DEF Init, NoConnection
<1>5. ASSUME NEW t \in Tcp
      PROVE  AnswersOnly(t) /\ ExchangesOnce(t) /\ Joined(t) /\ Hosted(t)
  <2>1. AnswersOnly(t)
    BY <1>2 DEF AnswersOnly, Keepalive
  <2>2. ~PunchBegun(t) /\ ~InExchange(t)
    BY <1>2 DEF PunchBegun, InExchange, ExchangeStatuses, Shook, Handshake
  <2>3. ExchangesOnce(t)
    BY <1>2, <2>2, EmptyStream DEF ExchangesOnce
  <2>4. Joined(t)
    BY <1>3, <1>4, NoneAssumption DEF Joined, Requesting, InStream, Carries, Allowed, Told
  <2>5. Hosted(t)
    BY <1>3 DEF Hosted, Told
  <2>6. QED
    BY <2>1, <2>3, <2>4, <2>5
<1>6. \A h \in Tcp : ~FirstSession(h)
  BY <1>4 DEF FirstSession
<1>7. QED
  BY <1>5, <1>6 DEF AgreeInv

(* What a client uses, it was told of: the relay by its answer, ENet by    *)
(* the confirmations.                                                      *)
LEMMA SessionsAgree == PathInv /\ AgreeInv => TransportsAgree
<1> SUFFICES ASSUME PathInv, AgreeInv, NEW h \in Tcp, Listed(h), conn[h].guest # None,
                    FirstGuest(h), OnlyHost(h), client[h].type # "PCT_NONE",
                    client[conn[h].guest].type # "PCT_NONE"
             PROVE  client[h].type = client[conn[h].guest].type
  BY DEF TransportsAgree
<1> DEFINE g == conn[h].guest
<1>1. TInv /\ IInv /\ TunnelTypeOK /\ PunchInv
  BY DEF PathInv, TInv
<1>2. FirstSession(h)
  BY <1>1, ListedFacts DEF FirstSession
<1>3. g \in Tcp /\ RelaySession(h)
  BY <1>2, PeersShake DEF AgreeInv
<1>4. \A t \in {h, g} : client[t].type \in {"PCT_ENET", "PCT_TCP_RELAY"}
  BY <1>1, <1>3, TunnelTypes DEF Members, C!CommType
<1>5. ASSUME NEW t \in {h, g}
      PROVE  /\ client[t].type = "PCT_TCP_RELAY" => Allowed(t)
             /\ client[t].type = "PCT_ENET" => Connecting(t) /\ Told(t, "TPT_P2P_RESULT")
  <2>1. Informed(t) /\ Remote(t)
    BY <1>1, <1>3 DEF TInv, ClientInv, PunchInv
  <2>2. QED
    BY <2>1 DEF Informed, Remote, Connecting, Allowed
<1>6. ASSUME client[h].type = "PCT_ENET", client[g].type = "PCT_TCP_RELAY" PROVE FALSE
  BY <1>3, <1>5, <1>6 DEF RelaySession, Twins, Relayed, Quits
<1>7. ASSUME client[h].type = "PCT_TCP_RELAY", client[g].type = "PCT_ENET" PROVE FALSE
  <2>1. NeverPunches(h)
    BY <1>3, <1>5, <1>7 DEF RelaySession, Relayed, Quits
  <2>2. Shook(h)
    BY <1>3, <1>5, <1>7 DEF RelaySession, Twins, AsksNoMore, Settles
  <2>3. QED
    BY <2>1, <2>2 DEF NeverPunches, PunchBegun
<1>8. QED
  BY <1>4, <1>6, <1>7

(* A host and its first guest never open their session over different      *)
(* transports: P2PConnectEventProcess on one side and TCPProxyEventProcess *)
(* on the other.  A relay is opened on the request of one of the two,      *)
(* which has confirmed nothing, so the server has not announced the        *)
(* confirmations; and whoever is told of the relay passes over what could  *)
(* lead it back.                                                           *)
THEOREM TransportsNeverDiffer == TunnelSpec => []TransportsAgree
<1>1. TunnelInit => PathInv /\ AgreeInv
  BY TunnelInvInit, PointInit, PunchInit, AgreeInit DEF PathInv, TunnelInit
<1>2. PathInv /\ AgreeInv /\ [TunnelNext]_tunnelVars => PathInv' /\ AgreeInv'
  BY PathStep, AgreeNext
<1>3. PathInv /\ AgreeInv => TransportsAgree
  BY SessionsAgree
<1>4. QED
  BY <1>1, <1>2, <1>3, PTL DEF TunnelSpec
=============================================================================
