------------------------------- MODULE Tunnel -------------------------------
(***************************************************************************)
(* The server of P2PServer and the clients of P2PClient, together: the     *)
(* clients take the place of the weak ones P2PServer assumes.              *)
(*                                                                         *)
(* A packet that the server pushes on a socket's m_SendList joins the FIFO *)
(* s2c of that socket in the same step: the send thread and TCP keep the   *)
(* order.  Between two clients a datagram is lost, delayed, reordered or   *)
(* duplicated at will, and so it is on its way to the server.              *)
(***************************************************************************)
EXTENDS P2PServer

CONSTANTS
    Host,      \* the clients that run as hosts; the others are guests
    MaxRetry,  \* rounds of an exchange or of a punch: 10 in the code
    Punchable, \* whether the NATs let any datagram of a peer through
    UserSends, \* whether the guest's program sends data once connected
    Cut        \* bound: the sockets the network may cut

ASSUME MaxAskAssumption == MaxAsk \in Nat \ {0}
ASSUME MaxRetryAssumption == MaxRetry \in Nat \ {0}
ASSUME FlagAssumption == Punchable \in BOOLEAN /\ UserSends \in BOOLEAN
ASSUME SocketAssumption == Host \subseteq Tcp /\ Cut \subseteq Tcp

VARIABLES s2c, p2p, client, mainThr, tcpThr, udpRecv

C == INSTANCE P2PClient

clientVars == <<s2c, p2p, client, mainThr, tcpThr, udpRecv>>
tunnelVars == <<vars, clientVars>>

TunnelInit == Init /\ C!ClientInit

(* What a step of the server pushed for t: a step pushes at most one       *)
(* packet on each socket.                                                  *)
Pushed(t) == {p \in BagToSet(sent'[t]) : sent'[t] = Ext!BagAdd(sent[t], p)}

Deliver ==
    s2c' = [t \in Tcp |-> IF sent'[t] = sent[t] THEN s2c[t]
                          ELSE Append(s2c[t], CHOOSE p \in Pushed(t) : TRUE)]

(* The history that P2PServer keeps of what a client sent.                 *)
Record(t) ==
    peer' = IF Len(c2s'[t]) <= Len(c2s[t]) THEN peer
            ELSE LET type == c2s'[t][Len(c2s'[t])]
                 IN  [peer EXCEPT ![t].greeted = @ \/ type = Greeting(t),
                                  ![t].asked = IF type = "TPT_PROXY_REQUEST" THEN @ + 1 ELSE @]

ServerStep(A) ==
    /\ UNCHANGED <<p2p, client, mainThr, tcpThr, udpRecv>>
    /\ A
    /\ Deliver

ClientStep(t, A) ==
    /\ UNCHANGED <<sent, serverVars, conn, accepting, thr, udpThr, fault, past>>
    /\ A
    /\ Record(t)

Accept(t) == AcceptTCPSocketProcess(t) /\ peer'[t].role = (IF t \in Host THEN "HOST" ELSE "GUEST")

ServerNext ==
    \/ \E t \in Tcp : Accept(t) \/ RecvThread(t)
    \/ \E t \in Cut : ClientGone(t)
    \/ CreateTCPID
    \/ RecvUDPPacketProcess
    \/ UDPListening
    \/ UDPConnected

TunnelNext ==
    \/ ServerStep(ServerNext)
    \/ \E t \in Tcp : ClientStep(t, C!ClientNext(t))

TunnelSpec == TunnelInit /\ [][TunnelNext]_tunnelVars

(* As in P2PServer; every thread of a client runs too, and a UDP callback  *)
(* that began goes on.  Datagrams owe nothing, nor does the guest's user.  *)
(* A lock that is free again and again is got in the end, however many     *)
(* datagrams come meanwhile.                                               *)
TunnelFairness ==
    /\ \A t \in Tcp :
         /\ WF_tunnelVars(ServerStep(RecvThread(t)))
         /\ WF_tunnelVars(ClientStep(t, C!MainThread(t)))
         /\ SF_tunnelVars(ClientStep(t, C!StopUDP(t)))
         /\ WF_tunnelVars(ClientStep(t, C!TCPRecvThread(t)))
         /\ WF_tunnelVars(ClientStep(t, C!UDPCallback(t)))
    /\ WF_tunnelVars(ServerStep(CreateTCPID))
    /\ WF_tunnelVars(ServerStep(UDPListening \/ UDPConnected))

FairTunnelSpec == TunnelSpec /\ TunnelFairness

-----------------------------------------------------------------------------
(* Properties                                                              *)

(* Every member, packet and datagram has its type, and no handler begins a  *)
(* round beyond its last.                                                  *)
TunnelTypeOK ==
    /\ C!ClientTypeOK(Id)
    /\ s2c \in [Tcp -> Seq(ServerPacket(Id, Tcp))]

(* No guest has left h yet.  From then on a host is about to close, but    *)
(* the server lists it and may give it the next guest: that one opens a    *)
(* session which the host takes no part in, with the flags                 *)
(* (m_bMainUDPOK, m_bConnUDPOK) of the one before.                         *)
FirstGuest(h) == ~Told(h, "TPT_RESET")

(* No other host of h's keyword has had a guest.  One that had may leave    *)
(* it behind, and that guest's late request for the relay, which only      *)
(* carries the keyword, opens the relay of h's session.                    *)
OnlyHost(h) ==
    \A k \in Tcp \ {h} :
        peer[k].role = "HOST" /\ peer[k].keyword = peer[h].keyword => ~Told(k, "TPT_START_UDP")

(* A host and its first guest never open their session over different      *)
(* transports: the relay that one of them turned to is the one the other   *)
(* uses.  (P2PConnectEventProcess and TCPProxyEventProcess choose m_eType  *)
(* on each side for itself, from packets the server sends at different     *)
(* times.)                                                                 *)
TransportsAgree ==
    \A h \in Tcp : LET g == conn[h].guest IN
      /\ Listed(h) /\ g # None /\ FirstGuest(h) /\ OnlyHost(h)
      /\ client[h].type # "PCT_NONE" /\ client[g].type # "PCT_NONE"
      => client[h].type = client[g].type

(* A client that uses ENet has a punched path: its keepalive went to the   *)
(* address it knows of its peer, and the peer's keepalive went to it.  The *)
(* client cannot tell this by itself: the server's TPT_P2P_RESULT stands   *)
(* for the confirmations of both, whatever else was sent under their       *)
(* keyword before, until a guest leaves a host of that keyword.            *)
ENetMeansPunched ==
    \A t \in Tcp :
      /\ client[t].type = "PCT_ENET"
      /\ \A h \in Tcp : peer[h].keyword = peer[t].keyword => FirstGuest(h)
      => \A d \in {[from |-> t, to |-> client[t].remote], [from |-> client[t].remote, to |-> t]} :
           \E k \in p2p : k.type = "UPT_KEEPALIVE" /\ k.from = d.from /\ k.to = d.to

(* A host that takes itself for engaged with a guest, and was not told to  *)
(* stop, has that guest: no packet being under way to it, its session has  *)
(* a guest on the server too.  (The guest's end reaches the host over      *)
(* TCPEndProcess, ConnTCPDisconnect and TPT_RESET, at any moment of the    *)
(* exchange.)                                                              *)
HostNotStranded ==
    \A h \in Host :
      /\ client[h].status > P2P_TCP_CONNECTED
      /\ link[h] = "up" /\ s2c[h] = <<>> /\ ~client[h].stop
      => Listed(h) /\ conn[h].guest # None

(* A client that asks for the relay learns that it is open, or is told to  *)
(* stop: its status follows the server's answer although the answer may    *)
(* cross TPT_CLIENT_INFO, whose SetState overwrites the request, and the   *)
(* peer's own request.                                                     *)
RelayAnswered ==
    \A t \in Tcp : client[t].status = P2P_TCP_PROXY_REQUEST
      ~> client[t].status = P2P_TCP_PROXY \/ client[t].stop \/ link[t] = "shut"

(* A client that has turned to the relay starts it: "udp handshake failed, *)
(* turn to TCP Relay", "TCP Proxy start ...".                              *)
(* Refuted by the code.                                                    *)
RelayOpens ==
    \A t \in Tcp :
      client[t].status = P2P_TCP_PROXY_REQUEST ~> mainThr[t].pc \in {"returned", "closed"}

(* A punch ends: the peer answers and the server says so, or its rounds    *)
(* run out and the client asks for the relay: "udp handshake failed, turn  *)
(* to TCP Relay".                                                          *)
(* Refuted by the code.                                                    *)
PunchTimeoutRelays ==
    \A t \in Tcp : client[t].status = P2P_PUNCHING
      ~> client[t].status # P2P_PUNCHING \/ client[t].stop \/ link[t] = "shut"

(* A client that begins to start its ENet session starts it: "P2P Connect  *)
(* ok, start kcp ...".  Refuted by the code.                               *)
ENetStarts ==
    \A t \in Tcp :
      mainThr[t].pc = "stopping" /\ mainThr[t].saved = P2P_CONNECTED
      ~> client[t].type = "PCT_ENET"
=============================================================================
