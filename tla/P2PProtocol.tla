----------------------------- MODULE P2PProtocol -----------------------------
(***************************************************************************)
(* The vocabulary of the clovertun rendezvous protocol, as                 *)
(* include/clovertun/P2PProtocol.h declares it, and the packet             *)
(* constructors of P2PPacket.cpp.                                          *)
(*                                                                         *)
(* A packet is a record that carries only the fields some receiver         *)
(* branches on or stores: names, lengths and magic numbers are left out.   *)
(* What a client sends to the server always carries the client's own tcpid *)
(* and its own keyword (CP2PClient never changes either after TPT_INIT),   *)
(* so a client's packet is represented by its type alone and the module    *)
(* that receives it knows the sender.                                      *)
(***************************************************************************)
EXTENDS Naturals, Sequences

(* P2P_STATUS: the code compares statuses with >=, so the enumerators keep *)
(* the header's order.                                                     *)
P2P_STATUS_NONE       == 0
P2P_TCP_LISTENING     == 1
P2P_TCP_CONNECTED     == 2
P2P_UDP_LISTENING     == 3
P2P_UDP_CONNECTED     == 4
P2P_PUNCHING          == 5
P2P_CONNECTED         == 6
P2P_TCP_PROXY_REQUEST == 7
P2P_TCP_PROXY         == 8

P2P_STATUS == P2P_STATUS_NONE .. P2P_TCP_PROXY

(* P2P_ERROR: only compared for equality.                                  *)
P2P_ERROR == { "NONE", "KEYWORD_DUPLICATE", "KEYWORD_NOT_FOUND",
               "STATE_MISMATCH", "PROXY_FAIL" }

(* The TCP packet types a client sends to the server, and the ones the     *)
(* server sends to a client.                                               *)
ClientTCPType == { "TPT_WAITING", "TPT_CONNECT", "TPT_P2P_RESULT",
                   "TPT_PROXY_REQUEST", "TPT_DATA_PROXY" }
ServerTCPType == { "TPT_INIT", "TPT_WAIT_RESULT", "TPT_CONNECT_RESULT",
                   "TPT_START_UDP", "TPT_CLIENT_INFO", "TPT_P2P_RESULT",
                   "TPT_PROXY_RESULT", "TPT_RESET" }

(* The UDP packet types a client sends to the server.                      *)
ServerUDPType == { "UPT_WAITING", "UPT_CONNECT" }

-----------------------------------------------------------------------------
(* P2PPacket.cpp: the packets the server sends.                            *)

CreateTCPInitPkt(tcpid) == [type |-> "TPT_INIT", tcpid |-> tcpid]

CreateTCPResultPkt(type, result) == [type |-> type, result |-> result]

CreateTCPStartUDPPkt == [type |-> "TPT_START_UDP"]

CreateTCPStartPunchingPkt(Peerid, ClientInfo) ==
    [type |-> "TPT_CLIENT_INFO", Peerid |-> Peerid, ClientInfo |-> ClientInfo]

CreateP2PSuccessPkt == [type |-> "TPT_P2P_RESULT"]

CreateTCPProxyResultPkt(Result) == [type |-> "TPT_PROXY_RESULT", Result |-> Result]

(* Every packet the server can send, over the ids Id and the public        *)
(* addresses Addr.                                                         *)
ServerPacket(Id, Addr) ==
    { CreateTCPInitPkt(i) : i \in Id }
    \cup { CreateTCPResultPkt(ty, r) :
             ty \in { "TPT_WAIT_RESULT", "TPT_CONNECT_RESULT", "TPT_RESET" },
             r \in P2P_ERROR }
    \cup { CreateTCPStartUDPPkt, CreateP2PSuccessPkt }
    \cup { CreateTCPStartPunchingPkt(i, a) : i \in Id, a \in Addr }
    \cup { CreateTCPProxyResultPkt(r) : r \in P2P_ERROR }
=============================================================================
