----------------------------- MODULE MCP2PServer -----------------------------
(***************************************************************************)
(* Instances of P2PServer for TLC.                                         *)
(***************************************************************************)
EXTENDS P2PServerRendezvous, TLC

CONSTANTS t1, t2, t3, k1, k2

Symmetry == Permutations(Tcp) \cup Permutations(Keyword)

(* Constraints on the clients, not on the server.  Sockets are accepted in *)
(* the order of their names, which are interchangeable.                    *)
InOrder == \A pair \in {<<t1, t2>>, <<t2, t3>>} :
    link[pair[1]] = "none" => link[pair[2]] = "none"

(* Two sockets of any roles with datagrams, or a host and two guests that  *)
(* compete for it without.                                                 *)
ThirdIsGuest ==
    link[t3] = "none" \/ (udp = {} /\ Cardinality({t \in Tcp : peer[t].role = "HOST"}) = 1)
=============================================================================
