------------------------------ MODULE MCTunnel ------------------------------
(***************************************************************************)
(* Instances of Tunnel for TLC: the clients and the keywords, as model     *)
(* values.                                                                 *)
(***************************************************************************)
EXTENDS Tunnel

CONSTANTS t1, t2, k1

(* State constraints.  The guest's socket is accepted only when the host   *)
(* knows that it is registered: accepting a socket is owed to nobody, so   *)
(* this restricts the environment and no thread.                           *)
HostFirst ==
    \A g \in Tcp \ Host : link[g] # "none" =>
      \A h \in Host : client[h].status >= P2P_TCP_CONNECTED

(* Only a guest's exchange of addresses times out.                         *)
GuestAsks == \A t \in Host : peer[t].asked = 0

(* Both may ask, but not in a run in which a socket is cut.                *)
QuietCut == (\E t \in Tcp : link[t] = "shut") => GuestAsks

(* No exchange of addresses times out.                                     *)
NoRelay == \A t \in Tcp : mainThr[t].pc # "giveup"
=============================================================================
