------------------------- MODULE P2PServerRendezvous -------------------------
(***************************************************************************)
(* The server implements the table of rooms of Rendezvous: a room is a     *)
(* listed session seen without tcpids, addresses, flags and threads.       *)
(***************************************************************************)
EXTENDS P2PServer

(* The stage of a listed session.                                          *)
StageOf(status) ==
    CASE status = P2P_TCP_LISTENING -> "waiting"
      [] status = P2P_TCP_CONNECTED -> "paired"
      [] status = P2P_UDP_LISTENING -> "addressed"
      [] status = P2P_PUNCHING      -> "punching"
      [] status = P2P_CONNECTED     -> "connected"
      [] OTHER                      -> "none"

RoomOf(h) ==
    [keyword |-> conn[h].keyword, host |-> conn[h].main,
     guest |-> conn[h].guest, stage |-> StageOf(conn[h].status)]

Rooms == {RoomOf(h) : h \in {u \in Tcp : Listed(u)}}

Asks == [t \in Tcp |-> peer[t].keyword]

R == INSTANCE Rendezvous WITH Socket <- Tcp, asks <- Asks, room <- Rooms

(* Whatever the threads' interleaving, what the server does to its         *)
(* sessions is what the table allows: a keyword has one room, a guest      *)
(* enters an empty room of its own keyword and no other, stages are        *)
(* neither skipped nor repeated, and a room whose guest left starts again. *)
ImplementsRendezvous == R!Spec
=============================================================================
