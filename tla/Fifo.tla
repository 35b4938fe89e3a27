--------------------------------- MODULE Fifo ---------------------------------
(***************************************************************************)
(* What the packet layer over one TCP connection promises: in each         *)
(* direction the packets handed to SendPacket reach the receive callback   *)
(* of the other end whole, in their order, none twice and none invented.   *)
(* A connection may end with packets on their way.                         *)
(***************************************************************************)
EXTENDS Naturals, Sequences

CONSTANTS
    Channel,    \* the directions
    Packet

VARIABLES
    sent,       \* sent[c]: what was handed over for sending
    received    \* received[c]: what the other end was given

vars == <<sent, received>>

Init ==
    /\ sent = [c \in Channel |-> << >>]
    /\ received = [c \in Channel |-> << >>]

Send(c, p) ==
    /\ sent' = [sent EXCEPT ![c] = Append(@, p)]
    /\ UNCHANGED received

Receive(c) ==
    /\ Len(received[c]) < Len(sent[c])
    /\ received' = [received EXCEPT ![c] = Append(@, sent[c][Len(@) + 1])]
    /\ UNCHANGED sent

Next == \E c \in Channel : (\E p \in Packet : Send(c, p)) \/ Receive(c)

Spec == Init /\ [][Next]_vars
=============================================================================
