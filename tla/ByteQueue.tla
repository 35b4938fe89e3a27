------------------------------ MODULE ByteQueue ------------------------------
(***************************************************************************)
(* What the receive thread needs of its stream buffer: a queue of bytes    *)
(* that gives its front, and gives a packet exactly when the length in the *)
(* header at its front has arrived.                                        *)
(***************************************************************************)
EXTENDS Naturals, Sequences

CONSTANTS
    Byte,
    HeaderLen,
    LengthIn(_)     \* the length a header of HeaderLen bytes states

VARIABLES
    queue,
    got             \* what the last call gave

vars == <<queue, got>>

Init == queue = << >> /\ got = << >>

Add(data) ==
    /\ queue' = queue \o data
    /\ UNCHANGED got

Get(n) ==
    /\ got' = SubSeq(queue, 1, n)
    /\ queue' = SubSeq(queue, n + 1, Len(queue))

Clear ==
    /\ queue' = << >>
    /\ UNCHANGED got

HasPacket ==
    /\ Len(queue) >= HeaderLen
    /\ Len(queue) >= LengthIn(SubSeq(queue, 1, HeaderLen))

GetPacket ==
    IF HasPacket
      THEN Get(LengthIn(SubSeq(queue, 1, HeaderLen)))
      ELSE got' = << >> /\ UNCHANGED queue

Next ==
    \/ \E n \in 0 .. Len(queue') : Add(SubSeq(queue', Len(queue') - n + 1, Len(queue')))
    \/ Get(Len(queue))
    \/ Clear
    \/ GetPacket

Spec == Init /\ [][Next]_vars
=============================================================================
