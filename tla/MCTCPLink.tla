------------------------------- MODULE MCTCPLink -------------------------------
(***************************************************************************)
(* The instance of TCPLink that TLC checks: a packet that is a header and  *)
(* nothing more, and one with a body.                                      *)
(***************************************************************************)
EXTENDS TCPLink, TLC

CONSTANTS client, server, bare, full

MCLength == [p \in Packet |-> IF p = bare THEN 2 ELSE 3]

(* Packets for the client only: the two directions share no more than the   *)
(* stop events and the line.                                               *)
ToClient == (client :> 0) @@ (server :> 2)

(* First a packet with a body, then a bare header.                         *)
FullFirst == \A n \in DOMAIN pushed[server] : pushed[server][n] = IF n = 1 THEN full ELSE bare
=============================================================================
