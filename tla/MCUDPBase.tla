------------------------------- MODULE MCUDPBase -------------------------------
(***************************************************************************)
(* The instance of UDPBase that TLC checks: every datagram there is of two *)
(* types, one length and data of two bytes whose sum overflows.            *)
(***************************************************************************)
EXTENDS UDPBase

CONSTANTS handshake, keepalive
=============================================================================
