----------------------------- MODULE MCENetClient -----------------------------
(***************************************************************************)
(* The instance of ENetClient that TLC checks: main.cpp's guest sends and  *)
(* its host answers every packet from the callback.                        *)
(***************************************************************************)
EXTENDS ENetClient, TLC

CONSTANTS host, guest, p, q

MCMaxPush == (host :> 0) @@ (guest :> 2)

(* The guest's first packet is p and its second q; the stray sends q.      *)
InTurn ==
    /\ \A n \in DOMAIN pushed[guest] : pushed[guest][n] = IF n = 1 THEN p ELSE q
    /\ \A e \in End : slot[e].conn = Stray => event[e] # << p >>
=============================================================================
