------------------------------ MODULE Rendezvous ------------------------------
(***************************************************************************)
(* What the server promises, without tcpids, threads, packets or the       *)
(* window between finding a session and using it: a table of rooms.  A     *)
(* socket arrives with the keyword its user typed; one host opens the room *)
(* of a keyword nobody holds; one guest with the same keyword enters while *)
(* the room is empty; the pair then goes through the stages of a hole      *)
(* punch one by one; the guest may leave, which sends the room back to its *)
(* first stage, and the host closes it.                                    *)
(***************************************************************************)
CONSTANTS Socket, Keyword, None

VARIABLES
    asks,   \* asks[t]: the keyword t came with, or None
    room    \* the open rooms

vars == <<asks, room>>

Stage == {"waiting", "paired", "addressed", "punching", "connected"}

Room == [keyword : Keyword, host : Socket, guest : Socket \cup {None}, stage : Stage]

(* The stage that follows.                                                 *)
After == [paired |-> "addressed", addressed |-> "punching", punching |-> "connected"]

Init ==
    /\ asks = [t \in Socket |-> None]
    /\ room = {}

Outside(t) == \A r \in room : t \notin {r.host, r.guest}

(* The room keeps its keyword and its host.                                *)
Becomes(r, guest, stage) ==
    room' = (room \ {r}) \cup
              {[keyword |-> r.keyword, host |-> r.host, guest |-> guest, stage |-> stage]}

Arrive(t) ==
    /\ asks[t] = None
    /\ \E k \in Keyword : asks' = [asks EXCEPT ![t] = k]
    /\ UNCHANGED room

Register(t) ==
    /\ asks[t] \in Keyword
    /\ Outside(t)
    /\ \A r \in room : r.keyword # asks[t]
    /\ room' = room \cup {[keyword |-> asks[t], host |-> t, guest |-> None, stage |-> "waiting"]}
    /\ UNCHANGED asks

Join(r, t) ==
    /\ r.keyword = asks[t]
    /\ r.stage = "waiting"
    /\ Outside(t)
    /\ Becomes(r, t, "paired")
    /\ UNCHANGED asks

Progress(r) ==
    /\ r.stage \in DOMAIN After
    /\ Becomes(r, r.guest, After[r.stage])
    /\ UNCHANGED asks

Leave(r) ==
    /\ r.guest # None
    /\ Becomes(r, None, "waiting")
    /\ UNCHANGED asks

Close(r) ==
    /\ room' = room \ {r}
    /\ UNCHANGED asks

Next ==
    \/ \E t \in Socket : Arrive(t) \/ Register(t)
    \/ \E r \in room :
         \/ \E t \in Socket : Join(r, t)
         \/ Progress(r)
         \/ Leave(r)
         \/ Close(r)

Spec == Init /\ [][Next]_vars
=============================================================================
