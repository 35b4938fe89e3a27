------------------------------ MODULE ENetClient ------------------------------
(***************************************************************************)
(* CENetClient at the two ends of a punched path, with the lock and the    *)
(* calls of CP2PClient around it: the guest dials in Init, then each end   *)
(* runs one thread that asks ENet for an event, handles it and sends what  *)
(* its list holds.                                                         *)
(*                                                                         *)
(* Of ENet (3rdparty/enet) is here what the code meets: a single peer slot *)
(* per end, reliable ordered packets per connection, a connection that the *)
(* accepting end learns of after the dialling one, and a disconnect it     *)
(* reports once the path is lost.  Connections are numbered by the guest's *)
(* attempts; Stray is one that another address opens.                      *)
(*                                                                         *)
(* The guest never tags its peer: Init takes the connect event, and only   *)
(* the thread's case for that event sets peer->data.  So the guest's       *)
(* thread drops every packet it receives and ignores the disconnect; its   *)
(* m_pENetPeer still points to the slot, which anyone may then take.       *)
(***************************************************************************)
EXTENDS Naturals, Sequences

CONSTANTS
    Host, Guest,
    Packet,
    Retry,      \* attempts of the guest's Init, 10 in the code
    Echo,       \* the ends whose callback answers with SendPacket: main.cpp's host
    MaxPush     \* bound: packets the program of an end sends

End == {Host, Guest}

ASSUME EndsDiffer == Host # Guest /\ Echo \subseteq End
ASSUME BoundsOK == Retry \in Nat \ {0} /\ MaxPush \in [End -> Nat]

Other(e) == IF e = Host THEN Guest ELSE Host

Attempt == 1 .. Retry
Stray == Retry + 1

VARIABLES
    thr,            \* thr[e]: Init of the guest, then the thread of either end
    tries,          \* the guest's attempts so far
    m_pENetPeer,    \* whether it points to the slot
    m_SendList, m_hStopEvent, m_pfnRecvFunc,
    doneCall,       \* how far CP2PClient::Done has come with m_pENet
    event,          \* event[e]: the packet of the event in hand
    slot,           \* ENet: the one peer of each end; conn 0 when it is free
    asked,          \* ENet: attempts that may still reach the host
    strayed,        \* ENet: strayed[e]: Stray has come to e
    lost,           \* the path between the ends is lost
    stream,         \* stream[e]: what e gave to enet_peer_send
    reached,        \* reached[e]: how much of the other's stream e has received
    pushed,         \* history: the arguments of SendPacket
    given           \* history: the arguments of the receive callback

enetVars == <<slot, asked, strayed, lost>>
dataVars == <<m_SendList, stream, reached, pushed, given, event>>
doneVars == <<m_hStopEvent, m_pfnRecvFunc, doneCall>>
vars == <<thr, tries, m_pENetPeer, enetVars, dataVars, doneVars>>

(* data is whether peer->data is a peer id: ids start at 1, so not NULL.    *)
Free == [conn |-> 0, open |-> FALSE, data |-> FALSE]

Init ==
    /\ thr = [e \in End |-> IF e = Guest THEN "dial" ELSE "check"]
    /\ tries = 0
    /\ m_pENetPeer = [e \in End |-> FALSE]
    /\ m_SendList = [e \in End |-> << >>]
    /\ m_hStopEvent = [e \in End |-> FALSE]
    /\ m_pfnRecvFunc = [e \in End |-> TRUE]
    /\ doneCall = [e \in End |-> "no"]
    /\ event = [e \in End |-> << >>]
    /\ slot = [e \in End |-> Free]
    /\ asked = {} /\ lost = FALSE
    /\ strayed = [e \in End |-> FALSE]
    /\ stream = [e \in End |-> << >>]
    /\ reached = [e \in End |-> 0]
    /\ pushed = [e \in End |-> << >>]
    /\ given = [e \in End |-> << >>]

Goto(e, station) == thr' = [thr EXCEPT ![e] = station]

-----------------------------------------------------------------------------
(* Init of the guest: up to Retry attempts of one second each.             *)

Dial ==
    /\ thr[Guest] = "dial"
    /\ tries' = tries + 1
    /\ slot' = [slot EXCEPT ![Guest] = [Free EXCEPT !.conn = tries']]
    /\ asked' = asked \cup {tries'}
    /\ Goto(Guest, "await")
    /\ UNCHANGED <<m_pENetPeer, strayed, lost, dataVars, doneVars>>

DialSucceeds ==
    /\ thr[Guest] = "await"
    /\ ~lost
    /\ slot[Host].conn = tries
    /\ slot' = [slot EXCEPT ![Guest].open = TRUE]
    /\ m_pENetPeer' = [m_pENetPeer EXCEPT ![Guest] = TRUE]
    /\ Goto(Guest, "check")
    /\ UNCHANGED <<tries, asked, strayed, lost, dataVars, doneVars>>

(* enet_peer_reset tells the other end nothing.  After the last attempt    *)
(* the thread starts all the same.                                         *)
DialFails ==
    /\ thr[Guest] = "await"
    /\ slot' = [slot EXCEPT ![Guest] = Free]
    /\ Goto(Guest, IF tries < Retry THEN "dial" ELSE "check")
    /\ UNCHANGED <<tries, m_pENetPeer, asked, strayed, lost, dataVars, doneVars>>

-----------------------------------------------------------------------------
(* What ENet does by itself, and what the network does.                    *)

(* A request finds the host's slot free, perhaps long after its attempt    *)
(* was given up.                                                           *)
Answer ==
    /\ thr[Host] = "service"
    /\ slot[Host].conn = 0
    /\ \E c \in asked :
         /\ slot' = [slot EXCEPT ![Host].conn = c]
         /\ asked' = asked \ {c}
    /\ UNCHANGED <<thr, tries, m_pENetPeer, strayed, lost, dataVars, doneVars>>

(* The guest's slot is free when its attempts have failed and after a      *)
(* disconnect.                                                             *)
AnswerStray(e) ==
    /\ thr[e] = "service"
    /\ slot[e].conn = 0
    /\ ~strayed[e]
    /\ slot' = [slot EXCEPT ![e].conn = Stray]
    /\ strayed' = [strayed EXCEPT ![e] = TRUE]
    /\ UNCHANGED <<thr, tries, m_pENetPeer, asked, lost, dataVars, doneVars>>

(* A connection that its dialler does not confirm times out.               *)
Forget(e) ==
    /\ thr[e] = "service"
    /\ slot[e].conn # 0 /\ ~slot[e].open
    /\ \/ slot[e].conn = Stray
       \/ lost \/ slot[Guest].conn # slot[Host].conn
    /\ slot' = [slot EXCEPT ![e] = Free]
    /\ UNCHANGED <<thr, tries, m_pENetPeer, asked, strayed, lost, dataVars, doneVars>>

PathLost ==
    /\ ~lost
    /\ lost' = TRUE
    /\ UNCHANGED <<thr, tries, m_pENetPeer, slot, asked, strayed, dataVars, doneVars>>

-----------------------------------------------------------------------------
(* ENetProcess: one round of the thread.                                   *)

CheckStop(e) ==
    /\ thr[e] = "check"
    /\ Goto(e, IF m_hStopEvent[e] THEN "gone" ELSE "service")
    /\ UNCHANGED <<tries, m_pENetPeer, enetVars, dataVars, doneVars>>

(* 20 ms without an event.                                                 *)
NoEvent(e) ==
    /\ thr[e] = "service"
    /\ Goto(e, "drain")
    /\ UNCHANGED <<tries, m_pENetPeer, enetVars, dataVars, doneVars>>

ServiceFails(e) ==
    /\ thr[e] = "service"
    /\ lost
    /\ Goto(e, "gone")
    /\ UNCHANGED <<tries, m_pENetPeer, enetVars, dataVars, doneVars>>

(* Mutant of SameAddress: the port is compared without ntohs.              *)
SameAddressUnswapped(c) == FALSE

SameAddress(c) == c # Stray

(* Whether the dialler confirms the connection in e's slot.                *)
Confirms(e) ==
    \/ slot[e].conn = Stray
    \/ e = Host /\ ~lost /\ slot[Guest].conn = slot[Host].conn /\ slot[Guest].open

ConnectEvent(e) ==
    /\ thr[e] = "service"
    /\ slot[e].conn # 0 /\ ~slot[e].open
    /\ Confirms(e)
    /\ LET same == SameAddress(slot[e].conn)
       IN  /\ slot' = [slot EXCEPT ![e].open = TRUE, ![e].data = same]
           /\ m_pENetPeer' = [m_pENetPeer EXCEPT ![e] = @ \/ same]
    /\ Goto(e, "drain")
    /\ UNCHANGED <<tries, asked, strayed, lost, dataVars, doneVars>>

(* Of the stray nothing is known but that its packets are packets.         *)
ReceiveEvent(e) ==
    /\ thr[e] = "service"
    /\ slot[e].open
    /\ \/ /\ slot[e].conn \in Attempt
          /\ reached[e] < Len(stream[Other(e)])
          /\ event' = [event EXCEPT ![e] = << stream[Other(e)][reached[e] + 1] >>]
          /\ reached' = [reached EXCEPT ![e] = @ + 1]
       \/ /\ slot[e].conn = Stray
          /\ \E p \in Packet : event' = [event EXCEPT ![e] = << p >>]
          /\ UNCHANGED reached
    /\ Goto(e, "receive")
    /\ UNCHANGED <<tries, m_pENetPeer, enetVars, doneVars, m_SendList, stream, pushed, given>>

(* Mutant of FromPeer: the packets of every connection are taken.          *)
FromAnyone(e) == TRUE

FromPeer(e) == slot[e].data

(* Under m_csLock, which the callback keeps.                               *)
Dispatch(e) ==
    /\ thr[e] = "receive"
    /\ IF FromPeer(e) /\ m_pfnRecvFunc[e]
       THEN Goto(e, "callback") /\ given' = [given EXCEPT ![e] = @ \o event[e]]
       ELSE Goto(e, "drain") /\ UNCHANGED given
    /\ event' = [event EXCEPT ![e] = IF thr'[e] = "callback" THEN @ ELSE << >>]
    /\ UNCHANGED <<tries, m_pENetPeer, enetVars, doneVars, m_SendList, stream, reached, pushed>>

DisconnectEvent(e) ==
    /\ thr[e] = "service"
    /\ slot[e].open
    /\ lost \/ slot[e].conn = Stray
    /\ slot' = [slot EXCEPT ![e] = Free]
    /\ Goto(e, IF slot[e].data THEN "gone" ELSE "drain")
    /\ m_pENetPeer' = [m_pENetPeer EXCEPT ![e] = @ /\ ~slot[e].data]
    /\ UNCHANGED <<tries, asked, strayed, lost, dataVars, doneVars>>

(* enet_peer_send refuses a packet for a slot without a connection, and    *)
(* sends it to whoever has the slot.                                       *)
Drain(e) ==
    /\ thr[e] = "drain"
    /\ Goto(e, "check")
    /\ IF m_pENetPeer[e]
       THEN /\ stream' = IF slot[e].open /\ slot[e].conn # Stray
                         THEN [stream EXCEPT ![e] = @ \o m_SendList[e]] ELSE stream
            /\ m_SendList' = [m_SendList EXCEPT ![e] = << >>]
       ELSE UNCHANGED <<stream, m_SendList>>
    /\ UNCHANGED <<tries, m_pENetPeer, enetVars, doneVars, reached, pushed, given, event>>

-----------------------------------------------------------------------------
(* CP2PClient: m_csENetLock is held during Init and while Done is under    *)
(* way; SendPacket takes it, from the callback too.                        *)
ENetLocked(e) == thr[e] \in {"dial", "await"} \/ doneCall[e] \in {"locked", "unregistered"}

Push(e, p) ==
    /\ m_SendList' = [m_SendList EXCEPT ![e] = Append(@, p)]
    /\ pushed' = [pushed EXCEPT ![e] = Append(@, p)]

(* By the program, on a thread of its own.                                 *)
SendPacket(e, p) ==
    /\ ~ENetLocked(e)
    /\ doneCall[e] = "no" /\ ~m_hStopEvent[e]
    /\ Len(pushed[e]) < MaxPush[e]
    /\ Push(e, p)
    /\ UNCHANGED <<thr, tries, m_pENetPeer, enetVars, doneVars, stream, reached, given, event>>

CallbackReturns(e) ==
    /\ thr[e] = "callback"
    /\ IF e \in Echo
       THEN /\ ~ENetLocked(e)
            /\ IF doneCall[e] = "no" THEN Push(e, event[e][1]) ELSE UNCHANGED <<m_SendList, pushed>>
       ELSE UNCHANGED <<m_SendList, pushed>>
    /\ Goto(e, "drain")
    /\ event' = [event EXCEPT ![e] = << >>]
    /\ UNCHANGED <<tries, m_pENetPeer, enetVars, doneVars, stream, reached, given>>

DoneLocks(e) ==
    /\ doneCall[e] = "no"
    /\ ~ENetLocked(e)
    /\ doneCall' = [doneCall EXCEPT ![e] = "locked"]
    /\ UNCHANGED <<thr, tries, m_pENetPeer, enetVars, dataVars, m_hStopEvent, m_pfnRecvFunc>>

(* Mutant of FuncLocked: the callback runs outside m_csLock.               *)
NeverLocked(e) == FALSE

FuncLocked(e) == thr[e] = "callback"

Unregister(e) ==
    /\ doneCall[e] = "locked"
    /\ ~FuncLocked(e)
    /\ m_pfnRecvFunc' = [m_pfnRecvFunc EXCEPT ![e] = FALSE]
    /\ doneCall' = [doneCall EXCEPT ![e] = "unregistered"]
    /\ UNCHANGED <<thr, tries, m_pENetPeer, enetVars, dataVars, m_hStopEvent>>

(* Mutant of SetStop: Done only takes the callback away.                   *)
SetNothing(e) ==
    /\ doneCall[e] = "unregistered"
    /\ doneCall' = [doneCall EXCEPT ![e] = "returned"]
    /\ UNCHANGED <<thr, tries, m_pENetPeer, enetVars, dataVars, m_hStopEvent, m_pfnRecvFunc>>

SetStop(e) ==
    /\ doneCall[e] = "unregistered"
    /\ m_hStopEvent' = [m_hStopEvent EXCEPT ![e] = TRUE]
    /\ doneCall' = [doneCall EXCEPT ![e] = "returned"]
    /\ UNCHANGED <<thr, tries, m_pENetPeer, enetVars, dataVars, m_pfnRecvFunc>>

-----------------------------------------------------------------------------
Events(e) == ConnectEvent(e) \/ ReceiveEvent(e) \/ DisconnectEvent(e)

Thread(e) ==
    \/ CheckStop(e) \/ NoEvent(e) \/ Events(e)
    \/ Dispatch(e) \/ CallbackReturns(e) \/ Drain(e)

DoneGoesOn(e) == Unregister(e) \/ SetStop(e)

(* Only a host calls Done: CP2PGuest has no Close.                         *)
Next ==
    \/ Dial \/ DialSucceeds \/ DialFails
    \/ Answer \/ PathLost
    \/ \E e \in End :
         \/ AnswerStray(e) \/ Forget(e)
         \/ Thread(e) \/ ServiceFails(e)
         \/ e \notin Echo /\ \E p \in Packet : SendPacket(e, p)
    \/ DoneLocks(Host) \/ DoneGoesOn(Host)

(* The threads run, ENet reports its events to a thread that keeps asking, *)
(* callbacks return and nobody keeps a lock for good by waiting elsewhere. *)
(* A free lock that is wanted again and again is got in the end.           *)
Fairness ==
    /\ \A e \in End : WF_vars(Thread(e)) /\ SF_vars(Events(e))
    /\ SF_vars(DoneGoesOn(Host))

Spec == Init /\ [][Next]_vars

FairSpec == Spec /\ Fairness

-----------------------------------------------------------------------------
(* Properties.                                                             *)

F == INSTANCE Fifo WITH
       Channel <- End, sent <- pushed, received <- [e \in End |-> given[Other(e)]]

(* What an end's callback is given is what the other end's program sent,   *)
(* in order, none twice, whatever attempts were given up or answered late  *)
(* and whoever else connects to the host (ENetClient.cpp:85-103, 184-203). *)
ImplementsFifo == F!Spec

(* Once Done has taken the callback away it neither runs nor starts, though *)
(* the thread may be about to call it (ENetClient.cpp:110, 202-207).       *)
SilentAfterDone == doneCall[Host] \in {"unregistered", "returned"} => thr[Host] # "callback"

Disturbed == lost \/ doneCall[Host] # "no"

(* What the guest sends on a connection its Init obtained reaches the      *)
(* host's callback: packets pushed at any moment of a round leave in a     *)
(* later one (ENetClient.cpp:236-248).                                     *)
Delivered ==
    \A n \in 1 .. MaxPush[Guest] :
      (Len(pushed[Guest]) >= n /\ m_pENetPeer[Guest])
      ~> (Len(given[Host]) >= n \/ Disturbed)

(* Done, holding m_csENetLock, waits for the callback, and the callback    *)
(* waits in SendPacket for m_csENetLock (P2PClient.cpp:136, 208).          *)
Embraced(e) == doneCall[e] = "locked" /\ thr[e] = "callback" /\ e \in Echo

(* Done returns and the thread ends, unless the callback was answering a   *)
(* packet when Done was called: then both wait for each other for good.    *)
DoneEnds ==
    doneCall[Host] = "locked"
    ~> ((doneCall[Host] = "returned" /\ thr[Host] = "gone") \/ Embraced(Host))
=============================================================================
