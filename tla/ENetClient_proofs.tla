---------------------------- MODULE ENetClient_proofs ----------------------------
(***************************************************************************)
(* The ENet connection of a punched path, for every set of packets, number *)
(* of attempts and of packets sent: no callback behind Done, and the queue *)
(* per direction that the two ends implement.                              *)
(***************************************************************************)
EXTENDS ENetClient, QueueTheorems

Station == {"dial", "await", "check", "service", "receive", "callback", "drain", "gone"}

Slot == [conn : Nat, open : BOOLEAN, data : BOOLEAN]

ENetTypeOK ==
    /\ thr \in [End -> Station]
    /\ tries \in Nat
    /\ m_pENetPeer \in [End -> BOOLEAN]
    /\ m_SendList \in [End -> Seq(Packet)]
    /\ m_hStopEvent \in [End -> BOOLEAN]
    /\ m_pfnRecvFunc \in [End -> BOOLEAN]
    /\ doneCall \in [End -> {"no", "locked", "unregistered", "returned"}]
    /\ event \in [End -> Seq(Packet)]
    /\ slot \in [End -> Slot]
    /\ asked \subseteq Nat \ {0}
    /\ stream \in [End -> Seq(Packet)]
    /\ reached \in [End -> Nat]
    /\ pushed \in [End -> Seq(Packet)]
    /\ given \in [End -> Seq(Packet)]

(* The slot is tagged at the host for the connections of the guest, and    *)
(* never at the guest; m_pENetPeer of the host points to a tagged slot.    *)
SlotInv ==
    /\ ~slot[Guest].data
    /\ thr[Guest] \in {"dial", "await"} => ~m_pENetPeer[Guest]
    /\ slot[Host].data <=> (slot[Host].open /\ slot[Host].conn # Stray)
    /\ slot[Host].conn = 0 => ~slot[Host].open
    /\ m_pENetPeer[Host] => slot[Host].data

(* Once the connection is lost ENet refuses what is sent, or sends it to    *)
(* the stray that took the slot, and the list is emptied all the same.     *)
Linked(e) == slot[e].open /\ slot[e].conn # Stray

Broken(e) == m_pENetPeer[e] /\ ~Linked(e)

IsStart(s, whole) ==
    /\ Len(s) <= Len(whole)
    /\ \A n \in 1 .. Len(s) : s[n] = whole[n]

OrderInv(e) ==
    /\ IsStart(stream[e], pushed[e])
    /\ Broken(e) \/ pushed[e] = stream[e] \o m_SendList[e]

(* The host's callback was given all it received of the guest's stream but *)
(* the packet in hand, as long as there was a callback.                    *)
InHand == thr[Host] = "receive" /\ slot[Host].data

RecvInv ==
    /\ IsStart(given[Host], stream[Guest])
    /\ reached[Host] <= Len(stream[Guest])
    /\ Len(given[Host]) <= reached[Host]
    /\ m_pfnRecvFunc[Host] =>
         reached[Host] = IF InHand THEN Len(given[Host]) + 1 ELSE Len(given[Host])
    /\ InHand => reached[Host] > 0 /\ event[Host] = << stream[Guest][reached[Host]] >>
    /\ thr[Host] = "callback" => Len(event[Host]) = 1
    /\ given[Guest] = << >>
    /\ thr[Guest] # "callback"

DoneInv ==
    doneCall[Host] \in {"unregistered", "returned"}
      => ~m_pfnRecvFunc[Host] /\ thr[Host] # "callback"

ENetInv ==
    /\ ENetTypeOK
    /\ SlotInv
    /\ \A e \in End : OrderInv(e)
    /\ RecvInv
    /\ DoneInv

-----------------------------------------------------------------------------
LEMMA Ends ==
    /\ Host \in End /\ Guest \in End /\ Host # Guest
    /\ Other(Host) = Guest /\ Other(Guest) = Host
    /\ \A e \in End : e = Host \/ e = Guest
    /\ Retry \in Nat /\ Stray = Retry + 1 /\ Stray \in Nat /\ Stray # 0
    /\ Stray \notin Attempt
BY EndsDiffer, BoundsOK DEF End, Other, Stray, Attempt

LEMMA Shapes ==
    ASSUME ENetTypeOK, NEW e \in End
    PROVE  /\ thr[e] \in Station
           /\ m_pENetPeer[e] \in BOOLEAN /\ m_pfnRecvFunc[e] \in BOOLEAN
           /\ m_SendList[e] \in Seq(Packet) /\ event[e] \in Seq(Packet)
           /\ stream[e] \in Seq(Packet) /\ Len(stream[e]) \in Nat
           /\ pushed[e] \in Seq(Packet) /\ Len(pushed[e]) \in Nat
           /\ given[e] \in Seq(Packet) /\ Len(given[e]) \in Nat
           /\ reached[e] \in Nat
           /\ slot[e] \in Slot
BY DEF ENetTypeOK

LEMMA ENetInitial == Init => ENetInv
<1> SUFFICES ASSUME Init PROVE ENetInv
    OBVIOUS
<1>1. ENetTypeOK
    BY EmptySeq DEF Init, ENetTypeOK, Station, Slot, Free
<1>2. SlotInv
    BY Ends DEF Init, SlotInv, Free
<1>3. ASSUME NEW e \in End PROVE OrderInv(e)
    BY EmptySeq, ConcatEmptySeq DEF Init, OrderInv, IsStart
<1>4. RecvInv
    BY Ends DEF Init, RecvInv, IsStart, InHand, Free
<1>5. DoneInv
    BY Ends DEF Init, DoneInv
<1> QED BY <1>1, <1>2, <1>3, <1>4, <1>5 DEF ENetInv

(* A step that leaves the data alone, puts no packet in a thread's hand or *)
(* out of it and starts no callback keeps what the host was given; and the *)
(* order of the packets, as long as no broken connection is mended.        *)
LEMMA DataStays ==
    ASSUME ENetInv, UNCHANGED dataVars,
           m_pfnRecvFunc'[Host] => m_pfnRecvFunc[Host],
           InHand' = InHand,
           thr'[Host] = "callback" => thr[Host] = "callback",
           thr'[Guest] # "callback",
           \A e \in End : Broken(e) => Broken(e)'
    PROVE  RecvInv' /\ \A e \in End : OrderInv(e)'
<1>1. ASSUME NEW e \in End PROVE OrderInv(e)'
    BY DEF ENetInv, OrderInv, IsStart, dataVars
<1>2. RecvInv'
    BY Ends DEF ENetInv, RecvInv, IsStart, dataVars
<1> QED BY <1>1, <1>2

-----------------------------------------------------------------------------
(* The guest dials.                                                        *)

Dialling == Dial \/ DialSucceeds \/ DialFails

LEMMA DiallingKeeps ==
    ASSUME ENetInv, Dialling
    PROVE  ENetInv'
<1>1. ENetTypeOK /\ SlotInv /\ DoneInv
    BY DEF ENetInv
<1>2. /\ UNCHANGED <<dataVars, doneVars>>
      /\ thr[Guest] \in {"dial", "await"} /\ ~m_pENetPeer[Guest]
      /\ thr'[Guest] \in {"dial", "await", "check"} /\ thr'[Host] = thr[Host]
      /\ slot'[Host] = slot[Host] /\ m_pENetPeer'[Host] = m_pENetPeer[Host]
    BY <1>1, Ends DEF Dialling, Dial, DialSucceeds, DialFails, Goto, ENetTypeOK, SlotInv
<1>3. ENetTypeOK'
    <2>1. tries' \in Nat /\ asked' \subseteq Nat \ {0}
        BY <1>1 DEF Dialling, Dial, DialSucceeds, DialFails, ENetTypeOK
    <2>2. slot' \in [End -> Slot]
        <3>1. CASE Dial
            BY <1>1, <2>1, <3>1 DEF Dial, ENetTypeOK, Slot, Free
        <3>2. CASE DialSucceeds
            BY <1>1, <3>2 DEF DialSucceeds, ENetTypeOK, Slot
        <3>3. CASE DialFails
            BY <1>1, <3>3 DEF DialFails, ENetTypeOK, Slot, Free
        <3> QED BY <3>1, <3>2, <3>3 DEF Dialling
    <2>3. thr' \in [End -> Station] /\ m_pENetPeer' \in [End -> BOOLEAN]
        BY <1>1 DEF Dialling, Dial, DialSucceeds, DialFails, Goto, ENetTypeOK, Station
    <2> QED BY <1>1, <1>2, <2>1, <2>2, <2>3 DEF ENetTypeOK, dataVars, doneVars
<1>4. SlotInv'
    <2>1. ~slot'[Guest].data
        <3>1. ~slot[Guest].data /\ slot[Guest] \in Slot /\ DOMAIN slot = End
            BY <1>1, Ends DEF SlotInv, ENetTypeOK
        <3>2. CASE Dial
            BY <3>1, <3>2, Ends DEF Dial, Free
        <3>3. CASE DialSucceeds
            BY <3>1, <3>3, Ends DEF DialSucceeds, Slot
        <3>4. CASE DialFails
            BY <3>1, <3>4, Ends DEF DialFails, Free
        <3> QED BY <3>2, <3>3, <3>4 DEF Dialling
    <2>2. thr'[Guest] \in {"dial", "await"} => ~m_pENetPeer'[Guest]
        BY <1>1, <1>2, Ends DEF Dialling, Dial, DialSucceeds, DialFails, Goto, ENetTypeOK
    <2> QED BY <1>1, <1>2, <2>1, <2>2 DEF SlotInv
<1>5. RecvInv' /\ \A e \in End : OrderInv(e)'
    <2>1. ~Broken(Guest) /\ Broken(Host)' = Broken(Host)
        BY <1>2 DEF Broken, Linked
    <2> QED BY <1>2, <2>1, Ends, DataStays DEF InHand, doneVars
<1>6. DoneInv'
    BY <1>1, <1>2 DEF DoneInv, doneVars
<1> QED BY <1>3, <1>4, <1>5, <1>6 DEF ENetInv

-----------------------------------------------------------------------------
(* ENet and the network.                                                   *)

Network == Answer \/ PathLost \/ \E e \in End : AnswerStray(e) \/ Forget(e)

LEMMA NetworkKeeps ==
    ASSUME ENetInv, Network
    PROVE  ENetInv'
<1> DEFINE HostIdle == \/ slot'[Host] = slot[Host]
                       \/ /\ ~slot[Host].open /\ ~slot[Host].data
                          /\ ~slot'[Host].open /\ ~slot'[Host].data
           GuestIdle == ~slot'[Guest].data /\ (Linked(Guest)' => Linked(Guest))
<1>1. ENetTypeOK /\ SlotInv /\ DoneInv
    BY DEF ENetInv
<1>2. UNCHANGED <<thr, tries, m_pENetPeer, dataVars, doneVars>>
    BY DEF Network, Answer, AnswerStray, Forget, PathLost
<1>3. slot' \in [End -> Slot] /\ asked' \subseteq Nat \ {0} /\ HostIdle /\ GuestIdle
    <2>1. slot \in [End -> Slot] /\ DOMAIN slot = End /\ slot[Host] \in Slot /\ slot[Guest] \in Slot
        BY <1>1, Ends DEF ENetTypeOK
    <2>2. ASSUME NEW e \in End, NEW c \in Nat, slot' = [slot EXCEPT ![e].conn = c],
                 slot[e].conn = 0, e = Guest => c = Stray
          PROVE  slot' \in [End -> Slot] /\ HostIdle /\ GuestIdle
        <3>1. [slot[e] EXCEPT !.conn = c] \in Slot
            BY <2>1 DEF Slot
        <3>2. /\ slot' \in [End -> Slot] /\ slot'[e] = [slot[e] EXCEPT !.conn = c]
              /\ slot'[Other(e)] = slot[Other(e)]
            BY <2>1, <2>2, <3>1, Ends
        <3>3. /\ slot'[e].open = slot[e].open /\ slot'[e].data = slot[e].data
              /\ slot'[e].conn = c
            BY <2>1, <3>2 DEF Slot
        <3>4. CASE e = Host
            BY <1>1, <2>2, <3>2, <3>3, <3>4, Ends DEF SlotInv, Linked
        <3>5. CASE e = Guest
            BY <1>1, <2>2, <3>2, <3>3, <3>5, Ends DEF SlotInv, Linked
        <3> QED BY <3>2, <3>4, <3>5, Ends
    <2>3. CASE Answer
        <3>1. PICK c \in Nat \ {0} : slot' = [slot EXCEPT ![Host].conn = c]
            BY <1>1, <2>3, Ends DEF Answer, ENetTypeOK
        <3>2. slot[Host].conn = 0 /\ asked' \subseteq Nat \ {0}
            BY <1>1, <2>3 DEF Answer, ENetTypeOK
        <3> QED BY <2>2, <3>1, <3>2, Ends
    <2>4. ASSUME NEW e \in End, AnswerStray(e)
          PROVE  slot' \in [End -> Slot] /\ asked' = asked /\ HostIdle /\ GuestIdle
        <3>1. slot' = [slot EXCEPT ![e].conn = Stray] /\ slot[e].conn = 0 /\ asked' = asked
            BY <2>4 DEF AnswerStray
        <3> QED BY <2>2, <3>1, Ends
    <2>5. ASSUME NEW e \in End, Forget(e)
          PROVE  slot' \in [End -> Slot] /\ asked' = asked /\ HostIdle /\ GuestIdle
        <3>1. slot' = [slot EXCEPT ![e] = Free] /\ asked' = asked /\ ~slot[e].open
            BY <2>5 DEF Forget
        <3>2. Free \in Slot /\ ~Free.open /\ ~Free.data
            BY DEF Free, Slot
        <3>3. /\ slot' \in [End -> Slot] /\ slot'[e] = Free /\ slot'[Other(e)] = slot[Other(e)]
            BY <2>1, <3>1, <3>2, Ends
        <3>4. CASE e = Host
            BY <1>1, <3>1, <3>2, <3>3, <3>4, Ends DEF SlotInv, Linked
        <3>5. CASE e = Guest
            BY <1>1, <3>1, <3>2, <3>3, <3>5, Ends DEF SlotInv, Linked
        <3> QED BY <3>1, <3>3, <3>4, <3>5, Ends
    <2>6. CASE PathLost
        BY <1>1, <2>6 DEF PathLost, ENetTypeOK, SlotInv, Linked
    <2> QED BY <1>1, <2>3, <2>4, <2>5, <2>6 DEF Network, ENetTypeOK
<1>4. ENetTypeOK'
    BY <1>1, <1>2, <1>3 DEF ENetTypeOK, dataVars, doneVars
<1>5. SlotInv'
    BY <1>1, <1>2, <1>3 DEF SlotInv
<1>6. RecvInv' /\ \A e \in End : OrderInv(e)'
    <2>1. ~Broken(Host) /\ (Broken(Guest) => Broken(Guest)')
        BY <1>1, <1>2, <1>3 DEF Broken, Linked, SlotInv
    <2>2. InHand' = InHand
        BY <1>2, <1>3 DEF InHand
    <2>3. thr[Guest] # "callback"
        BY DEF ENetInv, RecvInv
    <2> QED BY <1>2, <2>1, <2>2, <2>3, Ends, DataStays DEF doneVars
<1>7. DoneInv'
    BY <1>1, <1>2 DEF DoneInv, doneVars
<1> QED BY <1>4, <1>5, <1>6, <1>7 DEF ENetInv

-----------------------------------------------------------------------------
(* The thread, where it moves no packet.                                   *)

Moving(e) == CheckStop(e) \/ NoEvent(e) \/ ServiceFails(e)

LEMMA MovingKeeps ==
    ASSUME ENetInv, NEW e \in End, Moving(e)
    PROVE  ENetInv'
<1>1. ENetTypeOK /\ SlotInv /\ DoneInv /\ thr[Guest] # "callback"
    BY DEF ENetInv, RecvInv
<1>2. PICK s \in {"gone", "service", "drain"} : thr' = [thr EXCEPT ![e] = s]
    BY DEF Moving, CheckStop, NoEvent, ServiceFails, Goto
<1>3. thr[e] \in {"check", "service"}
    BY DEF Moving, CheckStop, NoEvent, ServiceFails
<1>4. UNCHANGED <<tries, m_pENetPeer, enetVars, dataVars, doneVars>>
    BY DEF Moving, CheckStop, NoEvent, ServiceFails
<1>5. thr'[e] = s /\ thr'[Other(e)] = thr[Other(e)] /\ thr' \in [End -> Station]
    BY <1>1, <1>2, Ends DEF ENetTypeOK, Station
<1>6. ENetTypeOK'
    BY <1>1, <1>4, <1>5 DEF ENetTypeOK, enetVars, dataVars, doneVars
<1>7. SlotInv'
    BY <1>1, <1>4, <1>5, Ends DEF SlotInv, enetVars
<1>8. RecvInv' /\ \A f \in End : OrderInv(f)'
    <2>1. InHand' = InHand
        BY <1>3, <1>4, <1>5, Ends DEF InHand, enetVars
    <2>2. thr'[Guest] # "callback" /\ (thr'[Host] = "callback" => thr[Host] = "callback")
        BY <1>1, <1>5, Ends
    <2>3. \A f \in End : Broken(f)' = Broken(f)
        BY <1>4 DEF Broken, Linked, enetVars
    <2> QED BY <1>4, <2>1, <2>2, <2>3, DataStays DEF doneVars
<1>9. DoneInv'
    BY <1>1, <1>4, <1>5, Ends DEF DoneInv, doneVars
<1> QED BY <1>6, <1>7, <1>8, <1>9 DEF ENetInv

(* At the guest the connection is a stray's, for its own one is known to   *)
(* Init; at the host m_pENetPeer points nowhere before.                    *)
LEMMA ConnectKeeps ==
    ASSUME ENetInv, NEW e \in End, ConnectEvent(e)
    PROVE  ENetInv'
<1> DEFINE same == slot[e].conn # Stray
<1>1. ENetTypeOK /\ SlotInv /\ DoneInv /\ thr[Guest] # "callback"
    BY DEF ENetInv, RecvInv
<1>2. /\ thr[e] = "service" /\ thr' = [thr EXCEPT ![e] = "drain"]
      /\ slot[e].conn # 0 /\ ~slot[e].open
      /\ slot' = [slot EXCEPT ![e].open = TRUE, ![e].data = same]
      /\ m_pENetPeer' = [m_pENetPeer EXCEPT ![e] = @ \/ same]
      /\ UNCHANGED <<tries, asked, dataVars, doneVars>>
    BY DEF ConnectEvent, SameAddress, Goto
<1>3. /\ thr'[e] = "drain" /\ thr'[Other(e)] = thr[Other(e)]
      /\ slot'[Other(e)] = slot[Other(e)] /\ m_pENetPeer'[Other(e)] = m_pENetPeer[Other(e)]
    BY <1>1, <1>2, Ends DEF ENetTypeOK
<1>4. /\ slot'[e].open /\ (slot'[e].data <=> same) /\ slot'[e].conn = slot[e].conn
      /\ slot' \in [End -> Slot]
    <2>1. slot[e] \in Slot /\ DOMAIN slot = End /\ slot \in [End -> Slot]
        BY <1>1, Ends DEF ENetTypeOK
    <2>2. slot'[e] = [[slot[e] EXCEPT !.open = TRUE] EXCEPT !.data = same]
        BY <1>2, <2>1, Ends
    <2>3. [[slot[e] EXCEPT !.open = TRUE] EXCEPT !.data = same] \in Slot
        BY <2>1 DEF Slot
    <2>4. slot' \in [End -> Slot]
        BY <1>2, <2>1, <2>2, <2>3
    <2> QED BY <2>1, <2>2, <2>4 DEF Slot
<1>5. /\ m_pENetPeer' \in [End -> BOOLEAN] /\ (m_pENetPeer'[e] <=> m_pENetPeer[e] \/ same)
      /\ e = Guest => ~same
      /\ e = Host => ~m_pENetPeer[Host]
    <2>1. e = Guest => ~same
        BY Ends DEF ConnectEvent, Confirms
    <2>2. e = Host => ~m_pENetPeer[Host]
        BY <1>1, <1>2 DEF SlotInv
    <2> QED BY <1>1, <1>2, <2>1, <2>2, Ends DEF ENetTypeOK
<1>6. ENetTypeOK'
    <2>1. thr' \in [End -> Station]
        BY <1>1, <1>2 DEF ENetTypeOK, Station
    <2> QED BY <1>1, <1>2, <1>4, <1>5, <2>1 DEF ENetTypeOK, dataVars, doneVars
<1>7. SlotInv'
    <2>1. CASE e = Guest
        BY <1>1, <1>2, <1>3, <1>4, <1>5, <2>1, Ends DEF SlotInv
    <2>2. CASE e = Host
        BY <1>1, <1>2, <1>3, <1>4, <1>5, <2>2, Ends DEF SlotInv
    <2> QED BY <2>1, <2>2, Ends
<1>8. RecvInv' /\ \A f \in End : OrderInv(f)'
    <2>1. InHand' = InHand
        BY <1>2, <1>3, Ends DEF InHand
    <2>2. Broken(e) => Broken(e)'
        BY <1>4, <1>5, Ends DEF Broken, Linked
    <2>3. Broken(Other(e))' = Broken(Other(e))
        BY <1>3 DEF Broken, Linked
    <2>4. thr'[Guest] # "callback" /\ (thr'[Host] = "callback" => thr[Host] = "callback")
        BY <1>1, <1>3, Ends
    <2> QED BY <1>1, <1>2, <2>1, <2>2, <2>3, <2>4, Ends, DataStays DEF doneVars
<1>9. DoneInv'
    BY <1>1, <1>2, <1>3, Ends DEF DoneInv, doneVars
<1> QED BY <1>6, <1>7, <1>8, <1>9 DEF ENetInv

LEMMA DisconnectKeeps ==
    ASSUME ENetInv, NEW e \in End, DisconnectEvent(e)
    PROVE  ENetInv'
<1>1. ENetTypeOK /\ SlotInv /\ DoneInv /\ thr[Guest] # "callback"
    BY DEF ENetInv, RecvInv
<1>2. /\ thr[e] = "service" /\ slot[e].open
      /\ thr' = [thr EXCEPT ![e] = IF slot[e].data THEN "gone" ELSE "drain"]
      /\ slot' = [slot EXCEPT ![e] = Free]
      /\ m_pENetPeer' = [m_pENetPeer EXCEPT ![e] = @ /\ ~slot[e].data]
      /\ UNCHANGED <<tries, asked, dataVars, doneVars>>
    BY DEF DisconnectEvent, Goto
<1>3. /\ thr'[e] \in {"gone", "drain"} /\ slot'[e] = Free
      /\ thr'[Other(e)] = thr[Other(e)] /\ slot'[Other(e)] = slot[Other(e)]
      /\ m_pENetPeer'[Other(e)] = m_pENetPeer[Other(e)]
      /\ (m_pENetPeer'[e] <=> m_pENetPeer[e] /\ ~slot[e].data)
    BY <1>1, <1>2, Ends DEF ENetTypeOK
<1>4. ENetTypeOK'
    <2>1. thr' \in [End -> Station] /\ m_pENetPeer' \in [End -> BOOLEAN]
        BY <1>1, <1>2 DEF ENetTypeOK, Station
    <2>2. slot' \in [End -> Slot]
        BY <1>1, <1>2 DEF ENetTypeOK, Slot, Free
    <2> QED BY <1>1, <1>2, <2>1, <2>2 DEF ENetTypeOK, dataVars, doneVars
<1>5. SlotInv'
    <2>1. CASE e = Guest
        BY <1>1, <1>2, <1>3, <2>1, Ends DEF SlotInv, Free
    <2>2. CASE e = Host
        BY <1>1, <1>2, <1>3, <2>2, Ends DEF SlotInv, Free
    <2> QED BY <2>1, <2>2, Ends
<1>6. RecvInv' /\ \A f \in End : OrderInv(f)'
    <2>1. InHand' = InHand
        BY <1>2, <1>3, Ends DEF InHand
    <2>2. Broken(e) => Broken(e)'
        <3>1. Broken(e) => ~slot[e].data
            BY <1>1, <1>2, Ends DEF Broken, Linked, SlotInv
        <3> QED BY <1>3, <3>1 DEF Broken, Linked, Free
    <2>4. Broken(Other(e))' = Broken(Other(e))
        BY <1>3 DEF Broken, Linked
    <2>3. thr'[Guest] # "callback" /\ (thr'[Host] = "callback" => thr[Host] = "callback")
        BY <1>1, <1>3, Ends
    <2> QED BY <1>2, <2>1, <2>2, <2>3, <2>4, Ends, DataStays DEF doneVars
<1>7. DoneInv'
    BY <1>1, <1>2, <1>3, Ends DEF DoneInv, doneVars
<1> QED BY <1>4, <1>5, <1>6, <1>7 DEF ENetInv

-----------------------------------------------------------------------------
(* The thread, with a packet.                                              *)

(* The guest's thread only fills and empties its hand.                     *)
LEMMA GuestDropsKeeps ==
    ASSUME ENetInv, ReceiveEvent(Guest) \/ Dispatch(Guest)
    PROVE  ENetInv'
<1>1. ENetTypeOK /\ SlotInv /\ DoneInv /\ thr[Guest] # "callback"
    BY DEF ENetInv, RecvInv
<1>2. /\ UNCHANGED <<tries, m_pENetPeer, enetVars, doneVars, m_SendList, stream, pushed>>
      /\ given' = given
      /\ thr'[Guest] \in {"receive", "drain"} /\ thr'[Host] = thr[Host]
      /\ thr' \in [End -> Station]
      /\ event' \in [End -> Seq(Packet)] /\ event'[Host] = event[Host]
      /\ reached' \in [End -> Nat] /\ reached'[Host] = reached[Host]
    <2>1. CASE ReceiveEvent(Guest)
        <3>1. thr' = [thr EXCEPT ![Guest] = "receive"]
            BY <2>1 DEF ReceiveEvent, Goto
        <3>2. UNCHANGED <<tries, m_pENetPeer, enetVars, doneVars, m_SendList, stream, pushed, given>>
            BY <2>1 DEF ReceiveEvent
        <3>3. PICK p \in Packet : event' = [event EXCEPT ![Guest] = << p >>]
            <4>1. stream[Host] \in Seq(Packet) /\ reached[Guest] \in Nat
                BY <1>1, Ends, Shapes
            <4>2. reached[Guest] < Len(stream[Host]) => stream[Host][reached[Guest] + 1] \in Packet
                BY <4>1, LenProperties, ElementOfSeq
            <4> QED BY <2>1, <4>2, Ends DEF ReceiveEvent
        <3>4. reached' = [reached EXCEPT ![Guest] = @ + 1] \/ reached' = reached
            BY <2>1 DEF ReceiveEvent
        <3>5. event' \in [End -> Seq(Packet)] /\ event'[Host] = event[Host]
            BY <1>1, <3>3, Ends DEF ENetTypeOK
        <3>6. reached' \in [End -> Nat] /\ reached'[Host] = reached[Host]
            <4>1. reached \in [End -> Nat]
                BY <1>1 DEF ENetTypeOK
            <4>2. CASE reached' = [reached EXCEPT ![Guest] = @ + 1]
                BY <4>1, <4>2, Ends
            <4> QED BY <3>4, <4>1, <4>2
        <3>7. thr' \in [End -> Station] /\ thr'[Guest] = "receive" /\ thr'[Host] = thr[Host]
            BY <1>1, <3>1, Ends DEF ENetTypeOK, Station
        <3> QED BY <3>2, <3>5, <3>6, <3>7
    <2>2. CASE Dispatch(Guest)
        <3>1. ~FromPeer(Guest)
            BY <1>1 DEF FromPeer, SlotInv
        <3>2. /\ thr' = [thr EXCEPT ![Guest] = "drain"] /\ given' = given
              /\ UNCHANGED <<tries, m_pENetPeer, enetVars, doneVars, m_SendList, stream, reached, pushed>>
            BY <2>2, <3>1 DEF Dispatch, Goto
        <3>3. event' = [event EXCEPT ![Guest] = IF thr'[Guest] = "callback" THEN @ ELSE << >>]
            BY <2>2 DEF Dispatch
        <3>4. thr' \in [End -> Station] /\ thr'[Guest] = "drain" /\ thr'[Host] = thr[Host]
            BY <1>1, <3>2, Ends DEF ENetTypeOK, Station
        <3>5. event' \in [End -> Seq(Packet)] /\ event'[Host] = event[Host]
            BY <1>1, <3>3, Ends, EmptySeq DEF ENetTypeOK
        <3> QED BY <1>1, <3>2, <3>4, <3>5 DEF ENetTypeOK
    <2> QED BY <2>1, <2>2
<1>3. ENetTypeOK'
    BY <1>1, <1>2 DEF ENetTypeOK, enetVars, doneVars
<1>4. SlotInv'
    BY <1>1, <1>2 DEF SlotInv, enetVars
<1>5. ASSUME NEW e \in End PROVE OrderInv(e)'
    BY <1>2 DEF ENetInv, OrderInv, IsStart, Broken, Linked, enetVars
<1>6. RecvInv'
    BY <1>2, Ends DEF ENetInv, RecvInv, IsStart, InHand, enetVars, doneVars
<1>7. DoneInv'
    BY <1>1, <1>2 DEF DoneInv, doneVars
<1> QED BY <1>3, <1>4, <1>5, <1>6, <1>7 DEF ENetInv

LEMMA HostReceivesKeeps ==
    ASSUME ENetInv, ReceiveEvent(Host)
    PROVE  ENetInv'
<1>1. ENetTypeOK /\ SlotInv /\ DoneInv /\ RecvInv /\ thr[Guest] # "callback"
    BY DEF ENetInv, RecvInv
<1>2. /\ thr[Host] = "service" /\ slot[Host].open
      /\ thr' = [thr EXCEPT ![Host] = "receive"]
      /\ UNCHANGED <<tries, m_pENetPeer, enetVars, doneVars, m_SendList, stream, pushed, given>>
    BY DEF ReceiveEvent, Goto
<1>3. thr'[Host] = "receive" /\ thr'[Guest] = thr[Guest] /\ thr' \in [End -> Station]
    BY <1>1, <1>2, Ends DEF ENetTypeOK, Station
<1>4. stream[Guest] \in Seq(Packet) /\ reached[Host] \in Nat /\ Len(stream[Guest]) \in Nat
      /\ Len(given[Host]) \in Nat
    BY <1>1, Ends, Shapes
<1>5. /\ event' \in [End -> Seq(Packet)] /\ reached' \in [End -> Nat]
      /\ \/ /\ slot[Host].data
            /\ reached[Host] < Len(stream[Guest]) /\ reached'[Host] = reached[Host] + 1
            /\ event'[Host] = << stream[Guest][reached[Host] + 1] >>
         \/ ~slot[Host].data /\ reached' = reached
    <2>1. CASE slot[Host].conn \in Attempt
        <3>1. /\ reached[Host] < Len(stream[Guest])
              /\ event' = [event EXCEPT ![Host] = << stream[Guest][reached[Host] + 1] >>]
              /\ reached' = [reached EXCEPT ![Host] = @ + 1]
            BY <2>1, Ends DEF ReceiveEvent
        <3>2. stream[Guest][reached[Host] + 1] \in Packet
            BY <1>4, <3>1, ElementOfSeq
        <3>3. slot[Host].data
            BY <1>1, <1>2, <2>1, Ends DEF SlotInv
        <3>4. event' \in [End -> Seq(Packet)] /\ event'[Host] = << stream[Guest][reached[Host] + 1] >>
            BY <1>1, <3>1, <3>2, Ends DEF ENetTypeOK
        <3>5. reached' \in [End -> Nat] /\ reached'[Host] = reached[Host] + 1
            BY <1>1, <3>1, Ends DEF ENetTypeOK
        <3> QED BY <3>1, <3>3, <3>4, <3>5
    <2>2. CASE slot[Host].conn \notin Attempt
        <3>1. slot[Host].conn = Stray /\ reached' = reached
            BY <2>2 DEF ReceiveEvent
        <3>2. PICK p \in Packet : event' = [event EXCEPT ![Host] = << p >>]
            BY <2>2 DEF ReceiveEvent
        <3>3. event' \in [End -> Seq(Packet)]
            BY <1>1, <3>2, Ends DEF ENetTypeOK
        <3>4. ~slot[Host].data
            BY <1>1, <3>1 DEF SlotInv
        <3> QED BY <1>1, <3>1, <3>3, <3>4 DEF ENetTypeOK
    <2> QED BY <2>1, <2>2
<1>6. ENetTypeOK'
    BY <1>1, <1>2, <1>3, <1>5 DEF ENetTypeOK, enetVars, doneVars
<1>7. SlotInv'
    BY <1>1, <1>2, <1>3 DEF SlotInv, enetVars
<1>8. ASSUME NEW e \in End PROVE OrderInv(e)'
    BY <1>2 DEF ENetInv, OrderInv, IsStart, Broken, Linked, enetVars
<1>9. RecvInv'
    <2>1. ~InHand /\ (InHand' <=> slot[Host].data)
        BY <1>2, <1>3 DEF InHand, enetVars
    <2>2. UNCHANGED <<given, stream, m_pfnRecvFunc>>
        BY <1>2 DEF doneVars
    <2>3. CASE slot[Host].data
        BY <1>1, <1>3, <1>4, <1>5, <2>1, <2>2, <2>3 DEF RecvInv, IsStart
    <2>4. CASE ~slot[Host].data
        BY <1>1, <1>3, <1>5, <2>1, <2>2, <2>4 DEF RecvInv, IsStart
    <2> QED BY <2>3, <2>4
<1>10. DoneInv'
    BY <1>1, <1>2, <1>3 DEF DoneInv, doneVars
<1> QED BY <1>6, <1>7, <1>8, <1>9, <1>10 DEF ENetInv

LEMMA HostDispatchKeeps ==
    ASSUME ENetInv, Dispatch(Host)
    PROVE  ENetInv'
<1> DEFINE calls == slot[Host].data /\ m_pfnRecvFunc[Host]
<1>1. ENetTypeOK /\ SlotInv /\ DoneInv /\ RecvInv /\ thr[Guest] # "callback"
    BY DEF ENetInv, RecvInv
<1>2. /\ thr[Host] = "receive"
      /\ UNCHANGED <<tries, m_pENetPeer, enetVars, doneVars, m_SendList, stream, reached, pushed>>
      /\ event' = [event EXCEPT ![Host] = IF thr'[Host] = "callback" THEN @ ELSE << >>]
      /\ IF calls
         THEN thr' = [thr EXCEPT ![Host] = "callback"]
              /\ given' = [given EXCEPT ![Host] = @ \o event[Host]]
         ELSE thr' = [thr EXCEPT ![Host] = "drain"] /\ given' = given
    BY DEF Dispatch, FromPeer, Goto
<1>3. /\ thr'[Guest] = thr[Guest] /\ thr' \in [End -> Station]
      /\ thr'[Host] = IF calls THEN "callback" ELSE "drain"
    BY <1>1, <1>2, Ends DEF ENetTypeOK, Station
<1>4. event' \in [End -> Seq(Packet)] /\ (calls => event' = event)
    <2>1. event[Host] \in Seq(Packet) /\ event \in [End -> Seq(Packet)]
        BY <1>1, Ends DEF ENetTypeOK
    <2>2. CASE calls
        BY <1>2, <1>3, <2>1, <2>2
    <2>3. CASE ~calls
        BY <1>2, <1>3, <2>1, <2>3, EmptySeq
    <2> QED BY <2>2, <2>3
<1>5. /\ stream[Guest] \in Seq(Packet) /\ Len(stream[Guest]) \in Nat /\ reached[Host] \in Nat
      /\ given[Host] \in Seq(Packet) /\ Len(given[Host]) \in Nat
    BY <1>1, Ends, Shapes
<1>6. SlotInv'
    BY <1>1, <1>2, <1>3 DEF SlotInv, enetVars
<1>7. ASSUME NEW e \in End PROVE OrderInv(e)'
    BY <1>2 DEF ENetInv, OrderInv, IsStart, Broken, Linked, enetVars
<1>8. CASE calls
    <2> DEFINE p == stream[Guest][reached[Host]]
               g == given[Host] \o << p >>
    <2>1. /\ event[Host] = << p >> /\ reached[Host] = Len(given[Host]) + 1
          /\ reached[Host] <= Len(stream[Guest])
        BY <1>1, <1>2, <1>8 DEF RecvInv, InHand
    <2>2. p \in Packet
        BY <1>5, <2>1, ElementOfSeq
    <2>3. /\ g \in Seq(Packet) /\ Len(g) = reached[Host]
          /\ \A n \in 1 .. Len(g) : g[n] = IF n <= Len(given[Host]) THEN given[Host][n] ELSE p
        <3>1. << p >> \in Seq(Packet) /\ Len(<< p >>) = 1 /\ << p >>[1] = p
            BY <2>2
        <3>2. g \in Seq(Packet) /\ Len(g) = Len(given[Host]) + 1
            BY <1>5, <3>1, ConcatProperties
        <3>3. ASSUME NEW n \in 1 .. Len(given[Host]) + 1
              PROVE  g[n] = IF n <= Len(given[Host]) THEN given[Host][n] ELSE << p >>[n - Len(given[Host])]
            BY <1>5, <3>1, ConcatProperties
        <3> QED BY <1>5, <2>1, <3>1, <3>2, <3>3
    <2> HIDE DEF g
    <2>4. given' = [given EXCEPT ![Host] = g]
        BY <1>2, <1>8, <2>1 DEF g
    <2>5. given'[Host] = g /\ given'[Guest] = given[Guest] /\ given' \in [End -> Seq(Packet)]
        BY <1>1, <2>3, <2>4, Ends DEF ENetTypeOK
    <2>6. ENetTypeOK'
        BY <1>1, <1>2, <1>3, <1>4, <2>5 DEF ENetTypeOK, enetVars, doneVars
    <2>7. RecvInv'
        <3>1. IsStart(g, stream[Guest])
            <4>1. ASSUME NEW n \in 1 .. Len(g) PROVE g[n] = stream[Guest][n]
                <5>1. CASE n <= Len(given[Host])
                    BY <1>1, <1>5, <2>3, <5>1 DEF RecvInv, IsStart
                <5>2. CASE ~(n <= Len(given[Host]))
                    BY <1>5, <2>1, <2>3, <5>2
                <5> QED BY <5>1, <5>2
            <4> QED BY <2>1, <2>3, <4>1 DEF IsStart
        <3>2. ~InHand' /\ event' = event /\ UNCHANGED <<stream, reached, m_pfnRecvFunc>>
            BY <1>2, <1>3, <1>4, <1>8 DEF InHand, doneVars
        <3>3. Len(event[Host]) = 1
            BY <2>1
        <3>4. IsStart(given[Host], stream[Guest])'
            BY <2>5, <3>1, <3>2 DEF IsStart
        <3>5. Len(given'[Host]) = reached'[Host] /\ reached'[Host] <= Len(stream'[Guest])
            BY <2>1, <2>3, <2>5, <3>2
        <3>6. Len(event'[Host]) = 1 /\ given'[Guest] = << >> /\ thr'[Guest] # "callback"
            BY <1>1, <1>3, <2>5, <3>2, <3>3 DEF RecvInv
        <3> QED BY <1>5, <3>2, <3>4, <3>5, <3>6 DEF RecvInv
    <2>8. DoneInv'
        BY <1>1, <1>2, <1>8 DEF DoneInv, doneVars
    <2> QED BY <1>6, <1>7, <2>6, <2>7, <2>8 DEF ENetInv
<1>9. CASE ~calls
    <2>1. thr'[Host] = "drain" /\ given' = given
        BY <1>2, <1>3, <1>9
    <2>2. ENetTypeOK'
        BY <1>1, <1>2, <1>3, <1>4, <2>1 DEF ENetTypeOK, enetVars, doneVars
    <2>3. RecvInv'
        <3>1. ~InHand' /\ UNCHANGED <<stream, reached, m_pfnRecvFunc>>
            BY <1>2, <2>1 DEF InHand, doneVars
        <3>2. m_pfnRecvFunc[Host] => ~InHand
            BY <1>9 DEF InHand
        <3> QED BY <1>1, <1>3, <1>5, <2>1, <3>1, <3>2 DEF RecvInv, IsStart
    <2>4. DoneInv'
        BY <1>1, <1>2, <2>1 DEF DoneInv, doneVars
    <2> QED BY <1>6, <1>7, <2>2, <2>3, <2>4 DEF ENetInv
<1> QED BY <1>8, <1>9

(* A stream that grows at its end leaves what was received of it.          *)
LEMMA DrainKeeps ==
    ASSUME ENetInv, NEW e \in End, Drain(e)
    PROVE  ENetInv'
<1> DEFINE grown == stream[e] \o m_SendList[e]
<1>1. ENetTypeOK /\ SlotInv /\ DoneInv /\ RecvInv /\ OrderInv(e) /\ thr[Guest] # "callback"
    BY DEF ENetInv, RecvInv
<1>2. /\ thr[e] = "drain" /\ thr' = [thr EXCEPT ![e] = "check"]
      /\ UNCHANGED <<tries, m_pENetPeer, enetVars, doneVars, reached, pushed, given, event>>
    BY DEF Drain, Goto
<1>3. thr'[e] = "check" /\ thr'[Other(e)] = thr[Other(e)] /\ thr' \in [End -> Station]
    BY <1>1, <1>2, Ends DEF ENetTypeOK, Station
<1>4. /\ stream[e] \in Seq(Packet) /\ m_SendList[e] \in Seq(Packet) /\ pushed[e] \in Seq(Packet)
      /\ Len(stream[e]) \in Nat /\ Len(m_SendList[e]) \in Nat
      /\ grown \in Seq(Packet) /\ Len(grown) \in Nat /\ Len(grown) = Len(stream[e]) + Len(m_SendList[e])
    BY <1>1, Shapes, ConcatProperties, LenProperties
<1>5. SlotInv'
    BY <1>1, <1>2, <1>3, Ends DEF SlotInv, enetVars
<1>6. DoneInv'
    BY <1>1, <1>2, <1>3, Ends DEF DoneInv, doneVars
<1>7. /\ stream' \in [End -> Seq(Packet)] /\ m_SendList' \in [End -> Seq(Packet)]
      /\ stream'[Other(e)] = stream[Other(e)] /\ m_SendList'[Other(e)] = m_SendList[Other(e)]
      /\ \/ m_pENetPeer[e] /\ Linked(e) /\ stream'[e] = grown /\ m_SendList'[e] = << >>
         \/ Broken(e) /\ stream'[e] = stream[e]
         \/ stream'[e] = stream[e] /\ m_SendList'[e] = m_SendList[e]
    <2>1. /\ stream \in [End -> Seq(Packet)] /\ m_SendList \in [End -> Seq(Packet)]
          /\ << >> \in Seq(Packet)
        BY <1>1, EmptySeq DEF ENetTypeOK
    <2>2. CASE m_pENetPeer[e] /\ Linked(e)
        <3>1. stream' = [stream EXCEPT ![e] = grown] /\ m_SendList' = [m_SendList EXCEPT ![e] = << >>]
            BY <2>2 DEF Drain, Linked
        <3> HIDE DEF grown
        <3> QED BY <1>4, <2>1, <2>2, <3>1, Ends
    <2>3. CASE m_pENetPeer[e] /\ ~Linked(e)
        <3>1. stream' = stream /\ m_SendList' = [m_SendList EXCEPT ![e] = << >>]
            BY <2>3 DEF Drain, Linked
        <3> QED BY <2>1, <2>3, <3>1, Ends DEF Broken, Linked
    <2>4. CASE ~m_pENetPeer[e]
        BY <2>1, <2>4 DEF Drain
    <2> QED BY <2>2, <2>3, <2>4
<1>8. ENetTypeOK'
    BY <1>1, <1>2, <1>3, <1>7 DEF ENetTypeOK, enetVars, doneVars
<1>9. OrderInv(e)'
    <2>1. CASE m_pENetPeer[e] /\ Linked(e) /\ stream'[e] = grown /\ m_SendList'[e] = << >>
        <3>1. pushed[e] = grown
            BY <1>1, <2>1 DEF OrderInv, Broken, Linked
        <3>2. pushed'[e] = stream'[e] \o m_SendList'[e]
            BY <1>2, <1>4, <2>1, <3>1, ConcatEmptySeq
        <3>3. IsStart(stream'[e], pushed'[e])
            BY <1>2, <1>4, <2>1, <3>1 DEF IsStart
        <3> QED BY <3>2, <3>3 DEF OrderInv, IsStart
    <2>2. CASE Broken(e) /\ stream'[e] = stream[e]
        BY <1>1, <1>2, <2>2 DEF OrderInv, IsStart, Broken, Linked, enetVars
    <2>3. CASE stream'[e] = stream[e] /\ m_SendList'[e] = m_SendList[e]
        BY <1>1, <1>2, <2>3 DEF OrderInv, IsStart, Broken, Linked, enetVars
    <2> QED BY <1>7, <2>1, <2>2, <2>3
<1>10. OrderInv(Other(e))'
    <2>1. Other(e) \in End
        BY Ends
    <2>2. OrderInv(Other(e))
        BY <2>1 DEF ENetInv
    <2>3. UNCHANGED <<pushed, m_pENetPeer, slot>>
        BY <1>2 DEF enetVars
    <2> QED BY <1>7, <2>2, <2>3 DEF OrderInv, IsStart, Broken, Linked
<1>11. RecvInv'
    <2>1. IsStart(stream[Guest], stream'[Guest])
        <3>1. CASE e = Guest
            <4>1. IsStart(stream[e], grown)
                <5>1. /\ Len(stream[e]) <= Len(grown)
                      /\ \A n \in 1 .. Len(stream[e]) : grown[n] = stream[e][n]
                    BY <1>4, LeftFirst
                <5> QED BY <5>1 DEF IsStart
            <4>2. IsStart(stream[e], stream[e])
                BY <1>4 DEF IsStart
            <4>3. IsStart(stream[e], stream'[e])
                BY <1>7, <4>1, <4>2
            <4> QED BY <3>1, <4>3
        <3>2. CASE e = Host
            <4>1. stream'[Guest] = stream[Guest] /\ Len(stream[Guest]) \in Nat
                BY <1>1, <1>7, <3>2, Ends, Shapes
            <4> QED BY <4>1 DEF IsStart
        <3> QED BY <3>1, <3>2, Ends
    <2>2. /\ Len(stream[Guest]) \in Nat /\ Len(stream'[Guest]) \in Nat
          /\ reached[Host] \in Nat /\ Len(given[Host]) \in Nat
        BY <1>1, <1>8, Ends, Shapes, LenProperties DEF ENetTypeOK
    <2>3. InHand' = InHand
        BY <1>2, <1>3, Ends DEF InHand, enetVars
    <2>4. IsStart(given[Host], stream[Guest])'
        BY <1>1, <1>2, <2>1, <2>2 DEF RecvInv, IsStart
    <2>5. reached'[Host] <= Len(stream'[Guest])
        BY <1>1, <1>2, <2>1, <2>2 DEF RecvInv, IsStart
    <2>6. InHand' => reached'[Host] > 0 /\ event'[Host] = << stream'[Guest][reached'[Host]] >>
        BY <1>1, <1>2, <2>1, <2>2, <2>3 DEF RecvInv, IsStart
    <2>7. thr'[Guest] # "callback" /\ (thr'[Host] = "callback" => thr[Host] = "callback")
        BY <1>1, <1>3, Ends
    <2> QED BY <1>1, <1>2, <2>3, <2>4, <2>5, <2>6, <2>7 DEF RecvInv, doneVars
<1>12. \A f \in End : OrderInv(f)'
    BY <1>9, <1>10, Ends
<1> QED BY <1>5, <1>6, <1>8, <1>11, <1>12 DEF ENetInv

-----------------------------------------------------------------------------
(* CP2PClient.                                                             *)

LEMMA PacketBehind ==
    ASSUME NEW left \in Seq(Packet), NEW list \in Seq(Packet), NEW p \in Packet
    PROVE  /\ Append(list, p) \in Seq(Packet)
           /\ Append(left \o list, p) = left \o Append(list, p)
<1>1. Append(list, p) \in Seq(Packet) /\ left \o list \in Seq(Packet)
    BY AppendProperties, ConcatProperties
<1>2. << p >> \in Seq(Packet)
    OBVIOUS
<1>3. Append(left \o list, p) = (left \o list) \o << p >> /\ Append(list, p) = list \o << p >>
    BY <1>1, AppendIsConcat
<1>4. (left \o list) \o << p >> = left \o (list \o << p >>)
    BY <1>2, ConcatAssociative
<1> QED BY <1>1, <1>3, <1>4

LEMMA PushKeeps ==
    ASSUME ENetInv, NEW e \in End, NEW p \in Packet, Push(e, p), UNCHANGED <<stream, m_pENetPeer, slot>>
    PROVE  /\ pushed' \in [End -> Seq(Packet)] /\ m_SendList' \in [End -> Seq(Packet)]
           /\ \A f \in End : OrderInv(f)'
<1>1. /\ pushed' = [pushed EXCEPT ![e] = Append(@, p)]
      /\ m_SendList' = [m_SendList EXCEPT ![e] = Append(@, p)]
    BY DEF Push
<1>2. ENetTypeOK /\ OrderInv(e)
    BY DEF ENetInv
<1>3. /\ stream[e] \in Seq(Packet) /\ m_SendList[e] \in Seq(Packet) /\ pushed[e] \in Seq(Packet)
      /\ Len(stream[e]) \in Nat /\ Len(pushed[e]) \in Nat
    BY <1>2, Shapes
<1>4. /\ Append(pushed[e], p) \in Seq(Packet) /\ Append(m_SendList[e], p) \in Seq(Packet)
      /\ Append(stream[e] \o m_SendList[e], p) = stream[e] \o Append(m_SendList[e], p)
    <2>1. Append(pushed[e], p) \in Seq(Packet)
        BY <1>3, AppendProperties
    <2>2. /\ Append(m_SendList[e], p) \in Seq(Packet)
          /\ Append(stream[e] \o m_SendList[e], p) = stream[e] \o Append(m_SendList[e], p)
        BY <1>3, PacketBehind, Zenon
    <2> QED BY <2>1, <2>2
<1>5. /\ pushed' \in [End -> Seq(Packet)] /\ m_SendList' \in [End -> Seq(Packet)]
      /\ pushed'[e] = Append(pushed[e], p) /\ m_SendList'[e] = Append(m_SendList[e], p)
      /\ \A f \in End : f # e => pushed'[f] = pushed[f] /\ m_SendList'[f] = m_SendList[f]
    BY <1>1, <1>2, <1>4 DEF ENetTypeOK
<1>6. OrderInv(e)'
    <2>1. Broken(e)' = Broken(e)
        BY DEF Broken, Linked
    <2>2. Broken(e) \/ pushed'[e] = stream'[e] \o m_SendList'[e]
        BY <1>2, <1>4, <1>5 DEF OrderInv
    <2>3. IsStart(stream[e], Append(pushed[e], p))
        BY <1>2, <1>3, AppendProperties DEF OrderInv, IsStart
    <2>4. IsStart(stream[e], pushed[e])'
        BY <1>5, <2>3 DEF IsStart
    <2> QED BY <2>1, <2>2, <2>4 DEF OrderInv
<1>7. ASSUME NEW f \in End, f # e PROVE OrderInv(f)'
    BY <1>5, <1>7 DEF ENetInv, OrderInv, IsStart, Broken, Linked
<1> QED BY <1>5, <1>6, <1>7

LEMMA SendPacketKeeps ==
    ASSUME ENetInv, NEW e \in End, NEW p \in Packet, SendPacket(e, p)
    PROVE  ENetInv'
<1>1. ENetTypeOK /\ SlotInv /\ DoneInv /\ RecvInv
    BY DEF ENetInv
<1>2. Push(e, p) /\ UNCHANGED <<thr, tries, m_pENetPeer, enetVars, doneVars, stream, reached, given, event>>
    BY DEF SendPacket
<1>3. UNCHANGED <<m_pENetPeer, stream, slot>>
    BY <1>2 DEF enetVars
<1>4. ENetTypeOK' /\ \A f \in End : OrderInv(f)'
    BY <1>1, <1>2, <1>3, PushKeeps DEF ENetTypeOK, enetVars, doneVars
<1>5. SlotInv' /\ DoneInv'
    BY <1>1, <1>2 DEF SlotInv, DoneInv, enetVars, doneVars
<1>6. RecvInv'
    BY <1>1, <1>2 DEF RecvInv, IsStart, InHand, enetVars, doneVars
<1> QED BY <1>4, <1>5, <1>6 DEF ENetInv

LEMMA CallbackReturnsKeeps ==
    ASSUME ENetInv, NEW e \in End, CallbackReturns(e)
    PROVE  /\ ENetInv'
           /\ \/ \E p \in Packet : Push(e, p)
              \/ UNCHANGED <<m_SendList, pushed>>
           /\ given' = given
<1>1. ENetTypeOK /\ SlotInv /\ DoneInv /\ RecvInv
    BY DEF ENetInv
<1>2. /\ thr[e] = "callback" /\ thr' = [thr EXCEPT ![e] = "drain"]
      /\ event' = [event EXCEPT ![e] = << >>]
      /\ UNCHANGED <<tries, m_pENetPeer, enetVars, doneVars, stream, reached, given>>
    BY DEF CallbackReturns, Goto
<1>3. e = Host
    BY <1>1, <1>2, Ends DEF RecvInv
<1>4. event[e] \in Seq(Packet) /\ Len(event[e]) = 1 /\ event[e][1] \in Packet
    <2>1. event[e] \in Seq(Packet) /\ Len(event[e]) = 1
        BY <1>1, <1>2, <1>3, Shapes DEF RecvInv
    <2> QED BY <2>1, ElementOfSeq
<1>5. \/ \E p \in Packet : Push(e, p)
      \/ UNCHANGED <<m_SendList, pushed>>
    BY <1>4 DEF CallbackReturns
<1>6. UNCHANGED <<m_pENetPeer, stream, slot>>
    BY <1>2 DEF enetVars
<1>7. /\ pushed' \in [End -> Seq(Packet)] /\ m_SendList' \in [End -> Seq(Packet)]
      /\ \A f \in End : OrderInv(f)'
    <2>1. CASE \E p \in Packet : Push(e, p)
        BY <1>6, <2>1, PushKeeps
    <2>2. CASE UNCHANGED <<m_SendList, pushed>>
        BY <1>1, <1>6, <2>2 DEF ENetTypeOK, ENetInv, OrderInv, IsStart, Broken, Linked
    <2> QED BY <1>5, <2>1, <2>2
<1>8. thr'[Host] = "drain" /\ thr'[Guest] = thr[Guest] /\ thr' \in [End -> Station]
    BY <1>1, <1>2, <1>3, Ends DEF ENetTypeOK, Station
<1>9. ENetTypeOK'
    <2>1. event' \in [End -> Seq(Packet)]
        BY <1>1, <1>2, EmptySeq DEF ENetTypeOK
    <2> QED BY <1>1, <1>2, <1>7, <1>8, <2>1 DEF ENetTypeOK, enetVars, doneVars
<1>10. SlotInv' /\ DoneInv'
    BY <1>1, <1>2, <1>8 DEF SlotInv, DoneInv, enetVars, doneVars
<1>11. RecvInv'
    <2>1. ~InHand /\ ~InHand'
        BY <1>2, <1>3, <1>8 DEF InHand
    <2> QED BY <1>1, <1>2, <1>8, <2>1 DEF RecvInv, IsStart, doneVars
<1> QED BY <1>2, <1>5, <1>7, <1>9, <1>10, <1>11 DEF ENetInv

Closing == DoneLocks(Host) \/ DoneGoesOn(Host)

LEMMA ClosingKeeps ==
    ASSUME ENetInv, Closing
    PROVE  ENetInv'
<1>1. ENetTypeOK /\ SlotInv /\ DoneInv /\ RecvInv
    BY DEF ENetInv
<1>2. UNCHANGED <<thr, tries, m_pENetPeer, enetVars, dataVars>>
    BY DEF Closing, DoneLocks, DoneGoesOn, Unregister, SetStop
<1>3. ENetTypeOK' /\ (m_pfnRecvFunc'[Host] => m_pfnRecvFunc[Host])
    <2>1. /\ m_pfnRecvFunc' \in [End -> BOOLEAN] /\ m_hStopEvent' \in [End -> BOOLEAN]
          /\ doneCall' \in [End -> {"no", "locked", "unregistered", "returned"}]
          /\ m_pfnRecvFunc'[Host] => m_pfnRecvFunc[Host]
        BY <1>1, Ends DEF Closing, DoneLocks, DoneGoesOn, Unregister, SetStop, ENetTypeOK
    <2> QED BY <1>1, <1>2, <2>1 DEF ENetTypeOK, enetVars, dataVars
<1>4. SlotInv'
    BY <1>1, <1>2 DEF SlotInv, enetVars
<1>5. RecvInv' /\ \A f \in End : OrderInv(f)'
    <2>1. InHand' = InHand /\ \A f \in End : Broken(f)' = Broken(f)
        BY <1>2 DEF InHand, Broken, Linked, enetVars
    <2>2. thr'[Guest] # "callback"
        BY <1>1, <1>2 DEF RecvInv
    <2> QED BY <1>2, <1>3, <2>1, <2>2, DataStays
<1>6. DoneInv'
    <2>1. CASE DoneLocks(Host)
        BY <1>1, <2>1, Ends DEF DoneLocks, DoneInv, ENetTypeOK
    <2>2. CASE Unregister(Host)
        BY <1>1, <2>2, Ends DEF Unregister, FuncLocked, DoneInv, ENetTypeOK
    <2>3. CASE SetStop(Host)
        BY <1>1, <2>3, Ends DEF SetStop, DoneInv, ENetTypeOK
    <2> QED BY <2>1, <2>2, <2>3 DEF Closing, DoneGoesOn
<1> QED BY <1>3, <1>4, <1>5, <1>6 DEF ENetInv

-----------------------------------------------------------------------------
LEMMA UnchangedKeeps ==
    ASSUME ENetInv, UNCHANGED vars
    PROVE  ENetInv'
<1>1. ENetTypeOK' /\ SlotInv' /\ RecvInv' /\ DoneInv'
    BY DEF ENetInv, ENetTypeOK, SlotInv, RecvInv, IsStart, InHand, DoneInv,
           vars, enetVars, dataVars, doneVars
<1>2. ASSUME NEW e \in End PROVE OrderInv(e)'
    BY DEF ENetInv, OrderInv, IsStart, Broken, Linked, vars, enetVars, dataVars
<1> QED BY <1>1, <1>2 DEF ENetInv

(* The actions by what they do to the packets.                             *)
LEMMA Kinds ==
    ASSUME Next
    PROVE  \/ Dialling \/ Network \/ Closing
           \/ \E e \in End :
                \/ Moving(e) \/ ConnectEvent(e) \/ DisconnectEvent(e)
                \/ ReceiveEvent(e) \/ Dispatch(e) \/ Drain(e) \/ CallbackReturns(e)
                \/ \E p \in Packet : SendPacket(e, p)
BY DEF Next, Thread, Events, Dialling, Network, Closing, Moving

LEMMA ENetSteps ==
    ASSUME ENetInv, [Next]_vars
    PROVE  ENetInv'
<1>1. CASE UNCHANGED vars
    BY <1>1, UnchangedKeeps
<1>2. CASE Dialling \/ Network \/ Closing
    BY <1>2, DiallingKeeps, NetworkKeeps, ClosingKeeps
<1>3. ASSUME NEW e \in End,
             \/ Moving(e) \/ ConnectEvent(e) \/ DisconnectEvent(e)
             \/ ReceiveEvent(e) \/ Dispatch(e) \/ Drain(e) \/ CallbackReturns(e)
             \/ \E p \in Packet : SendPacket(e, p)
      PROVE  ENetInv'
    <2>1. CASE Moving(e) \/ ConnectEvent(e) \/ DisconnectEvent(e)
        BY <2>1, MovingKeeps, ConnectKeeps, DisconnectKeeps
    <2>2. CASE ReceiveEvent(e) \/ Dispatch(e)
        BY <2>2, Ends, GuestDropsKeeps, HostReceivesKeeps, HostDispatchKeeps
    <2>3. CASE Drain(e) \/ CallbackReturns(e)
        BY <2>3, DrainKeeps, CallbackReturnsKeeps
    <2>4. CASE \E p \in Packet : SendPacket(e, p)
        BY <2>4, SendPacketKeeps
    <2> QED BY <1>3, <2>1, <2>2, <2>3, <2>4
<1> QED BY <1>1, <1>2, <1>3, Kinds

LEMMA ENetInvariance == Spec => []ENetInv
<1>1. Init => ENetInv
    BY ENetInitial
<1>2. ENetInv /\ [Next]_vars => ENetInv'
    BY ENetSteps
<1> QED BY <1>1, <1>2, PTL DEF Spec

(* Once CENetClient::Done has taken the callback away, under the lock the  *)
(* callback runs in, it neither runs nor starts.                           *)
THEOREM SilentOnceDone == Spec => []SilentAfterDone
<1>1. ENetInv => SilentAfterDone
    BY DEF ENetInv, DoneInv, SilentAfterDone
<1> QED BY <1>1, ENetInvariance, PTL

-----------------------------------------------------------------------------
(* The queues the two ends implement: their steps are the pushes and a     *)
(* Dispatch at the host that calls back.                                   *)

Received == [e \in End |-> given[Other(e)]]

LEMMA DispatchReceives ==
    ASSUME ENetInv, Dispatch(Host), slot[Host].data, m_pfnRecvFunc[Host]
    PROVE  F!Receive(Guest)
<1> DEFINE p == stream[Guest][reached[Host]]
<1>1. ENetTypeOK /\ RecvInv /\ OrderInv(Guest)
    BY Ends DEF ENetInv
<1>2. /\ thr[Host] = "receive" /\ pushed' = pushed
      /\ given' = [given EXCEPT ![Host] = given[Host] \o event[Host]]
    BY DEF Dispatch, FromPeer, Goto
<1>3. /\ event[Host] = << p >> /\ reached[Host] = Len(given[Host]) + 1
      /\ reached[Host] <= Len(stream[Guest])
    BY <1>1, <1>2 DEF RecvInv, InHand
<1>4. /\ Len(stream[Guest]) \in Nat /\ Len(pushed[Guest]) \in Nat /\ reached[Host] \in Nat
      /\ given[Host] \in Seq(Packet) /\ Len(given[Host]) \in Nat
      /\ stream[Guest] \in Seq(Packet)
    BY <1>1, Ends, Shapes
<1>5. p = pushed[Guest][Len(given[Host]) + 1] /\ Len(given[Host]) < Len(pushed[Guest]) /\ p \in Packet
    <2>1. Len(stream[Guest]) <= Len(pushed[Guest])
          /\ \A n \in 1 .. Len(stream[Guest]) : stream[Guest][n] = pushed[Guest][n]
        BY <1>1 DEF OrderInv, IsStart
    <2>2. reached[Host] \in 1 .. Len(stream[Guest])
        BY <1>3, <1>4
    <2>3. p \in Packet
        BY <1>4, <2>2, ElementOfSeq
    <2> QED BY <1>3, <1>4, <2>1, <2>2, <2>3
<1>6. given'[Host] = Append(given[Host], p) /\ given'[Guest] = given[Guest]
    BY <1>1, <1>2, <1>3, <1>4, <1>5, Ends, AppendIsConcat DEF ENetTypeOK
<1>7. Received[Guest] = given[Host]
    BY Ends DEF Received
<1>8. Received' = [Received EXCEPT ![Guest] = Append(@, pushed[Guest][Len(@) + 1])]
    <2>1. \A e \in End : given'[Other(e)] = IF e = Guest THEN Append(given[Host], p) ELSE given[Other(e)]
        BY <1>6, Ends
    <2>2. Received' = [e \in End |-> given'[Other(e)]]
        BY DEF Received
    <2>3. Append(given[Host], p) = Append(Received[Guest], pushed[Guest][Len(Received[Guest]) + 1])
        BY <1>5, <1>7
    <2>4. \A e \in End : given[Other(e)] = Received[e]
        BY DEF Received
    <2>5. Received' = [e \in End |-> IF e = Guest
                                    THEN Append(Received[Guest], pushed[Guest][Len(Received[Guest]) + 1])
                                    ELSE Received[e]]
        BY <2>1, <2>2, <2>3, <2>4
    <2> QED BY <2>5 DEF Received
<1> QED BY <1>2, <1>5, <1>7, <1>8 DEF F!Receive, Received

LEMMA ENetRefines ==
    ASSUME ENetInv, [Next]_vars
    PROVE  [F!Next]_(F!vars)
<1> DEFINE Stutters == pushed' = pushed /\ given' = given
<1>1. Stutters => UNCHANGED F!vars
    BY DEF F!vars
<1>2. CASE UNCHANGED vars
    BY <1>1, <1>2 DEF vars, dataVars
<1>3. CASE Dialling \/ Network \/ Closing
    BY <1>1, <1>3 DEF Dialling, Dial, DialSucceeds, DialFails, Network, Answer, AnswerStray, Forget, PathLost,
                      Closing, DoneLocks, DoneGoesOn, Unregister, SetStop, dataVars
<1>4. ASSUME NEW e \in End, NEW p \in Packet, Push(e, p), given' = given
      PROVE  [F!Next]_(F!vars)
    <2>1. F!Send(e, p)
        BY <1>4 DEF Push, F!Send
    <2> QED BY <2>1 DEF F!Next
<1>5. ASSUME NEW e \in End,
             \/ Moving(e) \/ ConnectEvent(e) \/ DisconnectEvent(e)
             \/ ReceiveEvent(e) \/ Dispatch(e) \/ Drain(e) \/ CallbackReturns(e)
             \/ \E p \in Packet : SendPacket(e, p)
      PROVE  [F!Next]_(F!vars)
    <2>1. CASE Moving(e) \/ ConnectEvent(e) \/ DisconnectEvent(e) \/ ReceiveEvent(e) \/ Drain(e)
        BY <1>1, <2>1 DEF Moving, CheckStop, NoEvent, ServiceFails, ConnectEvent, DisconnectEvent,
                          ReceiveEvent, Drain, dataVars
    <2>2. CASE Dispatch(e) /\ slot[e].data /\ m_pfnRecvFunc[e]
        <3>1. e = Host
            BY <2>2, Ends DEF ENetInv, SlotInv
        <3> QED BY <2>2, <3>1, DispatchReceives, Ends DEF F!Next
    <2>3. CASE Dispatch(e) /\ ~(slot[e].data /\ m_pfnRecvFunc[e])
        BY <1>1, <2>3 DEF Dispatch, FromPeer
    <2>4. CASE CallbackReturns(e)
        BY <1>1, <1>4, <2>4, CallbackReturnsKeeps
    <2>5. ASSUME NEW p \in Packet, SendPacket(e, p)
          PROVE  [F!Next]_(F!vars)
        BY <1>4, <2>5 DEF SendPacket
    <2> QED BY <1>5, <2>1, <2>2, <2>3, <2>4, <2>5
<1> QED BY <1>2, <1>3, <1>5, Kinds

(* Whatever attempts are given up or answered late, whoever else connects  *)
(* to the host, whatever the network and Done do: what an end's callback   *)
(* is given is what the other end's program sent, from the first packet    *)
(* on, in order and none twice.                                            *)
THEOREM ENetIsFifo == Spec => ImplementsFifo
<1>1. Init => F!Init
    <2> SUFFICES ASSUME Init PROVE F!Init
        OBVIOUS
    <2>1. [e \in End |-> given[Other(e)]] = [e \in End |-> << >>]
        BY Ends DEF Init, Other, End
    <2> QED BY <2>1 DEF Init, F!Init
<1>2. ENetInv /\ [Next]_vars => [F!Next]_(F!vars)
    BY ENetRefines
<1> QED BY <1>1, <1>2, ENetInvariance, PTL DEF Spec, ImplementsFifo, F!Spec
=============================================================================
