-------------------------------- MODULE UDPBase --------------------------------
(***************************************************************************)
(* CUDPBase with the Windows socket wrappers of UDPCommon.cpp: one socket  *)
(* with its send thread, its receive thread and the calls Start, Stop and  *)
(* SendPacket that other threads make.  Any datagram may come, whatever    *)
(* its length, its type and its bytes: the peer's in any order, any number *)
(* of times and damaged, ENet's on the same socket, anybody's.             *)
(***************************************************************************)
EXTENDS Integers, Sequences

CONSTANTS
    DataLen,        \* bytes of data that the checksum covers, 247 in the code
    ByteCount,      \* values of a byte, 256 in the code
    Type, Length,   \* values of the two fields that the checksum leaves out
    Own,            \* our datagrams
    MaxPush,        \* bound: datagrams pushed
    MaxArrive       \* bound: datagrams that reach the socket

Byte == 0 .. ByteCount - 1
Data == [1 .. DataLen -> Byte]

UDPBASE_PACKET == [type : Type, length : Length, data : Data, checksum : Byte]

ASSUME DataOK == ByteCount \in Nat \ {0} /\ DataLen \in Nat
ASSUME BoundsOK == MaxPush \in Nat /\ MaxArrive \in Nat

VARIABLES
    m_SendList, m_hSendEvent, m_hStopEvent, m_pfnRecvFunc,
    sendThr, recvThr,
    Packet,     \* the datagram in RecvProcess
    stopCall,   \* how far the call of Stop has come
    arrived,    \* counts the datagrams that reached the socket
    pushed,     \* history: the arguments of SendPacket
    sent,       \* history: what was given to the network
    given,      \* history: the arguments of the receive callback
    refused     \* history: a callback returned FALSE

sendVars == <<m_SendList, m_hSendEvent, sendThr, pushed, sent>>
recvVars == <<recvThr, Packet, arrived, given, refused>>
vars == <<sendVars, recvVars, m_hStopEvent, m_pfnRecvFunc, stopCall>>

NoPacket == [size |-> "none"]

Init ==
    /\ m_SendList = << >> /\ m_hSendEvent = FALSE /\ m_hStopEvent = FALSE
    /\ m_pfnRecvFunc = TRUE
    /\ sendThr = "none" /\ recvThr = "none"
    /\ Packet = NoPacket
    /\ stopCall = "no"
    /\ arrived = 0
    /\ pushed = << >> /\ sent = << >> /\ given = {} /\ refused = FALSE

-----------------------------------------------------------------------------
(* The checksum, after each turn of the loop: a BYTE that wraps.           *)
CheckSums(data) ==
    LET checkS[i \in 0 .. DataLen] ==
          IF i = 0 THEN 0 ELSE (checkS[i - 1] + data[i]) % ByteCount
    IN  checkS

(* Mutant of Sum: the last byte is left out.                               *)
SumButLast(data) == CheckSums(data)[DataLen - 1]

Sum(data) == CheckSums(data)[DataLen]

CalcCheckSum(data) == Sum(data)

IsCheckSumVaild(p) == Sum(p.data) = p.checksum

-----------------------------------------------------------------------------
(* Start resets the stop event and creates the two threads.                *)
Start ==
    /\ sendThr = "none"
    /\ m_hStopEvent' = FALSE
    /\ sendThr' = "wait"
    /\ recvThr' = "recv"
    /\ UNCHANGED <<m_SendList, m_hSendEvent, pushed, sent,
                   Packet, arrived, given, refused, m_pfnRecvFunc, stopCall>>

(* Mutant of SendPacket: the datagram is pushed to the front of the list.  *)
SendPacketFirst(d) ==
    /\ Len(pushed) < MaxPush
    /\ m_SendList' = << d >> \o m_SendList
    /\ m_hSendEvent' = TRUE
    /\ pushed' = Append(pushed, d)
    /\ UNCHANGED <<sendThr, sent, recvVars, m_hStopEvent, m_pfnRecvFunc, stopCall>>

(* Any thread, under m_csSendLock; the list is there before the threads.   *)
SendPacket(d) ==
    /\ Len(pushed) < MaxPush
    /\ m_SendList' = Append(m_SendList, d)
    /\ m_hSendEvent' = TRUE
    /\ pushed' = Append(pushed, d)
    /\ UNCHANGED <<sendThr, sent, recvVars, m_hStopEvent, m_pfnRecvFunc, stopCall>>

(* The send event has the lower index and wins over the stop event.        *)
SendWakes ==
    /\ sendThr = "wait"
    /\ m_hSendEvent \/ m_hStopEvent
    /\ sendThr' = IF m_hSendEvent THEN "take" ELSE "gone"
    /\ UNCHANGED <<m_SendList, m_hSendEvent, pushed, sent,
                   recvVars, m_hStopEvent, m_pfnRecvFunc, stopCall>>

(* Mutant of SendTakes: every datagram taken resets the event.             *)
SendTakesAndResets ==
    /\ sendThr = "take"
    /\ m_SendList # << >>
    /\ m_SendList' = Tail(m_SendList)
    /\ m_hSendEvent' = FALSE
    /\ sent' = Append(sent, Head(m_SendList))
    /\ sendThr' = "wait"
    /\ UNCHANGED <<pushed, recvVars, m_hStopEvent, m_pfnRecvFunc, stopCall>>

(* Pop under m_csSendLock; a datagram is sent whole or, if the call fails  *)
(* or the stop event interrupts it, perhaps not: nobody looks.             *)
SendTakes ==
    /\ sendThr = "take"
    /\ m_SendList # << >>
    /\ m_SendList' = Tail(m_SendList)
    /\ sent' = Append(sent, Head(m_SendList))
    /\ sendThr' = "wait"
    /\ UNCHANGED <<m_hSendEvent, pushed, recvVars, m_hStopEvent, m_pfnRecvFunc, stopCall>>

SendResets ==
    /\ sendThr = "take"
    /\ m_SendList = << >>
    /\ m_hSendEvent' = FALSE
    /\ sendThr' = "wait"
    /\ UNCHANGED <<m_SendList, pushed, sent, recvVars, m_hStopEvent, m_pfnRecvFunc, stopCall>>

-----------------------------------------------------------------------------
(* What RecvProcess may find: a UDPBASE_PACKET of any content, whoever     *)
(* sent it, or a datagram of another size.  The sender's address is handed *)
(* on and not looked at.                                                   *)
Datagram ==
    [size : {"exact"}, BasePacket : UDPBASE_PACKET] \cup [size : {"short", "empty", "long"}]

(* UDPSocketRecvFrom fails on these: nothing read counts as a closed       *)
(* connection, and the call itself fails when the buffer is too small.     *)
Unreadable == Packet.size \in {"empty", "long"}

Readable == Packet.size \in {"exact", "short"}

RecvFrom ==
    /\ recvThr = "recv"
    /\ arrived < MaxArrive
    /\ \E p \in Datagram : Packet' = p
    /\ arrived' = arrived + 1
    /\ recvThr' = "check"
    /\ UNCHANGED <<given, refused, sendVars, m_hStopEvent, m_pfnRecvFunc, stopCall>>

(* The stop event, or a datagram that the wrapper fails on.                *)
RecvFails ==
    /\ \/ recvThr = "recv" /\ m_hStopEvent
       \/ recvThr = "check" /\ Unreadable
    /\ recvThr' = "gone"
    /\ UNCHANGED <<Packet, arrived, given, refused, sendVars, m_hStopEvent, m_pfnRecvFunc, stopCall>>

(* Mutant of Skip: a datagram that is not ours ends the thread.            *)
SkipAndEnd ==
    /\ recvThr = "check"
    /\ Readable
    /\ Packet.size = "exact" => ~IsCheckSumVaild(Packet.BasePacket)
    /\ recvThr' = "gone"
    /\ UNCHANGED <<Packet, arrived, given, refused, sendVars, m_hStopEvent, m_pfnRecvFunc, stopCall>>

(* Wrong length, wrong checksum: the next one.                             *)
Skip ==
    /\ recvThr = "check"
    /\ Readable
    /\ Packet.size = "exact" => ~IsCheckSumVaild(Packet.BasePacket)
    /\ recvThr' = "recv"
    /\ Packet' = NoPacket
    /\ UNCHANGED <<arrived, given, refused, sendVars, m_hStopEvent, m_pfnRecvFunc, stopCall>>

(* Under m_csRecvFunc: the callback, if there is one.                      *)
Dispatch ==
    /\ recvThr = "check"
    /\ Packet.size = "exact" /\ IsCheckSumVaild(Packet.BasePacket)
    /\ recvThr' = IF m_pfnRecvFunc THEN "callback" ELSE "recv"
    /\ given' = IF m_pfnRecvFunc THEN given \cup {Packet.BasePacket} ELSE given
    /\ Packet' = NoPacket
    /\ UNCHANGED <<arrived, refused, sendVars, m_hStopEvent, m_pfnRecvFunc, stopCall>>

(* What the callback returns is what RecvProcess returns.                  *)
CallbackReturns ==
    /\ recvThr = "callback"
    /\ \/ recvThr' = "recv" /\ UNCHANGED refused
       \/ recvThr' = "gone" /\ refused' = TRUE
    /\ UNCHANGED <<Packet, arrived, given, sendVars, m_hStopEvent, m_pfnRecvFunc, stopCall>>

-----------------------------------------------------------------------------
(* Mutant of FuncLocked: the callback runs outside m_csRecvFunc.           *)
NeverLocked == FALSE

(* m_csRecvFunc is held during the callback.                               *)
FuncLocked == recvThr = "callback"

(* Stop, on another thread: first the callback is taken away, then the     *)
(* stop event is set.                                                      *)
Unregister ==
    /\ stopCall = "no"
    /\ sendThr # "none"
    /\ ~FuncLocked
    /\ m_pfnRecvFunc' = FALSE
    /\ stopCall' = "unregistered"
    /\ UNCHANGED <<sendVars, recvVars, m_hStopEvent>>

(* Mutant of SetStop: Stop only takes the callback away.                   *)
SetNothing ==
    /\ stopCall = "unregistered"
    /\ stopCall' = "returned"
    /\ UNCHANGED <<sendVars, recvVars, m_hStopEvent, m_pfnRecvFunc>>

SetStop ==
    /\ stopCall = "unregistered"
    /\ m_hStopEvent' = TRUE
    /\ stopCall' = "returned"
    /\ UNCHANGED <<sendVars, recvVars, m_pfnRecvFunc>>

SendThread == SendWakes \/ SendTakes \/ SendResets

RecvThread == RecvFails \/ Skip \/ Dispatch \/ CallbackReturns

Next ==
    \/ Start
    \/ \E d \in Own : SendPacket(d)
    \/ SendThread
    \/ RecvFrom \/ RecvThread
    \/ Unregister \/ SetStop

(* The threads run and callbacks return; the network owes nothing.         *)
Fairness == WF_vars(SendThread) /\ WF_vars(RecvThread) /\ WF_vars(SetStop)

Spec == Init /\ [][Next]_vars

FairSpec == Spec /\ Fairness

-----------------------------------------------------------------------------
(* Properties.                                                             *)

(* What a peer's SendPacket makes of a packet.                             *)
Sealed(type, length, data) ==
    [type |-> type, length |-> length, data |-> data, checksum |-> CalcCheckSum(data)]

(* p with one byte changed on its way, anywhere.                           *)
Damaged(p) ==
    {[p EXCEPT !.type = t] : t \in Type} \cup {[p EXCEPT !.length = l] : l \in Length}
      \cup {[p EXCEPT !.data[i] = b] : i \in 1 .. DataLen, b \in Byte}
      \cup {[p EXCEPT !.checksum = b] : b \in Byte}

(* Of a datagram that one changed byte damaged the callback never gets     *)
(* data that was not sent: a byte of the data, or the checksum, shows, and *)
(* the datagram is skipped (UDPBase.cpp:9-34, 241).  The rest it may get:  *)
(* the sum leaves out type and length, and neither two changed bytes nor a *)
(* stranger whose sum fits are told from the peer.                         *)
DamageShows ==
    \A p \in given : \A t \in Type, l \in Length, d \in Data :
      p \in Damaged(Sealed(t, l, d)) => p.data = d

(* A datagram that is too short or was damaged costs no more than itself:  *)
(* the receive thread ends for the stop event, because a callback said so, *)
(* or for a datagram that was empty or did not fit the buffer.             *)
SurvivesStrays == recvThr = "gone" => m_hStopEvent \/ refused \/ Unreadable

(* Once Stop has taken the callback away it neither runs nor starts, on a  *)
(* thread that was about to call it included (UDPBase.cpp:175, 183, 250).  *)
SilentAfterStop == stopCall # "no" => recvThr # "callback"

(* Datagrams leave in the order of their pushes, each once.                *)
LeavesInOrder == pushed = sent \o m_SendList

(* Every datagram pushed leaves, however push, pop and reset interleave,   *)
(* as long as the socket is started and not stopped.                       *)
Drained ==
    \A n \in 1 .. MaxPush :
      (Len(pushed) >= n /\ sendThr # "none") ~> (Len(sent) >= n \/ m_hStopEvent)

(* Stop ends both threads.                                                 *)
StopEnds == (stopCall = "unregistered") ~> (sendThr = "gone" /\ recvThr = "gone")
=============================================================================
