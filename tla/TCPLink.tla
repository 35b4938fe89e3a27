-------------------------------- MODULE TCPLink --------------------------------
(***************************************************************************)
(* One TCP connection between a CTCPClient and the CTCPServer at its other *)
(* end: TCPBase.cpp with the Windows socket wrappers of TCPCommon.cpp.     *)
(* Each end has a send thread fed by a list and an event, a receive thread *)
(* that cuts packets out of the byte stream, a stop event and two          *)
(* callbacks that another thread may take away.                            *)
(*                                                                         *)
(* The bytes of a direction are numbered from 1 and never copied: a stream *)
(* is the list of the packets put on it with the number of bytes before    *)
(* each, and the counters                                                  *)
(*     cut[o] <= read[o] <= wrote[e] <= taken[e]      (o the other end)    *)
(* say which bytes were cut into packets, lie in the stream buffer of the  *)
(* receiver, are on their way, or are still in the sender's hand.          *)
(***************************************************************************)
EXTENDS Integers, Sequences

CONSTANTS
    Client, Server,
    Packet,
    Length,         \* the Length field of a packet
    HeaderLen,      \* BASE_PACKET_HEADER_LEN
    BufferLen,      \* the 4096 bytes of RecvProcess's buffer
    WireCap,        \* bytes the two sockets' buffers hold
    MaxPush         \* bound: packets an end sends

End == {Client, Server}

ASSUME EndsDiffer == Client # Server
ASSUME LengthOK == Length \in [Packet -> Nat]
ASSUME HeaderFits == HeaderLen \in Nat \ {0} /\ \A p \in Packet : Length[p] >= HeaderLen
ASSUME BoundsOK == BufferLen \in Nat /\ WireCap \in Nat /\ MaxPush \in [End -> Nat]

Other(e) == IF e = Client THEN Server ELSE Client

VARIABLES
    m_SendList, m_hSendEvent, m_hStopEvent, sendThr,
    recvThr, m_pfnRecvFunc, m_pfnEndFunc,
    doneCall,       \* how far the call of Done has come
    isOpen,         \* m_hSock # INVALID_SOCKET
    linkUp,         \* FALSE once the network or a reset has cut the connection
    stream, taken, wrote, read, cut,
    pushed,         \* history: the arguments of SendPacket
    given,          \* history: the arguments of the receive callback
    ended           \* history: the end callback was called

sendVars == <<m_SendList, m_hSendEvent, sendThr, stream, taken, wrote, pushed>>
recvVars == <<recvThr, read, cut, given, ended>>
doneVars == <<m_pfnRecvFunc, m_pfnEndFunc, doneCall, isOpen>>
vars == <<sendVars, recvVars, doneVars, m_hStopEvent, linkUp>>

(* What the receive thread does: blocked in TCPSocketRead, cutting, about  *)
(* to take m_csFunc with a packet, in a callback under m_csFunc, ending.   *)
(* "lost" is a receive thread that took the middle of a packet for a       *)
(* header.                                                                 *)
RecvStation ==
    {"read", "cut", "dispatch", "callback", "ending", "endcallback", "stopping", "gone", "lost"}

(* "take" has been woken and not yet entered m_csSendLock.                 *)
SendStation == {"wait", "take", "write", "gone"}

Init ==
    /\ m_SendList = [e \in End |-> << >>]
    /\ m_hSendEvent = [e \in End |-> FALSE]
    /\ m_hStopEvent = [e \in End |-> FALSE]
    /\ sendThr = [e \in End |-> "wait"]
    /\ recvThr = [e \in End |-> "read"]
    /\ m_pfnRecvFunc = [e \in End |-> TRUE]
    /\ m_pfnEndFunc = [e \in End |-> TRUE]
    /\ doneCall = [e \in End |-> "no"]
    /\ isOpen = [e \in End |-> TRUE]
    /\ linkUp = TRUE
    /\ stream = [e \in End |-> << >>]
    /\ taken = [e \in End |-> 0]
    /\ wrote = [e \in End |-> 0]
    /\ read = [e \in End |-> 0]
    /\ cut = [e \in End |-> 0]
    /\ pushed = [e \in End |-> << >>]
    /\ given = [e \in End |-> << >>]
    /\ ended = [e \in End |-> FALSE]

-----------------------------------------------------------------------------
(* Sending.                                                                *)

(* Mutant of SendPacket: the packet is pushed to the front of the list.    *)
SendPacketFirst(e, p) ==
    /\ Len(pushed[e]) < MaxPush[e]
    /\ m_SendList' = [m_SendList EXCEPT ![e] = << p >> \o @]
    /\ m_hSendEvent' = [m_hSendEvent EXCEPT ![e] = TRUE]
    /\ pushed' = [pushed EXCEPT ![e] = Append(@, p)]
    /\ UNCHANGED <<sendThr, stream, taken, wrote, recvVars, doneVars, m_hStopEvent, linkUp>>

(* Any thread: push and SetEvent under m_csSendLock.                       *)
SendPacket(e, p) ==
    /\ Len(pushed[e]) < MaxPush[e]
    /\ m_SendList' = [m_SendList EXCEPT ![e] = Append(@, p)]
    /\ m_hSendEvent' = [m_hSendEvent EXCEPT ![e] = TRUE]
    /\ pushed' = [pushed EXCEPT ![e] = Append(@, p)]
    /\ UNCHANGED <<sendThr, stream, taken, wrote, recvVars, doneVars, m_hStopEvent, linkUp>>

(* WaitForMultipleObjects: the send event has the lower index and wins.    *)
SendWakes(e) ==
    /\ sendThr[e] = "wait"
    /\ m_hSendEvent[e] \/ m_hStopEvent[e]
    /\ sendThr' = [sendThr EXCEPT ![e] = IF m_hSendEvent[e] THEN "take" ELSE "gone"]
    /\ UNCHANGED <<m_SendList, m_hSendEvent, stream, taken, wrote, pushed,
                   recvVars, doneVars, m_hStopEvent, linkUp>>

(* Mutant of SendTakes: every packet taken resets the event.               *)
SendTakesAndResets(e) ==
    /\ sendThr[e] = "take"
    /\ m_SendList[e] # << >>
    /\ m_SendList' = [m_SendList EXCEPT ![e] = Tail(@)]
    /\ m_hSendEvent' = [m_hSendEvent EXCEPT ![e] = FALSE]
    /\ stream' = [stream EXCEPT ![e] = Append(@, [packet |-> Head(m_SendList[e]), start |-> taken[e]])]
    /\ taken' = [taken EXCEPT ![e] = @ + Length[Head(m_SendList[e])]]
    /\ sendThr' = [sendThr EXCEPT ![e] = "write"]
    /\ UNCHANGED <<wrote, pushed, recvVars, doneVars, m_hStopEvent, linkUp>>

(* Under m_csSendLock: the front packet, whose bytes follow on the stream. *)
SendTakes(e) ==
    /\ sendThr[e] = "take"
    /\ m_SendList[e] # << >>
    /\ m_SendList' = [m_SendList EXCEPT ![e] = Tail(@)]
    /\ stream' = [stream EXCEPT ![e] = Append(@, [packet |-> Head(m_SendList[e]), start |-> taken[e]])]
    /\ taken' = [taken EXCEPT ![e] = @ + Length[Head(m_SendList[e])]]
    /\ sendThr' = [sendThr EXCEPT ![e] = "write"]
    /\ UNCHANGED <<m_hSendEvent, wrote, pushed, recvVars, doneVars, m_hStopEvent, linkUp>>

(* Under the same lock: an empty list, and only it, resets the event.      *)
SendResets(e) ==
    /\ sendThr[e] = "take"
    /\ m_SendList[e] = << >>
    /\ m_hSendEvent' = [m_hSendEvent EXCEPT ![e] = FALSE]
    /\ sendThr' = [sendThr EXCEPT ![e] = "wait"]
    /\ UNCHANGED <<m_SendList, stream, taken, wrote, pushed, recvVars, doneVars, m_hStopEvent, linkUp>>

Room(e) == WireCap - (wrote[e] - read[Other(e)])

CanWrite(e) == linkUp /\ isOpen[e]

(* TCPSocketWrite returns TRUE with a part of what is left, or all of it.  *)
Write(e) ==
    /\ sendThr[e] = "write"
    /\ CanWrite(e)
    /\ \E n \in 1 .. taken[e] - wrote[e] :
         /\ n <= Room(e)
         /\ wrote' = [wrote EXCEPT ![e] = @ + n]
         /\ sendThr' = [sendThr EXCEPT ![e] = IF wrote[e] + n = taken[e] THEN "wait" ELSE "write"]
    /\ UNCHANGED <<m_SendList, m_hSendEvent, stream, taken, pushed,
                   recvVars, doneVars, m_hStopEvent, linkUp>>

(* It returns FALSE when the stop event interrupts it or the socket fails; *)
(* a pending write may yet have sent some bytes.  The rest of the packet   *)
(* is freed and the thread ends; the stop event stays as it is.            *)
WriteFails(e) ==
    /\ sendThr[e] = "write"
    /\ m_hStopEvent[e] \/ ~CanWrite(e)
    /\ \E n \in 0 .. taken[e] - wrote[e] :
         /\ n <= Room(e)
         /\ n = 0 \/ CanWrite(e)
         /\ wrote' = [wrote EXCEPT ![e] = @ + n]
    /\ sendThr' = [sendThr EXCEPT ![e] = "gone"]
    /\ UNCHANGED <<m_SendList, m_hSendEvent, stream, taken, pushed,
                   recvVars, doneVars, m_hStopEvent, linkUp>>

-----------------------------------------------------------------------------
(* Receiving.                                                              *)

(* TCPSocketRead and AddData: what is there, at most one buffer of it.     *)
Read(e) ==
    /\ recvThr[e] = "read"
    /\ linkUp /\ isOpen[e]
    /\ \E n \in 1 .. wrote[Other(e)] - read[e] :
         /\ n <= BufferLen
         /\ read' = [read EXCEPT ![e] = @ + n]
    /\ recvThr' = [recvThr EXCEPT ![e] = "cut"]
    /\ UNCHANGED <<cut, given, ended, sendVars, doneVars, m_hStopEvent, linkUp>>

(* Stopped, cut off, or the peer has closed its socket.                    *)
ReadFails(e) ==
    /\ recvThr[e] = "read"
    /\ m_hStopEvent[e] \/ ~linkUp \/ ~isOpen[e] \/ ~isOpen[Other(e)]
    /\ recvThr' = [recvThr EXCEPT ![e] = "ending"]
    /\ UNCHANGED <<read, cut, given, ended, sendVars, doneVars, m_hStopEvent, linkUp>>

(* The packet whose first byte is the next byte of the buffer.             *)
StartsAt(e, n) ==
    /\ n \in 1 .. Len(stream[Other(e)])
    /\ stream[Other(e)][n].start = cut[e]

(* Mutant of LengthOf: the length is taken to be that of the body.         *)
LengthOfBody(e, n) == Length[stream[Other(e)][n].packet] - HeaderLen

(* header.Length, the four bytes at the front of the buffer.               *)
LengthOf(e, n) == Length[stream[Other(e)][n].packet]

(* GetPacketFromBuffer gives a packet once all of it has arrived.          *)
Complete(e, n) ==
    /\ StartsAt(e, n)
    /\ read[e] - cut[e] >= HeaderLen
    /\ read[e] - cut[e] >= LengthOf(e, n)

Cut(e) ==
    /\ recvThr[e] = "cut"
    /\ \E n \in 1 .. Len(stream[Other(e)]) :
         /\ Complete(e, n)
         /\ cut' = [cut EXCEPT ![e] = @ + LengthOf(e, n)]
    /\ recvThr' = [recvThr EXCEPT ![e] = "dispatch"]
    /\ UNCHANGED <<read, given, ended, sendVars, doneVars, m_hStopEvent, linkUp>>

(* GetPacketFromBuffer gives NULL: fewer bytes than a header, or than the  *)
(* packet whose header stands at the front.  A header read where no packet *)
(* starts would have any length.                                           *)
CutNothing(e) ==
    /\ recvThr[e] = "cut"
    /\ \A n \in 1 .. Len(stream[Other(e)]) : ~Complete(e, n)
    /\ recvThr' = [recvThr EXCEPT ![e] =
         IF \/ read[e] - cut[e] < HeaderLen
            \/ \E n \in 1 .. Len(stream[Other(e)]) : StartsAt(e, n)
           THEN "read" ELSE "lost"]
    /\ UNCHANGED <<read, cut, given, ended, sendVars, doneVars, m_hStopEvent, linkUp>>

(* The packet that ends where the buffer now begins.                       *)
InHand(e, n) ==
    /\ n \in 1 .. Len(stream[Other(e)])
    /\ stream[Other(e)][n].start + LengthOf(e, n) = cut[e]

(* Under m_csFunc: call back, or free the packet if nobody is registered.  *)
Dispatch(e) ==
    /\ recvThr[e] = "dispatch"
    /\ \E n \in 1 .. Len(stream[Other(e)]) :
         /\ InHand(e, n)
         /\ given' = IF m_pfnRecvFunc[e]
                       THEN [given EXCEPT ![e] = Append(@, stream[Other(e)][n].packet)]
                       ELSE given
    /\ recvThr' = [recvThr EXCEPT ![e] = IF m_pfnRecvFunc[e] THEN "callback" ELSE "cut"]
    /\ UNCHANGED <<read, cut, ended, sendVars, doneVars, m_hStopEvent, linkUp>>

(* Mutant of CallbackReturns: one packet per read, the loop is forgotten.  *)
CallbackReturnsToRead(e) ==
    /\ recvThr[e] = "callback"
    /\ recvThr' = [recvThr EXCEPT ![e] = "read"]
    /\ UNCHANGED <<read, cut, given, ended, sendVars, doneVars, m_hStopEvent, linkUp>>

CallbackReturns(e) ==
    /\ recvThr[e] = "callback"
    /\ recvThr' = [recvThr EXCEPT ![e] = "cut"]
    /\ UNCHANGED <<read, cut, given, ended, sendVars, doneVars, m_hStopEvent, linkUp>>

(* RecvProc after its loop: the end callback under m_csFunc,               *)
ReportEnd(e) ==
    /\ recvThr[e] = "ending"
    /\ recvThr' = [recvThr EXCEPT ![e] = IF m_pfnEndFunc[e] THEN "endcallback" ELSE "stopping"]
    /\ ended' = [ended EXCEPT ![e] = m_pfnEndFunc[e]]
    /\ UNCHANGED <<read, cut, given, sendVars, doneVars, m_hStopEvent, linkUp>>

EndCallbackReturns(e) ==
    /\ recvThr[e] = "endcallback"
    /\ recvThr' = [recvThr EXCEPT ![e] = "stopping"]
    /\ UNCHANGED <<read, cut, given, ended, sendVars, doneVars, m_hStopEvent, linkUp>>

(* Mutant of RecvStops: the send thread is not told.                       *)
RecvStopsAlone(e) ==
    /\ recvThr[e] = "stopping"
    /\ recvThr' = [recvThr EXCEPT ![e] = "gone"]
    /\ UNCHANGED <<read, cut, given, ended, sendVars, doneVars, m_hStopEvent, linkUp>>

(* and the stop event for the send thread.                                 *)
RecvStops(e) ==
    /\ recvThr[e] = "stopping"
    /\ m_hStopEvent' = [m_hStopEvent EXCEPT ![e] = TRUE]
    /\ recvThr' = [recvThr EXCEPT ![e] = "gone"]
    /\ UNCHANGED <<read, cut, given, ended, sendVars, doneVars, linkUp>>

-----------------------------------------------------------------------------
(* Done, on a thread that is neither the send nor the receive thread.      *)

(* Mutant of FuncLocked: the callbacks run outside m_csFunc.               *)
NeverLocked(e) == e \notin End

(* m_csFunc is held during a callback.                                     *)
FuncLocked(e) == recvThr[e] \in {"callback", "endcallback"}

(* CTCPClient::Done takes the two callbacks away, one after the other;     *)
(* CTCPServer::Done leaves them.                                           *)
UnregisterRecv(e) ==
    /\ e = Client /\ doneCall[e] = "no"
    /\ ~FuncLocked(e)
    /\ m_pfnRecvFunc' = [m_pfnRecvFunc EXCEPT ![e] = FALSE]
    /\ doneCall' = [doneCall EXCEPT ![e] = "recv"]
    /\ UNCHANGED <<m_pfnEndFunc, isOpen, sendVars, recvVars, m_hStopEvent, linkUp>>

UnregisterEnd(e) ==
    /\ doneCall[e] = "recv"
    /\ ~FuncLocked(e)
    /\ m_pfnEndFunc' = [m_pfnEndFunc EXCEPT ![e] = FALSE]
    /\ doneCall' = [doneCall EXCEPT ![e] = "end"]
    /\ UNCHANGED <<m_pfnRecvFunc, isOpen, sendVars, recvVars, m_hStopEvent, linkUp>>

DoneBase(e) ==
    /\ doneCall[e] = IF e = Client THEN "end" ELSE "no"
    /\ m_hStopEvent' = [m_hStopEvent EXCEPT ![e] = TRUE]
    /\ doneCall' = [doneCall EXCEPT ![e] = "stop"]
    /\ UNCHANGED <<m_pfnRecvFunc, m_pfnEndFunc, isOpen, sendVars, recvVars, linkUp>>

CloseSocket(e) ==
    /\ doneCall[e] = "stop"
    /\ isOpen' = [isOpen EXCEPT ![e] = FALSE]
    /\ doneCall' = [doneCall EXCEPT ![e] = "returned"]
    /\ UNCHANGED <<m_pfnRecvFunc, m_pfnEndFunc, sendVars, recvVars, m_hStopEvent, linkUp>>

(* The network: a cut that both ends notice.  The code sets TCP_NODELAY    *)
(* and no keep-alive, so a silent one would leave a read waiting.          *)
LinkFails ==
    /\ linkUp
    /\ linkUp' = FALSE
    /\ UNCHANGED <<sendVars, recvVars, doneVars, m_hStopEvent>>

SendThread(e) == SendWakes(e) \/ SendTakes(e) \/ SendResets(e) \/ Write(e) \/ WriteFails(e)

RecvThread(e) ==
    \/ Read(e) \/ ReadFails(e)
    \/ Cut(e) \/ CutNothing(e)
    \/ Dispatch(e) \/ CallbackReturns(e)
    \/ ReportEnd(e) \/ EndCallbackReturns(e) \/ RecvStops(e)

Done(e) == UnregisterRecv(e) \/ UnregisterEnd(e) \/ DoneBase(e) \/ CloseSocket(e)

Next ==
    \/ LinkFails
    \/ \E e \in End :
         \/ \E p \in Packet : SendPacket(e, p)
         \/ SendThread(e)
         \/ RecvThread(e)
         \/ Done(e)

(* The threads run; callbacks return; a call of Done that began goes on;   *)
(* nobody has to send, to call Done or to cut the line.                    *)
Fairness ==
    \A e \in End :
      /\ WF_vars(SendThread(e))
      /\ WF_vars(RecvThread(e))
      /\ WF_vars(UnregisterEnd(e) \/ (e = Client /\ DoneBase(e)) \/ CloseSocket(e))

Spec == Init /\ [][Next]_vars

FairSpec == Spec /\ Fairness

-----------------------------------------------------------------------------
(* Properties.                                                             *)

(* A packet in the list has its event set, so that the send thread cannot  *)
(* sleep on it: the reset and the push cannot cross (TCPBase.cpp:188-222). *)
NoLostWakeup == \A e \in End : m_SendList[e] # << >> => m_hSendEvent[e]

(* However the stream is split on its way, the receive thread reads each   *)
(* header where a packet starts and cuts no packet before all of it has    *)
(* arrived (packetunit.h:13-43).                                           *)
InFrame ==
    \A e \in End :
      /\ recvThr[e] # "lost"
      /\ cut[e] <= read[e]
      /\ read[e] <= wrote[Other(e)]

(* Once CTCPClient::Done has taken the callbacks away neither runs, on a   *)
(* thread that was already on its way into one included: the client object *)
(* they work on may go (TCPClient.cpp:60-61).                              *)
SilentAfterDone ==
    doneCall[Client] \in {"end", "stop", "returned"}
      => recvThr[Client] \notin {"callback", "endcallback"}

F == INSTANCE Fifo WITH
       Channel <- End, sent <- pushed, received <- [e \in End |-> given[Other(e)]]

(* The link implements one queue per direction.                            *)
ImplementsFifo == F!Spec

Disturbed == ~linkUp \/ \E e \in End : doneCall[e] # "no"

(* On a link nobody disturbs every packet arrives: none waits for another  *)
(* one to be pushed behind it, in the list, on the wire or in the buffer.  *)
Delivered ==
    \A e \in End : \A n \in 1 .. MaxPush[e] :
      Len(pushed[e]) >= n ~> (Len(given[Other(e)]) >= n \/ Disturbed)

(* Once a connection is stopped at this end, closed by the other or cut,   *)
(* both threads of this end leave their loops, whatever they were blocked  *)
(* in, and the end is reported unless Done took the callback away: what    *)
(* CP2PServer::TCPEndProcess relies on to evict a client.                  *)
ThreadsEnd ==
    \A e \in End :
      (m_hStopEvent[e] \/ ~linkUp \/ ~isOpen[Other(e)])
         ~> /\ recvThr[e] = "gone"
            /\ sendThr[e] = "gone"
            /\ ended[e] \/ ~m_pfnEndFunc[e]
=============================================================================
