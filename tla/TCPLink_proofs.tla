----------------------------- MODULE TCPLink_proofs -----------------------------
(***************************************************************************)
(* The packet layer of one connection, for every packet set, lengths,      *)
(* buffer sizes and number of packets: no lost wake-up, no lost framing,   *)
(* no callback after Done, and the queue per direction that it implements. *)
(***************************************************************************)
EXTENDS TCPLink, SequenceTheorems, TLAPS

LinkTypeOK ==
    /\ m_SendList \in [End -> Seq(Packet)]
    /\ m_hSendEvent \in [End -> BOOLEAN]
    /\ m_hStopEvent \in [End -> BOOLEAN]
    /\ sendThr \in [End -> SendStation]
    /\ recvThr \in [End -> RecvStation]
    /\ m_pfnRecvFunc \in [End -> BOOLEAN]
    /\ m_pfnEndFunc \in [End -> BOOLEAN]
    /\ doneCall \in [End -> {"no", "recv", "end", "stop", "returned"}]
    /\ isOpen \in [End -> BOOLEAN]
    /\ stream \in [End -> Seq([packet : Packet, start : Nat])]
    /\ taken \in [End -> Nat]
    /\ wrote \in [End -> Nat]
    /\ read \in [End -> Nat]
    /\ cut \in [End -> Nat]
    /\ pushed \in [End -> Seq(Packet)]
    /\ given \in [End -> Seq(Packet)]
    /\ ended \in [End -> BOOLEAN]

(* The packets on a stream of t bytes follow each other without a gap: the *)
(* one after the last would start at t.                                    *)
StartIn(s, t, n) == IF n <= Len(s) THEN s[n].start ELSE t

Contiguous(s, t) ==
    /\ StartIn(s, t, 1) = 0
    /\ \A n \in 1 .. Len(s) : StartIn(s, t, n + 1) = s[n].start + Length[s[n].packet]
    /\ \A m, n \in 1 .. Len(s) + 1 : m < n => StartIn(s, t, m) < StartIn(s, t, n)

StartOf(e, n) == StartIn(stream[e], taken[e], n)

Gapless(e) == Contiguous(stream[e], taken[e])

(* What was pushed is what is on the stream and then what is in the list.  *)
Follows(list, all, k) ==
    /\ Len(all) = k + Len(list)
    /\ \A n \in 1 .. Len(list) : list[n] = all[k + n]

Ordered(e) ==
    /\ Follows(m_SendList[e], pushed[e], Len(stream[e]))
    /\ \A n \in 1 .. Len(stream[e]) : stream[e][n].packet = pushed[e][n]

SendInv(e) ==
    /\ wrote[e] <= taken[e]
    /\ sendThr[e] \in {"wait", "take"} => wrote[e] = taken[e]
    /\ m_SendList[e] # << >> => m_hSendEvent[e]

(* The receiver has cut the first k packets, and given all of them but the *)
(* one in hand to its callback as long as it has one.                      *)
HasCut(e, k) ==
    /\ cut[e] = StartOf(Other(e), k + 1)
    /\ Len(given[e]) <= k
    /\ recvThr[e] = "dispatch" => k > 0
    /\ m_pfnRecvFunc[e] => Len(given[e]) = IF recvThr[e] = "dispatch" THEN k - 1 ELSE k

RecvInv(e) ==
    /\ recvThr[e] # "lost"
    /\ cut[e] <= read[e]
    /\ read[e] <= wrote[Other(e)]
    /\ \E k \in 0 .. Len(stream[Other(e)]) : HasCut(e, k)
    /\ \A n \in 1 .. Len(given[e]) :
         n <= Len(stream[Other(e)]) /\ given[e][n] = stream[Other(e)][n].packet

(* Done has taken away what it says it has, and m_csFunc was free then.    *)
DoneInv ==
    /\ doneCall[Client] # "no" => ~m_pfnRecvFunc[Client] /\ recvThr[Client] # "callback"
    /\ doneCall[Client] \in {"end", "stop", "returned"}
         => ~m_pfnEndFunc[Client] /\ recvThr[Client] # "endcallback"

LinkInv ==
    /\ LinkTypeOK
    /\ \A e \in End : Gapless(e) /\ Ordered(e) /\ SendInv(e) /\ RecvInv(e)
    /\ DoneInv

-----------------------------------------------------------------------------
LEMMA Ends ==
    ASSUME NEW e \in End
    PROVE  Other(e) \in End /\ Other(e) # e /\ Other(Other(e)) = e
BY EndsDiffer DEF End, Other

LEMMA LinkInitial == Init => LinkInv
<1> SUFFICES ASSUME Init PROVE LinkInv
    OBVIOUS
<1>1. LinkTypeOK
    BY DEF Init, LinkTypeOK, SendStation, RecvStation
<1>2. ASSUME NEW e \in End
      PROVE  Gapless(e) /\ Ordered(e) /\ SendInv(e) /\ RecvInv(e)
    <2>1. stream[e] = << >> /\ stream[Other(e)] = << >> /\ taken[e] = 0 /\ taken[Other(e)] = 0
        BY Ends DEF Init
    <2>2. Gapless(e)
        BY <2>1 DEF Gapless, Contiguous, StartIn
    <2>3. Ordered(e)
        BY <2>1 DEF Init, Ordered, Follows
    <2>4. SendInv(e)
        BY DEF Init, SendInv
    <2>5. HasCut(e, 0)
        BY <2>1 DEF Init, HasCut, StartOf, StartIn
    <2>6. RecvInv(e)
        BY <2>1, <2>5, Ends DEF Init, RecvInv
    <2> QED BY <2>2, <2>3, <2>4, <2>6
<1>3. DoneInv
    BY DEF Init, DoneInv, End
<1> QED BY <1>1, <1>2, <1>3 DEF LinkInv

(* Every packet has at least a header.                                     *)
LEMMA HasLength ==
    ASSUME NEW p \in Packet
    PROVE  Length[p] \in Nat /\ Length[p] > 0 /\ HeaderLen \in Nat /\ HeaderLen > 0
BY LengthOK, HeaderFits

(* Sequences and functions.                                                *)
LEMMA Appended ==
    ASSUME NEW S, NEW s \in Seq(S), NEW x \in S
    PROVE  /\ Append(s, x) \in Seq(S)
           /\ Len(s) \in Nat
           /\ Len(Append(s, x)) = Len(s) + 1
           /\ \A n \in 1 .. Len(s) : Append(s, x)[n] = s[n]
           /\ Append(s, x)[Len(s) + 1] = x
OBVIOUS

LEMMA AppendedAtTheEnd ==
    ASSUME NEW S, NEW list \in Seq(S), NEW all \in Seq(S), NEW k \in Nat, NEW x \in S,
           Follows(list, all, k)
    PROVE  /\ Follows(Append(list, x), Append(all, x), k)
           /\ \A n \in 1 .. k : Append(all, x)[n] = all[n]
<1> USE DEF Follows
<1> Len(list) \in Nat /\ Len(all) \in Nat
    OBVIOUS
<1>1. Len(Append(all, x)) = k + Len(Append(list, x))
    OBVIOUS
<1>2. \A n \in 1 .. k : Append(all, x)[n] = all[n]
    OBVIOUS
<1>3. ASSUME NEW n \in 1 .. Len(Append(list, x))
      PROVE  Append(list, x)[n] = Append(all, x)[k + n]
    <2>1. CASE n = Len(list) + 1
        <3>1. k + n = Len(all) + 1
            BY <2>1
        <3> QED BY <2>1, <3>1
    <2>2. CASE n \in 1 .. Len(list)
        <3>1. k + n \in 1 .. Len(all)
            BY <2>2
        <3> QED BY <2>2, <3>1
    <2> QED BY <2>1, <2>2
<1> QED BY <1>1, <1>2, <1>3

LEMMA TakenFromTheFront ==
    ASSUME NEW S, NEW list \in Seq(S), NEW all \in Seq(S), NEW k \in Nat,
           Follows(list, all, k), list # << >>
    PROVE  /\ Follows(Tail(list), all, k + 1)
           /\ Head(list) = all[k + 1]
           /\ Head(list) \in S /\ Tail(list) \in Seq(S)
<1> USE DEF Follows
<1>1. Len(list) \in Nat /\ Len(list) > 0 /\ Len(Tail(list)) = Len(list) - 1
    OBVIOUS
<1>2. Head(list) = list[1] /\ Head(list) \in S /\ Tail(list) \in Seq(S)
    OBVIOUS
<1>3. list[1] = all[k + 1]
    BY <1>1
<1>4. ASSUME NEW n \in 1 .. Len(Tail(list))
      PROVE  Tail(list)[n] = all[(k + 1) + n]
    <2>1. n + 1 \in 1 .. Len(list) /\ k + (n + 1) = (k + 1) + n
        BY <1>1
    <2>2. Tail(list)[n] = list[n + 1]
        BY <1>1
    <2> QED BY <2>1, <2>2
<1>5. Len(all) = (k + 1) + Len(Tail(list))
    BY <1>1
<1> QED BY <1>2, <1>3, <1>4, <1>5

StreamPacket == [packet : Packet, start : Nat]

(* A packet put on a contiguous stream leaves every start where it was.    *)
LEMMA PutOnStream ==
    ASSUME NEW s \in Seq(StreamPacket), NEW t \in Nat, NEW p \in Packet, Contiguous(s, t)
    PROVE  LET new == Append(s, [packet |-> p, start |-> t])
           IN /\ new \in Seq(StreamPacket)
              /\ Len(new) = Len(s) + 1
              /\ t + Length[p] \in Nat
              /\ Contiguous(new, t + Length[p])
              /\ \A n \in 1 .. Len(s) + 1 : StartIn(new, t + Length[p], n) = StartIn(s, t, n)
              /\ \A n \in 1 .. Len(s) : new[n] = s[n]
              /\ new[Len(s) + 1] = [packet |-> p, start |-> t]
<1> DEFINE r   == [packet |-> p, start |-> t]
           new == Append(s, r)
           u   == t + Length[p]
<1>1. r \in StreamPacket /\ r.packet = p /\ r.start = t
    BY DEF StreamPacket
<1>2. Length[p] \in Nat /\ Length[p] > 0
    BY HasLength
<1> HIDE DEF r
<1>3. /\ new \in Seq(StreamPacket) /\ Len(s) \in Nat /\ Len(new) = Len(s) + 1
      /\ \A n \in 1 .. Len(s) : new[n] = s[n]
      /\ new[Len(s) + 1] = r
    BY <1>1, Appended
<1>4. u \in Nat /\ u > t
    BY <1>2
<1> HIDE DEF new, u
<1>5. ASSUME NEW n \in 1 .. Len(s) + 1
      PROVE  StartIn(new, u, n) = StartIn(s, t, n)
    <2>1. CASE n = Len(s) + 1
        BY <1>1, <1>3, <2>1 DEF StartIn
    <2>2. CASE n # Len(s) + 1
        BY <1>3, <2>2 DEF StartIn
    <2> QED BY <2>1, <2>2
<1>6. StartIn(new, u, Len(s) + 2) = u
    BY <1>3 DEF StartIn
<1>7. Contiguous(new, u)
    <2>1. StartIn(new, u, 1) = 0
        BY <1>3, <1>5 DEF Contiguous
    <2>2. ASSUME NEW n \in 1 .. Len(new)
          PROVE  StartIn(new, u, n + 1) = new[n].start + Length[new[n].packet]
        <3>1. CASE n = Len(s) + 1
            BY <1>1, <1>3, <1>6, <3>1 DEF u
        <3>2. CASE n # Len(s) + 1
            <4>1. n \in 1 .. Len(s) /\ n + 1 \in 1 .. Len(s) + 1
                BY <1>3, <3>2
            <4> QED BY <1>3, <1>5, <4>1 DEF Contiguous
        <3> QED BY <3>1, <3>2
    <2>3. \A n \in 1 .. Len(s) + 1 : StartIn(s, t, n) <= t /\ StartIn(s, t, n) \in Nat
        <3>1. StartIn(s, t, Len(s) + 1) = t
            BY <1>3 DEF StartIn
        <3>2. ASSUME NEW n \in 1 .. Len(s)
              PROVE  StartIn(s, t, n) < t /\ StartIn(s, t, n) \in Nat
            <4>1. s[n] \in StreamPacket
                OBVIOUS
            <4>2. StartIn(s, t, n) = s[n].start /\ s[n].start \in Nat
                BY <1>3, <4>1 DEF StartIn, StreamPacket
            <4>3. n \in 1 .. Len(s) + 1 /\ Len(s) + 1 \in 1 .. Len(s) + 1 /\ n < Len(s) + 1
                BY <1>3
            <4> QED BY <3>1, <4>2, <4>3 DEF Contiguous
        <3>3. ASSUME NEW n \in 1 .. Len(s) + 1
              PROVE  StartIn(s, t, n) <= t /\ StartIn(s, t, n) \in Nat
            <4>1. CASE n = Len(s) + 1
                BY <3>1, <4>1
            <4>2. CASE n # Len(s) + 1
                <5>1. n \in 1 .. Len(s)
                    BY <1>3, <4>2
                <5> QED BY <3>2, <5>1
            <4> QED BY <4>1, <4>2
        <3> QED BY <3>3
    <2>4. ASSUME NEW m \in 1 .. Len(new) + 1, NEW n \in 1 .. Len(new) + 1, m < n
          PROVE  StartIn(new, u, m) < StartIn(new, u, n)
        <3>1. m \in 1 .. Len(s) + 1
            BY <1>3, <2>4
        <3>2. CASE n = Len(s) + 2
            <4>1. StartIn(new, u, m) <= t /\ StartIn(new, u, m) \in Nat
                BY <1>5, <2>3, <3>1
            <4> QED BY <1>4, <1>6, <3>2, <4>1
        <3>3. CASE n # Len(s) + 2
            <4>1. n \in 1 .. Len(s) + 1
                BY <1>3, <3>3
            <4> QED BY <1>5, <2>4, <3>1, <4>1 DEF Contiguous
        <3> QED BY <3>2, <3>3
    <2> QED BY <2>1, <2>2, <2>4 DEF Contiguous
<1> QED BY <1>3, <1>4, <1>5, <1>7 DEF r, new, u

LEMMA Put ==
    ASSUME NEW S, NEW T, NEW g \in [S -> T], NEW e \in S, NEW v \in T
    PROVE  /\ [g EXCEPT ![e] = v] \in [S -> T]
           /\ [g EXCEPT ![e] = v][e] = v
           /\ \A f \in S : f # e => [g EXCEPT ![e] = v][f] = g[f]
OBVIOUS

(* What an end whose send side stays as it is keeps, and what a receiver   *)
(* keeps while the stream it reads from only gets more bytes.              *)
LEMMA SendSideStays ==
    ASSUME NEW f \in End, Gapless(f), Ordered(f), SendInv(f),
           m_SendList'[f] = m_SendList[f], m_hSendEvent'[f] = m_hSendEvent[f],
           sendThr'[f] = sendThr[f], stream'[f] = stream[f], taken'[f] = taken[f],
           wrote'[f] = wrote[f], pushed'[f] = pushed[f]
    PROVE  Gapless(f)' /\ Ordered(f)' /\ SendInv(f)'
<1>1. Gapless(f)'
    BY DEF Gapless
<1>2. Ordered(f)'
    BY DEF Ordered
<1>3. SendInv(f)'
    BY DEF SendInv
<1> QED BY <1>1, <1>2, <1>3

LEMMA ReceiverStays ==
    ASSUME LinkTypeOK, NEW f \in End, RecvInv(f),
           recvThr'[f] = recvThr[f], m_pfnRecvFunc'[f] = m_pfnRecvFunc[f],
           read'[f] = read[f], cut'[f] = cut[f], given'[f] = given[f],
           stream'[Other(f)] = stream[Other(f)], taken'[Other(f)] = taken[Other(f)],
           wrote'[Other(f)] \in Nat, wrote'[Other(f)] >= wrote[Other(f)]
    PROVE  RecvInv(f)'
<1>1. Other(f) \in End
    BY Ends
<1>2. read[f] \in Nat /\ wrote[Other(f)] \in Nat
    BY <1>1 DEF LinkTypeOK
<1>3. \A k : HasCut(f, k) => HasCut(f, k)'
    BY DEF HasCut, StartOf
<1> QED BY <1>2, <1>3 DEF RecvInv

(* Calls of the invariant's parts.                                         *)
LEMMA Parts ==
    ASSUME LinkInv, NEW f \in End
    PROVE  LinkTypeOK /\ Gapless(f) /\ Ordered(f) /\ SendInv(f) /\ RecvInv(f) /\ DoneInv
BY DEF LinkInv

(* The variables of one end at a time.                                     *)
LEMMA EndTypes ==
    ASSUME LinkTypeOK, NEW f \in End
    PROVE  /\ m_SendList[f] \in Seq(Packet) /\ pushed[f] \in Seq(Packet) /\ given[f] \in Seq(Packet)
           /\ stream[f] \in Seq([packet : Packet, start : Nat])
           /\ taken[f] \in Nat /\ wrote[f] \in Nat /\ read[f] \in Nat /\ cut[f] \in Nat
           /\ sendThr[f] \in SendStation /\ recvThr[f] \in RecvStation
BY DEF LinkTypeOK

-----------------------------------------------------------------------------
(* The send side.                                                          *)

LEMMA SendPacketKeeps ==
    ASSUME LinkInv, NEW e \in End, NEW p \in Packet, SendPacket(e, p)
    PROVE  LinkInv'
<1> USE DEF SendPacket, recvVars, doneVars
<1>1. LinkTypeOK'
    <2>1. m_SendList[e] \in Seq(Packet) /\ pushed[e] \in Seq(Packet)
        BY Parts, EndTypes
    <2>2. Append(m_SendList[e], p) \in Seq(Packet) /\ Append(pushed[e], p) \in Seq(Packet)
        BY <2>1, Appended
    <2>3. m_SendList' \in [End -> Seq(Packet)] /\ pushed' \in [End -> Seq(Packet)]
        BY <2>2, Put, Parts DEF LinkTypeOK
    <2>4. m_hSendEvent' \in [End -> BOOLEAN]
        BY Parts DEF LinkTypeOK
    <2> QED BY <2>3, <2>4, Parts DEF LinkTypeOK
<1>2. ASSUME NEW f \in End PROVE Gapless(f)' /\ Ordered(f)' /\ SendInv(f)'
    <2>1. CASE f = e
        <3>1. Gapless(f)'
            BY Parts DEF Gapless
        <3>2. /\ m_SendList'[f] = Append(m_SendList[f], p)
              /\ pushed'[f] = Append(pushed[f], p)
              /\ m_hSendEvent'[f] = TRUE
            BY <2>1, Parts DEF LinkTypeOK
        <3>3. Ordered(f)'
            <4>1. m_SendList[f] \in Seq(Packet) /\ pushed[f] \in Seq(Packet) /\ Len(stream[f]) \in Nat
                BY Parts, EndTypes
            <4>2. Ordered(f) /\ stream'[f] = stream[f]
                BY Parts
            <4>3. Follows(m_SendList[f], pushed[f], Len(stream[f]))
                BY <4>2 DEF Ordered
            <4> DEFINE list == Append(m_SendList[f], p)
                       all  == Append(pushed[f], p)
            <4>4. /\ Follows(list, all, Len(stream[f]))
                  /\ \A n \in 1 .. Len(stream[f]) : all[n] = pushed[f][n]
                BY <4>1, <4>3, AppendedAtTheEnd
            <4>5. m_SendList'[f] = list /\ pushed'[f] = all
                BY <3>2
            <4> HIDE DEF list, all
            <4> QED BY <4>2, <4>4, <4>5 DEF Ordered
        <3>4. SendInv(f)'
            BY <3>2, Parts DEF SendInv
        <3> QED BY <3>1, <3>3, <3>4
    <2>2. CASE f # e
        BY <2>2, SendSideStays, Parts DEF LinkTypeOK
    <2> QED BY <2>1, <2>2
<1>3. ASSUME NEW f \in End PROVE RecvInv(f)'
    <2>1. Other(f) \in End
        BY Ends
    <2>2. wrote[Other(f)] \in Nat
        BY <2>1, Parts, EndTypes
    <2> QED BY <2>2, ReceiverStays, Parts
<1>4. DoneInv'
    BY DEF LinkInv, DoneInv
<1> QED BY <1>1, <1>2, <1>3, <1>4 DEF LinkInv

LEMMA SendWakesKeeps ==
    ASSUME LinkInv, NEW e \in End, SendWakes(e)
    PROVE  LinkInv'
<1> USE DEF SendWakes, recvVars, doneVars
<1>1. LinkTypeOK'
    BY DEF LinkInv, LinkTypeOK, SendStation
<1>2. ASSUME NEW f \in End PROVE Gapless(f)' /\ Ordered(f)' /\ SendInv(f)'
    <2>1. Gapless(f)' /\ Ordered(f)'
        BY Parts DEF Gapless, Ordered
    <2>2. SendInv(f)'
        BY Parts DEF SendInv, LinkTypeOK
    <2> QED BY <2>1, <2>2
<1>3. ASSUME NEW f \in End PROVE RecvInv(f)'
    <2>1. wrote[Other(f)] \in Nat
        BY Ends, Parts, EndTypes
    <2> QED BY <2>1, ReceiverStays, Parts
<1>4. DoneInv'
    BY DEF LinkInv, DoneInv
<1> QED BY <1>1, <1>2, <1>3, <1>4 DEF LinkInv

LEMMA SendResetsKeeps ==
    ASSUME LinkInv, NEW e \in End, SendResets(e)
    PROVE  LinkInv'
<1> USE DEF SendResets, recvVars, doneVars
<1>1. LinkTypeOK'
    BY DEF LinkInv, LinkTypeOK, SendStation
<1>2. ASSUME NEW f \in End PROVE Gapless(f)' /\ Ordered(f)' /\ SendInv(f)'
    <2>1. Gapless(f)' /\ Ordered(f)'
        BY Parts DEF Gapless, Ordered
    <2>2. SendInv(f)'
        BY Parts DEF SendInv, LinkTypeOK
    <2> QED BY <2>1, <2>2
<1>3. ASSUME NEW f \in End PROVE RecvInv(f)'
    <2>1. wrote[Other(f)] \in Nat
        BY Ends, Parts, EndTypes
    <2> QED BY <2>1, ReceiverStays, Parts
<1>4. DoneInv'
    BY DEF LinkInv, DoneInv
<1> QED BY <1>1, <1>2, <1>3, <1>4 DEF LinkInv

(* Write and the last write that fails: only more bytes of what was taken. *)
LEMMA WritingKeeps ==
    ASSUME LinkInv, NEW e \in End, Write(e) \/ WriteFails(e)
    PROVE  LinkInv'
<1> USE DEF recvVars, doneVars
<1>1. PICK n \in 0 .. taken[e] - wrote[e] :
        /\ wrote' = [wrote EXCEPT ![e] = @ + n]
        /\ \/ sendThr' = [sendThr EXCEPT ![e] = IF wrote[e] + n = taken[e] THEN "wait" ELSE "write"]
           \/ sendThr' = [sendThr EXCEPT ![e] = "gone"]
    <2>1. taken[e] - wrote[e] \in Int
        BY Parts, EndTypes
    <2>2. CASE Write(e)
        <3>1. PICK n \in 1 .. taken[e] - wrote[e] :
                /\ wrote' = [wrote EXCEPT ![e] = @ + n]
                /\ sendThr' = [sendThr EXCEPT ![e] = IF wrote[e] + n = taken[e] THEN "wait" ELSE "write"]
            BY <2>2 DEF Write
        <3>2. n \in 0 .. taken[e] - wrote[e]
            BY <2>1
        <3> QED BY <3>1, <3>2
    <2>3. CASE WriteFails(e)
        BY <2>3 DEF WriteFails
    <2> QED BY <2>2, <2>3
<1>2. /\ UNCHANGED <<m_SendList, m_hSendEvent, stream, taken, pushed, recvVars, doneVars, m_hStopEvent, linkUp>>
      /\ sendThr[e] = "write"
    BY DEF Write, WriteFails
<1>3. wrote[e] \in Nat /\ taken[e] \in Nat /\ wrote[e] <= taken[e]
    BY Parts, EndTypes DEF SendInv
<1>4. LinkTypeOK'
    <2>1. wrote' \in [End -> Nat]
        <3>1. wrote[e] + n \in Nat
            BY <1>3
        <3> QED BY <1>1, <3>1, Parts DEF LinkTypeOK
    <2>2. sendThr' \in [End -> SendStation]
        BY <1>1, Parts DEF LinkTypeOK, SendStation
    <2> QED BY <1>2, <2>1, <2>2, Parts DEF LinkTypeOK
<1>5. ASSUME NEW f \in End PROVE Gapless(f)' /\ Ordered(f)' /\ SendInv(f)'
    <2>1. Gapless(f)' /\ Ordered(f)'
        BY <1>2, Parts DEF Gapless, Ordered
    <2>2. CASE f = e
        <3>1. wrote'[f] = wrote[e] + n /\ sendThr'[f] # "take"
              /\ (sendThr'[f] = "wait" => wrote[e] + n = taken[e])
            BY <1>1, <2>2, Parts DEF LinkTypeOK
        <3> QED BY <1>2, <1>3, <2>1, <2>2, <3>1, Parts DEF SendInv
    <2>3. CASE f # e
        BY <1>1, <1>2, <2>3, SendSideStays, Parts DEF LinkTypeOK
    <2> QED BY <2>1, <2>2, <2>3
<1>6. ASSUME NEW f \in End PROVE RecvInv(f)'
    <2>1. Other(f) \in End
        BY Ends
    <2>2. wrote[Other(f)] \in Nat /\ wrote'[Other(f)] \in Nat /\ wrote'[Other(f)] >= wrote[Other(f)]
        <3>1. CASE Other(f) = e
            <4>1. wrote'[e] = wrote[e] + n
                BY <1>1, Parts DEF LinkTypeOK
            <4> QED BY <1>3, <3>1, <4>1
        <3>2. CASE Other(f) # e
            <4>1. wrote'[Other(f)] = wrote[Other(f)]
                BY <1>1, <2>1, <3>2, Parts DEF LinkTypeOK
            <4> QED BY <2>1, <4>1, Parts, EndTypes
        <3> QED BY <3>1, <3>2
    <2> QED BY <1>2, <2>2, ReceiverStays, Parts
<1>7. DoneInv'
    BY <1>2 DEF LinkInv, DoneInv
<1> QED BY <1>4, <1>5, <1>6, <1>7 DEF LinkInv

LEMMA SendTakesKeeps ==
    ASSUME LinkInv, NEW e \in End, SendTakes(e)
    PROVE  LinkInv'
<1> USE DEF SendTakes, recvVars, doneVars
<1> DEFINE p == Head(m_SendList[e])
           s == stream[e]
           t == taken[e]
           new == Append(s, [packet |-> p, start |-> t])
           u == t + Length[p]
<1>1. /\ m_SendList[e] \in Seq(Packet) /\ pushed[e] \in Seq(Packet) /\ m_SendList[e] # << >>
      /\ s \in Seq(StreamPacket) /\ t \in Nat /\ wrote[e] \in Nat /\ Len(s) \in Nat
      /\ Contiguous(s, t) /\ wrote[e] = t
      /\ Ordered(e)
    <2> /\ m_SendList[e] \in Seq(Packet) /\ pushed[e] \in Seq(Packet)
        /\ s \in Seq(StreamPacket) /\ t \in Nat /\ wrote[e] \in Nat
        BY Parts, EndTypes DEF StreamPacket
    <2> m_SendList[e] # << >> /\ sendThr[e] = "take"
        OBVIOUS
    <2> Len(s) \in Nat
        OBVIOUS
    <2> Contiguous(s, t) /\ wrote[e] = t /\ Ordered(e)
        BY Parts DEF Gapless, SendInv
    <2> QED OBVIOUS
<1>2. /\ Follows(Tail(m_SendList[e]), pushed[e], Len(s) + 1)
      /\ p = pushed[e][Len(s) + 1]
      /\ p \in Packet /\ Tail(m_SendList[e]) \in Seq(Packet)
    BY <1>1, TakenFromTheFront DEF Ordered
<1> /\ m_SendList' = [m_SendList EXCEPT ![e] = Tail(m_SendList[e])]
    /\ stream' = [stream EXCEPT ![e] = new]
    /\ taken' = [taken EXCEPT ![e] = u]
    /\ sendThr' = [sendThr EXCEPT ![e] = "write"]
    OBVIOUS
<1>3. /\ new \in Seq(StreamPacket)
      /\ Len(new) = Len(s) + 1
      /\ u \in Nat
      /\ Contiguous(new, u)
      /\ \A n \in 1 .. Len(s) + 1 : StartIn(new, u, n) = StartIn(s, t, n)
      /\ \A n \in 1 .. Len(s) : new[n] = s[n]
      /\ new[Len(s) + 1].packet = p
    BY <1>1, <1>2, PutOnStream
<1>4. u >= t
    BY <1>1, <1>2, HasLength
<1> HIDE DEF p, new, u
<1>5. LinkTypeOK'
    <2>1. m_SendList' \in [End -> Seq(Packet)]
        BY <1>2, Parts, Put DEF LinkTypeOK
    <2>2. stream' \in [End -> Seq([packet : Packet, start : Nat])]
        <3>1. stream \in [End -> Seq(StreamPacket)]
            BY Parts DEF LinkTypeOK, StreamPacket
        <3>2. stream' \in [End -> Seq(StreamPacket)]
            BY <1>3, <3>1, Put
        <3> QED BY <3>2 DEF StreamPacket
    <2>3. taken' \in [End -> Nat] /\ sendThr' \in [End -> SendStation]
        BY <1>3, Parts DEF LinkTypeOK, SendStation
    <2> QED BY <2>1, <2>2, <2>3, Parts DEF LinkTypeOK
<1>6. /\ m_SendList'[e] = Tail(m_SendList[e]) /\ stream'[e] = new /\ taken'[e] = u
      /\ sendThr'[e] = "write" /\ pushed' = pushed /\ wrote' = wrote
    BY Parts DEF LinkTypeOK
<1>7. ASSUME NEW f \in End PROVE Gapless(f)' /\ Ordered(f)' /\ SendInv(f)'
    <2>1. CASE f = e
        <3>1. Gapless(e)'
            BY <1>3, <1>6 DEF Gapless
        <3>2. ASSUME NEW n \in 1 .. Len(new) PROVE new[n].packet = pushed[e][n]
            <4>1. CASE n = Len(s) + 1
                BY <1>2, <1>3, <4>1
            <4>2. CASE n # Len(s) + 1
                <5>1. n \in 1 .. Len(s)
                    BY <1>1, <1>3, <4>2
                <5> QED BY <1>1, <1>3, <5>1 DEF Ordered
            <4> QED BY <4>1, <4>2
        <3>3. Ordered(e)'
            BY <1>2, <1>3, <1>6, <3>2 DEF Ordered
        <3>4. SendInv(e)'
            <4>1. m_hSendEvent[e] /\ m_hSendEvent' = m_hSendEvent
                BY <1>1, Parts DEF SendInv
            <4> QED BY <1>1, <1>3, <1>4, <1>6, <4>1 DEF SendInv
        <3> QED BY <2>1, <3>1, <3>3, <3>4
    <2>2. CASE f # e
        BY <2>2, SendSideStays, Parts DEF LinkTypeOK
    <2> QED BY <2>1, <2>2
<1>8. ASSUME NEW f \in End PROVE RecvInv(f)'
    <2>1. Other(f) \in End
        BY Ends
    <2>2. CASE Other(f) # e
        <3>1. stream'[Other(f)] = stream[Other(f)] /\ taken'[Other(f)] = taken[Other(f)]
            BY <2>1, <2>2, Parts DEF LinkTypeOK
        <3>2. wrote[Other(f)] \in Nat
            BY <2>1, Parts, EndTypes
        <3> QED BY <3>1, <3>2, ReceiverStays, Parts
    <2>3. CASE Other(f) = e
        <3>1. RecvInv(f)
            BY Parts
        <3>2. PICK k \in 0 .. Len(s) : HasCut(f, k)
            BY <2>3, <3>1 DEF RecvInv
        <3>3. StartIn(new, u, k + 1) = StartIn(s, t, k + 1) /\ k \in 0 .. Len(new)
            <4>1. k + 1 \in 1 .. Len(s) + 1
                BY <1>1, <3>2
            <4> QED BY <1>1, <1>3, <4>1
        <3>4. StartOf(Other(f), k + 1)' = StartOf(Other(f), k + 1)
            BY <1>6, <2>3, <3>3 DEF StartOf
        <3>5. HasCut(f, k)'
            BY <3>2, <3>4 DEF HasCut
        <3>6. \A n \in 1 .. Len(given[f]) :
                 n <= Len(new) /\ given[f][n] = new[n].packet
            <4> SUFFICES ASSUME NEW n \in 1 .. Len(given[f])
                         PROVE  n <= Len(new) /\ given[f][n] = new[n].packet
                OBVIOUS
            <4>1. given[f] \in Seq(Packet)
                BY Parts, EndTypes
            <4>2. n \in Nat /\ n >= 1 /\ n <= Len(s) /\ given[f][n] = s[n].packet
                BY <2>3, <3>1, <4>1 DEF RecvInv
            <4>3. n \in 1 .. Len(s)
                BY <1>1, <4>2
            <4> QED BY <1>1, <1>3, <4>2, <4>3
        <3> QED BY <1>6, <2>3, <3>1, <3>3, <3>5, <3>6 DEF RecvInv
    <2> QED BY <2>2, <2>3
<1>9. DoneInv'
    BY DEF LinkInv, DoneInv
<1> QED BY <1>5, <1>7, <1>8, <1>9 DEF LinkInv

-----------------------------------------------------------------------------
(* The receive side: the send sides stay as they are, and the receiver at  *)
(* the other end reads what it read before.                                *)

LEMMA SendSidesKept ==
    ASSUME LinkInv, NEW f \in End, UNCHANGED sendVars
    PROVE  Gapless(f)' /\ Ordered(f)' /\ SendInv(f)'
BY Parts, SendSideStays DEF sendVars

LEMMA OtherReceiverKept ==
    ASSUME LinkInv, UNCHANGED sendVars, NEW f \in End,
           recvThr'[f] = recvThr[f], m_pfnRecvFunc'[f] = m_pfnRecvFunc[f],
           read'[f] = read[f], cut'[f] = cut[f], given'[f] = given[f]
    PROVE  RecvInv(f)'
<1>1. wrote[Other(f)] \in Nat
    BY Ends, Parts, EndTypes
<1> QED BY <1>1, ReceiverStays, Parts DEF sendVars

(* What a step of one receive thread leaves to show.                       *)
LEMMA ReceiverSteps ==
    ASSUME LinkInv, NEW e \in End, UNCHANGED <<sendVars, doneVars>>,
           LinkTypeOK', RecvInv(e)', DoneInv',
           \A f \in End : f # e => /\ recvThr'[f] = recvThr[f]
                                   /\ read'[f] = read[f]
                                   /\ cut'[f] = cut[f]
                                   /\ given'[f] = given[f]
    PROVE  LinkInv'
<1>1. ASSUME NEW f \in End PROVE Gapless(f)' /\ Ordered(f)' /\ SendInv(f)'
    BY SendSidesKept
<1>2. ASSUME NEW f \in End PROVE RecvInv(f)'
    <2>1. CASE f = e
        BY <2>1
    <2>2. CASE f # e
        <3>1. m_pfnRecvFunc'[f] = m_pfnRecvFunc[f]
            BY DEF doneVars
        <3> QED BY <2>2, <3>1, OtherReceiverKept
    <2> QED BY <2>1, <2>2
<1> QED BY <1>1, <1>2 DEF LinkInv

(* The starts on a stream tell its packets apart.                          *)
LEMMA StartsDiffer ==
    ASSUME LinkInv, NEW e \in End,
           NEW m \in 1 .. Len(stream[e]) + 1, NEW n \in 1 .. Len(stream[e]) + 1,
           StartOf(e, m) = StartOf(e, n)
    PROVE  m = n
<1>1. Len(stream[e]) \in Nat /\ Contiguous(stream[e], taken[e])
    BY Parts, EndTypes DEF Gapless
<1>2. \A i \in 1 .. Len(stream[e]) + 1 : StartOf(e, i) \in Nat
    <2> SUFFICES ASSUME NEW i \in 1 .. Len(stream[e]) + 1 PROVE StartOf(e, i) \in Nat
        OBVIOUS
    <2>1. CASE i <= Len(stream[e])
        <3>1. stream[e] \in Seq(StreamPacket) /\ i \in 1 .. Len(stream[e])
            <4>1. stream[e] \in Seq(StreamPacket)
                BY Parts, EndTypes DEF StreamPacket
            <4> QED BY <1>1, <2>1, <4>1
        <3>2. stream[e][i] \in StreamPacket
            BY <3>1
        <3> QED BY <2>1, <3>2 DEF StartOf, StartIn, StreamPacket
    <2>2. CASE ~(i <= Len(stream[e]))
        BY <2>2, Parts, EndTypes DEF StartOf, StartIn
    <2> QED BY <2>1, <2>2
<1>3. \A i, j \in 1 .. Len(stream[e]) + 1 : i < j => StartOf(e, i) < StartOf(e, j)
    BY <1>1 DEF Contiguous, StartOf
<1>4. ~(m < n) /\ ~(n < m)
    BY <1>2, <1>3
<1> QED BY <1>1, <1>4

(* A receiver that cuts nothing and is not about to give a packet.         *)
LEMMA CutsNothing ==
    ASSUME LinkInv, UNCHANGED sendVars, NEW e \in End,
           cut'[e] = cut[e], given'[e] = given[e],
           recvThr'[e] \notin {"dispatch", "lost"},
           m_pfnRecvFunc'[e] => m_pfnRecvFunc[e] /\ recvThr[e] # "dispatch",
           cut[e] <= read'[e], read'[e] <= wrote[Other(e)]
    PROVE  RecvInv(e)'
<1>1. PICK k \in 0 .. Len(stream[Other(e)]) : HasCut(e, k)
    BY Parts DEF RecvInv
<1>2. HasCut(e, k)'
    <2>1. StartOf(Other(e), k + 1)' = StartOf(Other(e), k + 1)
        BY DEF StartOf, sendVars
    <2> QED BY <1>1, <2>1 DEF HasCut
<1>3. k \in 0 .. Len(stream'[Other(e)])
    BY <1>1 DEF sendVars
<1> QED BY <1>2, <1>3, Parts DEF RecvInv, sendVars

(* The bounds of a receiver that reads nothing.                            *)
LEMMA Bounds ==
    ASSUME LinkInv, NEW e \in End
    PROVE  /\ cut[e] \in Nat /\ read[e] \in Nat /\ wrote[Other(e)] \in Nat /\ taken[Other(e)] \in Nat
           /\ cut[e] <= read[e] /\ read[e] <= wrote[Other(e)] /\ wrote[Other(e)] <= taken[Other(e)]
           /\ Other(e) \in End
<1>1. Other(e) \in End
    BY Ends
<1>2. SendInv(Other(e)) /\ RecvInv(e)
    BY <1>1, Parts
<1>3. cut[e] \in Nat /\ read[e] \in Nat /\ wrote[Other(e)] \in Nat /\ taken[Other(e)] \in Nat
    BY <1>1, Parts, EndTypes
<1> QED BY <1>1, <1>2, <1>3 DEF SendInv, RecvInv

LEMMA ReadKeeps ==
    ASSUME LinkInv, NEW e \in End, Read(e)
    PROVE  LinkInv'
<1>1. PICK n \in 1 .. wrote[Other(e)] - read[e] : read' = [read EXCEPT ![e] = read[e] + n]
    BY DEF Read
<1>2. /\ recvThr[e] = "read" /\ recvThr' = [recvThr EXCEPT ![e] = "cut"]
      /\ UNCHANGED <<cut, given, ended, sendVars, doneVars, m_hStopEvent, linkUp>>
    BY DEF Read
<1>3. read[e] + n \in Nat /\ cut[e] <= read[e] + n /\ read[e] + n <= wrote[Other(e)]
    BY Bounds
<1>4. read'[e] = read[e] + n /\ recvThr'[e] = "cut"
    BY <1>1, <1>2, Parts DEF LinkTypeOK
<1>5. LinkTypeOK'
    <2>1. read' \in [End -> Nat]
        BY <1>1, <1>3, Put, Parts DEF LinkTypeOK
    <2>2. recvThr' \in [End -> RecvStation]
        BY <1>2, Parts DEF LinkTypeOK, RecvStation
    <2> QED BY <1>2, <2>1, <2>2, Parts DEF LinkTypeOK, sendVars, doneVars
<1>6. RecvInv(e)'
    <2>1. m_pfnRecvFunc' = m_pfnRecvFunc
        BY <1>2 DEF doneVars
    <2> QED BY <1>2, <1>3, <1>4, <2>1, CutsNothing
<1>7. DoneInv'
    BY <1>2, Parts DEF DoneInv, doneVars, LinkTypeOK, End
<1>8. \A f \in End : f # e => /\ recvThr'[f] = recvThr[f] /\ read'[f] = read[f]
                              /\ cut'[f] = cut[f] /\ given'[f] = given[f]
    BY <1>1, <1>2, Parts DEF LinkTypeOK
<1> QED BY <1>2, <1>5, <1>6, <1>7, <1>8, ReceiverSteps

(* The steps that move the receive thread and touch no byte: the failing   *)
(* read, the returns of the callbacks, the report and the stop event.      *)
LEMMA MovingKeeps ==
    ASSUME LinkInv, NEW e \in End, NEW to \in {"ending", "cut", "endcallback", "stopping", "gone"},
           recvThr' = [recvThr EXCEPT ![e] = to], recvThr[e] # "dispatch",
           to = "endcallback" => m_pfnEndFunc[e],
           UNCHANGED <<read, cut, given, sendVars, doneVars>>,
           m_hStopEvent' \in [End -> BOOLEAN], ended' \in [End -> BOOLEAN]
    PROVE  LinkInv'
<1>1. LinkTypeOK'
    <2>1. recvThr' \in [End -> RecvStation]
        BY Parts DEF LinkTypeOK, RecvStation
    <2> QED BY <2>1, Parts DEF LinkTypeOK, sendVars, doneVars
<1>2. recvThr'[e] = to
    BY Parts DEF LinkTypeOK
<1>3. RecvInv(e)'
    <2>1. m_pfnRecvFunc' = m_pfnRecvFunc
        BY DEF doneVars
    <2> QED BY <1>2, <2>1, Bounds, CutsNothing
<1>4. DoneInv'
    BY Parts DEF DoneInv, doneVars, LinkTypeOK, End
<1>5. \A f \in End : f # e => recvThr'[f] = recvThr[f]
    BY Parts DEF LinkTypeOK
<1> QED BY <1>1, <1>3, <1>4, <1>5, ReceiverSteps

LEMMA OtherReceiverStepsKeep ==
    ASSUME LinkInv, NEW e \in End,
           ReadFails(e) \/ CallbackReturns(e) \/ ReportEnd(e) \/ EndCallbackReturns(e) \/ RecvStops(e)
    PROVE  LinkInv'
<1>1. m_hStopEvent \in [End -> BOOLEAN] /\ ended \in [End -> BOOLEAN] /\ m_pfnEndFunc \in [End -> BOOLEAN]
    BY Parts DEF LinkTypeOK
<1>2. CASE ReadFails(e)
    BY <1>1, <1>2, MovingKeeps DEF ReadFails
<1>3. CASE CallbackReturns(e)
    BY <1>1, <1>3, MovingKeeps DEF CallbackReturns
<1>4. CASE ReportEnd(e)
    <2>1. ended' \in [End -> BOOLEAN]
        BY <1>1, <1>4 DEF ReportEnd
    <2>2. CASE m_pfnEndFunc[e]
        BY <1>1, <1>4, <2>1, <2>2, MovingKeeps DEF ReportEnd
    <2>3. CASE ~m_pfnEndFunc[e]
        BY <1>1, <1>4, <2>1, <2>3, MovingKeeps DEF ReportEnd
    <2> QED BY <2>2, <2>3
<1>5. CASE EndCallbackReturns(e)
    BY <1>1, <1>5, MovingKeeps DEF EndCallbackReturns
<1>6. CASE RecvStops(e)
    <2>1. m_hStopEvent' \in [End -> BOOLEAN]
        BY <1>1, <1>6 DEF RecvStops
    <2> QED BY <1>1, <1>6, <2>1, MovingKeeps DEF RecvStops
<1> QED BY <1>2, <1>3, <1>4, <1>5, <1>6

(* Where packet n of the stream ends the next one starts.                  *)
LEMMA NextStarts ==
    ASSUME LinkInv, NEW e \in End, NEW n \in 1 .. Len(stream[Other(e)])
    PROVE  /\ n \in 1 .. Len(stream[Other(e)]) + 1 /\ n + 1 \in 1 .. Len(stream[Other(e)]) + 1
           /\ StartOf(Other(e), n) = stream[Other(e)][n].start
           /\ StartOf(Other(e), n + 1) = stream[Other(e)][n].start + LengthOf(e, n)
           /\ stream[Other(e)][n].packet \in Packet
           /\ stream[Other(e)][n].start \in Nat
           /\ LengthOf(e, n) \in Nat
<1>1. Other(e) \in End
    BY Ends
<1>2. stream[Other(e)] \in Seq(StreamPacket) /\ Gapless(Other(e))
    BY <1>1, Parts, EndTypes DEF StreamPacket
<1>3. Len(stream[Other(e)]) \in Nat /\ stream[Other(e)][n] \in StreamPacket
    BY <1>2
<1>4. stream[Other(e)][n].packet \in Packet /\ stream[Other(e)][n].start \in Nat
    BY <1>3 DEF StreamPacket
<1>5. LengthOf(e, n) \in Nat
    BY <1>4, HasLength DEF LengthOf
<1>6. StartOf(Other(e), n) = stream[Other(e)][n].start
    BY <1>3 DEF StartOf, StartIn
<1>7. StartOf(Other(e), n + 1) = stream[Other(e)][n].start + LengthOf(e, n)
    BY <1>2 DEF Gapless, Contiguous, StartOf, LengthOf
<1> QED BY <1>3, <1>4, <1>5, <1>6, <1>7

LEMMA CutKeeps ==
    ASSUME LinkInv, NEW e \in End, Cut(e)
    PROVE  LinkInv'
<1> DEFINE s == stream[Other(e)]
<1>1. PICK n \in 1 .. Len(s) :
        /\ StartsAt(e, n) /\ read[e] - cut[e] >= LengthOf(e, n)
        /\ cut' = [cut EXCEPT ![e] = cut[e] + LengthOf(e, n)]
    BY DEF Cut, Complete
<1>2. /\ recvThr[e] = "cut" /\ recvThr' = [recvThr EXCEPT ![e] = "dispatch"]
      /\ UNCHANGED <<read, given, ended, sendVars, doneVars, m_hStopEvent, linkUp>>
    BY DEF Cut
<1>3. PICK k \in 0 .. Len(s) : HasCut(e, k)
    BY Parts DEF RecvInv
<1>4. Other(e) \in End /\ Len(s) \in Nat
    BY Ends, Parts, EndTypes
<1>5. n = k + 1
    <2>1. StartOf(Other(e), n) = StartOf(Other(e), k + 1)
        BY <1>1, <1>3, NextStarts DEF StartsAt, HasCut
    <2>2. n \in 1 .. Len(s) + 1 /\ k + 1 \in 1 .. Len(s) + 1
        BY <1>4
    <2> QED BY <1>4, <2>1, <2>2, StartsDiffer
<1>6. /\ LengthOf(e, n) \in Nat
      /\ cut[e] + LengthOf(e, n) = StartOf(Other(e), n + 1)
    BY <1>1, NextStarts DEF StartsAt
<1>7. cut[e] + LengthOf(e, n) \in Nat /\ cut[e] + LengthOf(e, n) <= read[e]
    BY <1>1, <1>6, Bounds
<1>8. cut'[e] = cut[e] + LengthOf(e, n) /\ recvThr'[e] = "dispatch"
    BY <1>1, <1>2, Parts DEF LinkTypeOK
<1>9. LinkTypeOK'
    <2>1. cut' \in [End -> Nat]
        BY <1>1, <1>7, Put, Parts DEF LinkTypeOK
    <2>2. recvThr' \in [End -> RecvStation]
        BY <1>2, Parts DEF LinkTypeOK, RecvStation
    <2> QED BY <1>2, <2>1, <2>2, Parts DEF LinkTypeOK, sendVars, doneVars
<1>10. RecvInv(e)'
    <2>1. HasCut(e, n)'
        <3>1. StartOf(Other(e), n + 1)' = StartOf(Other(e), n + 1)
            BY <1>2 DEF StartOf, sendVars
        <3>2. given' = given /\ m_pfnRecvFunc' = m_pfnRecvFunc /\ Len(given[e]) \in Nat
            BY <1>2, Parts, EndTypes DEF doneVars
        <3>3. /\ Len(given[e]) <= k
              /\ m_pfnRecvFunc[e] => Len(given[e]) = k
            BY <1>2, <1>3 DEF HasCut
        <3>4. cut'[e] = StartOf(Other(e), n + 1)'
            BY <1>6, <1>8, <3>1
        <3>5. Len(given'[e]) <= n /\ n > 0
            BY <1>5, <3>2, <3>3
        <3>6. m_pfnRecvFunc'[e] => Len(given'[e]) = n - 1
            BY <1>5, <3>2, <3>3
        <3> QED BY <1>8, <3>4, <3>5, <3>6 DEF HasCut
    <2>2. n \in 0 .. Len(s)
        BY <1>4
    <2>3. RecvInv(e)
        BY Parts
    <2>4. read' = read /\ given' = given /\ wrote' = wrote /\ stream' = stream
        BY <1>2 DEF sendVars
    <2> QED BY <1>7, <1>8, <2>1, <2>2, <2>3, <2>4 DEF RecvInv
<1>11. DoneInv'
    BY <1>2, Parts DEF DoneInv, doneVars, LinkTypeOK, End
<1>12. \A f \in End : f # e => /\ recvThr'[f] = recvThr[f] /\ read'[f] = read[f]
                               /\ cut'[f] = cut[f] /\ given'[f] = given[f]
    BY <1>1, <1>2, Parts DEF LinkTypeOK
<1> QED BY <1>2, <1>9, <1>10, <1>11, <1>12, ReceiverSteps

(* As long as bytes lie in the buffer they begin with a header.            *)
LEMMA CutNothingKeeps ==
    ASSUME LinkInv, NEW e \in End, CutNothing(e)
    PROVE  LinkInv'
<1> DEFINE s == stream[Other(e)]
<1>1. PICK k \in 0 .. Len(s) : HasCut(e, k)
    BY Parts DEF RecvInv
<1>2. Other(e) \in End /\ Len(s) \in Nat
    BY Ends, Parts, EndTypes
<1>3. \/ read[e] - cut[e] < HeaderLen
      \/ \E n \in 1 .. Len(s) : StartsAt(e, n)
    <2>1. CASE k = Len(s)
        <3>1. cut[e] = taken[Other(e)]
            BY <1>1, <1>2, <2>1 DEF HasCut, StartOf, StartIn
        <3> QED BY <3>1, Bounds, HeaderFits
    <2>2. CASE k # Len(s)
        <3>1. k + 1 \in 1 .. Len(s)
            BY <1>2, <2>2
        <3>2. StartsAt(e, k + 1)
            BY <1>1, <3>1, NextStarts DEF HasCut, StartsAt
        <3> QED BY <3>1, <3>2
    <2> QED BY <2>1, <2>2
<1>4. /\ recvThr[e] = "cut" /\ recvThr' = [recvThr EXCEPT ![e] = "read"]
      /\ UNCHANGED <<read, cut, given, ended, sendVars, doneVars, m_hStopEvent, linkUp>>
    BY <1>3 DEF CutNothing
<1>5. recvThr'[e] = "read" /\ \A f \in End : f # e => recvThr'[f] = recvThr[f]
    BY <1>4, Parts DEF LinkTypeOK
<1>6. LinkTypeOK'
    <2>1. recvThr' \in [End -> RecvStation]
        BY <1>4, Parts DEF LinkTypeOK, RecvStation
    <2> QED BY <1>4, <2>1, Parts DEF LinkTypeOK, sendVars, doneVars
<1>7. RecvInv(e)'
    <2>1. m_pfnRecvFunc' = m_pfnRecvFunc
        BY <1>4 DEF doneVars
    <2> QED BY <1>4, <1>5, <2>1, Bounds, CutsNothing
<1>8. DoneInv'
    BY <1>4, Parts DEF DoneInv, doneVars, LinkTypeOK, End
<1> QED BY <1>4, <1>5, <1>6, <1>7, <1>8, ReceiverSteps

LEMMA DispatchKeeps ==
    ASSUME LinkInv, NEW e \in End, Dispatch(e)
    PROVE  LinkInv'
<1> DEFINE s == stream[Other(e)]
<1>1. PICK n \in 1 .. Len(s) :
        /\ InHand(e, n)
        /\ given' = IF m_pfnRecvFunc[e] THEN [given EXCEPT ![e] = Append(given[e], s[n].packet)] ELSE given
    BY DEF Dispatch
<1>2. /\ recvThr[e] = "dispatch"
      /\ recvThr' = [recvThr EXCEPT ![e] = IF m_pfnRecvFunc[e] THEN "callback" ELSE "cut"]
      /\ UNCHANGED <<read, cut, ended, sendVars, doneVars, m_hStopEvent, linkUp>>
    BY DEF Dispatch
<1>3. PICK k \in 0 .. Len(s) : HasCut(e, k)
    BY Parts DEF RecvInv
<1>4. Other(e) \in End /\ Len(s) \in Nat /\ given[e] \in Seq(Packet) /\ Len(given[e]) \in Nat
    BY Ends, Parts, EndTypes
<1>5. n = k
    <2>1. StartOf(Other(e), n + 1) = StartOf(Other(e), k + 1)
        BY <1>1, <1>3, NextStarts DEF InHand, HasCut
    <2>2. n + 1 \in 1 .. Len(s) + 1 /\ k + 1 \in 1 .. Len(s) + 1
        BY <1>4
    <2>3. n + 1 = k + 1
        BY <1>4, <2>1, <2>2, StartsDiffer
    <2> QED BY <1>4, <2>3
<1>6. CASE ~m_pfnRecvFunc[e]
    <2>1. given' = given /\ recvThr' = [recvThr EXCEPT ![e] = "cut"]
        BY <1>1, <1>2, <1>6
    <2>2. recvThr'[e] = "cut" /\ \A f \in End : f # e => recvThr'[f] = recvThr[f]
        BY <2>1, Parts DEF LinkTypeOK
    <2>3. LinkTypeOK'
        <3>1. recvThr' \in [End -> RecvStation]
            BY <2>1, Parts DEF LinkTypeOK, RecvStation
        <3> QED BY <1>2, <2>1, <3>1, Parts DEF LinkTypeOK, sendVars, doneVars
    <2>4. RecvInv(e)'
        <3>1. m_pfnRecvFunc' = m_pfnRecvFunc
            BY <1>2 DEF doneVars
        <3> QED BY <1>2, <1>6, <2>1, <2>2, <3>1, Bounds, CutsNothing
    <2>5. DoneInv'
        BY <1>2, <2>1, Parts DEF DoneInv, doneVars, LinkTypeOK, End
    <2> QED BY <1>2, <2>1, <2>2, <2>3, <2>4, <2>5, ReceiverSteps
<1>7. CASE m_pfnRecvFunc[e]
    <2> DEFINE p == s[n].packet
               g == Append(given[e], p)
    <2>1. p \in Packet
        BY NextStarts
    <2>2. given' = [given EXCEPT ![e] = g] /\ recvThr' = [recvThr EXCEPT ![e] = "callback"]
        BY <1>1, <1>2, <1>7
    <2>3. /\ g \in Seq(Packet) /\ Len(g) = Len(given[e]) + 1
          /\ \A i \in 1 .. Len(given[e]) : g[i] = given[e][i]
          /\ g[Len(given[e]) + 1] = p
        BY <1>4, <2>1, Appended
    <2> HIDE DEF g
    <2>4. /\ recvThr'[e] = "callback" /\ given'[e] = g
          /\ \A f \in End : f # e => recvThr'[f] = recvThr[f] /\ given'[f] = given[f]
        BY <2>2, Parts DEF LinkTypeOK
    <2>5. LinkTypeOK'
        <3>1. recvThr' \in [End -> RecvStation]
            BY <2>2, Parts DEF LinkTypeOK, RecvStation
        <3>2. given' \in [End -> Seq(Packet)]
            BY <2>2, <2>3, Put, Parts DEF LinkTypeOK
        <3> QED BY <1>2, <3>1, <3>2, Parts DEF LinkTypeOK, sendVars, doneVars
    <2>6. Len(given[e]) = k - 1 /\ Len(g) = k
        <3>1. Len(given[e]) = k - 1
            BY <1>2, <1>3, <1>7 DEF HasCut
        <3> QED BY <1>4, <2>3, <3>1
    <2>7. RecvInv(e)'
        <3>1. /\ UNCHANGED <<read, cut, wrote, stream, taken>>
              /\ m_pfnRecvFunc' = m_pfnRecvFunc
            BY <1>2 DEF sendVars, doneVars
        <3>2. HasCut(e, k)'
            <4>1. StartOf(Other(e), k + 1)' = StartOf(Other(e), k + 1)
                BY <3>1 DEF StartOf
            <4>2. cut[e] = StartOf(Other(e), k + 1)
                BY <1>3 DEF HasCut
            <4> QED BY <2>4, <2>6, <3>1, <4>1, <4>2 DEF HasCut
        <3>3. ASSUME NEW i \in 1 .. Len(g)
              PROVE  i <= Len(s) /\ g[i] = s[i].packet
            <4>1. CASE i = k
                BY <1>4, <1>5, <2>3, <2>6, <4>1
            <4>2. CASE i # k
                <5>1. i \in 1 .. Len(given[e])
                    BY <1>4, <2>6, <4>2
                <5> QED BY <2>3, <5>1, Parts DEF RecvInv
            <4> QED BY <4>1, <4>2
        <3> QED BY <2>4, <3>1, <3>2, <3>3, Bounds DEF RecvInv
    <2>8. DoneInv'
        BY <1>2, <1>7, <2>2, Parts DEF DoneInv, doneVars, LinkTypeOK, End
    <2> QED BY <1>2, <2>4, <2>5, <2>7, <2>8, ReceiverSteps
<1> QED BY <1>6, <1>7

-----------------------------------------------------------------------------
(* Done and the network.                                                   *)

LEMMA DoneKeeps ==
    ASSUME LinkInv, NEW e \in End, Done(e)
    PROVE  LinkInv'
<1>1. UNCHANGED <<sendVars, recvVars>> /\ UNCHANGED linkUp
    BY DEF Done, UnregisterRecv, UnregisterEnd, DoneBase, CloseSocket
<1>2. LinkTypeOK'
    <2>1. /\ m_pfnRecvFunc' \in [End -> BOOLEAN]
          /\ m_pfnEndFunc' \in [End -> BOOLEAN]
          /\ m_hStopEvent' \in [End -> BOOLEAN]
          /\ isOpen' \in [End -> BOOLEAN]
        BY Parts DEF LinkTypeOK, Done, UnregisterRecv, UnregisterEnd, DoneBase, CloseSocket
    <2>2. doneCall' \in [End -> {"no", "recv", "end", "stop", "returned"}]
        BY Parts DEF LinkTypeOK, Done, UnregisterRecv, UnregisterEnd, DoneBase, CloseSocket
    <2> QED BY <1>1, <2>1, <2>2, Parts DEF LinkTypeOK, sendVars, recvVars
<1>3. ASSUME NEW f \in End PROVE Gapless(f)' /\ Ordered(f)' /\ SendInv(f)'
    BY <1>1, SendSidesKept
<1>4. ASSUME NEW f \in End PROVE RecvInv(f)'
    <2>1. m_pfnRecvFunc'[f] => m_pfnRecvFunc[f]
        BY Parts DEF LinkTypeOK, Done, UnregisterRecv, UnregisterEnd, DoneBase, CloseSocket
    <2>2. PICK k \in 0 .. Len(stream[Other(f)]) : HasCut(f, k)
        BY Parts DEF RecvInv
    <2>3. HasCut(f, k)'
        <3>1. StartOf(Other(f), k + 1)' = StartOf(Other(f), k + 1)
            BY <1>1 DEF StartOf, sendVars
        <3> QED BY <1>1, <2>1, <2>2, <3>1 DEF HasCut, recvVars
    <2> QED BY <1>1, <2>2, <2>3, Parts DEF RecvInv, sendVars, recvVars
<1>5. DoneInv'
    <2>1. recvThr' = recvThr /\ DoneInv /\ Client \in End
        BY <1>1, Parts DEF recvVars, End
    <2>2. CASE UnregisterRecv(e)
        <3>1. m_pfnRecvFunc'[Client] = FALSE /\ doneCall'[Client] = "recv"
              /\ recvThr[Client] # "callback"
            BY <2>1, <2>2, Parts DEF LinkTypeOK, UnregisterRecv, FuncLocked
        <3> QED BY <2>1, <3>1 DEF DoneInv
    <2>3. CASE UnregisterEnd(e)
        <3>1. CASE e = Client
            <4>1. /\ m_pfnEndFunc'[Client] = FALSE /\ m_pfnRecvFunc' = m_pfnRecvFunc
                  /\ doneCall[Client] = "recv" /\ recvThr[Client] \notin {"callback", "endcallback"}
                BY <2>1, <2>3, <3>1, Parts DEF LinkTypeOK, UnregisterEnd, FuncLocked
            <4> QED BY <2>1, <4>1 DEF DoneInv
        <3>2. CASE e # Client
            <4>1. /\ m_pfnEndFunc'[Client] = m_pfnEndFunc[Client] /\ m_pfnRecvFunc' = m_pfnRecvFunc
                  /\ doneCall'[Client] = doneCall[Client]
                BY <2>1, <2>3, <3>2, Parts DEF LinkTypeOK, UnregisterEnd
            <4> QED BY <2>1, <4>1 DEF DoneInv
        <3> QED BY <3>1, <3>2
    <2>4. CASE DoneBase(e) \/ CloseSocket(e)
        <3>1. /\ UNCHANGED <<m_pfnRecvFunc, m_pfnEndFunc>>
              /\ \/ doneCall'[Client] = doneCall[Client]
                 \/ doneCall[Client] \in {"end", "stop"}
            BY <2>1, <2>4, Parts DEF LinkTypeOK, DoneBase, CloseSocket
        <3> QED BY <2>1, <3>1 DEF DoneInv
    <2> QED BY <2>2, <2>3, <2>4 DEF Done
<1> QED BY <1>2, <1>3, <1>4, <1>5 DEF LinkInv

LEMMA UnchangedKeeps ==
    ASSUME LinkInv, UNCHANGED <<sendVars, recvVars, doneVars, m_hStopEvent>>
    PROVE  LinkInv'
<1> USE DEF sendVars, recvVars, doneVars
<1>1. LinkTypeOK'
    BY DEF LinkInv, LinkTypeOK
<1>2. ASSUME NEW f \in End PROVE Gapless(f)' /\ Ordered(f)' /\ SendInv(f)'
    BY SendSidesKept
<1>3. ASSUME NEW f \in End PROVE RecvInv(f)'
    BY OtherReceiverKept
<1>4. DoneInv'
    BY DEF LinkInv, DoneInv
<1> QED BY <1>1, <1>2, <1>3, <1>4 DEF LinkInv

-----------------------------------------------------------------------------
LEMMA LinkSteps ==
    ASSUME LinkInv, [Next]_vars
    PROVE  LinkInv'
<1>1. CASE UNCHANGED vars
    BY <1>1, UnchangedKeeps DEF vars
<1>2. CASE LinkFails
    BY <1>2, UnchangedKeeps DEF LinkFails
<1>3. ASSUME NEW e \in End, NEW p \in Packet, SendPacket(e, p) PROVE LinkInv'
    BY <1>3, SendPacketKeeps
<1>4. ASSUME NEW e \in End, SendThread(e) PROVE LinkInv'
    BY <1>4, SendWakesKeeps, SendTakesKeeps, SendResetsKeeps, WritingKeeps DEF SendThread
<1>5. ASSUME NEW e \in End, RecvThread(e) PROVE LinkInv'
    BY <1>5, ReadKeeps, CutKeeps, CutNothingKeeps, DispatchKeeps, OtherReceiverStepsKeep DEF RecvThread
<1>6. ASSUME NEW e \in End, Done(e) PROVE LinkInv'
    BY <1>6, DoneKeeps
<1> QED BY <1>1, <1>2, <1>3, <1>4, <1>5, <1>6 DEF Next

LEMMA LinkInvariance == Spec => []LinkInv
<1>1. Init => LinkInv
    BY LinkInitial
<1>2. LinkInv /\ [Next]_vars => LinkInv'
    BY LinkSteps
<1> QED BY <1>1, <1>2, PTL DEF Spec

(* The send thread never sleeps on a list with a packet in it: SendPacket  *)
(* and the reset of the event exclude each other (TCPBase.cpp:188-222).    *)
THEOREM WakeupsNotLost == Spec => []NoLostWakeup
<1>1. LinkInv => NoLostWakeup
    BY DEF LinkInv, SendInv, NoLostWakeup
<1> QED BY <1>1, LinkInvariance, PTL

(* For every split of the stream into writes and reads, every packet       *)
(* length and every buffer size the receive thread stays in step with the  *)
(* packets (packetunit.h:13-43).                                           *)
THEOREM FramingKept == Spec => []InFrame
<1>1. LinkInv => InFrame
    BY DEF LinkInv, RecvInv, InFrame
<1> QED BY <1>1, LinkInvariance, PTL

(* A Done that has returned from unregistering has no callback behind it   *)
(* (TCPClient.cpp:60-61).                                                  *)
THEOREM SilentOnceDone == Spec => []SilentAfterDone
<1>1. LinkInv => SilentAfterDone
    BY DEF LinkInv, DoneInv, SilentAfterDone
<1> QED BY <1>1, LinkInvariance, PTL

-----------------------------------------------------------------------------
(* The queue the link implements: its steps are SendPacket and a Dispatch  *)
(* that calls back.                                                        *)

LEMMA DispatchReceives ==
    ASSUME LinkInv, NEW e \in End, Dispatch(e), m_pfnRecvFunc[e]
    PROVE  F!Receive(Other(e))
<1> DEFINE o == Other(e)
           s == stream[o]
           r == [c \in End |-> given[Other(c)]]
<1>1. PICK n \in 1 .. Len(s) :
        /\ InHand(e, n)
        /\ given' = [given EXCEPT ![e] = Append(given[e], s[n].packet)]
    BY DEF Dispatch
<1>2. recvThr[e] = "dispatch" /\ pushed' = pushed
    BY DEF Dispatch, sendVars
<1>3. PICK k \in 0 .. Len(s) : HasCut(e, k)
    BY Parts DEF RecvInv
<1>4. o \in End /\ Other(o) = e /\ Len(s) \in Nat /\ given[e] \in Seq(Packet) /\ Len(given[e]) \in Nat
    BY Ends, Parts, EndTypes
<1>5. n = k
    <2>1. StartOf(o, n + 1) = StartOf(o, k + 1)
        BY <1>1, <1>3, NextStarts DEF InHand, HasCut
    <2>2. n + 1 \in 1 .. Len(s) + 1 /\ k + 1 \in 1 .. Len(s) + 1
        BY <1>4
    <2>3. n + 1 = k + 1
        BY <1>4, <2>1, <2>2, StartsDiffer
    <2> QED BY <1>4, <2>3
<1>6. Len(given[e]) + 1 = n
    BY <1>2, <1>3, <1>4, <1>5 DEF HasCut
<1>7. Ordered(o) /\ m_SendList[o] \in Seq(Packet) /\ pushed[o] \in Seq(Packet)
    BY <1>4, Parts, EndTypes
<1>8. Len(given[e]) < Len(pushed[o]) /\ s[n].packet = pushed[o][Len(given[e]) + 1]
    <2>1. Len(m_SendList[o]) \in Nat /\ Len(pushed[o]) = Len(s) + Len(m_SendList[o])
        BY <1>7 DEF Ordered, Follows
    <2>2. s[n].packet = pushed[o][n]
        BY <1>7 DEF Ordered
    <2>3. n <= Len(s) /\ n \in Nat
        BY <1>4
    <2>4. s[n].packet = pushed[o][Len(given[e]) + 1]
        BY <1>6, <2>2
    <2>5. Len(given[e]) \in Nat /\ Len(s) \in Nat
        BY <1>4
    <2>6. Len(given[e]) < Len(pushed[o])
        <3> DEFINE a == Len(given[e])
                   b == Len(s)
                   c == Len(m_SendList[o])
                   d == Len(pushed[o])
        <3>1. a \in Nat /\ b \in Nat /\ c \in Nat /\ d = b + c /\ a + 1 = n /\ n <= b
            BY <1>6, <2>1, <2>3, <2>5
        <3> HIDE DEF a, b, c, d
        <3>2. a < d
            BY <3>1
        <3> QED BY <3>2 DEF a, d
    <2> QED BY <2>4, <2>6
<1>9. r[o] = given[e]
    BY <1>4
<1>10. r' = [r EXCEPT ![o] = Append(r[o], pushed[o][Len(r[o]) + 1])]
    <2>1. given'[e] = Append(given[e], s[n].packet)
        BY <1>1, Parts DEF LinkTypeOK
    <2>2. ASSUME NEW c \in End
          PROVE  given'[Other(c)] = IF c = o THEN Append(given[e], s[n].packet) ELSE given[Other(c)]
        <3>1. CASE c = o
            BY <1>4, <2>1, <3>1
        <3>2. CASE c # o
            <4>1. Other(c) # e /\ Other(c) \in End
                BY <3>2, EndsDiffer DEF End, Other
            <4> QED BY <1>1, <3>2, <4>1, Parts DEF LinkTypeOK
        <3> QED BY <3>1, <3>2
    <2> QED BY <1>8, <1>9, <2>2
<1> QED BY <1>2, <1>8, <1>9, <1>10 DEF F!Receive

LEMMA LinkRefines ==
    ASSUME LinkInv, [Next]_vars
    PROVE  [F!Next]_(F!vars)
<1> DEFINE Stutters == pushed' = pushed /\ given' = given
<1>1. Stutters => UNCHANGED F!vars
    BY DEF F!vars
<1>2. CASE UNCHANGED vars
    BY <1>1, <1>2 DEF vars, sendVars, recvVars
<1>3. CASE LinkFails
    BY <1>1, <1>3 DEF LinkFails, sendVars, recvVars
<1>4. ASSUME NEW e \in End, NEW p \in Packet, SendPacket(e, p)
      PROVE  [F!Next]_(F!vars)
    <2>1. F!Send(e, p)
        BY <1>4 DEF SendPacket, F!Send, recvVars
    <2> QED BY <2>1 DEF F!Next
<1>5. ASSUME NEW e \in End, SendThread(e)
      PROVE  [F!Next]_(F!vars)
    <2>1. Stutters
        BY <1>5 DEF SendThread, SendWakes, SendTakes, SendResets, Write, WriteFails, recvVars
    <2> QED BY <1>1, <2>1
<1>6. ASSUME NEW e \in End, RecvThread(e)
      PROVE  [F!Next]_(F!vars)
    <2>1. CASE Dispatch(e) /\ m_pfnRecvFunc[e]
        <3>1. F!Receive(Other(e)) /\ Other(e) \in End
            BY <2>1, DispatchReceives, Ends
        <3> QED BY <3>1 DEF F!Next
    <2>2. CASE Dispatch(e) /\ ~m_pfnRecvFunc[e]
        BY <1>1, <2>2 DEF Dispatch, sendVars
    <2>3. CASE ~Dispatch(e)
        BY <1>1, <1>6, <2>3 DEF RecvThread, Read, ReadFails, Cut, CutNothing, CallbackReturns,
                               ReportEnd, EndCallbackReturns, RecvStops, sendVars
    <2> QED BY <2>1, <2>2, <2>3
<1>7. ASSUME NEW e \in End, Done(e)
      PROVE  [F!Next]_(F!vars)
    <2>1. Stutters
        BY <1>7 DEF Done, UnregisterRecv, UnregisterEnd, DoneBase, CloseSocket, sendVars, recvVars
    <2> QED BY <1>1, <2>1
<1> QED BY <1>2, <1>3, <1>4, <1>5, <1>6, <1>7 DEF Next

(* Whatever the two ends' threads, Done and the network do, the connection *)
(* is one queue per direction: what the receive callback is given is what  *)
(* SendPacket was given, from the first on, whole and in order.            *)
THEOREM LinkIsFifo == Spec => ImplementsFifo
<1>1. Init => F!Init
    <2> SUFFICES ASSUME Init PROVE F!Init
        OBVIOUS
    <2>1. [e \in End |-> given[Other(e)]] = [e \in End |-> << >>]
        BY Ends DEF Init
    <2> QED BY <2>1 DEF Init, F!Init
<1>2. LinkInv /\ [Next]_vars => [F!Next]_(F!vars)
    BY LinkRefines
<1> QED BY <1>1, <1>2, LinkInvariance, PTL DEF Spec, ImplementsFifo, F!Spec
=============================================================================
