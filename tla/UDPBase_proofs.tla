----------------------------- MODULE UDPBase_proofs -----------------------------
(***************************************************************************)
(* CUDPBase for every set of datagrams and any number of them: the order   *)
(* of what leaves, a receive thread that strays do not end, a callback     *)
(* that is silent once Stop has taken it away, and a sum that shows each   *)
(* single changed byte of the data.                                        *)
(***************************************************************************)
EXTENDS UDPBase, QueueTheorems

QueueTypeOK == m_SendList \in Seq(Own) /\ sent \in Seq(Own) /\ pushed \in Seq(Own)

(* A callback that is taken away was not running.                          *)
StopInv ==
    /\ stopCall # "no" => ~m_pfnRecvFunc
    /\ ~m_pfnRecvFunc => recvThr # "callback"

-----------------------------------------------------------------------------
LEMMA QueueSteps ==
    ASSUME QueueTypeOK, LeavesInOrder, [Next]_vars
    PROVE  (QueueTypeOK /\ LeavesInOrder)'
<1> USE DEF QueueTypeOK, LeavesInOrder
<1>1. ASSUME NEW d \in Own, SendPacket(d)
      PROVE  (QueueTypeOK /\ LeavesInOrder)'
    <2>1. pushed' = Append(pushed, d) /\ m_SendList' = Append(m_SendList, d) /\ sent' = sent
        BY <1>1 DEF SendPacket
    <2>2. Append(pushed, d) \in Seq(Own)
        BY AppendProperties
    <2>3. Append(sent \o m_SendList, d) = sent \o Append(m_SendList, d) /\ Append(m_SendList, d) \in Seq(Own)
        BY PushBehind
    <2> QED BY <2>1, <2>2, <2>3
<1>2. CASE SendTakes
    <2>1. /\ m_SendList # << >> /\ m_SendList' = Tail(m_SendList)
          /\ sent' = Append(sent, Head(m_SendList)) /\ pushed' = pushed
        BY <1>2 DEF SendTakes
    <2> QED BY <2>1, PopFront
<1>3. CASE ~SendTakes /\ ~(\E d \in Own : SendPacket(d))
    BY <1>3 DEF Next, vars, sendVars, recvVars, Start, SendThread, SendWakes, SendResets,
                RecvFrom, RecvThread, RecvFails, Skip, Dispatch, CallbackReturns,
                Unregister, SetStop
<1> QED BY <1>1, <1>2, <1>3

(* However pushes, pops and a stop interleave, what has left and what is   *)
(* in the list are together what was pushed, in the order of the pushes.   *)
THEOREM DatagramsLeaveInOrder == Spec => []LeavesInOrder
<1>1. Init => QueueTypeOK /\ LeavesInOrder
    BY EmptySeq, ConcatEmptySeq DEF Init, QueueTypeOK, LeavesInOrder
<1>2. QueueTypeOK /\ LeavesInOrder /\ [Next]_vars => (QueueTypeOK /\ LeavesInOrder)'
    BY QueueSteps
<1> QED BY <1>1, <1>2, PTL DEF Spec

-----------------------------------------------------------------------------
LEMMA StopSteps ==
    ASSUME StopInv, [Next]_vars
    PROVE  StopInv'
<1> USE DEF StopInv
<1>1. CASE RecvThread
    BY <1>1 DEF RecvThread, RecvFails, Skip, Dispatch, CallbackReturns
<1>2. CASE Unregister
    BY <1>2 DEF Unregister, FuncLocked, sendVars, recvVars
<1>3. CASE ~RecvThread /\ ~Unregister
    BY <1>3 DEF Next, vars, sendVars, recvVars, Start, SendPacket, SendThread, SendWakes,
                SendTakes, SendResets, RecvFrom, SetStop
<1> QED BY <1>1, <1>2, <1>3

(* Once Stop has taken the callback away, it neither runs nor starts.      *)
THEOREM SilentOnceStopped == Spec => []SilentAfterStop
<1>1. Init => StopInv
    BY DEF Init, StopInv
<1>2. StopInv /\ [Next]_vars => StopInv'
    BY StopSteps
<1>3. StopInv => SilentAfterStop
    BY DEF StopInv, SilentAfterStop
<1> QED BY <1>1, <1>2, <1>3, PTL DEF Spec

-----------------------------------------------------------------------------
(* The threads exist together, and a stop event is not taken back from a   *)
(* thread that has seen it.                                                *)
LifeInv ==
    /\ SurvivesStrays
    /\ sendThr = "none" => recvThr = "none"

LEMMA LifeSteps ==
    ASSUME LifeInv, [Next]_vars
    PROVE  LifeInv'
<1> USE DEF LifeInv, SurvivesStrays, Unreadable
<1>1. CASE RecvThread
    BY <1>1 DEF RecvThread, RecvFails, Skip, Dispatch, CallbackReturns, sendVars
<1>2. CASE RecvFrom
    BY <1>2 DEF RecvFrom, sendVars
<1>3. CASE ~RecvThread /\ ~RecvFrom
    BY <1>3 DEF Next, vars, sendVars, recvVars, Start, SendPacket, SendThread, SendWakes,
                SendTakes, SendResets, Unregister, SetStop
<1> QED BY <1>1, <1>2, <1>3

(* A datagram of the wrong length or with a wrong checksum never ends the  *)
(* receive thread.                                                         *)
THEOREM StraysSurvived == Spec => []SurvivesStrays
<1>1. Init => LifeInv
    BY DEF Init, LifeInv, SurvivesStrays
<1>2. LifeInv /\ [Next]_vars => LifeInv'
    BY LifeSteps
<1>3. LifeInv => SurvivesStrays
    BY DEF LifeInv
<1> QED BY <1>1, <1>2, <1>3, PTL DEF Spec

-----------------------------------------------------------------------------
(* The checksum                                                            *)

(* Addition of a byte in a BYTE has an inverse, and stays in it.           *)
LEMMA Wraps ==
    /\ \A x, b \in Byte : (x + b) % ByteCount \in Byte
    /\ \A x, y, b \in Byte : (x + b) % ByteCount = (y + b) % ByteCount => x = y
<1>1. \A z \in 0 .. 2 * ByteCount - 2 :
        z % ByteCount = IF z < ByteCount THEN z ELSE z - ByteCount
    BY DataOK
<1>2. \A x, b \in Byte : x + b \in 0 .. 2 * ByteCount - 2
    BY DataOK DEF Byte
<1> DEFINE W(z) == IF z < ByteCount THEN z ELSE z - ByteCount
<1>3. ASSUME NEW x \in Byte, NEW b \in Byte PROVE (x + b) % ByteCount = W(x + b)
    <2>1. x + b \in 0 .. 2 * ByteCount - 2
        BY <1>2
    <2> DEFINE z == x + b
    <2> HIDE DEF z
    <2>2. z % ByteCount = W(z)
        BY <1>1, <2>1 DEF z
    <2> QED BY <2>2 DEF z
<1>4. /\ \A x, b \in Byte : W(x + b) \in Byte
      /\ \A x, y, b \in Byte : W(x + b) = W(y + b) => x = y
    BY DataOK DEF Byte
<1> HIDE DEF W
<1>5. ASSUME NEW x \in Byte, NEW b \in Byte PROVE (x + b) % ByteCount \in Byte
    BY <1>3, <1>4, Zenon
<1>6. ASSUME NEW x \in Byte, NEW y \in Byte, NEW b \in Byte,
             (x + b) % ByteCount = (y + b) % ByteCount
      PROVE  x = y
    <2>1. W(x + b) = W(y + b)
        BY <1>3, <1>6, Zenon
    <2> QED BY <1>4, <2>1, Zenon
<1> QED BY <1>5, <1>6

(* The loop runs to its end and every sum is a byte.                       *)
LEMMA CheckSumsRun ==
    ASSUME NEW data \in [1 .. DataLen -> Byte]
    PROVE  /\ CheckSums(data) \in [0 .. DataLen -> Byte]
           /\ CheckSums(data)[0] = 0
           /\ \A i \in 1 .. DataLen :
                CheckSums(data)[i] = (CheckSums(data)[i - 1] + data[i]) % ByteCount
<1> DEFINE step == [i \in 1 .. DataLen |-> [b \in Byte |-> (b + data[i]) % ByteCount]]
           After(f, i) == IF i = 0 THEN 0 ELSE (f[i - 1] + data[i]) % ByteCount
           s == CheckSums(data)
<1>1. 0 \in Byte
    BY DataOK DEF Byte
<1>2. \A i \in 1 .. DataLen, b \in Byte : (b + data[i]) % ByteCount \in Byte
    BY Wraps
<1>3. step \in [1 .. DataLen -> [Byte -> Byte]]
    BY <1>2
<1>4. PICK f \in [0 .. DataLen -> Byte] : Runs(f, DataLen, 0, step)
    <2> HIDE DEF step
    <2> QED BY <1>1, <1>3, DataOK, LoopRuns
<1>5. f[0] = 0 /\ \A i \in 1 .. DataLen : f[i] = (f[i - 1] + data[i]) % ByteCount
    <2>1. \A i \in 1 .. DataLen : f[i - 1] \in Byte
        BY DataOK
    <2>2. \A i \in 1 .. DataLen : step[i][f[i - 1]] = (f[i - 1] + data[i]) % ByteCount
        BY <2>1
    <2> HIDE DEF step
    <2> QED BY <1>4, <2>2 DEF Runs
<1>6. \A i \in 0 .. DataLen : i = 0 \/ i \in 1 .. DataLen
    BY DataOK
<1>7. f = [i \in 0 .. DataLen |-> After(f, i)]
    BY <1>5, <1>6
<1>8. s = [i \in 0 .. DataLen |-> After(s, i)]
    BY <1>7 DEF CheckSums
<1> HIDE DEF s
<1>9. s[0] = 0 /\ \A i \in 1 .. DataLen : s[i] = (s[i - 1] + data[i]) % ByteCount
    <2>1. 0 \in 0 .. DataLen /\ \A i \in 1 .. DataLen : i \in 0 .. DataLen /\ i # 0
        BY DataOK
    <2>2. \A i \in 0 .. DataLen : s[i] = After(s, i)
        BY <1>8
    <2> QED BY <2>1, <2>2
<1>10. s \in [0 .. DataLen -> Byte]
    <2> DEFINE T == {n \in Nat : n <= DataLen => s[n] \in Byte}
    <2>1. 0 \in T
        BY <1>1, <1>9
    <2>2. ASSUME NEW n \in T \cap Nat PROVE n + 1 \in T
        <3> SUFFICES ASSUME n + 1 <= DataLen PROVE s[n + 1] \in Byte
            OBVIOUS
        <3>1. s[n] \in Byte /\ data[n + 1] \in Byte /\ n + 1 \in 1 .. DataLen
            BY DataOK
        <3>2. s[n + 1] = (s[n] + data[n + 1]) % ByteCount
            BY <1>9, <3>1
        <3> QED BY <3>1, <3>2, Wraps
    <2> HIDE DEF T
    <2>3. Nat \subseteq T
        BY <2>1, <2>2, NatBySteps
    <2>4. \A n \in 0 .. DataLen : s[n] \in Byte
        BY <2>3, DataOK DEF T
    <2> QED BY <1>8, <2>4
<1> QED BY <1>9, <1>10 DEF s

(* A byte that changes changes the checksum.                               *)
LEMMA OneByteShows ==
    ASSUME NEW d \in [1 .. DataLen -> Byte], NEW k \in 1 .. DataLen, NEW b \in Byte, b # d[k]
    PROVE  Sum([d EXCEPT ![k] = b]) # Sum(d)
<1> DEFINE e == [d EXCEPT ![k] = b]
           s == CheckSums(d)
           r == CheckSums(e)
<1>1. /\ e \in [1 .. DataLen -> Byte] /\ e[k] = b
      /\ \A i \in 1 .. DataLen : i # k => e[i] = d[i]
    OBVIOUS
<1> HIDE DEF e
<1>2. /\ s \in [0 .. DataLen -> Byte] /\ s[0] = 0
      /\ \A i \in 1 .. DataLen : s[i] = (s[i - 1] + d[i]) % ByteCount
    BY CheckSumsRun
<1>3. /\ r \in [0 .. DataLen -> Byte] /\ r[0] = 0
      /\ \A i \in 1 .. DataLen : r[i] = (r[i - 1] + e[i]) % ByteCount
    BY <1>1, CheckSumsRun
<1> HIDE DEF s, r
<1> DEFINE T == {n \in Nat : n <= DataLen => IF n < k THEN r[n] = s[n] ELSE r[n] # s[n]}
<1>4. 0 \in T
    BY <1>2, <1>3
<1>5. ASSUME NEW n \in T \cap Nat PROVE n + 1 \in T
    <2> SUFFICES ASSUME n + 1 <= DataLen
                 PROVE  IF n + 1 < k THEN r[n + 1] = s[n + 1] ELSE r[n + 1] # s[n + 1]
        OBVIOUS
    <2>1. n + 1 \in 1 .. DataLen /\ n \in 0 .. DataLen /\ n <= DataLen
        BY DataOK
    <2>2. s[n + 1] = (s[n] + d[n + 1]) % ByteCount /\ r[n + 1] = (r[n] + e[n + 1]) % ByteCount
        BY <1>2, <1>3, <2>1
    <2>3. s[n] \in Byte /\ r[n] \in Byte /\ d[n + 1] \in Byte /\ e[n + 1] \in Byte
        BY <1>1, <1>2, <1>3, <2>1
    <2>4. CASE n + 1 < k
        <3>1. e[n + 1] = d[n + 1] /\ r[n] = s[n]
            BY <1>1, <2>1, <2>4
        <3> QED BY <2>2, <2>4, <3>1
    <2>5. CASE n + 1 = k
        <3>1. r[n] = s[n] /\ e[n + 1] = b /\ d[n + 1] # b
            BY <1>1, <2>1, <2>5
        <3>2. /\ r[n + 1] = (e[n + 1] + s[n]) % ByteCount
              /\ s[n + 1] = (d[n + 1] + s[n]) % ByteCount
            BY <2>2, <2>3, <3>1 DEF Byte
        <3>3. r[n + 1] # s[n + 1]
            BY <2>3, <3>1, <3>2, Wraps
        <3> QED BY <2>5, <3>3
    <2>6. CASE n + 1 > k
        <3>1. e[n + 1] = d[n + 1] /\ r[n] # s[n]
            BY <1>1, <2>1, <2>6
        <3>2. r[n + 1] # s[n + 1]
            BY <2>2, <2>3, <3>1, Wraps
        <3> QED BY <2>6, <3>2
    <2> QED BY <2>4, <2>5, <2>6
<1> HIDE DEF T
<1>6. Nat \subseteq T
    BY <1>4, <1>5, NatBySteps
<1>7. r[DataLen] # s[DataLen]
    BY <1>6, DataOK DEF T
<1> QED BY <1>7 DEF Sum, e, r, s

-----------------------------------------------------------------------------
(* Dispatch gives what has the sum of its data.                            *)
GivenInv == \A p \in given : IsCheckSumVaild(p)

LEMMA GivenSteps ==
    ASSUME GivenInv, [Next]_vars
    PROVE  GivenInv'
<1> USE DEF GivenInv, IsCheckSumVaild
<1>1. CASE Dispatch
    BY <1>1 DEF Dispatch
<1>2. CASE RecvFrom \/ RecvFails \/ Skip \/ CallbackReturns
    BY <1>2 DEF RecvFrom, RecvFails, Skip, CallbackReturns
<1>3. CASE ~RecvFrom /\ ~RecvThread
    BY <1>3 DEF Next, vars, sendVars, recvVars, Start, SendPacket, SendThread, SendWakes,
                SendTakes, SendResets, Unregister, SetStop
<1> QED BY <1>1, <1>2, <1>3 DEF RecvThread

(* One changed byte of the data does not fit the sum that came with it.    *)
LEMMA DamagedIsInvalid ==
    ASSUME NEW t \in Type, NEW l \in Length, NEW d \in Data,
           NEW p \in Damaged(Sealed(t, l, d)), IsCheckSumVaild(p)
    PROVE  p.data = d
<1> DEFINE q == Sealed(t, l, d)
<1>1. q.data = d /\ q.checksum = Sum(d) /\ d \in [1 .. DataLen -> Byte]
    BY DEF Sealed, CalcCheckSum, Data
<1>2. CASE \E u \in Type : p = [q EXCEPT !.type = u]
    BY <1>2 DEF Sealed
<1>3. CASE \E u \in Length : p = [q EXCEPT !.length = u]
    BY <1>3 DEF Sealed
<1>4. CASE \E b \in Byte : p = [q EXCEPT !.checksum = b]
    BY <1>4 DEF Sealed
<1>5. ASSUME NEW i \in 1 .. DataLen, NEW b \in Byte, p = [q EXCEPT !.data[i] = b]
      PROVE  p.data = d
    <2>1. p.data = [d EXCEPT ![i] = b] /\ p.checksum = Sum(d)
        BY <1>5 DEF Sealed, CalcCheckSum
    <2>2. Sum([d EXCEPT ![i] = b]) = Sum(d)
        BY <2>1 DEF IsCheckSumVaild
    <2>3. b = d[i]
        BY <1>1, <2>2, OneByteShows
    <2> QED BY <1>1, <2>1, <2>3
<1> QED BY <1>2, <1>3, <1>4, <1>5 DEF Damaged

(* Whatever datagrams come, from whomever: of one that a single changed    *)
(* byte damaged the callback is never given data other than was sent, for  *)
(* every length of the data and every size of a byte.                      *)
THEOREM DamageNeverGiven == Spec => []DamageShows
<1>1. Init => GivenInv
    BY DEF Init, GivenInv
<1>2. GivenInv /\ [Next]_vars => GivenInv'
    BY GivenSteps
<1>3. GivenInv => DamageShows
    BY DamagedIsInvalid DEF GivenInv, DamageShows
<1> QED BY <1>1, <1>2, <1>3, PTL DEF Spec
=============================================================================
