------------------------ MODULE DataStreamBuf_proofs ------------------------
(***************************************************************************)
(* The stream buffer is a queue of bytes, for every set of bytes, every    *)
(* length of a header and every number and size of reads.  The bytes of a  *)
(* list of blocks are a FlattenSeq; the loop of GetDataCore moves them     *)
(* from the front of the list to the end of what it gives and loses none.  *)
(***************************************************************************)
EXTENDS DataStreamBuf, QueueTheorems

-----------------------------------------------------------------------------
(* FlattenSeq, from its front and from its end                             *)

(* The concatenations of ss, shorter ones first.                           *)
Partial(ss, g, T) ==
    /\ g \in [0 .. Len(ss) -> Seq(T)]
    /\ g[0] = << >>
    /\ \A i \in 1 .. Len(ss) : g[i] = g[i - 1] \o ss[i]

LEMMA FlattenRuns ==
    ASSUME NEW T, NEW ss \in Seq(Seq(T))
    PROVE  \E g : Partial(ss, g, T) /\ FlattenSeq(ss) = g[Len(ss)]
<1> DEFINE n == Len(ss)
<1>1. n \in Nat /\ \A i \in 1 .. n : ss[i] \in Seq(T)
    OBVIOUS
<1>2. << >> \in Seq(T)
    OBVIOUS
<1>3. CASE n = 0
    <2>1. ss = << >>
        BY <1>3
    <2>2. Partial(ss, [i \in 0 .. 0 |-> << >>], T)
        BY <1>2, <1>3 DEF Partial
    <2>3. FlattenSeq(ss) = << >>
        BY <2>1 DEF FlattenSeq
    <2> QED BY <1>3, <2>2, <2>3
<1>4. CASE n # 0
    <2> DEFINE turn == [i \in 1 .. n |-> [s \in Seq(T) |-> s \o ss[i]]]
    <2>1. turn \in [1 .. n -> [Seq(T) -> Seq(T)]]
        BY <1>1, ConcatProperties
    <2>2. PICK g \in [0 .. n -> Seq(T)] : Runs(g, n, << >>, turn)
        <3>1. n \in Nat
            BY <1>1
        <3> HIDE DEF turn, n
        <3> QED BY <1>2, <2>1, <3>1, LoopRuns
    <2>3. g[0] = << >> /\ \A i \in 1 .. n : g[i] = g[i - 1] \o ss[i]
        <3>1. \A i \in 1 .. n : i \in 0 .. n /\ i - 1 \in 0 .. n /\ i # 0
            BY <1>1
        <3>2. \A i \in 1 .. n : g[i - 1] \in Seq(T)
            BY <3>1
        <3>3. \A i \in 1 .. n : turn[i][g[i - 1]] = g[i - 1] \o ss[i]
            BY <3>2
        <3> QED BY <2>2, <3>3 DEF Runs
    <2> DEFINE f == [i \in 1 .. n |-> g[i]]
               Flat(h) == h = [i \in 1 .. n |-> IF i = 1 THEN ss[i] ELSE h[i - 1] \o ss[i]]
    <2>4. Flat(f)
        <3>1. ASSUME NEW i \in 1 .. n PROVE f[i] = IF i = 1 THEN ss[i] ELSE f[i - 1] \o ss[i]
            <4>1. CASE i = 1
                <5>1. ss[i] \in Seq(T) /\ g[i] = g[i - 1] \o ss[i]
                    BY <1>1, <2>3
                <5>2. i - 1 = 0
                    BY <4>1
                <5>3. g[i] = << >> \o ss[i]
                    BY <2>3, <5>1, <5>2
                <5> QED BY <4>1, <5>1, <5>3, ConcatEmptySeq
            <4>2. CASE i # 1
                <5>1. i - 1 \in 1 .. n
                    BY <1>1, <4>2
                <5> QED BY <2>3, <4>2, <5>1
            <4> QED BY <4>1, <4>2
        <3> QED BY <3>1
    <2> DEFINE F == CHOOSE h : Flat(h)
    <2>5. Flat(F)
        BY <2>4
    <2>6. FlattenSeq(ss) = F[n]
        BY <1>4 DEF FlattenSeq
    <2> HIDE DEF F, f
    <2> DEFINE U == {i \in Nat : i \in 1 .. n => F[i] = g[i]}
    <2>7. 0 \in U
        OBVIOUS
    <2>8. ASSUME NEW i \in U \cap Nat PROVE i + 1 \in U
        <3> SUFFICES ASSUME i + 1 \in 1 .. n PROVE F[i + 1] = g[i + 1]
            OBVIOUS
        <3>1. CASE i = 0
            <4>1. 1 \in 1 .. n /\ 1 - 1 = 0 /\ i + 1 = 1
                BY <1>1, <3>1
            <4>2. g[1] = g[0] \o ss[1] /\ ss[1] \in Seq(T) /\ F[1] = ss[1]
                <5>1. F[1] = IF 1 = 1 THEN ss[1] ELSE F[1 - 1] \o ss[1]
                    BY <2>5, <4>1
                <5>2. g[1] = g[1 - 1] \o ss[1]
                    BY <2>3, <4>1
                <5> QED BY <1>1, <4>1, <5>1, <5>2
            <4>3. g[1] = ss[1]
                BY <2>3, <4>2, ConcatEmptySeq
            <4> QED BY <4>1, <4>2, <4>3
        <3>2. CASE i # 0
            <4>1. i \in 1 .. n /\ (i + 1) - 1 = i /\ i + 1 # 1
                BY <1>1, <3>2
            <4>2. F[i + 1] = F[i] \o ss[i + 1]
                BY <2>5, <4>1
            <4> QED BY <2>3, <4>1, <4>2
        <3> QED BY <3>1, <3>2
    <2> HIDE DEF U
    <2>9. n \in U
        BY <1>1, <2>7, <2>8, NatBySteps
    <2>10. F[n] = g[n]
        BY <1>1, <1>4, <2>9 DEF U
    <2> QED BY <2>2, <2>3, <2>6, <2>10 DEF Partial
<1> QED BY <1>3, <1>4

LEMMA FlattenType ==
    ASSUME NEW T, NEW ss \in Seq(Seq(T))
    PROVE  FlattenSeq(ss) \in Seq(T)
<1>1. PICK g : Partial(ss, g, T) /\ FlattenSeq(ss) = g[Len(ss)]
    BY FlattenRuns
<1> QED BY <1>1 DEF Partial

LEMMA FlattenAppend ==
    ASSUME NEW T, NEW ss \in Seq(Seq(T)), NEW x \in Seq(T)
    PROVE  FlattenSeq(Append(ss, x)) = FlattenSeq(ss) \o x
<1> DEFINE tt == Append(ss, x)
           n == Len(ss)
<1>1. /\ n \in Nat /\ tt \in Seq(Seq(T)) /\ Len(tt) = n + 1 /\ tt[n + 1] = x
      /\ \A i \in 1 .. n : tt[i] = ss[i]
    BY AppendProperties
<1>2. PICK g : Partial(ss, g, T) /\ FlattenSeq(ss) = g[n]
    BY FlattenRuns
<1> HIDE DEF tt, n
<1>3. PICK h : Partial(tt, h, T) /\ FlattenSeq(tt) = h[n + 1]
    BY <1>1, FlattenRuns
<1> DEFINE U == {i \in Nat : i <= n => h[i] = g[i]}
<1>4. 0 \in U
    BY <1>2, <1>3 DEF Partial
<1>5. ASSUME NEW i \in U \cap Nat PROVE i + 1 \in U
    <2> SUFFICES ASSUME i + 1 <= n PROVE h[i + 1] = g[i + 1]
        OBVIOUS
    <2>1. i + 1 \in 1 .. n /\ i + 1 \in 1 .. n + 1 /\ (i + 1) - 1 = i /\ i <= n
        BY <1>1
    <2>2. h[i + 1] = h[i] \o tt[i + 1] /\ g[i + 1] = g[i] \o ss[i + 1]
        BY <1>1, <1>2, <1>3, <2>1 DEF Partial, n
    <2> QED BY <1>1, <2>1, <2>2
<1> HIDE DEF U
<1>6. n \in U
    BY <1>1, <1>4, <1>5, NatBySteps
<1>7. h[n] = g[n]
    BY <1>1, <1>6 DEF U
<1>8. h[n + 1] = h[n] \o x
    <2>1. n + 1 \in 1 .. Len(tt) /\ (n + 1) - 1 = n
        BY <1>1
    <2> QED BY <1>1, <1>3, <2>1 DEF Partial
<1> QED BY <1>2, <1>3, <1>7, <1>8 DEF tt

LEMMA FlattenFront ==
    ASSUME NEW T, NEW ss \in Seq(Seq(T)), NEW x \in Seq(T)
    PROVE  FlattenSeq(<<x>> \o ss) = x \o FlattenSeq(ss)
<1> DEFINE tt == <<x>> \o ss
           n == Len(ss)
<1>1. /\ n \in Nat /\ tt \in Seq(Seq(T)) /\ Len(tt) = n + 1 /\ tt[1] = x
      /\ \A i \in 1 .. n : tt[i + 1] = ss[i] /\ ss[i] \in Seq(T)
    BY ConcatProperties
<1>2. PICK g : Partial(ss, g, T) /\ FlattenSeq(ss) = g[n]
    BY FlattenRuns
<1> HIDE DEF tt, n
<1>3. PICK h : Partial(tt, h, T) /\ FlattenSeq(tt) = h[n + 1]
    BY <1>1, FlattenRuns
<1> DEFINE U == {i \in Nat : i <= n => h[i + 1] = x \o g[i]}
<1>4. 0 \in U
    <2>1. 1 \in 1 .. Len(tt) /\ 1 - 1 = 0
        BY <1>1
    <2>2. h[1] = << >> \o x /\ g[0] = << >>
        BY <1>1, <1>2, <1>3, <2>1 DEF Partial
    <2>3. << >> \o x = x /\ x \o << >> = x
        BY ConcatEmptySeq
    <2> QED BY <2>2, <2>3
<1>5. ASSUME NEW i \in U \cap Nat PROVE i + 1 \in U
    <2> SUFFICES ASSUME i + 1 <= n PROVE h[(i + 1) + 1] = x \o g[i + 1]
        OBVIOUS
    <2>1. /\ i + 1 \in 1 .. n /\ (i + 1) + 1 \in 1 .. n + 1 /\ (i + 1) - 1 = i /\ i <= n
          /\ ((i + 1) + 1) - 1 = i + 1 /\ i \in 0 .. n
        BY <1>1
    <2>2. h[(i + 1) + 1] = h[i + 1] \o tt[(i + 1) + 1] /\ g[i + 1] = g[i] \o ss[i + 1]
        BY <1>1, <1>2, <1>3, <2>1 DEF Partial, n
    <2>3. h[i + 1] = x \o g[i] /\ tt[(i + 1) + 1] = ss[i + 1]
        <3>1. i \in Nat /\ (i <= n => h[i + 1] = x \o g[i])
            OBVIOUS
        <3> QED BY <1>1, <2>1, <3>1
    <2>4. g[i] \in Seq(T) /\ ss[i + 1] \in Seq(T)
        BY <1>1, <1>2, <2>1 DEF Partial, n
    <2>5. \A a, b \in Seq(T) : (x \o a) \o b = x \o (a \o b)
        BY ConcatAssociative
    <2> QED BY <2>2, <2>3, <2>4, <2>5
<1> HIDE DEF U
<1>6. n \in U
    BY <1>1, <1>4, <1>5, NatBySteps
<1>7. h[n + 1] = x \o g[n]
    BY <1>1, <1>6 DEF U
<1> QED BY <1>2, <1>3, <1>7 DEF tt

-----------------------------------------------------------------------------
(* The blocks and the bytes in them                                        *)

(* No block is kept in the list once all of it is read.                    *)
Blocks == {b \in [pBuffer : Seq(Byte), m_dwIdx : Nat] : b.m_dwIdx < Len(b.pBuffer)}

LEMMA BlockFacts ==
    ASSUME NEW b \in Blocks
    PROVE  /\ b.pBuffer \in Seq(Byte) /\ b.m_dwIdx \in Nat /\ Len(b.pBuffer) \in Nat
           /\ b.m_dwIdx < Len(b.pBuffer)
           /\ b = [pBuffer |-> b.pBuffer, m_dwIdx |-> b.m_dwIdx]
           /\ Unread(b) \in Seq(Byte)
           /\ Len(Unread(b)) = Len(b.pBuffer) - b.m_dwIdx
<1>1. b.pBuffer \in Seq(Byte) /\ b.m_dwIdx \in Nat /\ b.m_dwIdx < Len(b.pBuffer)
    BY DEF Blocks
<1>2. b = [pBuffer |-> b.pBuffer, m_dwIdx |-> b.m_dwIdx]
    BY DEF Blocks
<1>3. Len(b.pBuffer) \in Nat
    BY <1>1, LenProperties
<1>4. b.m_dwIdx \in 0 .. Len(b.pBuffer)
    BY <1>1, <1>3
<1> QED BY <1>1, <1>2, <1>3, <1>4, SplitAt DEF Unread

LEMMA NewBlock ==
    ASSUME NEW data \in Seq(Byte), data # << >>
    PROVE  Block(data) \in Blocks /\ Unread(Block(data)) = data
<1>1. Len(data) \in Nat \ {0}
    BY EmptySeq
<1>2. Block(data) \in Blocks
    BY <1>1 DEF Block, Blocks
<1>3. Unread(Block(data)) = SubSeq(data, 1, Len(data))
    BY DEF Unread, Block
<1> QED BY <1>2, <1>3, SubSeqFull

Unreads(list) == [i \in DOMAIN list |-> Unread(list[i])]

LEMMA UnreadsType ==
    ASSUME NEW list \in Seq(Blocks)
    PROVE  /\ Unreads(list) \in Seq(Seq(Byte))
           /\ Len(Unreads(list)) = Len(list)
           /\ \A i \in 1 .. Len(list) : Unreads(list)[i] = Unread(list[i])
<1>1. /\ Len(list) \in Nat /\ DOMAIN list = 1 .. Len(list)
      /\ \A i \in 1 .. Len(list) : list[i] \in Blocks
    BY LenProperties, ElementOfSeq
<1>2. \A i \in 1 .. Len(list) : Unread(list[i]) \in Seq(Byte)
    BY <1>1, BlockFacts
<1>3. Unreads(list) \in [1 .. Len(list) -> Seq(Byte)]
    BY <1>1, <1>2 DEF Unreads
<1>4. Unreads(list) \in Seq(Seq(Byte))
    BY <1>1, <1>3, SeqDef
<1>5. DOMAIN Unreads(list) = 1 .. Len(list)
    BY <1>3
<1>6. Len(Unreads(list)) = Len(list)
    BY <1>1, <1>4, <1>5, LenProperties
<1> QED BY <1>1, <1>4, <1>6 DEF Unreads

LEMMA BytesType ==
    ASSUME NEW list \in Seq(Blocks)
    PROVE  BytesOf(list) \in Seq(Byte) /\ Len(BytesOf(list)) \in Nat
<1>1. BytesOf(list) \in Seq(Byte)
    BY UnreadsType, FlattenType DEF BytesOf, Unreads
<1> QED BY <1>1, LenProperties

LEMMA BytesNone == BytesOf(<< >>) = << >>
BY DEF BytesOf, FlattenSeq

LEMMA BytesBehind ==
    ASSUME NEW list \in Seq(Blocks), NEW b \in Blocks
    PROVE  /\ Append(list, b) \in Seq(Blocks)
           /\ BytesOf(Append(list, b)) = BytesOf(list) \o Unread(b)
<1> DEFINE more == Append(list, b)
<1>1. /\ more \in Seq(Blocks) /\ Len(more) = Len(list) + 1 /\ more[Len(list) + 1] = b
      /\ \A i \in 1 .. Len(list) : more[i] = list[i]
    BY AppendProperties
<1>2. Len(list) \in Nat
    BY LenProperties
<1>3. Unread(b) \in Seq(Byte)
    BY BlockFacts
<1>4. /\ Unreads(list) \in Seq(Seq(Byte)) /\ Len(Unreads(list)) = Len(list)
      /\ \A i \in 1 .. Len(list) : Unreads(list)[i] = Unread(list[i])
    BY UnreadsType
<1> HIDE DEF more
<1>5. /\ Unreads(more) \in Seq(Seq(Byte)) /\ Len(Unreads(more)) = Len(more)
      /\ \A i \in 1 .. Len(more) : Unreads(more)[i] = Unread(more[i])
    BY <1>1, UnreadsType
<1>6. Unreads(more) = Append(Unreads(list), Unread(b))
    <2> DEFINE a == Append(Unreads(list), Unread(b))
    <2>1. /\ a \in Seq(Seq(Byte)) /\ Len(a) = Len(list) + 1 /\ a[Len(list) + 1] = Unread(b)
          /\ \A i \in 1 .. Len(list) : a[i] = Unread(list[i])
        BY <1>3, <1>4, AppendProperties
    <2> HIDE DEF a
    <2>2. ASSUME NEW i \in 1 .. Len(more) PROVE Unreads(more)[i] = a[i]
        <3>1. CASE i = Len(list) + 1
            BY <1>1, <1>5, <2>1, <3>1
        <3>2. CASE i # Len(list) + 1
            <4>1. i \in 1 .. Len(list)
                BY <1>1, <1>2, <3>2
            <4> QED BY <1>1, <1>5, <2>1, <4>1
        <3> QED BY <3>1, <3>2
    <2>3. Unreads(more) = a
        BY <1>1, <1>5, <2>1, <2>2, SeqEqual
    <2> QED BY <2>3 DEF a
<1>7. FlattenSeq(Unreads(more)) = FlattenSeq(Unreads(list)) \o Unread(b)
    BY <1>3, <1>4, <1>6, FlattenAppend
<1> QED BY <1>1, <1>7 DEF BytesOf, Unreads, more

LEMMA BytesFront ==
    ASSUME NEW list \in Seq(Blocks), NEW b \in Blocks
    PROVE  /\ <<b>> \o list \in Seq(Blocks) /\ Len(<<b>> \o list) = Len(list) + 1
           /\ BytesOf(<<b>> \o list) = Unread(b) \o BytesOf(list)
<1> DEFINE more == <<b>> \o list
<1>0. <<b>> \in Seq(Blocks) /\ Len(<<b>>) = 1 /\ <<b>>[1] = b
    OBVIOUS
<1>1. Len(list) \in Nat
    BY LenProperties
<1>2. /\ more \in Seq(Blocks) /\ Len(more) = Len(list) + 1 /\ more[1] = b
      /\ \A i \in 2 .. Len(list) + 1 : more[i] = list[i - 1]
    <2>1. /\ more \in Seq(Blocks) /\ Len(more) = 1 + Len(list)
          /\ \A i \in 1 .. 1 + Len(list) : more[i] = IF i <= 1 THEN <<b>>[i] ELSE list[i - 1]
        BY <1>0, ConcatProperties
    <2> HIDE DEF more
    <2> QED BY <1>0, <1>1, <2>1
<1>3. Unread(b) \in Seq(Byte)
    BY BlockFacts
<1>4. /\ Unreads(list) \in Seq(Seq(Byte)) /\ Len(Unreads(list)) = Len(list)
      /\ \A i \in 1 .. Len(list) : Unreads(list)[i] = Unread(list[i])
    BY UnreadsType
<1> HIDE DEF more
<1>5. /\ Unreads(more) \in Seq(Seq(Byte)) /\ Len(Unreads(more)) = Len(more)
      /\ \A i \in 1 .. Len(more) : Unreads(more)[i] = Unread(more[i])
    BY <1>2, UnreadsType
<1>6. Unreads(more) = <<Unread(b)>> \o Unreads(list)
    <2> DEFINE a == <<Unread(b)>> \o Unreads(list)
    <2>1. /\ a \in Seq(Seq(Byte)) /\ Len(a) = Len(list) + 1 /\ a[1] = Unread(b)
          /\ \A i \in 2 .. Len(list) + 1 : a[i] = Unread(list[i - 1])
        <3>1. /\ <<Unread(b)>> \in Seq(Seq(Byte)) /\ Len(<<Unread(b)>>) = 1
              /\ <<Unread(b)>>[1] = Unread(b)
            BY <1>3
        <3>2. /\ a \in Seq(Seq(Byte)) /\ Len(a) = 1 + Len(list)
              /\ \A i \in 1 .. 1 + Len(list) :
                   a[i] = IF i <= 1 THEN <<Unread(b)>>[i] ELSE Unreads(list)[i - 1]
            BY <1>4, <3>1, ConcatProperties
        <3> HIDE DEF a
        <3>3. \A i \in 2 .. Len(list) + 1 :
                i - 1 \in 1 .. Len(list) /\ i \in 1 .. 1 + Len(list) /\ ~(i <= 1)
            BY <1>1
        <3>4. \A i \in 2 .. Len(list) + 1 : a[i] = Unread(list[i - 1])
            BY <1>4, <3>2, <3>3
        <3>5. a[1] = Unread(b)
            BY <1>1, <3>1, <3>2
        <3> QED BY <1>1, <3>2, <3>4, <3>5
    <2> HIDE DEF a
    <2>2. ASSUME NEW i \in 1 .. Len(more) PROVE Unreads(more)[i] = a[i]
        <3>1. CASE i = 1
            BY <1>1, <1>2, <1>5, <2>1, <3>1
        <3>2. CASE i # 1
            <4>1. i \in 2 .. Len(list) + 1
                BY <1>1, <1>2, <3>2
            <4> QED BY <1>2, <1>5, <2>1, <4>1
        <3> QED BY <3>1, <3>2
    <2>3. Unreads(more) = a
        BY <1>2, <1>5, <2>1, <2>2, SeqEqual
    <2> QED BY <2>3 DEF a
<1>7. FlattenSeq(Unreads(more)) = Unread(b) \o FlattenSeq(Unreads(list))
    BY <1>3, <1>4, <1>6, FlattenFront
<1> QED BY <1>2, <1>7 DEF BytesOf, Unreads, more

LEMMA BytesHead ==
    ASSUME NEW list \in Seq(Blocks), list # << >>
    PROVE  /\ Head(list) \in Blocks /\ Tail(list) \in Seq(Blocks)
           /\ Len(Tail(list)) = Len(list) - 1
           /\ BytesOf(list) = Unread(Head(list)) \o BytesOf(Tail(list))
<1>1. Head(list) \in Blocks /\ Tail(list) \in Seq(Blocks) /\ Len(Tail(list)) = Len(list) - 1
    BY HeadTailProperties
<1>2. list = <<Head(list)>> \o Tail(list)
    <2>1. << >> \in Seq(Blocks)
        OBVIOUS
    <2>2. << >> \o list = Append(<< >>, Head(list)) \o Tail(list)
        BY <2>1, PopFront
    <2>3. Append(<< >>, Head(list)) = <<Head(list)>>
        OBVIOUS
    <2> QED BY <2>2, <2>3, ConcatEmptySeq
<1> QED BY <1>1, <1>2, BytesFront

-----------------------------------------------------------------------------
(* GetDataCore                                                             *)

LEMMA MinOfTwo ==
    ASSUME NEW a \in Nat, NEW b \in Nat
    PROVE  Min({a, b}) = IF a <= b THEN a ELSE b
<1> DEFINE m == IF a <= b THEN a ELSE b
<1>1. m \in {a, b} /\ \A y \in {a, b} : m <= y
    OBVIOUS
<1>2. \A x \in {a, b} : (\A y \in {a, b} : x <= y) => x = m
    OBVIOUS
<1> HIDE DEF m
<1>3. Min({a, b}) = m
    BY <1>1, <1>2 DEF Min
<1> QED BY <1>3 DEF m

(* A state of the loop that has lost no byte of all and counts what it     *)
(* still wants of w.                                                       *)
Loop(all, w) ==
    {s \in [data : Seq(Byte), list : Seq(Blocks), wantread : Nat] :
        s.data \o BytesOf(s.list) = all /\ Len(s.data) + s.wantread = w}

LEMMA ReadBlockKeeps ==
    ASSUME NEW all, NEW w, NEW s \in Loop(all, w), s.list # << >>, s.wantread # 0
    PROVE  /\ ReadBlock(s) \in Loop(all, w)
           /\ ReadBlock(s).wantread = 0 \/ Len(ReadBlock(s).list) = Len(s.list) - 1
<1> DEFINE b == Head(s.list)
           rest == Tail(s.list)
           unread == Len(b.pBuffer) - b.m_dwIdx
           cur == Min({unread, s.wantread})
           piece == SubSeq(b.pBuffer, b.m_dwIdx + 1, b.m_dwIdx + cur)
           left == [b EXCEPT !.m_dwIdx = @ + cur]
           r == ReadBlock(s)
<1>1. /\ s.data \in Seq(Byte) /\ s.list \in Seq(Blocks) /\ s.wantread \in Nat
      /\ s.data \o BytesOf(s.list) = all /\ Len(s.data) + s.wantread = w
    BY DEF Loop
<1>2. /\ b \in Blocks /\ rest \in Seq(Blocks) /\ Len(rest) = Len(s.list) - 1
      /\ BytesOf(s.list) = Unread(b) \o BytesOf(rest)
    BY <1>1, BytesHead
<1>3. r = [data |-> s.data \o piece,
           list |-> IF cur < unread THEN <<left>> \o rest ELSE rest,
           wantread |-> s.wantread - cur]
    BY DEF ReadBlock
<1> HIDE DEF r, b, rest
<1>4. /\ b.pBuffer \in Seq(Byte) /\ b.m_dwIdx \in Nat /\ Len(b.pBuffer) \in Nat
      /\ b.m_dwIdx < Len(b.pBuffer) /\ b = [pBuffer |-> b.pBuffer, m_dwIdx |-> b.m_dwIdx]
      /\ Unread(b) \in Seq(Byte)
    BY <1>2, BlockFacts
<1>5. unread \in Nat /\ cur = IF unread <= s.wantread THEN unread ELSE s.wantread
    <2>1. unread \in Nat
        BY <1>4
    <2> HIDE DEF unread
    <2> QED BY <1>1, <2>1, MinOfTwo
<1> HIDE DEF cur
<1>6. /\ cur \in Nat /\ cur <= unread /\ s.wantread - cur \in Nat
      /\ cur < unread => s.wantread - cur = 0
    <2> HIDE DEF unread
    <2> QED BY <1>1, <1>5
<1>7. BytesOf(rest) \in Seq(Byte)
    BY <1>2, BytesType
<1>8. piece \in Seq(Byte) /\ Len(piece) = cur
    <2>1. /\ b.m_dwIdx + 1 \in 1 .. Len(b.pBuffer) + 1
          /\ b.m_dwIdx + cur \in (b.m_dwIdx + 1) - 1 .. Len(b.pBuffer)
        BY <1>4, <1>6
    <2>2. piece \in Seq(Byte) /\ Len(piece) = (b.m_dwIdx + cur) - (b.m_dwIdx + 1) + 1
        BY <1>4, <2>1, PieceOf
    <2>3. \A i, c \in Nat : (i + c) - (i + 1) + 1 = c
        OBVIOUS
    <2> HIDE DEF piece
    <2> QED BY <1>4, <1>6, <2>2, <2>3
<1>9. Unread(b) = piece \o SubSeq(b.pBuffer, b.m_dwIdx + cur + 1, Len(b.pBuffer))
    <2>1. /\ b.m_dwIdx + 1 \in 1 .. Len(b.pBuffer) + 1
          /\ b.m_dwIdx + cur \in (b.m_dwIdx + 1) - 1 .. Len(b.pBuffer)
          /\ Len(b.pBuffer) \in b.m_dwIdx + cur .. Len(b.pBuffer)
        BY <1>4, <1>6
    <2> QED BY <1>4, <2>1, ConcatAdjacentSubSeq DEF Unread
<1>10. Len(s.data \o piece) + (s.wantread - cur) = w /\ s.data \o piece \in Seq(Byte)
    <2>1. Len(s.data \o piece) = Len(s.data) + Len(piece) /\ s.data \o piece \in Seq(Byte)
        BY <1>1, <1>8, ConcatProperties
    <2>2. Len(s.data) \in Nat
        BY <1>1, LenProperties
    <2>3. Len(s.data \o piece) = Len(s.data) + cur
        BY <1>8, <2>1
    <2>4. \A i, c, n \in Nat : (i + c) + (n - c) = i + n
        OBVIOUS
    <2>5. (Len(s.data) + cur) + (s.wantread - cur) = Len(s.data) + s.wantread
        BY <1>1, <1>6, <2>2, <2>4
    <2> HIDE DEF piece, unread
    <2> QED BY <1>1, <2>1, <2>3, <2>5
<1>11. \A x, y, z \in Seq(Byte) : (x \o y) \o z = x \o (y \o z)
    BY ConcatAssociative
<1>12. CASE cur < unread
    <2>1. left = [pBuffer |-> b.pBuffer, m_dwIdx |-> b.m_dwIdx + cur]
        BY <1>4
    <2>2. left \in Blocks
        BY <1>4, <1>6, <1>12, <2>1 DEF Blocks
    <2>3. Unread(left) = SubSeq(b.pBuffer, b.m_dwIdx + cur + 1, Len(b.pBuffer))
        BY <2>1 DEF Unread
    <2>4. Unread(left) \in Seq(Byte)
        BY <2>2, BlockFacts
    <2> HIDE DEF left, piece
    <2>5. /\ <<left>> \o rest \in Seq(Blocks)
          /\ BytesOf(<<left>> \o rest) = Unread(left) \o BytesOf(rest)
        BY <1>2, <2>2, BytesFront
    <2>6. (s.data \o piece) \o BytesOf(<<left>> \o rest) = all
        <3>1. (s.data \o piece) \o (Unread(left) \o BytesOf(rest))
                = s.data \o (piece \o (Unread(left) \o BytesOf(rest)))
            <4>1. Unread(left) \o BytesOf(rest) \in Seq(Byte)
                BY <1>7, <2>4, ConcatProperties
            <4> QED BY <1>1, <1>8, <1>11, <4>1
        <3>2. piece \o (Unread(left) \o BytesOf(rest)) = (piece \o Unread(left)) \o BytesOf(rest)
            BY <1>7, <1>8, <1>11, <2>4
        <3> QED BY <1>1, <1>2, <1>9, <2>3, <2>5, <3>1, <3>2
    <2>7. r = [data |-> s.data \o piece, list |-> <<left>> \o rest, wantread |-> s.wantread - cur]
        BY <1>3, <1>12
    <2>8. r \in Loop(all, w)
        BY <1>6, <1>10, <2>5, <2>6, <2>7 DEF Loop
    <2>9. r.wantread = 0
        BY <1>6, <1>12, <2>7
    <2> QED BY <2>8, <2>9 DEF r
<1>13. CASE ~(cur < unread)
    <2>1. cur = unread
        BY <1>5, <1>6, <1>13
    <2>2. Unread(b) = piece
        BY <2>1, <1>4 DEF Unread
    <2> HIDE DEF left, piece
    <2>3. (s.data \o piece) \o BytesOf(rest) = all
        <3>1. s.data \o (piece \o BytesOf(rest)) = all
            BY <1>1, <1>2, <2>2
        <3> QED BY <1>1, <1>7, <1>8, <1>11, <3>1
    <2>4. r = [data |-> s.data \o piece, list |-> rest, wantread |-> s.wantread - cur]
        BY <1>3, <1>13
    <2>5. r \in Loop(all, w)
        BY <1>2, <1>6, <1>10, <2>3, <2>4 DEF Loop
    <2>6. Len(r.list) = Len(s.list) - 1
        BY <1>2, <2>4 DEF rest
    <2> QED BY <2>5, <2>6 DEF r
<1> QED BY <1>12, <1>13

(* What GetDataCore reads, no more being asked for than there is.          *)
LEMMA GetDataCoreGives ==
    ASSUME NEW list \in Seq(Blocks), NEW w \in 0 .. Len(BytesOf(list))
    PROVE  LET r == GetDataCore(list, w)
           IN  /\ r.data \in Seq(Byte) /\ Len(r.data) = w
               /\ r.list \in Seq(Blocks)
               /\ BytesOf(list) = r.data \o BytesOf(r.list)
<1> DEFINE all == BytesOf(list)
           n == Len(list)
           S == Loop(all, w)
           x == [data |-> << >>, list |-> list, wantread |-> w]
           Turn(s) == IF s.list = << >> \/ s.wantread = 0 THEN s ELSE ReadBlock(s)
           step == [i \in 1 .. n |-> [s \in S |-> Turn(s)]]
           Run(h) == h = [i \in 0 .. n |-> IF i = 0 THEN x ELSE Turn(h[i - 1])]
           h == CHOOSE h : Run(h)
           r == GetDataCore(list, w)
<1>1. n \in Nat /\ all \in Seq(Byte) /\ Len(all) \in Nat /\ w \in Nat
    BY LenProperties, BytesType
<1>2. x \in S
    <2>1. << >> \in Seq(Byte) /\ Len(<< >>) = 0 /\ << >> \o all = all
        BY <1>1, EmptySeq, ConcatEmptySeq
    <2> QED BY <1>1, <2>1 DEF Loop
<1>3. \A s \in S : Turn(s) \in S
    BY ReadBlockKeeps
<1>4. r = h[n]
    BY DEF GetDataCore
<1> HIDE DEF r, Turn, x
<1>5. Run(h)
    <2>1. step \in [1 .. n -> [S -> S]]
        BY <1>3
    <2>2. PICK f \in [0 .. n -> S] : Runs(f, n, x, step)
        <3> HIDE DEF step, S, n
        <3> QED BY <1>1, <1>2, <2>1, LoopRuns
    <2>3. f[0] = x /\ \A i \in 1 .. n : f[i] = Turn(f[i - 1])
        <3>1. \A i \in 1 .. n : i - 1 \in 0 .. n
            BY <1>1
        <3>2. \A i \in 1 .. n : f[i - 1] \in S
            BY <3>1
        <3>3. \A i \in 1 .. n : step[i][f[i - 1]] = Turn(f[i - 1])
            BY <3>2
        <3> HIDE DEF step, S
        <3> QED BY <2>2, <3>3 DEF Runs
    <2>4. ASSUME NEW i \in 0 .. n PROVE f[i] = IF i = 0 THEN x ELSE Turn(f[i - 1])
        <3>1. CASE i = 0
            BY <2>3, <3>1
        <3>2. CASE i # 0
            <4>1. i \in 1 .. n
                BY <1>1, <3>2
            <4> QED BY <2>3, <3>2, <4>1
        <3> QED BY <3>1, <3>2
    <2>5. Run(f)
        <3> HIDE DEF S
        <3> QED BY <2>4
    <2> HIDE DEF Run
    <2> QED BY <2>5
<1> HIDE DEF h
<1> DEFINE U == {i \in Nat : i <= n =>
                   h[i] \in S /\ (h[i].wantread = 0 \/ Len(h[i].list) + i <= n)}
<1>6. 0 \in U
    <2>1. h[0] = x
        BY <1>1, <1>5
    <2>2. x.list = list
        BY DEF x
    <2> HIDE DEF S
    <2> QED BY <1>1, <1>2, <2>1, <2>2
<1>7. ASSUME NEW i \in U \cap Nat PROVE i + 1 \in U
    <2> SUFFICES ASSUME i + 1 <= n
                 PROVE  /\ h[i + 1] \in S
                        /\ h[i + 1].wantread = 0 \/ Len(h[i + 1].list) + (i + 1) <= n
        OBVIOUS
    <2> DEFINE s == h[i]
    <2>1. i + 1 \in 0 .. n /\ i + 1 # 0 /\ (i + 1) - 1 = i /\ i <= n
        BY <1>1
    <2>2. h[i + 1] = Turn(s)
        BY <1>5, <2>1
    <2>3. s \in S /\ (s.wantread = 0 \/ Len(s.list) + i <= n)
        <3> HIDE DEF S
        <3> QED BY <2>1
    <2> HIDE DEF s
    <2>4. Turn(s) \in S
        BY <1>3, <2>3
    <2>5. s.list \in Seq(Blocks)
        BY <2>3 DEF Loop
    <2>6. CASE s.wantread = 0
        BY <2>2, <2>4, <2>6 DEF Turn
    <2>7. CASE s.wantread # 0 /\ s.list = << >>
        <3>1. Turn(s) = s /\ Len(s.list) = 0
            BY <2>7 DEF Turn
        <3> HIDE DEF S
        <3> QED BY <2>2, <2>3, <3>1
    <2>8. CASE s.wantread # 0 /\ s.list # << >>
        <3>1. Turn(s) = ReadBlock(s)
            BY <2>8 DEF Turn
        <3>2. Turn(s).wantread = 0 \/ Len(Turn(s).list) = Len(s.list) - 1
            BY <2>3, <2>8, <3>1, ReadBlockKeeps
        <3>3. Len(s.list) \in Nat
            BY <2>5, LenProperties
        <3>4. Turn(s).wantread = 0 \/ Len(Turn(s).list) + (i + 1) <= n
            <4>1. Len(s.list) + i <= n
                BY <2>3, <2>8
            <4>2. \A k, j, m \in Nat : k + j <= m => (k - 1) + (j + 1) <= m
                OBVIOUS
            <4>3. (Len(s.list) - 1) + (i + 1) <= n
                <5> HIDE DEF S, n
                <5> QED BY <1>1, <3>3, <4>1, <4>2
            <4> HIDE DEF S, n
            <4> QED BY <3>2, <4>3
        <3> HIDE DEF S
        <3> QED BY <2>2, <2>4, <3>4
    <2> QED BY <2>6, <2>7, <2>8
<1>8. r \in S /\ (r.wantread = 0 \/ Len(r.list) + n <= n)
    <2> HIDE DEF U
    <2>1. n \in U
        BY <1>1, <1>6, <1>7, NatBySteps
    <2> HIDE DEF S
    <2> QED BY <1>1, <1>4, <2>1 DEF U
<1>9. /\ r.data \in Seq(Byte) /\ r.list \in Seq(Blocks) /\ r.wantread \in Nat
      /\ r.data \o BytesOf(r.list) = all /\ Len(r.data) + r.wantread = w
    BY <1>8 DEF Loop
<1>10. r.wantread = 0
    <2> SUFFICES ASSUME r.wantread # 0 PROVE FALSE
        OBVIOUS
    <2>1. Len(r.list) \in Nat /\ Len(r.data) \in Nat
        BY <1>9, LenProperties
    <2>2. Len(r.list) = 0
        <3> HIDE DEF S
        <3> QED BY <1>1, <1>8, <2>1
    <2>3. r.list = << >>
        BY <1>9, <2>2, EmptySeq
    <2>4. r.data = all
        BY <1>9, <2>3, BytesNone, ConcatEmptySeq
    <2> HIDE DEF all
    <2> QED BY <1>1, <1>9, <2>1, <2>4 DEF all
<1>11. Len(r.data) = w
    <2>1. Len(r.data) \in Nat
        BY <1>9, LenProperties
    <2> QED BY <1>9, <1>10, <2>1
<1> QED BY <1>9, <1>11 DEF r

-----------------------------------------------------------------------------
(* The buffer                                                              *)

BufferInv ==
    /\ m_pDataList \in Seq(Blocks)
    /\ m_dwTotalSize = Len(Bytes)

LEMMA BufferInit == Init => BufferInv /\ Q!Init
<1> SUFFICES ASSUME Init PROVE BufferInv /\ Q!Init
    OBVIOUS
<1>1. m_pDataList = << >> /\ m_dwTotalSize = 0 /\ got = << >>
    BY DEF Init
<1>2. Bytes = << >> /\ Len(<< >>) = 0 /\ << >> \in Seq(Blocks)
    BY <1>1, BytesNone DEF Bytes
<1> QED BY <1>1, <1>2 DEF BufferInv, Q!Init

LEMMA AddStep ==
    ASSUME BufferInv, NEW n \in 1 .. MaxBlock, NEW data \in [1 .. n -> Byte], AddData(data)
    PROVE  BufferInv' /\ Q!Next
<1>1. data \in Seq(Byte) /\ Len(data) \in Nat /\ data # << >>
    <2>1. n \in Nat \ {0}
        OBVIOUS
    <2>2. data \in Seq(Byte) /\ DOMAIN data = 1 .. n
        BY <2>1, SeqDef
    <2>3. Len(data) = n
        BY <2>1, <2>2, LenProperties
    <2> QED BY <2>1, <2>2, <2>3, EmptySeq
<1>2. /\ m_pDataList \in Seq(Blocks) /\ m_dwTotalSize = Len(Bytes)
      /\ Bytes \in Seq(Byte) /\ Len(Bytes) \in Nat
    BY BytesType DEF BufferInv, Bytes
<1>3. Block(data) \in Blocks /\ Unread(Block(data)) = data
    BY <1>1, NewBlock
<1>4. /\ m_pDataList' = Append(m_pDataList, Block(data))
      /\ m_dwTotalSize' = m_dwTotalSize + Len(data) /\ got' = got
    BY DEF AddData
<1>5. m_pDataList' \in Seq(Blocks) /\ Bytes' = Bytes \o data
    BY <1>2, <1>3, <1>4, BytesBehind DEF Bytes
<1>6. Len(Bytes') = Len(Bytes) + Len(data)
    BY <1>1, <1>2, <1>5, ConcatProperties
<1>7. BufferInv'
    BY <1>2, <1>4, <1>5, <1>6 DEF BufferInv
<1>8. SubSeq(Bytes', Len(Bytes') - Len(data) + 1, Len(Bytes')) = data
    <2>1. Len(Bytes') - Len(data) + 1 = Len(Bytes) + 1
        BY <1>1, <1>2, <1>6
    <2>2. SubSeq(Bytes \o data, Len(Bytes) + 1, Len(Bytes \o data)) = data
        BY <1>1, <1>2, PartsOf
    <2> QED BY <1>5, <2>1, <2>2
<1>9. Len(data) \in 0 .. Len(Bytes')
    BY <1>1, <1>2, <1>6
<1>10. Q!Add(SubSeq(Bytes', Len(Bytes') - Len(data) + 1, Len(Bytes')))
    BY <1>4, <1>5, <1>8 DEF Q!Add
<1> QED BY <1>7, <1>9, <1>10 DEF Q!Next

(* The whole buffer, or its first w bytes, are read.                       *)
LEMMA ReadStep ==
    ASSUME BufferInv, NEW list \in Seq(Blocks), BytesOf(list) = Bytes, NEW w \in 0 .. Len(Bytes),
           got' = GetDataCore(list, w).data,
           m_pDataList' = GetDataCore(list, w).list,
           m_dwTotalSize' = m_dwTotalSize - Len(GetDataCore(list, w).data)
    PROVE  BufferInv' /\ Q!Get(w)
<1> DEFINE r == GetDataCore(list, w)
<1>1. /\ r.data \in Seq(Byte) /\ Len(r.data) = w
      /\ r.list \in Seq(Blocks) /\ Bytes = r.data \o BytesOf(r.list)
    BY GetDataCoreGives
<1>2. got' = r.data /\ m_pDataList' = r.list /\ m_dwTotalSize' = m_dwTotalSize - Len(r.data)
    OBVIOUS
<1> HIDE DEF r
<1>3. Bytes' = BytesOf(r.list) /\ Bytes' \in Seq(Byte)
    BY <1>1, <1>2, BytesType DEF Bytes
<1>4. Bytes = r.data \o Bytes'
    BY <1>1, <1>3
<1>5. SubSeq(Bytes, 1, w) = r.data /\ SubSeq(Bytes, w + 1, Len(Bytes)) = Bytes'
    <2>1. BytesOf(r.list) \in Seq(Byte)
        BY <1>1, BytesType
    <2>2. \A u, v \in Seq(Byte) : /\ SubSeq(u \o v, 1, Len(u)) = u
                                  /\ SubSeq(u \o v, Len(u) + 1, Len(u \o v)) = v
        BY PartsOf
    <2>3. /\ SubSeq(r.data \o BytesOf(r.list), 1, Len(r.data)) = r.data
          /\ SubSeq(r.data \o BytesOf(r.list), Len(r.data) + 1, Len(r.data \o BytesOf(r.list)))
               = BytesOf(r.list)
        BY <1>1, <2>1, <2>2, Zenon
    <2>4. Len(r.data) = w /\ r.data \o BytesOf(r.list) = Bytes /\ BytesOf(r.list) = Bytes'
        BY <1>1, <1>3
    <2> QED BY <2>3, <2>4, Zenon
<1>6. Len(Bytes) = w + Len(Bytes') /\ Len(Bytes') \in Nat
    BY <1>1, <1>3, <1>4, ConcatProperties, LenProperties
<1>7. BufferInv'
    <2>1. m_dwTotalSize' = Len(Bytes) - w
        BY <1>1, <1>2 DEF BufferInv
    <2>2. m_dwTotalSize' = Len(Bytes')
        BY <1>6, <2>1
    <2> QED BY <1>1, <1>2, <2>2 DEF BufferInv
<1> QED BY <1>2, <1>5, <1>7 DEF Q!Get

LEMMA AllStep == BufferInv /\ GetAllData => BufferInv' /\ Q!Next
<1> SUFFICES ASSUME BufferInv, GetAllData PROVE BufferInv' /\ Q!Next
    OBVIOUS
<1>1. /\ m_pDataList \in Seq(Blocks) /\ m_dwTotalSize = Len(Bytes)
      /\ Len(Bytes) \in 0 .. Len(Bytes) /\ BytesOf(m_pDataList) = Bytes
    BY BytesType DEF BufferInv, Bytes
<1>2. BufferInv' /\ Q!Get(Len(Bytes))
    BY <1>1, ReadStep DEF GetAllData
<1> QED BY <1>2 DEF Q!Next

LEMMA ClearStep == BufferInv /\ ClearAll => BufferInv' /\ Q!Next
<1> SUFFICES ASSUME BufferInv, ClearAll PROVE BufferInv' /\ Q!Next
    OBVIOUS
<1>1. m_pDataList' = << >> /\ m_dwTotalSize' = 0 /\ got' = got
    BY DEF ClearAll
<1>2. Bytes' = << >> /\ Len(<< >>) = 0 /\ << >> \in Seq(Blocks)
    BY <1>1, BytesNone DEF Bytes
<1>3. BufferInv'
    BY <1>1, <1>2 DEF BufferInv
<1>4. Q!Clear
    BY <1>1, <1>2 DEF Q!Clear
<1> QED BY <1>3, <1>4 DEF Q!Next

LEMMA ShortStep == BufferInv /\ GetPacketTooShort => BufferInv' /\ Q!Next
<1> SUFFICES ASSUME BufferInv, GetPacketTooShort PROVE BufferInv' /\ Q!Next
    OBVIOUS
<1>1. /\ Len(Bytes) < HeaderLen /\ got' = << >> /\ Bytes' = Bytes
      /\ m_pDataList' = m_pDataList /\ m_dwTotalSize' = m_dwTotalSize
    BY DEF GetPacketTooShort, BufferInv, Bytes
<1>2. BufferInv'
    BY <1>1 DEF BufferInv
<1>3. ~Q!HasPacket
    <2>1. Len(Bytes) \in Nat
        BY BytesType DEF BufferInv, Bytes
    <2> QED BY <1>1, <2>1, PacketLengths DEF Q!HasPacket
<1>4. Q!GetPacket
    BY <1>1, <1>3 DEF Q!GetPacket
<1> QED BY <1>2, <1>4 DEF Q!Next

LEMMA PacketStep == BufferInv /\ GetPacketFromBuffer => BufferInv' /\ Q!Next
<1> SUFFICES ASSUME BufferInv, GetPacketFromBuffer PROVE BufferInv' /\ Q!Next
    OBVIOUS
<1> DEFINE first == GetDataCore(m_pDataList, HeaderLen)
           header == first.data
           back == InFront(header, first.list)
           length == LengthIn(header)
           whole == GetDataCore(back, length)
<1>1. /\ m_pDataList \in Seq(Blocks) /\ m_dwTotalSize = Len(Bytes)
      /\ Bytes = BytesOf(m_pDataList) /\ Bytes \in Seq(Byte) /\ Len(Bytes) \in Nat
    BY BytesType DEF BufferInv, Bytes
<1>2. HeaderLen \in 0 .. Len(Bytes) /\ HeaderLen \in Nat \ {0}
    BY <1>1, PacketLengths DEF GetPacketFromBuffer
<1>3. /\ header \in Seq(Byte) /\ Len(header) = HeaderLen
      /\ first.list \in Seq(Blocks) /\ Bytes = header \o BytesOf(first.list)
    BY <1>1, <1>2, GetDataCoreGives
<1>4. IF length <= m_dwTotalSize
        THEN IF Len(whole.data) = length
               THEN /\ got' = whole.data
                    /\ m_pDataList' = whole.list
                    /\ m_dwTotalSize' = m_dwTotalSize - Len(whole.data)
               ELSE /\ got' = << >>
                    /\ m_pDataList' = InFront(whole.data, whole.list)
                    /\ UNCHANGED m_dwTotalSize
        ELSE /\ got' = << >>
             /\ m_pDataList' = back
             /\ UNCHANGED m_dwTotalSize
    BY <1>3 DEF GetPacketFromBuffer
<1>5. SubSeq(Bytes, 1, HeaderLen) = header
    <2> HIDE DEF first
    <2> QED BY <1>3, BytesType, PartsOf
<1> HIDE DEF first
<1>6. header # << >>
    BY <1>2, <1>3, EmptySeq
<1>7. length \in Nat
    <2>1. header[1] \in Byte
        BY <1>2, <1>3, ElementOfSeq
    <2> QED BY <2>1, PacketLengths DEF LengthIn
<1>8. back \in Seq(Blocks) /\ BytesOf(back) = Bytes
    <2>1. Block(header) \in Blocks /\ Unread(Block(header)) = header
        BY <1>3, <1>6, NewBlock
    <2>2. back = <<Block(header)>> \o first.list
        BY <1>6 DEF InFront
    <2> QED BY <1>3, <2>1, <2>2, BytesFront
<1> HIDE DEF header, back, length
<1>9. CASE length <= Len(Bytes)
    <2>1. length \in 0 .. Len(Bytes)
        BY <1>1, <1>7, <1>9
    <2>2. Len(whole.data) = length
        BY <1>8, <2>1, GetDataCoreGives
    <2>3. /\ got' = whole.data /\ m_pDataList' = whole.list
          /\ m_dwTotalSize' = m_dwTotalSize - Len(whole.data)
        <3> HIDE DEF whole
        <3> QED BY <1>1, <1>4, <1>9, <2>2
    <2>4. BufferInv' /\ Q!Get(length)
        BY <1>8, <2>1, <2>3, ReadStep
    <2>5. LengthIn(SubSeq(Bytes, 1, HeaderLen)) = length
        BY <1>5 DEF length
    <2>6. Q!HasPacket
        <3>1. Len(Bytes) >= HeaderLen
            BY <1>1, <1>2
        <3> HIDE DEF length
        <3> QED BY <1>1, <1>7, <1>9, <2>5, <3>1 DEF Q!HasPacket
    <2>7. Q!GetPacket
        BY <2>4, <2>5, <2>6 DEF Q!GetPacket
    <2> QED BY <2>4, <2>7 DEF Q!Next
<1>10. CASE ~(length <= Len(Bytes))
    <2>1. got' = << >> /\ m_pDataList' = back /\ m_dwTotalSize' = m_dwTotalSize
        <3> HIDE DEF whole
        <3> QED BY <1>1, <1>4, <1>10
    <2>2. Bytes' = Bytes
        BY <1>8, <2>1 DEF Bytes
    <2>3. BufferInv'
        BY <1>1, <1>8, <2>1, <2>2 DEF BufferInv
    <2>4. ~Q!HasPacket
        BY <1>1, <1>5, <1>7, <1>10 DEF Q!HasPacket, length
    <2>5. Q!GetPacket
        BY <2>1, <2>2, <2>4 DEF Q!GetPacket
    <2> QED BY <2>3, <2>5 DEF Q!Next
<1> QED BY <1>9, <1>10

LEMMA BufferStep == BufferInv /\ [Next]_vars => BufferInv' /\ [Q!Next]_(Q!vars)
<1> SUFFICES ASSUME BufferInv, [Next]_vars PROVE BufferInv' /\ [Q!Next]_(Q!vars)
    OBVIOUS
<1>1. ASSUME NEW n \in 1 .. MaxBlock, NEW data \in [1 .. n -> Byte], AddData(data)
      PROVE  BufferInv' /\ Q!Next
    BY <1>1, AddStep
<1>2. CASE UNCHANGED vars
    BY <1>2 DEF vars, BufferInv, Bytes, Q!vars
<1> QED BY <1>1, <1>2, AllStep, ClearStep, ShortStep, PacketStep DEF Next

(* The total is the number of bytes in the blocks, and no block is kept    *)
(* that has nothing left to read, after any sequence of calls.             *)
THEOREM TotalIsExact == Spec => []TotalExact
<1>1. BufferInv => TotalExact
    <2> SUFFICES ASSUME BufferInv, NEW i \in DOMAIN m_pDataList
                 PROVE  m_dwTotalSize = Len(Bytes) /\ Unread(m_pDataList[i]) # << >>
        BY DEF TotalExact, BufferInv
    <2>1. m_pDataList[i] \in Blocks
        BY LenProperties, ElementOfSeq DEF BufferInv
    <2>2. Len(Unread(m_pDataList[i])) # 0
        BY <2>1, BlockFacts
    <2> QED BY <2>2, EmptySeq DEF BufferInv
<1>2. BufferInv /\ [Next]_vars => BufferInv'
    BY BufferStep
<1> QED BY <1>1, <1>2, BufferInit, PTL DEF Spec

(* The list of blocks is a queue of bytes that gives a packet when all of  *)
(* it has come and not before, and a call that gives none leaves every     *)
(* byte where it was: however the stream is cut into reads, for any number *)
(* of bytes.                                                               *)
THEOREM BufferIsByteQueue == Spec => ImplementsByteQueue
<1>1. Init => BufferInv /\ Q!Init
    BY BufferInit
<1>2. BufferInv /\ [Next]_vars => BufferInv' /\ [Q!Next]_(Q!vars)
    BY BufferStep
<1> QED BY <1>1, <1>2, PTL DEF Spec, ImplementsByteQueue, Q!Spec
=============================================================================
