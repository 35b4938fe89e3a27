----------------------------- MODULE QueueTheorems -----------------------------
(***************************************************************************)
(* What the proofs need of sequences and of loops.  A history that is what *)
(* left a list followed by what is in it stays so under a push and under a *)
(* pop; a sequence is its two pieces; and, there being no induction        *)
(* principle the provers can apply to a set, one for sets of numbers, with *)
(* the existence of a loop's states that follows from it.                  *)
(***************************************************************************)
EXTENDS Integers, Sequences, SequenceTheorems, FunctionTheorems, FiniteSetTheorems,
        TLAPS

(* An element appended to h is appended to the list.                       *)
LEMMA PushBehind ==
    ASSUME NEW S, NEW left \in Seq(S), NEW list \in Seq(S), NEW x \in S
    PROVE  /\ Append(left \o list, x) = left \o Append(list, x)
           /\ Append(list, x) \in Seq(S)
<1>1. << x >> \in Seq(S) /\ left \o list \in Seq(S)
    BY ConcatProperties
<1>2. Append(left \o list, x) = (left \o list) \o << x >> /\ Append(list, x) = list \o << x >>
    BY <1>1, AppendIsConcat
<1> QED BY <1>1, <1>2, ConcatAssociative

(* The front element leaves the list for the end of what left.             *)
LEMMA PopFront ==
    ASSUME NEW S, NEW left \in Seq(S), NEW list \in Seq(S), list # << >>
    PROVE  /\ left \o list = Append(left, Head(list)) \o Tail(list)
           /\ Head(list) \in S /\ Tail(list) \in Seq(S)
           /\ Append(left, Head(list)) \in Seq(S)
<1>1. Head(list) \in S /\ Tail(list) \in Seq(S)
    BY HeadTailProperties
<1>2. << Head(list) >> \in Seq(S) /\ Append(left, Head(list)) \in Seq(S)
    BY <1>1
<1>3. Append(left, Head(list)) = left \o << Head(list) >>
    BY <1>1, AppendIsConcat
<1>4. list = << Head(list) >> \o Tail(list)
    <2>1. SubSeq(list, 1, Len(list)) = << list[1] >> \o SubSeq(list, 2, Len(list))
        BY SubSeqRecursiveFirst, LenProperties, EmptySeq
    <2> QED BY <2>1, SubSeqFull, TailIsSubSeq
<1> QED BY <1>1, <1>2, <1>3, <1>4, ConcatAssociative

(* What left is the beginning of the whole.                                *)
LEMMA LeftFirst ==
    ASSUME NEW S, NEW left \in Seq(S), NEW list \in Seq(S)
    PROVE  /\ Len(left) <= Len(left \o list)
           /\ \A n \in 1 .. Len(left) : (left \o list)[n] = left[n]
<1>1. Len(left) \in Nat /\ Len(list) \in Nat
    BY LenProperties
<1>2. Len(left \o list) = Len(left) + Len(list)
    BY ConcatProperties
<1> QED BY <1>1, <1>2, ConcatProperties

-----------------------------------------------------------------------------
(* Induction: a set that holds 0 and the successor of each of its numbers  *)
(* holds them all.  Were m missing, the successor function would be one to *)
(* one on the finite set of its numbers below m, hence onto it, and 0 is   *)
(* no successor.                                                           *)
LEMMA NatBySteps ==
    ASSUME NEW S, 0 \in S, \A n \in S \cap Nat : n + 1 \in S
    PROVE  Nat \subseteq S
<1> SUFFICES ASSUME NEW m \in Nat, m \notin S PROVE FALSE
    OBVIOUS
<1> DEFINE U == S \cap (0 .. m)
           next == [n \in U |-> n + 1]
<1>1. IsFiniteSet(U) /\ 0 \in U
    <2>1. IsFiniteSet(0 .. m)
        BY FS_Interval
    <2> QED BY <2>1, FS_Subset
<1>2. next \in Injection(U, U)
    BY DEF Injection, IsInjective
<1>3. next \in Surjection(U, U)
    <2> HIDE DEF next, U
    <2> QED BY <1>1, <1>2, FS_Injection
<1>4. \E n \in U : next[n] = 0
    BY <1>1, <1>3 DEF Surjection
<1> QED BY <1>4

(* A loop of n turns: the states it goes through, each from the one before *)
(* and the number of the turn.                                             *)
Runs(f, n, x, turn) == f[0] = x /\ \A i \in 1 .. n : f[i] = turn[i][f[i - 1]]

LEMMA LoopRuns ==
    ASSUME NEW n \in Nat, NEW S, NEW x \in S, NEW turn \in [1 .. n -> [S -> S]]
    PROVE  \E f \in [0 .. n -> S] : Runs(f, n, x, turn)
<1> DEFINE Next(f, i) == IF i = 0 THEN x ELSE turn[i][f[i - 1]]
           Reaches(f, m) == f \in [0 .. m -> S] /\ \A i \in 0 .. m : f[i] = Next(f, i)
           T == {m \in Nat : m <= n => \E f : Reaches(f, m)}
<1>1. 0 \in T
    <2>1. Reaches([i \in 0 .. 0 |-> x], 0)
        OBVIOUS
    <2> QED BY <2>1
<1>2. ASSUME NEW m \in T \cap Nat PROVE m + 1 \in T
    <2> SUFFICES ASSUME m + 1 <= n PROVE \E f : Reaches(f, m + 1)
        OBVIOUS
    <2>1. PICK f : Reaches(f, m)
        OBVIOUS
    <2> DEFINE y == turn[m + 1][f[m]]
               g == [i \in 0 .. m + 1 |-> IF i = m + 1 THEN y ELSE f[i]]
    <2>2. f[m] \in S /\ m + 1 \in 1 .. n
        BY <2>1
    <2>3. y \in S
        BY <2>2
    <2>4. \A i \in 0 .. m : i \in 0 .. m + 1 /\ i # m + 1
        OBVIOUS
    <2>5. \A i \in 0 .. m + 1 : i = m + 1 \/ i \in 0 .. m
        OBVIOUS
    <2>6. g \in [0 .. m + 1 -> S]
        BY <2>1, <2>3, <2>5
    <2>7. ASSUME NEW i \in 0 .. m + 1 PROVE g[i] = Next(g, i)
        <3>1. CASE i = m + 1
            <4>1. g[i - 1] = f[m] /\ i # 0
                BY <3>1
            <4> QED BY <3>1, <4>1
        <3>2. CASE i \in 0 .. m
            <4>1. i # 0 => i - 1 \in 0 .. m + 1 /\ i - 1 # m + 1
                BY <3>2
            <4>2. Next(g, i) = Next(f, i)
                BY <4>1
            <4> QED BY <2>1, <2>4, <3>2, <4>2
        <3> QED BY <2>5, <3>1, <3>2
    <2> QED BY <2>6, <2>7
<1>3. n \in T
    <2> HIDE DEF T
    <2> QED BY <1>1, <1>2, NatBySteps
<1>4. PICK f : Reaches(f, n)
    BY <1>3
<1>5. 0 \in 0 .. n /\ \A i \in 1 .. n : i \in 0 .. n /\ i # 0
    OBVIOUS
<1>6. f[0] = x /\ \A i \in 1 .. n : f[i] = turn[i][f[i - 1]]
    BY <1>4, <1>5
<1> QED BY <1>4, <1>6 DEF Runs

-----------------------------------------------------------------------------
(* Cutting a sequence in two                                               *)

LEMMA SplitAt ==
    ASSUME NEW S, NEW s \in Seq(S), NEW n \in 0 .. Len(s)
    PROVE  /\ SubSeq(s, 1, n) \in Seq(S) /\ Len(SubSeq(s, 1, n)) = n
           /\ SubSeq(s, n + 1, Len(s)) \in Seq(S)
           /\ Len(SubSeq(s, n + 1, Len(s))) = Len(s) - n
           /\ s = SubSeq(s, 1, n) \o SubSeq(s, n + 1, Len(s))
<1>1. Len(s) \in Nat /\ \A i \in 1 .. Len(s) : s[i] \in S
    OBVIOUS
<1>2. 1 \in 1 .. Len(s) + 1 /\ n \in 1 - 1 .. Len(s) /\ Len(s) \in n .. Len(s)
    BY <1>1
<1>3. SubSeq(s, 1, n) \o SubSeq(s, n + 1, Len(s)) = SubSeq(s, 1, Len(s))
    BY <1>2, ConcatAdjacentSubSeq
<1>4. SubSeq(s, 1, n) \in Seq(S) /\ Len(SubSeq(s, 1, n)) = n
    <2>1. 1 \in Int /\ n \in Int /\ (\A i \in 1 .. n : s[i] \in S)
        BY <1>1
    <2>2. SubSeq(s, 1, n) \in Seq(S) /\ Len(SubSeq(s, 1, n)) = IF 1 <= n THEN n - 1 + 1 ELSE 0
        BY <2>1, SubSeqProperties
    <2> QED BY <2>2
<1>5. SubSeq(s, n + 1, Len(s)) \in Seq(S) /\ Len(SubSeq(s, n + 1, Len(s))) = Len(s) - n
    <2>1. n + 1 \in Int /\ Len(s) \in Int /\ (\A i \in n + 1 .. Len(s) : s[i] \in S)
        BY <1>1
    <2>2. /\ SubSeq(s, n + 1, Len(s)) \in Seq(S)
          /\ Len(SubSeq(s, n + 1, Len(s))) = IF n + 1 <= Len(s) THEN Len(s) - (n + 1) + 1 ELSE 0
        BY <2>1, SubSeqProperties
    <2> QED BY <1>1, <2>2
<1> QED BY <1>3, <1>4, <1>5, SubSeqFull

LEMMA PieceOf ==
    ASSUME NEW S, NEW s \in Seq(S), NEW m \in 1 .. Len(s) + 1, NEW n \in m - 1 .. Len(s)
    PROVE  SubSeq(s, m, n) \in Seq(S) /\ Len(SubSeq(s, m, n)) = n - m + 1
<1>1. m \in Int /\ n \in Int /\ \A i \in m .. n : i \in 1 .. Len(s)
    OBVIOUS
<1>2. \A i \in m .. n : s[i] \in S
    BY <1>1, ElementOfSeq
<1>3. SubSeq(s, m, n) \in Seq(S) /\ Len(SubSeq(s, m, n)) = IF m <= n THEN n - m + 1 ELSE 0
    BY <1>1, <1>2, SubSeqProperties
<1> QED BY <1>3

(* What a concatenation was made of.                                       *)
LEMMA PartsOf ==
    ASSUME NEW S, NEW u \in Seq(S), NEW v \in Seq(S)
    PROVE  /\ SubSeq(u \o v, 1, Len(u)) = u
           /\ SubSeq(u \o v, Len(u) + 1, Len(u \o v)) = v
<1> DEFINE s == u \o v
           a == SubSeq(s, 1, Len(u))
           b == SubSeq(s, Len(u) + 1, Len(s))
<1>1. /\ s \in Seq(S) /\ Len(s) = Len(u) + Len(v)
      /\ \A i \in 1 .. Len(u) + Len(v) : s[i] = IF i <= Len(u) THEN u[i] ELSE v[i - Len(u)]
    BY ConcatProperties
<1>2. Len(u) \in Nat /\ Len(v) \in Nat
    OBVIOUS
<1> HIDE DEF s
<1>3. \A i \in 1 .. Len(s) : s[i] \in S
    BY <1>1
<1>4. /\ a \in Seq(S) /\ Len(a) = Len(u)
      /\ \A i \in 1 .. Len(u) : a[i] = s[i]
    <2>1. 1 \in Int /\ Len(u) \in Int /\ \A i \in 1 .. Len(u) : s[i] \in S
        BY <1>1, <1>2, <1>3
    <2>2. /\ a \in Seq(S) /\ Len(a) = IF 1 <= Len(u) THEN Len(u) - 1 + 1 ELSE 0
          /\ \A i \in 1 .. Len(u) - 1 + 1 : a[i] = s[1 + i - 1]
        BY <2>1, SubSeqProperties
    <2> HIDE DEF a
    <2> QED BY <1>2, <2>2
<1>5. a = u
    <2> HIDE DEF a
    <2>1. \A i \in 1 .. Len(a) : a[i] = u[i]
        BY <1>1, <1>2, <1>4
    <2> QED BY <1>4, <2>1, SeqEqual
<1>6. /\ b \in Seq(S) /\ Len(b) = Len(v)
      /\ \A i \in 1 .. Len(v) : b[i] = s[Len(u) + i]
    <2>1. Len(u) + 1 \in Int /\ Len(s) \in Int /\ \A i \in Len(u) + 1 .. Len(s) : s[i] \in S
        BY <1>1, <1>2, <1>3
    <2>2. /\ b \in Seq(S) /\ Len(b) = IF Len(u) + 1 <= Len(s) THEN Len(s) - (Len(u) + 1) + 1 ELSE 0
          /\ \A i \in 1 .. Len(s) - (Len(u) + 1) + 1 : b[i] = s[Len(u) + 1 + i - 1]
        BY <2>1, SubSeqProperties
    <2> HIDE DEF b
    <2>3. \A i \in 1 .. Len(v) :
            i \in 1 .. Len(s) - (Len(u) + 1) + 1 /\ Len(u) + 1 + i - 1 = Len(u) + i
        BY <1>1, <1>2
    <2>4. \A i \in 1 .. Len(v) : b[i] = s[Len(u) + i]
        <3> SUFFICES ASSUME NEW i \in 1 .. Len(v) PROVE b[i] = s[Len(u) + i]
            OBVIOUS
        <3>1. b[i] = s[Len(u) + 1 + i - 1]
            BY <2>2, <2>3
        <3> QED BY <2>3, <3>1
    <2>5. Len(b) = Len(v)
        BY <1>1, <1>2, <2>2
    <2> QED BY <2>2, <2>4, <2>5
<1>7. b = v
    <2> HIDE DEF b
    <2>1. ASSUME NEW i \in 1 .. Len(b) PROVE b[i] = v[i]
        <3>1. /\ i \in 1 .. Len(v) /\ Len(u) + i \in 1 .. Len(u) + Len(v)
              /\ ~(Len(u) + i <= Len(u)) /\ (Len(u) + i) - Len(u) = i
            BY <1>2, <1>6
        <3>2. s[Len(u) + i] = v[(Len(u) + i) - Len(u)]
            BY <1>1, <3>1
        <3> QED BY <1>6, <3>1, <3>2
    <2> QED BY <1>6, <2>1, SeqEqual
<1> QED BY <1>5, <1>7 DEF s
=============================================================================
