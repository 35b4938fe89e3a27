---------------------------- MODULE DataStreamBuf ----------------------------
(***************************************************************************)
(* CDataStreamBuf and GetPacketFromBuffer: a list of blocks, one per read, *)
(* each consumed from its index on, a total that is counted separately,    *)
(* and a header that is taken out, looked at and put back as a block of    *)
(* its own.                                                                *)
(***************************************************************************)
EXTENDS Integers, SequencesExt

CONSTANTS
    Byte,
    HeaderLen,
    MaxBlock,       \* the longest block added
    MaxBytes        \* bound: bytes in the buffer

(* Length is the first field of BASE_PACKET_T, Type the rest of a header.  *)
LengthIn(header) == header[1]

ASSUME PacketLengths == HeaderLen \in Nat \ {0} /\ Byte \subseteq Nat

VARIABLES
    m_pDataList,    \* a block: its bytes (pBuffer) and m_dwIdx
    m_dwTotalSize,
    got             \* what the last call gave

vars == <<m_pDataList, m_dwTotalSize, got>>

Init ==
    /\ m_pDataList = << >>
    /\ m_dwTotalSize = 0
    /\ got = << >>

Block(data) == [pBuffer |-> data, m_dwIdx |-> 0]

AddData(data) ==
    /\ m_dwTotalSize + Len(data) <= MaxBytes
    /\ m_pDataList' = Append(m_pDataList, Block(data))
    /\ m_dwTotalSize' = m_dwTotalSize + Len(data)
    /\ UNCHANGED got

(* One turn of the loop of GetDataCore: the front block gives what it has, *)
(* or what is still wanted, and leaves the list when it has given all.     *)
ReadBlock(s) ==
    LET block   == Head(s.list)
        unread  == Len(block.pBuffer) - block.m_dwIdx
        curread == Min({unread, s.wantread})
        piece   == SubSeq(block.pBuffer, block.m_dwIdx + 1, block.m_dwIdx + curread)
    IN  [data |-> s.data \o piece,
         list |-> IF curread < unread
                  THEN <<[block EXCEPT !.m_dwIdx = @ + curread]>> \o Tail(s.list)
                  ELSE Tail(s.list),
         wantread |-> s.wantread - curread]

(* The loop: the bytes given and the list that is left.  The break after a *)
(* block that keeps a rest changes nothing, for then all is read.          *)
GetDataCore(list, wantread) ==
    LET turn[n \in 0 .. Len(list)] ==
          IF n = 0 THEN [data |-> << >>, list |-> list, wantread |-> wantread]
          ELSE LET s == turn[n - 1]
               IN IF s.list = << >> \/ s.wantread = 0 THEN s ELSE ReadBlock(s)
    IN turn[Len(list)]

(* Mutant of InFront: the header read is put at the end of the list.       *)
Behind(data, list) == IF data = << >> THEN list ELSE Append(list, Block(data))

(* AddDataFront on a list: nothing for no bytes.                           *)
InFront(data, list) == IF data = << >> THEN list ELSE <<Block(data)>> \o list

(* Mutant of GetAllData: GetDataCore leaves the total to its callers.      *)
GetAllDataUncounted ==
    LET all == GetDataCore(m_pDataList, m_dwTotalSize)
    IN /\ m_dwTotalSize # 0
       /\ got' = all.data
       /\ m_pDataList' = all.list
       /\ UNCHANGED m_dwTotalSize

GetAllData ==
    LET all == GetDataCore(m_pDataList, m_dwTotalSize)
    IN /\ m_dwTotalSize # 0
       /\ got' = all.data
       /\ m_pDataList' = all.list
       /\ m_dwTotalSize' = m_dwTotalSize - Len(all.data)

ClearAll ==
    /\ m_pDataList' = << >>
    /\ m_dwTotalSize' = 0
    /\ UNCHANGED got

(* GetPacketFromBuffer with less than a header in the buffer.              *)
GetPacketTooShort ==
    /\ m_dwTotalSize < HeaderLen
    /\ got' = << >>
    /\ UNCHANGED <<m_pDataList, m_dwTotalSize>>

(* The header is read and put back in front; then the packet is read, or   *)
(* put back as well should it come short of its length.                    *)
GetPacketFromBuffer ==
    LET first  == GetDataCore(m_pDataList, HeaderLen)
        header == first.data
        back   == InFront(header, first.list)
        whole  == GetDataCore(back, LengthIn(header))
    IN /\ m_dwTotalSize >= HeaderLen
       /\ IF Len(header) = HeaderLen /\ LengthIn(header) <= m_dwTotalSize
            THEN IF Len(whole.data) = LengthIn(header)
                   THEN /\ got' = whole.data
                        /\ m_pDataList' = whole.list
                        /\ m_dwTotalSize' = m_dwTotalSize - Len(whole.data)
                   ELSE /\ got' = << >>
                        /\ m_pDataList' = InFront(whole.data, whole.list)
                        /\ UNCHANGED m_dwTotalSize
            ELSE /\ got' = << >>
                 /\ m_pDataList' = back
                 /\ UNCHANGED m_dwTotalSize

Next ==
    \/ \E n \in 1 .. MaxBlock : \E data \in [1 .. n -> Byte] : AddData(data)
    \/ GetPacketTooShort
    \/ GetPacketFromBuffer
    \/ GetAllData
    \/ ClearAll

Spec == Init /\ [][Next]_vars

-----------------------------------------------------------------------------
(* Properties.                                                             *)

Unread(block) == SubSeq(block.pBuffer, block.m_dwIdx + 1, Len(block.pBuffer))

BytesOf(list) == FlattenSeq([i \in DOMAIN list |-> Unread(list[i])])

Bytes == BytesOf(m_pDataList)

(* The total, which decides whether a header or a packet is there, is the  *)
(* number of bytes in the blocks after any sequence of calls, and no block *)
(* stays in the list with nothing to read.                                 *)
TotalExact ==
    /\ m_dwTotalSize = Len(Bytes)
    /\ \A i \in DOMAIN m_pDataList : Unread(m_pDataList[i]) # << >>

Q == INSTANCE ByteQueue WITH queue <- Bytes

(* The blocks implement the byte queue: a packet comes out when all of it  *)
(* is there and not before, whatever blocks its bytes came in, and a call  *)
(* that gives none leaves every byte where it was.                         *)
ImplementsByteQueue == Q!Spec
=============================================================================
