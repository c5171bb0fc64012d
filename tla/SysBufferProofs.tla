-------------------------- MODULE SysBufferProofs --------------------------
(* Proofs about SysBuffer for every size of the buffer and every length of *)
(* its calls.  The invariant is stated with the number of bytes held and   *)
(* the distance of a slot from the head, so that apart from one lemma on   *)
(* the wrap-around no step needs modular arithmetic.                       *)
EXTENDS SysBuffer, TLAPS

\* How many bytes are held, and how far slot s lies after the head.
Held == nIn - nOut
Distance(s) == IF s >= head THEN s - head ELSE s - head + Size

\* The indices agree with the bytes put in and taken out.
IndexOK == Held >= 0 /\ Held = BufferLength(head, tail)

\* What the producer is about to copy fits in the free space, and its first
\* part ends at the end of the buffer if there is a second.
PutOK ==
    /\ ppc = "split" => pthen = 0
    /\ ppc # "idle" => pnow >= 1 /\ pnow + pthen <= Size - 1 - Held
    /\ ppc \in {"copy1", "copy2", "store"} => tail + pnow <= Size
    /\ ppc \in {"copy1", "copy2", "store"} /\ pthen > 0 => tail + pnow = Size
    /\ ppc = "copy2" => pop = "append" /\ pthen > 0
    /\ ppc = "idle" => pnow = 0 /\ pthen = 0

\* What the consumer is about to copy is held, and its first part ends at the
\* end of the buffer if there is a second.
TakeOK ==
    /\ cop # "cache" => coff = 0
    /\ cpc # "idle" => cnow >= 1 /\ coff + cnow + cthen <= Held
    /\ cpc \in {"split", "resplit"} => cthen = 0
    /\ cpc = "split" => cop # "skip"
    /\ cpc = "resplit" => cop = "write" /\ tail < head /\ Size - head < cnow
    /\ cpc \in {"read1", "read2"} => Wrap(head + coff) + cnow <= Size
    /\ cpc \in {"read1", "read2"} /\ cthen > 0 => Wrap(head + coff) + cnow = Size
    /\ cpc = "read2" => cthen > 0 /\ cop # "write"
    /\ cpc = "advance" => cop # "cache" /\ coff = 0
    /\ cpc = "advance" /\ cop = "write" /\ cthen > 0 => head + cnow = Size

\* The types of the indices and counters.
NumbersOK ==
    /\ head \in Slots /\ tail \in Slots
    /\ nIn \in Nat /\ nOut \in Nat
    /\ pnow \in Nat /\ pthen \in Nat
    /\ coff \in Nat /\ cnow \in Nat /\ cthen \in Nat
    /\ ppc \in {"idle", "split", "copy1", "copy2", "store"}
    /\ pop \in {"append", "file"}
    /\ cpc \in {"idle", "split", "resplit", "read1", "read2", "advance"}
    /\ cop \in {"peek", "copy", "cache", "write", "skip"}

IInv == NumbersOK /\ IndexOK /\ PutOK /\ TakeOK

----------------------------------------------------------------------------
\* An index less than twice the size wraps at most once.
LEMMA WrapOnce ==
    ASSUME NEW x \in Nat, x < 2 * Size
    PROVE  Wrap(x) = IF x < Size THEN x ELSE x - Size
  BY SizeAssumption DEF Wrap

LEMMA InitIInv == Init => IInv
  BY SizeAssumption DEF Init, IInv, NumbersOK, IndexOK, PutOK, TakeOK, Held,
     Slots, BufferLength

\* Every step keeps the indices and the lengths of the copies right.
LEMMA NextIInv ==
    ASSUME IInv, [Next]_vars
    PROVE  IInv'
<1> USE SizeAssumption DEF IInv, NumbersOK, IndexOK, PutOK, TakeOK, Held,
        BufferLength, Slots, producer, consumer
<1>w. /\ head + coff \in Nat
      /\ tail + Publishing \in Nat /\ head + Releasing \in Nat
  BY DEF Publishing, Releasing
<1>1. ASSUME NEW n \in Lengths, AppendData(n) PROVE IInv'
  BY <1>1 DEF AppendData, BeginPut, Lengths, SpaceAvailable
<1>2. ASSUME NEW n \in Lengths, CopyByteArray(n) PROVE IInv'
  BY <1>2 DEF CopyByteArray, BeginPut, Lengths, SpaceAvailable, MinOf
<1>3. ASSUME NEW n \in Lengths, ReadFromFile(n) PROVE IInv'
  BY <1>3 DEF ReadFromFile, BeginPut, Lengths, SpaceAvailable
<1>4. CASE SplitPut
  <2> DEFINE toEnd == SpaceAvailableToEnd(head, tail)
  <2>1. toEnd \in Nat /\ toEnd <= Size - tail /\ (pnow > 0 => toEnd >= 1)
        /\ (toEnd < pnow => toEnd = Size - tail)
    BY <1>4 DEF SplitPut, SpaceAvailableToEnd
  <2>2. \/ toEnd <= pnow /\ pnow' = toEnd /\ pthen' = pnow - toEnd
        \/ toEnd > pnow /\ pnow' = pnow /\ pthen' = 0
    BY <1>4, <2>1 DEF SplitPut, MinOf
  <2> HIDE DEF toEnd
  <2> QED
    BY <1>4, <2>1, <2>2 DEF SplitPut
<1>5. CASE CopyAtTail
  BY <1>5 DEF CopyAtTail
<1>6. CASE CopyAtStart
  BY <1>6 DEF CopyAtStart
<1>7. CASE FreadAtTail
  BY <1>7 DEF FreadAtTail
<1>8. CASE Extend
  BY <1>8, WrapOnce DEF Extend, Publishing, AfterPublish
<1>9. ASSUME NEW n \in Lengths, Peek2ByteArray(n) PROVE IInv'
  BY <1>9 DEF Peek2ByteArray, BeginTake, Lengths
<1>10. ASSUME NEW n \in Lengths, Copy2ByteArray(n) PROVE IInv'
  BY <1>10 DEF Copy2ByteArray, BeginTake, Lengths
<1>11. ASSUME NEW n \in Lengths, WriteToFile(n) PROVE IInv'
  BY <1>11 DEF WriteToFile, BeginTake, Lengths
<1>12. ASSUME NEW n \in Lengths, Skip(n) PROVE IInv'
  BY <1>12 DEF Skip, BeginTake, Lengths
<1>13. ASSUME NEW n \in Lengths, NEW offset \in Slots,
               CopyToCache(offset, n)
      PROVE IInv'
  BY <1>13 DEF CopyToCache, BeginTake, Lengths
<1>14. CASE SplitTake
  <2> DEFINE at == Wrap(head + coff)
  <2>1. at = (IF head + coff < Size THEN head + coff ELSE head + coff - Size)
    BY <1>14, WrapOnce DEF SplitTake
  <2>2. CASE cop = "write" /\ FirstPart < cnow
    <3>1. FirstPart = LengthToEnd(head, tail)
      BY <2>2 DEF FirstPart
    <3> QED
      BY <1>14, <2>2, <3>1 DEF SplitTake, LengthToEnd
  <2>3. CASE ~(cop = "write" /\ FirstPart < cnow)
    <3>1. FirstPart \in Nat /\ FirstPart >= 1
          /\ (FirstPart < cnow => FirstPart = Size - at)
          /\ (FirstPart >= cnow => at + cnow <= Size)
      <4>1. CASE cop \in {"peek", "copy"}
        BY <1>14, <2>1, <4>1 DEF SplitTake, FirstPart, PeekToEnd
      <4>2. CASE cop = "cache"
        <5>1. FirstPart = LengthToEndByOffset(coff, head, tail)
          BY <4>2 DEF FirstPart
        <5>2. Wrap(coff + head) = at
          OBVIOUS
        <5> QED
          BY <1>14, <2>1, <4>2, <5>1, <5>2
          DEF SplitTake, LengthToEndByOffset
      <4>3. CASE cop = "write"
        BY <1>14, <2>1, <2>3, <4>3 DEF SplitTake, FirstPart, LengthToEnd
      <4>4. cop # "skip"
        BY <1>14 DEF SplitTake
      <4> QED
        BY <4>1, <4>2, <4>3, <4>4
    <3>2. \/ FirstPart <= cnow /\ cnow' = FirstPart /\ cthen' = cnow - FirstPart
          \/ FirstPart > cnow /\ cnow' = cnow /\ cthen' = 0
      BY <1>14, <2>3, <3>1 DEF SplitTake, MinOf
    <3>3. Wrap(head' + coff') = at
      BY <1>14 DEF SplitTake
    <3> HIDE DEF at
    <3> QED
      BY <1>14, <2>1, <2>3, <3>1, <3>2, <3>3 DEF SplitTake
  <2> QED
    BY <2>2, <2>3
<1>15. CASE ResplitTake
  BY <1>15, WrapOnce DEF ResplitTake, LengthToEnd
<1>16. CASE ReadAtHead
  BY <1>16, WrapOnce DEF ReadAtHead, AfterRead, Advances
<1>17. CASE ReadAtStart
  BY <1>17 DEF ReadAtStart, AfterRead, Advances
<1>18. CASE Advance
  BY <1>18, WrapOnce DEF Advance, AdvanceSucceeds, Releasing, AfterRelease
<1>19. CASE Reset
  BY <1>19 DEF Reset
<1>20. CASE UNCHANGED vars
  BY <1>20 DEF vars
<1> QED
  BY <1>1, <1>2, <1>3, <1>4, <1>5, <1>6, <1>7, <1>8, <1>9, <1>10, <1>11,
     <1>12, <1>13, <1>14, <1>15, <1>16, <1>17, <1>18, <1>19, <1>20
  DEF Next, PutStep, TakeStep

THEOREM SpecIInv == Spec => []IInv
<1>1. IInv /\ [Next]_vars => IInv'
  BY NextIInv
<1> QED
  BY <1>1, InitIInv, PTL DEF Spec

----------------------------------------------------------------------------
\* What the slots about to be copied are, in the terms of the invariant.
LEMMA RegionsOK ==
    ASSUME IInv
    PROVE  InBounds /\ NoOverwrite /\ ReadsOnlyData
<1> USE SizeAssumption DEF IInv, NumbersOK, IndexOK, PutOK, TakeOK, Held,
        BufferLength, Slots
<1>1. cpc = "idle" \/ (head + coff < 2 * Size /\ head + coff \in Nat)
  OBVIOUS
<1>2. Held <= Size - 1
  OBVIOUS
<1>3. ASSUME NEW i \in 0 .. nIn - nOut - 1
      PROVE  Wrap(head + i) = IF head + i < Size THEN head + i
                              ELSE head + i - Size
  BY <1>2, WrapOnce
<1>4. PutSlots \subseteq Slots
  BY DEF PutSlots
<1>5. TakeSlots \subseteq Slots
  BY <1>1, WrapOnce DEF TakeSlots
<1>6. PutSlots \cap Occupied = {}
  BY <1>2, <1>3 DEF PutSlots, Occupied
<1>7. TakeSlots \subseteq Occupied
  <2> SUFFICES ASSUME NEW s \in TakeSlots PROVE s \in Occupied
    OBVIOUS
  <2>1. s \in Slots /\ cpc \in {"read1", "read2"}
    BY <1>5 DEF TakeSlots
  <2>2. Distance(s) \in 0 .. nIn - nOut - 1
    BY <1>1, <2>1, WrapOnce DEF TakeSlots, Distance
  <2>3. Wrap(head + Distance(s)) = s
    BY <2>1, <2>2, <1>3 DEF Distance
  <2> QED
    BY <2>2, <2>3 DEF Occupied
<1> QED
  BY <1>4, <1>5, <1>6, <1>7 DEF InBounds, NoOverwrite, ReadsOnlyData

\* No copy runs past the end of the buffer, whatever its size and the lengths
\* of the calls, however the two threads interleave.
THEOREM SpecInBounds == Spec => []InBounds
  BY SpecIInv, RegionsOK, PTL

\* No byte is overwritten before it is taken.
THEOREM SpecNoOverwrite == Spec => []NoOverwrite
  BY SpecIInv, RegionsOK, PTL

\* No byte is read before it is put in, or after it is taken.
THEOREM SpecReadsOnlyData == Spec => []ReadsOnlyData
  BY SpecIInv, RegionsOK, PTL

----------------------------------------------------------------------------
\* The types TypeOK adds to NumbersOK.
BytesOK == buf \in [Slots -> Int] /\ taken \in Seq(Int) /\ eof \in BOOLEAN

\* Slot by slot: what is held is the stream from nOut on; what the producer
\* has copied and not published continues it.
ContentOK ==
    \A s \in Slots : Distance(s) < Held => buf[s] = nOut + Distance(s)

FilledOK ==
    /\ ppc \in {"copy2", "store"} =>
         \A s \in Slots : tail <= s /\ s < tail + pnow => buf[s] = nIn + s - tail
    /\ ppc = "store" /\ pop = "append" =>
         \A s \in Slots : s < pthen => buf[s] = nIn + pnow + s

StreamOK == BytesOK /\ (~ShortReads => ~eof /\ ContentOK /\ FilledOK)

LEMMA InitStreamOK == Init => StreamOK
<1> SUFFICES ASSUME Init PROVE StreamOK
  OBVIOUS
<1> USE SizeAssumption DEF Init, Slots
<1>1. ASSUME NEW s \in Slots
      PROVE  Wrap(s - head + Size) = Distance(s)
  <2>1. s - head + Size \in Nat /\ s - head + Size < 2 * Size
    OBVIOUS
  <2> QED
    BY <2>1, WrapOnce DEF Distance
<1>2. BytesOK
  <2>1. \A s \in Slots : Distance(s) \in Int
    BY DEF Distance
  <2>2. buf = [s \in Slots |-> IF Distance(s) < nIn THEN Distance(s) ELSE NoByte]
    BY <1>1
  <2>3. \A s \in Slots : (IF Distance(s) < nIn THEN Distance(s) ELSE NoByte) \in Int
    BY <2>1 DEF NoByte
  <2>4. buf \in [Slots -> Int]
    BY ONLY <2>2, <2>3
  <2>5. taken = << >> /\ eof = FALSE
    OBVIOUS
  <2>6. taken \in Seq(Int)
    BY ONLY <2>5
  <2>7. eof \in BOOLEAN
    BY ONLY <2>5
  <2> QED
    BY ONLY <2>4, <2>6, <2>7 DEF BytesOK
<1>3. ContentOK
  <2>1. Held = nIn /\ nOut = 0
    BY DEF Held, BufferLength
  <2>2. \A s \in Slots : buf[s] = IF Distance(s) < nIn THEN Distance(s) ELSE NoByte
    BY <1>1
  <2> QED
    BY <2>1, <2>2 DEF ContentOK, Distance
<1>4. FilledOK
  BY DEF FilledOK
<1> QED
  BY <1>2, <1>3, <1>4 DEF StreamOK

LEMMA LoadBytes ==
    ASSUME BytesOK, NEW slot \in Int, NEW n \in Nat
    PROVE  Load(slot, n) \in Seq(Int) /\ Len(Load(slot, n)) = n
<1>1. \A i \in 1..n : (IF slot + i - 1 \in Slots THEN buf[slot + i - 1] ELSE NoByte) \in Int
  BY DEF BytesOK, NoByte
<1> QED
  BY <1>1 DEF Load

LEMMA FillsAtTail ==
    ASSUME IInv, BytesOK, buf' = Store(buf, tail, pnow, nIn)
    PROVE  \A s \in Slots : buf'[s] =
             IF tail <= s /\ s < tail + pnow THEN nIn + s - tail ELSE buf[s]
  BY SizeAssumption DEF IInv, NumbersOK, BytesOK, Slots, Store

LEMMA FillsAtStart ==
    ASSUME IInv, BytesOK, buf' = Store(buf, 0, pthen, nIn + pnow)
    PROVE  \A s \in Slots : buf'[s] =
             IF 0 <= s /\ s < pthen THEN nIn + pnow + s ELSE buf[s]
  BY SizeAssumption DEF IInv, NumbersOK, BytesOK, Slots, Store

\* The slots that a store of the tail makes visible are those just filled.
LEMMA ExtendSlots ==
    ASSUME IInv, ppc = "store", NEW s \in Slots,
           Distance(s) >= Held, Distance(s) < Held + Publishing
    PROVE  \/ /\ tail <= s /\ s < tail + pnow
              /\ nOut + Distance(s) = nIn + s - tail
           \/ /\ pop = "append" /\ s < pthen
              /\ nOut + Distance(s) = nIn + pnow + s
  BY SizeAssumption DEF IInv, NumbersOK, IndexOK, PutOK, Held, Distance,
     BufferLength, Publishing, Slots

\* A store of the head moves every slot still held closer to the head.
LEMMA AdvanceSlots ==
    ASSUME IInv, NEW s \in Slots, NEW r \in Nat, r <= Held,
           head' = (IF head + r < Size THEN head + r ELSE head + r - Size)
    PROVE  /\ Distance(s)' \in Nat
           /\ Distance(s)' < Held - r => Distance(s) = Distance(s)' + r
  BY SizeAssumption DEF IInv, NumbersOK, IndexOK, Held, Distance,
     BufferLength, Slots

\* So what is still held keeps its place in the stream.
LEMMA AdvanceContent ==
    ASSUME IInv, ContentOK, NEW r \in Nat, r <= Held,
           head' = (IF head + r < Size THEN head + r ELSE head + r - Size),
           nOut' = nOut + r, nIn' = nIn, buf' = buf
    PROVE  ContentOK'
<1>1. Held \in Int /\ Held' = Held - r /\ nOut \in Int
  BY DEF Held, IInv, NumbersOK
<1>2. ASSUME NEW s \in Slots, Distance(s)' < Held - r
      PROVE  buf[s] = nOut + r + Distance(s)'
  <2>1. Distance(s)' \in Nat /\ Distance(s) = Distance(s)' + r
    BY <1>2, AdvanceSlots
  <2>2. Distance(s) < Held
    BY <1>1, <1>2, <2>1
  <2>3. buf[s] = nOut + Distance(s)
    BY <2>2 DEF ContentOK
  <2> QED
    BY <1>1, <2>1, <2>3
<1> QED
  BY <1>1, <1>2 DEF ContentOK, Slots

\* Every step keeps the types of the bytes.
LEMMA BytesStep ==
    ASSUME IInv, BytesOK, [Next]_vars
    PROVE  BytesOK'
<1> USE DEF IInv, NumbersOK, BytesOK, producer, consumer
<1>1. ASSUME NEW n \in Lengths, AppendData(n) PROVE BytesOK'
  BY <1>1 DEF AppendData, BeginPut
<1>2. ASSUME NEW n \in Lengths, CopyByteArray(n) PROVE BytesOK'
  BY <1>2 DEF CopyByteArray, BeginPut
<1>3. ASSUME NEW n \in Lengths, ReadFromFile(n) PROVE BytesOK'
  BY <1>3 DEF ReadFromFile, BeginPut
<1>4. CASE SplitPut
  BY <1>4 DEF SplitPut
<1>5. CASE CopyAtTail
  BY <1>5 DEF CopyAtTail, Store, Slots
<1>6. CASE CopyAtStart
  BY <1>6 DEF CopyAtStart, Store, Slots
<1>7. CASE FreadAtTail
  <2>1. PICK n \in Nat : buf' = Store(buf, tail, n, nIn)
    BY <1>7 DEF FreadAtTail, FreadLengths
  <2>2. buf' \in [Slots -> Int]
    BY <2>1 DEF Store, Slots
  <2> QED
    BY <1>7, <2>2 DEF FreadAtTail
<1>8. CASE Extend
  BY <1>8 DEF Extend, AfterPublish
<1>9. ASSUME NEW n \in Lengths, Peek2ByteArray(n) PROVE BytesOK'
  BY <1>9 DEF Peek2ByteArray, BeginTake
<1>10. ASSUME NEW n \in Lengths, Copy2ByteArray(n) PROVE BytesOK'
  BY <1>10 DEF Copy2ByteArray, BeginTake
<1>11. ASSUME NEW n \in Lengths, WriteToFile(n) PROVE BytesOK'
  BY <1>11 DEF WriteToFile, BeginTake
<1>12. ASSUME NEW n \in Lengths, Skip(n) PROVE BytesOK'
  BY <1>12 DEF Skip, BeginTake
<1>13. ASSUME NEW n \in Lengths, NEW offset \in Slots,
               CopyToCache(offset, n)
      PROVE BytesOK'
  BY <1>13 DEF CopyToCache, BeginTake
<1>14. CASE SplitTake
  BY <1>14 DEF SplitTake
<1>15. CASE ResplitTake
  BY <1>15 DEF ResplitTake
<1>16. CASE ReadAtHead
  <2>1. Wrap(head + coff) \in Int
    BY SizeAssumption DEF Wrap, Slots
  <2> QED
    BY <1>16, <2>1, LoadBytes DEF ReadAtHead
<1>17. CASE ReadAtStart
  BY <1>17, LoadBytes DEF ReadAtStart
<1>18. CASE Advance
  BY <1>18 DEF Advance, AfterRelease
<1>19. CASE Reset
  BY <1>19 DEF Reset, NoByte
<1>20. CASE UNCHANGED vars
  BY <1>20 DEF vars
<1> QED
  BY <1>1, <1>2, <1>3, <1>4, <1>5, <1>6, <1>7, <1>8, <1>9, <1>10, <1>11,
     <1>12, <1>13, <1>14, <1>15, <1>16, <1>17, <1>18, <1>19, <1>20
  DEF Next, PutStep, TakeStep

\* Every step keeps the content of the buffer, if no fread is short.
LEMMA StreamStep ==
    ASSUME IInv, StreamOK, [Next]_vars, ~ShortReads
    PROVE  (~eof /\ ContentOK /\ FilledOK)'
<1> DEFINE Goal == ~eof /\ ContentOK /\ FilledOK
<1>a. BytesOK /\ ~eof /\ ContentOK /\ FilledOK
  BY DEF StreamOK
<1>b. Held \in 0 .. Size - 1 /\ Held = BufferLength(head, tail)
  BY SizeAssumption DEF IInv, IndexOK, NumbersOK, BufferLength, Slots
<1> USE SizeAssumption, <1>a DEF IInv, NumbersOK, PutOK, TakeOK, BytesOK,
        ContentOK, FilledOK, Held, Distance, Slots, producer, consumer
<1>1. ASSUME NEW n \in Lengths, AppendData(n) PROVE Goal'
  BY <1>1 DEF AppendData, BeginPut
<1>2. ASSUME NEW n \in Lengths, CopyByteArray(n) PROVE Goal'
  BY <1>2 DEF CopyByteArray, BeginPut
<1>3. ASSUME NEW n \in Lengths, ReadFromFile(n) PROVE Goal'
  BY <1>3 DEF ReadFromFile, BeginPut
<1>4. CASE SplitPut
  BY <1>4 DEF SplitPut
<1>5. CASE CopyAtTail
  <2>1. \A s \in Slots : buf'[s] =
          IF tail <= s /\ s < tail + pnow THEN nIn + s - tail ELSE buf[s]
    BY <1>5, FillsAtTail DEF CopyAtTail
  <2>2. ContentOK'
    BY <1>5, <1>b, <2>1 DEF CopyAtTail, BufferLength
  <2>3. FilledOK'
    BY <1>5, <2>1 DEF CopyAtTail
  <2> QED
    BY <1>5, <2>2, <2>3 DEF CopyAtTail
<1>6. CASE CopyAtStart
  <2>1. \A s \in Slots : buf'[s] =
          IF 0 <= s /\ s < pthen THEN nIn + pnow + s ELSE buf[s]
    BY <1>6, FillsAtStart DEF CopyAtStart
  <2>2. ContentOK'
    BY <1>6, <1>b, <2>1 DEF CopyAtStart, BufferLength
  <2>3. FilledOK'
    BY <1>6, <1>b, <2>1 DEF CopyAtStart, BufferLength
  <2> QED
    BY <1>6, <2>2, <2>3 DEF CopyAtStart
<1>7. CASE FreadAtTail
  <2>1. \A s \in Slots : buf'[s] =
          IF tail <= s /\ s < tail + pnow THEN nIn + s - tail ELSE buf[s]
    BY <1>7, FillsAtTail DEF FreadAtTail, FreadLengths
  <2>2. ContentOK'
    BY <1>7, <1>b, <2>1 DEF FreadAtTail, BufferLength
  <2>3. FilledOK'
    BY <1>7, <2>1 DEF FreadAtTail
  <2> QED
    BY <1>7, <2>2, <2>3 DEF FreadAtTail, FreadLengths
<1>8. CASE Extend
  <2>1. Publishing \in Nat /\ tail + Publishing \in Nat
        /\ tail + Publishing < 2 * Size
    BY <1>8, <1>b DEF Extend, Publishing
  <2>2. ContentOK'
    <3> SUFFICES ASSUME NEW s \in Slots, Distance(s) < Held + Publishing
                 PROVE  buf[s] = nOut + Distance(s)
      BY <1>8, <2>1 DEF Extend
    <3>1. CASE Distance(s) < Held
      BY <3>1
    <3>2. CASE Distance(s) >= Held
      BY <1>8, <3>2, ExtendSlots DEF Extend
    <3> QED
      BY <3>1, <3>2
  <2>3. FilledOK' /\ ~eof'
    BY <1>8 DEF Extend, AfterPublish
  <2> QED
    BY <2>2, <2>3
<1>9. ASSUME NEW n \in Lengths, Peek2ByteArray(n) PROVE Goal'
  BY <1>9 DEF Peek2ByteArray, BeginTake
<1>10. ASSUME NEW n \in Lengths, Copy2ByteArray(n) PROVE Goal'
  BY <1>10 DEF Copy2ByteArray, BeginTake
<1>11. ASSUME NEW n \in Lengths, WriteToFile(n) PROVE Goal'
  BY <1>11 DEF WriteToFile, BeginTake
<1>12. ASSUME NEW n \in Lengths, Skip(n) PROVE Goal'
  BY <1>12 DEF Skip, BeginTake
<1>13. ASSUME NEW n \in Lengths, NEW offset \in Slots,
               CopyToCache(offset, n)
      PROVE Goal'
  BY <1>13 DEF CopyToCache, BeginTake
<1>14. CASE SplitTake
  BY <1>14 DEF SplitTake
<1>15. CASE ResplitTake
  BY <1>15 DEF ResplitTake
<1>16. CASE ReadAtHead
  BY <1>16 DEF ReadAtHead
<1>17. CASE ReadAtStart
  BY <1>17 DEF ReadAtStart
<1>18. CASE Advance
  <2>1. Releasing \in Nat /\ head + Releasing \in Nat
        /\ head + Releasing < 2 * Size /\ Releasing <= Held
    BY <1>18, <1>b DEF Advance, Releasing
  <2>2. head' = (IF head + Releasing < Size THEN head + Releasing
                 ELSE head + Releasing - Size) /\ nOut' = nOut + Releasing
    BY <1>18, <1>b, <2>1, WrapOnce DEF Advance, AdvanceSucceeds
  <2>3. IInv /\ nIn' = nIn /\ buf' = buf
    BY <1>18 DEF Advance
  <2>4. ContentOK'
    <3> HIDE DEF IInv, Held, ContentOK
    <3> QED
      BY <1>a, <2>1, <2>2, <2>3, AdvanceContent
  <2> QED
    BY <1>18, <2>2, <2>4 DEF Advance
<1>19. CASE Reset
  BY <1>19 DEF Reset, NoByte
<1>20. CASE UNCHANGED vars
  BY <1>20 DEF vars
<1> QED
  BY <1>1, <1>2, <1>3, <1>4, <1>5, <1>6, <1>7, <1>8, <1>9, <1>10, <1>11,
     <1>12, <1>13, <1>14, <1>15, <1>16, <1>17, <1>18, <1>19, <1>20
  DEF Next, PutStep, TakeStep

LEMMA NextStreamOK == IInv /\ StreamOK /\ [Next]_vars => StreamOK'
  BY BytesStep, StreamStep DEF StreamOK

THEOREM SpecStreamOK == Spec => []StreamOK
<1>1. Init => StreamOK
  BY InitStreamOK
<1>2. IInv /\ StreamOK /\ [Next]_vars => StreamOK'
  BY NextStreamOK
<1> QED
  BY <1>1, <1>2, SpecIInv, PTL DEF Spec

----------------------------------------------------------------------------
\* If no fread is short, the buffer always holds the next bytes of the stream
\* in order, for every size of the buffer and every split of the calls.
THEOREM SpecHoldsStream == ~ShortReads => (Spec => []HoldsStream)
<1> SUFFICES ASSUME ~ShortReads PROVE Spec => []HoldsStream
  OBVIOUS
<1>1. IInv /\ StreamOK => HoldsStream
  <2> SUFFICES ASSUME IInv, StreamOK PROVE HoldsStream
    OBVIOUS
  <2> USE SizeAssumption DEF IInv, NumbersOK, IndexOK, BufferLength, Slots
  <2>1. Held \in 0 .. Size - 1
    BY DEF Held
  <2>2. ASSUME NEW i \in 0 .. nIn - nOut - 1
        PROVE  buf[Wrap(head + i)] = nOut + i
    <3>1. Wrap(head + i) = IF head + i < Size THEN head + i
                           ELSE head + i - Size
      BY <2>1, <2>2, WrapOnce DEF Held
    <3>2. Wrap(head + i) \in Slots /\ Distance(Wrap(head + i)) = i
      BY <2>1, <2>2, <3>1 DEF Distance, Held
    <3> HIDE DEF IInv, Slots
    <3> QED
      BY <2>1, <2>2, <3>2 DEF StreamOK, ContentOK, Held
  <2> QED
    BY <2>2 DEF HoldsStream
<1> QED
  BY <1>1, SpecIInv, SpecStreamOK, PTL

\* Every variable keeps its type: the indices stay inside the buffer, and no
\* length of a copy is ever negative, though each is a difference of indices.
THEOREM SpecTypeOK == Spec => []TypeOK
<1>1. IInv /\ StreamOK => TypeOK
  BY DEF IInv, NumbersOK, StreamOK, BytesOK, TypeOK
<1> QED
  BY <1>1, SpecIInv, SpecStreamOK, PTL

----------------------------------------------------------------------------
\* What a call has taken is the stream from its offset on, and between its
\* two parts it has taken all of the first.
TakenOK == DeliversInOrder /\ (cpc = "read2" => Len(taken) = cnow)

\* The slots of the two parts, as places in the stream.
LEMMA FirstPartPlaces ==
    ASSUME IInv, cpc = "read1", NEW i \in 1 .. cnow
    PROVE  LET s == Wrap(head + coff) + i - 1
           IN  s \in Slots /\ Distance(s) = coff + i - 1 /\ Distance(s) < Held
<1>1. head + coff \in Nat /\ head + coff < 2 * Size
  BY SizeAssumption DEF IInv, NumbersOK, IndexOK, TakeOK, Held, BufferLength, Slots
<1>2. Wrap(head + coff) = IF head + coff < Size THEN head + coff ELSE head + coff - Size
  BY <1>1, WrapOnce, SizeAssumption DEF IInv, NumbersOK, Slots
<1> QED
  BY <1>2, SizeAssumption DEF IInv, NumbersOK, IndexOK, TakeOK, Held, BufferLength,
     Slots, Distance

LEMMA SecondPartPlaces ==
    ASSUME IInv, cpc = "read2", NEW i \in 1 .. cthen
    PROVE  /\ i - 1 \in Slots
           /\ Distance(i - 1) = coff + cnow + i - 1
           /\ Distance(i - 1) < Held
<1>1. head + coff \in Nat /\ head + coff < 2 * Size
  BY SizeAssumption DEF IInv, NumbersOK, IndexOK, TakeOK, Held, BufferLength, Slots
<1>2. Wrap(head + coff) = IF head + coff < Size THEN head + coff ELSE head + coff - Size
  BY <1>1, WrapOnce, SizeAssumption DEF IInv, NumbersOK, Slots
<1> QED
  BY <1>2, SizeAssumption DEF IInv, NumbersOK, IndexOK, TakeOK, Held, BufferLength,
     Slots, Distance

LEMMA LoadAt ==
    ASSUME NEW slot \in Int, NEW n \in Nat
    PROVE  /\ Load(slot, n) \in [1 .. n -> Int \cup {buf[s] : s \in Slots}]
           /\ \A i \in 1 .. n : slot + i - 1 \in Slots => Load(slot, n)[i] = buf[slot + i - 1]
  BY DEF Load, NoByte

LEMMA TwoParts ==
    ASSUME NEW s \in Seq(Int), NEW t \in Seq(Int)
    PROVE  /\ Len(s \o t) = Len(s) + Len(t)
           /\ \A i \in 1 .. Len(s) : (s \o t)[i] = s[i]
           /\ \A i \in 1 .. Len(t) : (s \o t)[Len(s) + i] = t[i]
  OBVIOUS

\* Every step keeps the bytes of a call in order.
LEMMA TakenStep ==
    ASSUME IInv, BytesOK, ContentOK, TakenOK, [Next]_vars
    PROVE  TakenOK'
<1> USE DEF TakenOK, DeliversInOrder, producer, consumer
<1>n. /\ head \in Nat /\ coff \in Nat /\ cnow \in Nat /\ cthen \in Nat /\ nOut \in Nat
      /\ taken \in Seq(Int)
  BY DEF IInv, NumbersOK, BytesOK, Slots
<1>0. ASSUME taken' = << >>, cpc' # "read2" PROVE TakenOK'
  BY <1>0
<1>1. ASSUME UNCHANGED <<nOut, consumer>> PROVE TakenOK'
  BY <1>1
<1>2. ASSUME NEW n \in Lengths, AppendData(n) \/ CopyByteArray(n) \/ ReadFromFile(n)
      PROVE  TakenOK'
  BY <1>1, <1>2 DEF AppendData, CopyByteArray, ReadFromFile, BeginPut
<1>3. CASE SplitPut \/ CopyAtTail \/ CopyAtStart \/ FreadAtTail \/ Extend
  BY <1>1, <1>3 DEF SplitPut, CopyAtTail, CopyAtStart, FreadAtTail, Extend
<1>4. ASSUME NEW n \in Lengths,
             \/ Peek2ByteArray(n) \/ Copy2ByteArray(n) \/ WriteToFile(n) \/ Skip(n)
             \/ \E offset \in Slots : CopyToCache(offset, n)
      PROVE  TakenOK'
  BY <1>0, <1>4 DEF Peek2ByteArray, Copy2ByteArray, WriteToFile, Skip, CopyToCache, BeginTake
<1>5. CASE SplitTake \/ ResplitTake
  <2>1. UNCHANGED <<nOut, coff, taken>> /\ cpc' # "read2"
    BY <1>5 DEF SplitTake, ResplitTake
  <2> QED
    BY <2>1
<1>6. CASE ReadAtHead
  <2> DEFINE at == Wrap(head + coff)
  <2>1. /\ cpc = "read1" /\ taken' = Load(at, cnow)
        /\ UNCHANGED <<nOut, coff, cnow>>
    BY <1>6 DEF ReadAtHead
  <2>2. at \in Int
    BY <1>n, SizeAssumption DEF Wrap
  <2>3. Len(taken') = cnow
    BY <1>n, <2>1, <2>2, LoadBytes
  <2>4. ASSUME NEW i \in 1 .. cnow PROVE taken'[i] = nOut + coff + i - 1
    <3>1. /\ at + i - 1 \in Slots /\ Distance(at + i - 1) = coff + i - 1
          /\ Distance(at + i - 1) < Held
      BY <2>1, <2>4, FirstPartPlaces
    <3>2. buf[at + i - 1] = nOut + (coff + i - 1)
      BY <3>1 DEF ContentOK
    <3>3. taken'[i] = buf[at + i - 1]
      BY <1>n, <2>1, <2>2, <2>4, <3>1, LoadAt
    <3> HIDE DEF at
    <3> QED
      BY <1>n, <2>4, <3>2, <3>3
  <2> HIDE DEF at
  <2> QED
    BY <2>1, <2>3, <2>4
<1>7. CASE ReadAtStart
  <2>1. /\ cpc = "read2" /\ taken' = taken \o Load(0, cthen)
        /\ cpc' # "read2" /\ UNCHANGED <<nOut, coff>>
    BY <1>7 DEF ReadAtStart, AfterRead
  <2>2. /\ Load(0, cthen) \in Seq(Int) /\ Len(Load(0, cthen)) = cthen
        /\ Len(taken) = cnow
    BY <1>n, <2>1, LoadBytes
  <2>3. /\ Len(taken') = cnow + cthen
        /\ \A i \in 1 .. cnow : taken'[i] = taken[i]
        /\ \A i \in 1 .. cthen : taken'[cnow + i] = Load(0, cthen)[i]
    BY <1>n, <2>1, <2>2, TwoParts
  <2>4. ASSUME NEW i \in 1 .. cthen PROVE taken'[cnow + i] = nOut + coff + (cnow + i) - 1
    <3>1. /\ i - 1 \in Slots /\ Distance(i - 1) = coff + cnow + i - 1
          /\ Distance(i - 1) < Held
      BY <2>1, <2>4, SecondPartPlaces
    <3>2. buf[i - 1] = nOut + (coff + cnow + i - 1)
      BY <3>1 DEF ContentOK
    <3>3. Load(0, cthen)[i] = buf[0 + i - 1]
      BY <1>n, <2>4, <3>1, LoadAt
    <3> QED
      BY <1>n, <2>3, <2>4, <3>2, <3>3
  <2>5. ASSUME NEW i \in 1 .. Len(taken') PROVE taken'[i] = nOut + coff + i - 1
    <3>1. CASE i \in 1 .. cnow
      BY <2>2, <2>3, <3>1
    <3>2. CASE i \notin 1 .. cnow
      <4>1. i - cnow \in 1 .. cthen /\ cnow + (i - cnow) = i
        BY <1>n, <2>3, <2>5, <3>2
      <4> QED
        BY <2>4, <4>1
    <3> QED
      BY <3>1, <3>2
  <2> QED
    BY <2>1, <2>5
<1>8. CASE Advance
  BY <1>0, <1>8 DEF Advance, AfterRelease
<1>9. CASE Reset
  BY <1>0, <1>9 DEF Reset
<1>10. CASE UNCHANGED vars
  BY <1>1, <1>10 DEF vars
<1> QED
  BY <1>2, <1>3, <1>4, <1>5, <1>6, <1>7, <1>8, <1>9, <1>10 DEF Next, PutStep, TakeStep

\* If no fread is short, every call that takes bytes gets those of the stream
\* from its offset on, in order, though the copy is split by an index that
\* the producer moves.
THEOREM SpecDeliversInOrder ==
    ASSUME ~ShortReads
    PROVE  Spec => []DeliversInOrder
<1>1. Init => TakenOK
  BY DEF Init, TakenOK, DeliversInOrder
<1>2. IInv /\ StreamOK /\ TakenOK /\ [Next]_vars => TakenOK'
  BY TakenStep DEF StreamOK
<1>3. TakenOK => DeliversInOrder
  BY DEF TakenOK
<1> QED
  BY <1>1, <1>2, <1>3, SpecIInv, SpecStreamOK, PTL DEF Spec

----------------------------------------------------------------------------
\* The abstract queue: what is held, as a piece of the stream.
Stream(first, n) == [i \in 1 .. n |-> first + i - 1]

LEMMA ContentsAreStream ==
    ASSUME IInv, ContentOK
    PROVE  Contents = Stream(nOut, Held) /\ Held \in 0 .. Size - 1
<1> USE SizeAssumption DEF IInv, NumbersOK, IndexOK, BufferLength, Slots
<1>1. Held \in 0 .. Size - 1 /\ Held = BufferLength(head, tail)
  BY DEF Held
<1>2. ASSUME NEW i \in 1 .. Held
      PROVE  buf[Wrap(head + i - 1)] = nOut + i - 1
  <2>1. head + i - 1 \in Nat /\ head + i - 1 < 2 * Size
    BY <1>1, <1>2 DEF Held
  <2>2. Wrap(head + i - 1) = IF head + i - 1 < Size THEN head + i - 1
                             ELSE head + i - 1 - Size
    BY <2>1, WrapOnce
  <2>3. Wrap(head + i - 1) \in Slots /\ Distance(Wrap(head + i - 1)) = i - 1
    BY <1>1, <1>2, <2>2 DEF Distance, Held
  <2>4. buf[Wrap(head + i - 1)] = nOut + (i - 1)
    BY <1>1, <1>2, <2>3 DEF ContentOK
  <2> QED
    BY <1>2, <2>4 DEF Held
<1> HIDE DEF IInv, NumbersOK, IndexOK, BufferLength, Slots
<1> QED
  BY <1>1, <1>2 DEF Contents, Stream

LEMMA StreamGrows ==
    ASSUME NEW a \in Nat, NEW n \in Nat, NEW m \in Nat
    PROVE  /\ Len(Stream(a, n)) = n
           /\ Stream(a, n + m) = Stream(a, n) \o [i \in 1 .. m |-> a + n + i - 1]
<1>1. Stream(a, n) \in Seq(Int) /\ Len(Stream(a, n)) = n
  BY DEF Stream
<1>2. [i \in 1 .. m |-> a + n + i - 1] \in Seq(Int)
  OBVIOUS
<1> QED
  BY <1>1, <1>2 DEF Stream

LEMMA StreamShrinks ==
    ASSUME NEW a \in Nat, NEW n \in Nat, NEW m \in 0 .. n
    PROVE  Stream(a + m, n - m) = SubSeq(Stream(a, n), m + 1, n)
<1>1. Stream(a, n) \in Seq(Int) /\ Len(Stream(a, n)) = n
  BY DEF Stream
<1> QED
  BY <1>1 DEF Stream

\* A store of an index is one operation of the queue; no other step shows.
LEMMA FifoStep ==
    ASSUME IInv, IInv', ContentOK, ContentOK', [Next]_vars
    PROVE  [Fifo!FNext]_(Fifo!fvars)
<1> USE DEF producer, consumer
<1>1. Contents = Stream(nOut, Held) /\ Held \in 0 .. Size - 1
  BY ContentsAreStream
<1>2. (Contents = Stream(nOut, Held))'
  BY ContentsAreStream, PTL
<1>3. /\ nIn \in Nat /\ nOut \in Nat /\ Held = nIn - nOut /\ Size \in Nat
  BY SizeAssumption DEF IInv, NumbersOK, Held
<1>4. ASSUME UNCHANGED <<nIn, nOut>> PROVE [Fifo!FNext]_(Fifo!fvars)
  BY <1>1, <1>2, <1>4 DEF Held, Stream, Fifo!fvars
<1>5. ASSUME NEW n \in Lengths, AppendData(n) \/ CopyByteArray(n) \/ ReadFromFile(n)
      PROVE  [Fifo!FNext]_(Fifo!fvars)
  BY <1>4, <1>5 DEF AppendData, CopyByteArray, ReadFromFile, BeginPut
<1>6. CASE SplitPut \/ CopyAtTail \/ CopyAtStart \/ FreadAtTail
  BY <1>4, <1>6 DEF SplitPut, CopyAtTail, CopyAtStart, FreadAtTail
<1>7. ASSUME NEW n \in Lengths,
             \/ Peek2ByteArray(n) \/ Copy2ByteArray(n) \/ WriteToFile(n) \/ Skip(n)
             \/ \E offset \in Slots : CopyToCache(offset, n)
      PROVE  [Fifo!FNext]_(Fifo!fvars)
  BY <1>4, <1>7 DEF Peek2ByteArray, Copy2ByteArray, WriteToFile, Skip, CopyToCache, BeginTake
<1>8. CASE SplitTake \/ ResplitTake \/ ReadAtHead \/ ReadAtStart
  BY <1>4, <1>8 DEF SplitTake, ResplitTake, ReadAtHead, ReadAtStart
<1>9. CASE Extend
  <2>1. PICK n : n = Publishing
    OBVIOUS
  <2>2. n \in 1 .. Size - 1 /\ Held + n <= Size - 1
    BY <1>9, <2>1, SizeAssumption DEF Extend, Publishing, IInv, PutOK, NumbersOK, IndexOK,
       BufferLength, Held, Slots
  <2>3. nIn' = nIn + n /\ nOut' = nOut
    BY <1>9, <2>1 DEF Extend
  <2>4. Held' = Held + n /\ nOut + Held = nIn
    BY <1>3, <2>2, <2>3 DEF Held
  <2>5. Contents' = Stream(nOut, Held + n)
    BY <1>2, <2>3, <2>4 DEF Stream
  <2>6. /\ Len(Contents) = Held
        /\ Contents' = Contents \o [i \in 1 .. n |-> nIn + i - 1]
    <3>1. Held \in Nat /\ n \in Nat /\ nOut \in Nat
      BY <1>1, <1>3, <2>2
    <3> HIDE DEF Held
    <3>2. /\ Len(Stream(nOut, Held)) = Held
          /\ Stream(nOut, Held + n)
               = Stream(nOut, Held) \o [i \in 1 .. n |-> nOut + Held + i - 1]
      BY <3>1, StreamGrows
    <3> QED
      BY <1>1, <2>4, <2>5, <3>2
  <2>7. Fifo!Put(n)
    BY <2>2, <2>3, <2>6 DEF Fifo!Put
  <2> QED
    BY <2>2, <2>7 DEF Fifo!FNext
<1>10. CASE Advance
  <2>1. PICK n : n = Releasing
    OBVIOUS
  <2>2. n \in 1 .. Held /\ AdvanceSucceeds
    BY <1>10, <2>1, SizeAssumption DEF Advance, AdvanceSucceeds, Releasing, IInv, TakeOK,
       NumbersOK, IndexOK, BufferLength, Held, Slots
  <2>3. nIn' = nIn /\ nOut' = nOut + n
    BY <1>10, <2>1, <2>2 DEF Advance
  <2>4. Held' = Held - n
    BY <1>3, <2>2, <2>3 DEF Held
  <2>5. Contents' = Stream(nOut + n, Held - n)
    BY <1>2, <2>3, <2>4 DEF Stream
  <2>6. /\ Len(Contents) = Held
        /\ Contents' = SubSeq(Contents, n + 1, Held)
    <3>1. Held \in Nat /\ n \in 0 .. Held /\ nOut \in Nat
      BY <1>1, <1>3, <2>2
    <3> HIDE DEF Held
    <3>2. Len(Stream(nOut, Held)) = Held
      BY <3>1, StreamGrows
    <3>3. Stream(nOut + n, Held - n) = SubSeq(Stream(nOut, Held), n + 1, Held)
      BY <3>1, StreamShrinks
    <3> QED
      BY <1>1, <2>5, <3>2, <3>3
  <2>7. Fifo!Take(n)
    BY <2>2, <2>3, <2>6 DEF Fifo!Take
  <2>8. n \in 1 .. Size - 1
    BY <1>1, <1>3, <2>2
  <2> QED
    BY <2>7, <2>8 DEF Fifo!FNext
<1>11. CASE Reset
  <2>1. nIn' = 0 /\ nOut' = 0 /\ Held' = 0
    BY <1>11 DEF Reset, Held
  <2>2. Contents' = << >>
    BY <1>2, <2>1 DEF Stream
  <2> QED
    BY <2>1, <2>2 DEF Fifo!FNext, Fifo!Clear
<1>12. CASE UNCHANGED vars
  BY <1>4, <1>12 DEF vars
<1> QED
  BY <1>5, <1>6, <1>7, <1>8, <1>9, <1>10, <1>11, <1>12 DEF Next, PutStep, TakeStep

\* If no fread is short, the two indices and the buffer, used by two threads
\* without a lock, are a bounded queue of bytes of any capacity.
THEOREM SpecImplementsFifo ==
    ASSUME ~ShortReads
    PROVE  Spec => ImplementsFifo
<1>1. Init => Fifo!FInit
  <2> SUFFICES ASSUME Init PROVE Fifo!FInit
    OBVIOUS
  <2>1. IInv /\ ContentOK
    BY InitIInv, InitStreamOK DEF StreamOK
  <2>2. /\ Contents = Stream(nOut, Held) /\ Held \in 0 .. Size - 1
        /\ nOut = 0 /\ nIn \in Nat /\ Held = nIn
    BY <2>1, ContentsAreStream DEF Init, Held, IInv, NumbersOK
  <2>3. Contents = [i \in 1 .. nIn |-> i - 1]
    BY <2>2 DEF Stream
  <2>4. Len(Contents) = nIn
    BY <2>2, StreamGrows
  <2> QED
    BY <2>2, <2>3, <2>4 DEF Fifo!FInit
<1>2. IInv /\ IInv' /\ StreamOK /\ StreamOK' /\ [Next]_vars => [Fifo!FNext]_(Fifo!fvars)
  BY FifoStep DEF StreamOK
<1> QED
  BY <1>1, <1>2, SpecIInv, SpecStreamOK, PTL DEF Spec, ImplementsFifo, Fifo!FSpec
============================================================================
