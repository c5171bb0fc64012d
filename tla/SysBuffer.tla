----------------------------- MODULE SysBuffer -----------------------------
(* MBUFFERSYSBuffer (util/mbuffer.c:9-360): a circular buffer with a head  *)
(* and a tail index, filled by one thread and emptied by another without a *)
(* lock ("producer and consumer may run in different thread", lines 49,    *)
(* 72, 267).  The slot before the head stays free, so that head = tail     *)
(* means empty.                                                            *)
(*                                                                         *)
(* A step is one read of the other thread's index, one memcpy, fread or    *)
(* fwrite, or one store of an index.  A copy is one step, as NoOverwrite   *)
(* and ReadsOnlyData show that the other thread leaves its bytes alone     *)
(* meanwhile.  A byte is its position in the stream.                       *)
EXTENDS Integers, Sequences

CONSTANTS
    Size,           \* iSize
    MaxLength,      \* bound: the largest iLength of a call
    MaxBytes,       \* bound: how many bytes the producer puts in
    ShortReads      \* may the input file end inside an fread?

ASSUME SizeAssumption == Size \in Nat /\ Size >= 2
ASSUME BoundsAssumption ==
    /\ MaxLength \in Nat /\ MaxBytes \in Nat
    /\ ShortReads \in BOOLEAN

VARIABLES
    head, tail,     \* iHead, iTail
    buf,            \* the bytes at pucBuffer
    nIn, nOut,      \* bytes made visible by the producer, and given back
    eof,            \* feof of the input file
    ppc, pop,       \* the producer's place and operation
    pnow, pthen,    \* the bytes it copies at the tail, and then at slot 0
    cpc, cop,       \* the consumer's place and operation
    coff,           \* how far after the head it reads
    cnow, cthen,    \* the bytes it copies there, and then at slot 0
    taken           \* the bytes its call has copied since the head last moved

producer == <<ppc, pop, pnow, pthen>>
consumer == <<cpc, cop, coff, cnow, cthen, taken>>
vars == <<head, tail, buf, nIn, nOut, eof, producer, consumer>>

Slots == 0 .. Size - 1
Lengths == 1 .. MaxLength
MinOf(a, b) == IF a <= b THEN a ELSE b
Wrap(x) == x % Size
NoByte == -1    \* in a slot that holds no byte of the stream

----------------------------------------------------------------------------
\* What the index functions compute from a head h and a tail t.

\* Slip: no slot is kept free, so a full buffer looks empty.
SpaceAvailable_NoGap(h, t) == IF h <= t THEN h - t + Size ELSE h - t

SpaceAvailable(h, t) == IF h <= t THEN h - t - 1 + Size ELSE h - t - 1

\* Slip: the end of the buffer is forgotten.
SpaceAvailableToEnd_NoEnd(h, t) == SpaceAvailable(h, t)

SpaceAvailableToEnd(h, t) ==
    CASE h > t -> h - t - 1
      [] h <= t /\ h = 0 -> Size - t - 1
      [] h <= t /\ h # 0 -> Size - t

\* Slip: the difference is taken the other way round instead of wrapped.
BufferLength_NoWrap(h, t) == IF t - h < 0 THEN h - t ELSE t - h

BufferLength(h, t) == IF t - h < 0 THEN t - h + Size ELSE t - h

LengthToEnd(h, t) == IF t < h THEN Size - h ELSE t - h

\* Slip: up to the end of the buffer from the head, not from the offset.
LengthToEndByOffset_FromHead(offset, h, t) ==
    IF h < t THEN t - h - offset ELSE Size - h

LengthToEndByOffset(offset, h, t) ==
    LET o == Wrap(offset + h) IN
    CASE h < t /\ o >= h /\ o < t -> t - o
      [] h >= t /\ o >= h -> Size - o
      [] h >= t /\ o < h /\ o < t -> t - o
      [] OTHER -> 0

\* MBUFFERSYSPeek2ByteArray's own bound on its first copy.
PeekToEnd(h, t) == IF t > h THEN t - h ELSE Size - h

\* Bytes first, first + 1, ... copied to n slots from slot on.
Store(b, slot, n, first) ==
    [s \in Slots |-> IF s \in slot .. slot + n - 1 THEN first + s - slot ELSE b[s]]

\* n bytes from slot on; what lies beyond the buffer is no byte of it.
Load(slot, n) ==
    [i \in 1..n |-> IF slot + i - 1 \in Slots THEN buf[slot + i - 1] ELSE NoByte]

\* MBUFFERSYSBufferInit: empty, or around a buffer that already holds bytes.
Init ==
    /\ head \in Slots /\ tail \in Slots
    /\ nOut = 0 /\ nIn = BufferLength(head, tail)
    /\ buf = [s \in Slots |->
                 LET i == Wrap(s - head + Size) IN IF i < nIn THEN i ELSE NoByte]
    /\ eof = FALSE
    /\ ppc = "idle" /\ pop = "append" /\ pnow = 0 /\ pthen = 0
    /\ cpc = "idle" /\ cop = "copy" /\ coff = 0 /\ cnow = 0 /\ cthen = 0
    /\ taken = << >>

----------------------------------------------------------------------------
\* The producer.

BeginPut(op, n) ==
    /\ n >= 1
    /\ nIn + n <= MaxBytes
    /\ ppc' = "split" /\ pop' = op /\ pnow' = n /\ pthen' = 0
    /\ UNCHANGED <<head, tail, buf, nIn, nOut, eof, consumer>>

\* MBUFFERSYSAppendData: all of the bytes or none.
AppendData(n) ==
    /\ ppc = "idle"
    /\ SpaceAvailable(head, tail) >= n
    /\ BeginPut("append", n)

\* MBUFFERSYSCopyByteArray2SYSBuffer: as many as fit.  AppendData then reads
\* the head again; it finds no less space, for only the consumer moved.
\* Slip: the length is not cut down to the space available.
CopyByteArray_Uncut(n) ==
    /\ ppc = "idle"
    /\ SpaceAvailable(head, tail) > 0
    /\ BeginPut("append", n)

CopyByteArray(n) ==
    /\ ppc = "idle"
    /\ BeginPut("append", MinOf(SpaceAvailable(head, tail), n))

\* MBUFFERSYSReadFromFile, unless an earlier read met the end of the file.
ReadFromFile(n) ==
    /\ ppc = "idle"
    /\ ~eof
    /\ SpaceAvailable(head, tail) >= n
    /\ BeginPut("file", n)

\* The head is read again to see how much fits before the end.
SplitPut ==
    /\ ppc = "split"
    /\ LET now == MinOf(SpaceAvailableToEnd(head, tail), pnow) IN
        /\ pnow' = now
        /\ pthen' = pnow - now
    /\ ppc' = "copy1"
    /\ UNCHANGED <<head, tail, buf, nIn, nOut, eof, pop, consumer>>

\* The memcpy at the tail.
CopyAtTail ==
    /\ ppc = "copy1" /\ pop = "append"
    /\ buf' = Store(buf, tail, pnow, nIn)
    /\ ppc' = IF pthen > 0 THEN "copy2" ELSE "store"
    /\ UNCHANGED <<head, tail, nIn, nOut, eof, pop, pnow, pthen, consumer>>

\* The memcpy of the rest at the start of the buffer.
\* Slip: the second memcpy starts again at the first byte of the data.
CopyAtStart_FromFirst ==
    /\ ppc = "copy2"
    /\ buf' = Store(buf, 0, pthen, nIn)
    /\ ppc' = "store"
    /\ UNCHANGED <<head, tail, nIn, nOut, eof, pop, pnow, pthen, consumer>>

CopyAtStart ==
    /\ ppc = "copy2"
    /\ buf' = Store(buf, 0, pthen, nIn + pnow)
    /\ ppc' = "store"
    /\ UNCHANGED <<head, tail, nIn, nOut, eof, pop, pnow, pthen, consumer>>

\* How many bytes an fread of pnow bytes delivers.
FreadLengths ==
    CASE eof -> {0}
      [] ~eof /\ ShortReads -> 0 .. pnow
      [] ~eof /\ ~ShortReads -> {pnow}

\* The fread at the tail, whose result is ignored: the tail moves by pnow.
FreadAtTail ==
    /\ ppc = "copy1" /\ pop = "file"
    /\ \E n \in FreadLengths :
        /\ buf' = Store(buf, tail, n, nIn)
        /\ eof' = (n < pnow)
    /\ ppc' = "store"
    /\ UNCHANGED <<head, tail, nIn, nOut, pop, pnow, pthen, consumer>>

\* The bytes the next store of the tail makes visible: an append publishes
\* both parts at once, a file read each part after its fread.
Publishing == IF pop = "append" THEN pnow + pthen ELSE pnow

\* After a store of the tail: the rest of a file read, or the return.
AfterPublish ==
    /\ IF pop = "file" /\ pthen > 0
       THEN ppc' = "copy1" /\ pnow' = pthen
       ELSE ppc' = "idle" /\ pnow' = 0
    /\ pthen' = 0
    /\ UNCHANGED pop

\* Slip: the tail wraps only once it has passed the end.
Extend_NoWrap ==
    /\ ppc = "store"
    /\ tail' = IF tail + Publishing > Size THEN tail + Publishing - Size
               ELSE tail + Publishing
    /\ nIn' = nIn + Publishing
    /\ AfterPublish
    /\ UNCHANGED <<head, buf, nOut, eof, consumer>>

\* MBUFFERSYSExtend, and the end of MBUFFERSYSAppendData: iTail += n;
\* iTail %= iSize, which an optimising compiler makes one store.
Extend ==
    /\ ppc = "store"
    /\ tail' = Wrap(tail + Publishing)
    /\ nIn' = nIn + Publishing
    /\ AfterPublish
    /\ UNCHANGED <<head, buf, nOut, eof, consumer>>

----------------------------------------------------------------------------
\* The consumer.  Its caller has checked MBUFFERSYSBufferLength first ("It's
\* the caller's responsibility to guarantee that we have enough data").

BeginTake(op, offset, n) ==
    /\ cpc = "idle"
    /\ BufferLength(head, tail) >= offset + n
    /\ cop' = op /\ coff' = offset /\ cnow' = n /\ cthen' = 0
    /\ taken' = << >>
    /\ UNCHANGED <<head, tail, buf, nIn, nOut, eof, producer>>

\* MBUFFERSYSPeek2ByteArray; with the head moved after it,
\* MBUFFERSYSCopy2ByteArray.
Peek2ByteArray(n) == BeginTake("peek", 0, n) /\ cpc' = "split"
Copy2ByteArray(n) == BeginTake("copy", 0, n) /\ cpc' = "split"

\* MBUFFERSYSCopyToCacheByOffset, and with offset 0 MBUFFERSYSCopyToCache.
CopyToCache(offset, n) == BeginTake("cache", offset, n) /\ cpc' = "split"

\* MBUFFERSYSWriteToFile.
WriteToFile(n) == BeginTake("write", 0, n) /\ cpc' = "split"

\* MBUFFERSYSAdvance alone, to skip bytes.
Skip(n) == BeginTake("skip", 0, n) /\ cpc' = "advance"

\* The bound of the first copy, from another read of the tail.
FirstPart ==
    CASE cop \in {"peek", "copy"} -> PeekToEnd(head, tail)
      [] cop = "cache" -> LengthToEndByOffset(coff, head, tail)
      [] cop = "write" -> LengthToEnd(head, tail)

SplitTake ==
    /\ cpc = "split"
    /\ IF cop = "write" /\ FirstPart < cnow
       THEN /\ cpc' = "resplit"
            /\ UNCHANGED <<cnow, cthen>>
       ELSE /\ cpc' = "read1"
            /\ cnow' = MinOf(FirstPart, cnow)
            /\ cthen' = cnow - MinOf(FirstPart, cnow)
    /\ UNCHANGED <<head, tail, buf, nIn, nOut, eof, producer, cop, coff, taken>>

\* MBUFFERSYSWriteToFile asks a second time (line 337) and believes it.
ResplitTake ==
    /\ cpc = "resplit"
    /\ cnow' = LengthToEnd(head, tail)
    /\ cthen' = cnow - LengthToEnd(head, tail)
    /\ cpc' = "read1"
    /\ UNCHANGED <<head, tail, buf, nIn, nOut, eof, producer, cop, coff, taken>>

Advances == cop \in {"copy", "write", "skip"}

AfterRead == IF Advances THEN "advance" ELSE "idle"

\* The copy from the head (or from an offset after it).
ReadAtHead ==
    /\ cpc = "read1"
    /\ taken' = Load(Wrap(head + coff), cnow)
    /\ cpc' = IF cthen > 0 /\ cop # "write" THEN "read2" ELSE AfterRead
    /\ UNCHANGED <<head, tail, buf, nIn, nOut, eof, producer>>
    /\ UNCHANGED <<cop, coff, cnow, cthen>>

\* The copy of the rest from the start of the buffer.
ReadAtStart ==
    /\ cpc = "read2"
    /\ taken' = taken \o Load(0, cthen)
    /\ cpc' = AfterRead
    /\ UNCHANGED <<head, tail, buf, nIn, nOut, eof, producer>>
    /\ UNCHANGED <<cop, coff, cnow, cthen>>

\* The bytes the next store of the head gives back.
Releasing == IF cop = "write" THEN cnow ELSE cnow + cthen

\* After a store of the head: the second part of a file write, or the return.
AfterRelease ==
    /\ IF cop = "write" /\ cthen > 0
       THEN cpc' = "read1" /\ cnow' = cthen
       ELSE cpc' = "idle" /\ cnow' = 0
    /\ cthen' = 0
    /\ taken' = << >>
    /\ UNCHANGED <<cop, coff>>

\* MBUFFERSYSAdvance checks the length once more and moves the head; its
\* callers ignore its result.
AdvanceSucceeds == BufferLength(head, tail) >= Releasing

Advance ==
    /\ cpc = "advance"
    /\ head' = IF AdvanceSucceeds THEN Wrap(head + Releasing) ELSE head
    /\ nOut' = IF AdvanceSucceeds THEN nOut + Releasing ELSE nOut
    /\ AfterRelease
    /\ UNCHANGED <<tail, buf, nIn, eof, producer>>

----------------------------------------------------------------------------
\* MBUFFERSYSBufferDeInit, with neither thread inside a call, and Init again.
Reset ==
    /\ ppc = "idle" /\ cpc = "idle"
    /\ head' = 0 /\ tail' = 0
    /\ nIn' = 0 /\ nOut' = 0
    /\ buf' = [s \in Slots |-> NoByte]
    /\ taken' = << >>
    /\ UNCHANGED <<eof, producer, cpc, cop, coff, cnow, cthen>>

\* The steps that store no index, and those that do.
PutStep ==
    \/ \E n \in Lengths : AppendData(n) \/ CopyByteArray(n) \/ ReadFromFile(n)
    \/ SplitPut \/ CopyAtTail \/ CopyAtStart \/ FreadAtTail

TakeStep ==
    \/ \E n \in Lengths :
        \/ Peek2ByteArray(n) \/ Copy2ByteArray(n) \/ WriteToFile(n) \/ Skip(n)
        \/ \E offset \in Slots : CopyToCache(offset, n)
    \/ SplitTake \/ ResplitTake \/ ReadAtHead \/ ReadAtStart

Next == PutStep \/ Extend \/ TakeStep \/ Advance \/ Reset

Spec == Init /\ [][Next]_vars

----------------------------------------------------------------------------
\* Every variable has its type; in particular the indices lie in the buffer,
\* and no length of a copy is negative.
TypeOK ==
    /\ head \in Slots /\ tail \in Slots
    /\ buf \in [Slots -> Int]
    /\ nIn \in Nat /\ nOut \in Nat
    /\ eof \in BOOLEAN
    /\ ppc \in {"idle", "split", "copy1", "copy2", "store"}
    /\ pop \in {"append", "file"}
    /\ pnow \in Nat /\ pthen \in Nat
    /\ cpc \in {"idle", "split", "resplit", "read1", "read2", "advance"}
    /\ cop \in {"peek", "copy", "cache", "write", "skip"}
    /\ coff \in Nat /\ cnow \in Nat /\ cthen \in Nat
    /\ taken \in Seq(Int)

\* The slots the producer is about to fill and the consumer to copy from.
PutSlots ==
    CASE ppc = "copy1" -> tail .. tail + pnow - 1
      [] ppc = "copy2" -> 0 .. pthen - 1
      [] OTHER -> {}

TakeSlots ==
    CASE cpc = "read1" -> Wrap(head + coff) .. Wrap(head + coff) + cnow - 1
      [] cpc = "read2" -> 0 .. cthen - 1
      [] OTHER -> {}

\* The slots of the bytes put in and not taken out.
Occupied == {Wrap(head + i) : i \in 0 .. nIn - nOut - 1}

\* No memcpy, fread or fwrite runs past the end of the buffer, although each
\* side bounds it with an index the other side moves meanwhile.
InBounds == PutSlots \subseteq Slots /\ TakeSlots \subseteq Slots

\* The producer never copies over a byte that is still to be taken.
NoOverwrite == PutSlots \cap Occupied = {}

\* The consumer copies only bytes that have been put in and are still there.
ReadsOnlyData == TakeSlots \subseteq Occupied

\* The bytes visible to the consumer are the next bytes of the stream, in
\* order, also for those read from a file (mbuffer.h:395: a read returns the
\* number of bytes read).
HoldsStream ==
    \A i \in 0 .. nIn - nOut - 1 : buf[Wrap(head + i)] = nOut + i

\* A call that peeks, copies, caches or writes to a file gets the bytes of the
\* stream from its offset on, however the copy was split and whatever the
\* producer did between the two parts.
DeliversInOrder ==
    \A i \in 1 .. Len(taken) : taken[i] = nOut + coff + i - 1

\* The two indices and the buffer implement a bounded queue of bytes: what
\* MBUFFERSYSBufferLength counts from the head is what was appended and not
\* removed.
Contents == [i \in 1 .. BufferLength(head, tail) |-> buf[Wrap(head + i - 1)]]
Fifo == INSTANCE ByteFifo WITH
            Capacity <- Size - 1, queue <- Contents, next <- nIn
ImplementsFifo == Fifo!FSpec
============================================================================
