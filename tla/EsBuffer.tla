----------------------------- MODULE EsBuffer -----------------------------
(* MBUFFERESBuffer (util/mbuffer.c:363-943, without USE_DETACHED_ESBUFFER): *)
(* a ring of frame descriptors, each the range piHead .. piTail - 1 of one  *)
(* byte area.  A frame is contiguous: one that does not fit at the end of   *)
(* the area begins at its front, and one that outgrows the end is moved     *)
(* there.                                                                   *)
(*                                                                          *)
(* Each operation is one step: unlike the system buffer this one updates    *)
(* one descriptor from both ends, and its users need a lock.  A parser      *)
(* appends, splits and throws away; a decoder gets the first frame and      *)
(* works on it in place while the parser goes on, until it advances.  Side  *)
(* information is left out (it moves with the descriptors).  A byte is its  *)
(* position in the stream.                                                  *)
EXTENDS Integers, Sequences

CONSTANTS
    Size,           \* iSize, the bytes of the area
    MaxFrames,      \* MBUFFER_ES_MAX_FRAMES_IN_BUFFER
    MaxLength,      \* bound: the largest iLength of a call
    MaxBytes,       \* bound: how many bytes the parser appends
    WaitForNext     \* does the decoder leave the last frame to the parser?

ASSUME EsAssumption ==
    /\ Size \in Nat /\ Size >= 2
    /\ MaxFrames \in Nat /\ MaxFrames >= 2
    /\ MaxLength \in Nat /\ MaxBytes \in Nat
    /\ WaitForNext \in BOOLEAN

VARIABLES
    piHead, piTail,         \* the range of each frame
    iIndexHead, iIndexTail, \* the first descriptor in use, the first free one
    bytes,                  \* the bytes at pucBuffer
    nIn,                    \* how many bytes have been appended
    open,                   \* the parser still works on the last frame
    held                    \* where and what the frame is the decoder works on

ranges == <<piHead, piTail>>
index == <<iIndexHead, iIndexTail>>
vars == <<ranges, index, bytes, nIn, open, held>>

Slots == 0 .. Size - 1
Frames == 0 .. MaxFrames - 1
Lengths == 1 .. MaxLength
MaxOf(a, b) == IF a >= b THEN a ELSE b
Nothing == [pos |-> 0, data |-> << >>]

Read(b, pos, n) == [i \in 1..n |-> b[pos + i - 1]]

\* n bytes of the stream copied to pos.
Store(b, pos, n) ==
    [s \in Slots |-> IF s \in pos .. pos + n - 1 THEN nIn + s - pos ELSE b[s]]

NextFrame(f) == (f + 1) % MaxFrames

IsEmpty == iIndexHead = iIndexTail
LastFrameNo == (iIndexTail - 1 + MaxFrames) % MaxFrames

NumFrames ==
    IF iIndexTail < iIndexHead THEN iIndexTail - iIndexHead + MaxFrames
    ELSE iIndexTail - iIndexHead

\* Slip: the ring is taken to hold as many frames as it has descriptors.
IsIndexFull_Never == FALSE

IsIndexFull == iIndexHead = NextFrame(iIndexTail)

FirstFrameLength ==
    IF IsEmpty THEN 0 ELSE (piTail[iIndexHead] - piHead[iIndexHead]) % Size

LastFrameLength ==
    IF IsEmpty THEN 0 ELSE piTail[LastFrameNo] - piHead[LastFrameNo]

\* MBUFFERESBufferInit.
Init ==
    /\ piHead = [f \in Frames |-> 0] /\ piTail = [f \in Frames |-> 0]
    /\ iIndexHead = 0 /\ iIndexTail = 0
    /\ bytes = [s \in Slots |-> -1]
    /\ nIn = 0 /\ open = FALSE /\ held = Nothing

----------------------------------------------------------------------------
\* The parser.

\* Slips: the byte that tells full from empty is given away; the room a
\* moved frame itself takes at the front is forgotten.
SpaceAvailable_NoGap(start) ==
    LET h == piHead[iIndexHead]
        t == piTail[LastFrameNo]
    IN  IF IsEmpty THEN Size
        ELSE IF t >= h
             THEN MaxOf(Size - t, IF start THEN h ELSE h - LastFrameLength)
             ELSE h - t

SpaceAvailable_ForgetsMoved(start) ==
    LET h == piHead[iIndexHead]
        t == piTail[LastFrameNo]
    IN  (IF IsEmpty THEN Size ELSE IF t >= h THEN MaxOf(Size - t, h) ELSE h - t) - 1

\* MBUFFERESBufferSpaceAvailable: at the end of the area or at its front,
\* where a frame that is continued has to be moved.
SpaceAvailable(start) ==
    LET h == piHead[iIndexHead]
        t == piTail[LastFrameNo]
    IN  (IF IsEmpty THEN Size
         ELSE IF t >= h
              THEN MaxOf(Size - t, IF start THEN h ELSE h - LastFrameLength)
              ELSE h - t) - 1

\* Slip: the last byte is taken to be the one at iSize.
FitsBehind_OffByOne(n) ==
    \/ piTail[LastFrameNo] < piHead[iIndexHead]
    \/ Size - piTail[LastFrameNo] >= n - 1

\* Do n more bytes fit behind the last frame?
FitsBehind(n) ==
    \/ piTail[LastFrameNo] < piHead[iIndexHead]
    \/ Size - piTail[LastFrameNo] >= n

Appended(n) == nIn + n <= MaxBytes /\ nIn' = nIn + n

\* MBUFFERESAppendData with iIfStartFrame, and MBUFFERESReadFromFile.
StartFrame(n) ==
    /\ SpaceAvailable(TRUE) >= n
    /\ ~IsIndexFull
    /\ LET pos == IF ~IsEmpty /\ FitsBehind(n) THEN piTail[LastFrameNo] ELSE 0 IN
        /\ bytes' = Store(bytes, pos, n)
        /\ piTail' = [piTail EXCEPT ![iIndexTail] = pos + n]
        /\ piHead' = [piHead EXCEPT ![iIndexTail] = pos]
    /\ iIndexTail' = NextFrame(iIndexTail)
    /\ Appended(n)
    /\ open' = TRUE
    /\ UNCHANGED <<iIndexHead, held>>

\* The last frame copied to the front of the area.
MoveToFront ==
    [s \in Slots |-> IF s < LastFrameLength
                     THEN bytes[piHead[LastFrameNo] + s] ELSE bytes[s]]

Moves(n) == ~IsEmpty /\ ~FitsBehind(n)

\* Slip: the frame is moved and its descriptor still says where it was.
ContinueFrame_KeepsHead(n) ==
    /\ open
    /\ SpaceAvailable(FALSE) >= n
    /\ LET pos == CASE IsEmpty -> 0
                    [] Moves(n) -> LastFrameLength
                    [] OTHER -> piTail[LastFrameNo] IN
        /\ bytes' = Store(IF Moves(n) THEN MoveToFront ELSE bytes, pos, n)
        /\ piTail' = [piTail EXCEPT ![LastFrameNo] = pos + n]
    /\ Appended(n)
    /\ UNCHANGED <<piHead, index, open, held>>

\* MBUFFERESAppendData without iIfStartFrame.  If the decoder has taken the
\* last frame, the bytes go to the front and to a descriptor not in use.
ContinueFrame(n) ==
    /\ open
    /\ SpaceAvailable(FALSE) >= n
    /\ LET pos == CASE IsEmpty -> 0
                    [] Moves(n) -> LastFrameLength
                    [] OTHER -> piTail[LastFrameNo] IN
        /\ bytes' = Store(IF Moves(n) THEN MoveToFront ELSE bytes, pos, n)
        /\ piTail' = [piTail EXCEPT ![LastFrameNo] = pos + n]
    /\ piHead' = IF Moves(n) THEN [piHead EXCEPT ![LastFrameNo] = 0] ELSE piHead
    /\ Appended(n)
    /\ UNCHANGED <<index, open, held>>

\* The parser takes nothing away from the frame the decoder works on.
IsHeld == held # Nothing /\ NumFrames = 1

\* MBUFFERESSplitFrame, which leaves it to its caller that a descriptor is
\* free (MBUFFERESBufferIsIndexFull) and that the frame is that long.
SplitFrame(n) ==
    /\ open /\ ~IsHeld /\ ~IsEmpty /\ ~IsIndexFull
    /\ n < LastFrameLength
    /\ LET cut == piHead[LastFrameNo] + n IN
        /\ piTail' = [piTail EXCEPT ![iIndexTail] = piTail[LastFrameNo],
                                    ![LastFrameNo] = cut]
        /\ piHead' = [piHead EXCEPT ![iIndexTail] = cut]
    /\ iIndexTail' = NextFrame(iIndexTail)
    /\ UNCHANGED <<iIndexHead, bytes, nIn, open, held>>

\* MBUFFERESThrowLastFrame, which keeps an empty frame or recedes.
ThrowLastFrame(recede) ==
    /\ open /\ ~IsHeld
    /\ piTail' = [piTail EXCEPT ![LastFrameNo] = piHead[LastFrameNo]]
    /\ iIndexTail' = IF recede /\ ~IsEmpty THEN LastFrameNo ELSE iIndexTail
    /\ open' = ~recede
    /\ UNCHANGED <<piHead, iIndexHead, bytes, nIn, held>>

\* MBUFFERESLastFrameAdvance.
LastFrameAdvance(n) ==
    /\ open /\ ~IsHeld
    /\ n <= LastFrameLength
    /\ piHead' = [piHead EXCEPT ![LastFrameNo] = piHead[LastFrameNo] + n]
    /\ UNCHANGED <<piTail, index, bytes, nIn, open, held>>

----------------------------------------------------------------------------
\* The decoder.

\* MBUFFERESFirstFramePos and MBUFFERESFirstFrameLength, as MBUFFERESGetFrame
\* calls them: from here on the decoder works on the bytes in place.
GetFrame ==
    /\ held = Nothing
    /\ ~IsEmpty
    /\ WaitForNext => NumFrames >= 2
    /\ FirstFrameLength > 0
    /\ held' = [pos |-> piHead[iIndexHead],
                data |-> Read(bytes, piHead[iIndexHead], FirstFrameLength)]
    /\ UNCHANGED <<ranges, index, bytes, nIn, open>>

\* MBUFFERESAdvanceFrame, by a decoder that has finished with the frame or
\* finds it empty.
AdvanceFrame ==
    /\ ~IsEmpty
    /\ WaitForNext => NumFrames >= 2 \/ held # Nothing
    /\ held # Nothing \/ FirstFrameLength = 0
    /\ iIndexHead' = NextFrame(iIndexHead)
    /\ held' = Nothing
    /\ UNCHANGED <<ranges, iIndexTail, bytes, nIn, open>>

\* MBUFFERESFirstFrameAdvance.
FirstFrameAdvance(n) ==
    /\ held # Nothing /\ n <= Len(held.data)
    /\ piHead' = [piHead EXCEPT ![iIndexHead] = piHead[iIndexHead] + n]
    /\ iIndexHead' = IF piHead'[iIndexHead] = piTail[iIndexHead] /\ ~IsEmpty
                     THEN NextFrame(iIndexHead) ELSE iIndexHead
    /\ held' = Nothing
    /\ UNCHANGED <<piTail, iIndexTail, bytes, nIn, open>>

\* MBUFFERESBufferDeInit without freeing the area.
DeInit ==
    /\ held = Nothing
    /\ iIndexHead' = 0 /\ iIndexTail' = 0
    /\ open' = FALSE
    /\ UNCHANGED <<ranges, bytes, nIn, held>>

Next ==
    \/ \E n \in Lengths :
        \/ StartFrame(n) \/ ContinueFrame(n) \/ SplitFrame(n)
        \/ LastFrameAdvance(n) \/ FirstFrameAdvance(n)
    \/ \E recede \in BOOLEAN : ThrowLastFrame(recede)
    \/ GetFrame \/ AdvanceFrame \/ DeInit

Spec == Init /\ [][Next]_vars

----------------------------------------------------------------------------
\* Every variable has its type: the indices stay in the ring, both ends of every
\* range in the area.  That no frame is turned round is part of FramesApart.
TypeOK ==
    /\ piHead \in [Frames -> 0 .. Size] /\ piTail \in [Frames -> 0 .. Size]
    /\ iIndexHead \in Frames /\ iIndexTail \in Frames
    /\ bytes \in [Slots -> Int]
    /\ nIn \in 0 .. MaxBytes
    /\ open \in BOOLEAN
    /\ held.pos \in 0 .. Size /\ held.data \in Seq(Int)

\* The descriptors in use, the first frame's first.
Frame(i) == (iIndexHead + i - 1) % MaxFrames
InUse == {Frame(i) : i \in 1 .. NumFrames}
Area(f) == piHead[f] .. piTail[f] - 1

\* The frames lie in the area and apart from one another, whatever was moved,
\* split, thrown away or advanced over.
FramesApart ==
    /\ \A f \in InUse : piHead[f] <= piTail[f] /\ Area(f) \subseteq Slots
    /\ \A f, g \in InUse : f # g => Area(f) \cap Area(g) = {}

\* A frame moved to the front does not overlap its old place, as the memcpy
\* of mbuffer.c:551 requires.
MoveIsDisjoint ==
    \A n \in Lengths : open /\ Moves(n) /\ SpaceAvailable(FALSE) >= n =>
        piHead[LastFrameNo] >= LastFrameLength

\* A frame stays where the decoder found it and as it found it, until the
\* decoder advances (mbuffer.c:825-826).
HeldFrameIntact ==
    \A i \in 1 .. Len(held.data) : bytes[held.pos + i - 1] = held.data[i]

\* The descriptors and the area implement a queue of frames of the stream.
Contents ==
    [i \in 1 .. NumFrames |->
        Read(bytes, piHead[Frame(i)], piTail[Frame(i)] - piHead[Frame(i)])]
Queue == INSTANCE FrameQueue WITH
            Capacity <- MaxFrames - 1, frames <- Contents, next <- nIn
ImplementsQueue == Queue!QSpec
===========================================================================
