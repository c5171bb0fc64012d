----------------------------- MODULE ByteArray -----------------------------
(* The byte array of util/mbuffer.c:945-1024: a linear buffer that is      *)
(* filled from a file, read from the front, and moved to the front when    *)
(* what is left has to make room.  The code tests no bound; its caller     *)
(* does.  A byte is its number in the file, 0 what was in the buffer.      *)
EXTENDS Integers, Sequences

CONSTANTS
    ArraySize,  \* iSize
    FileLength  \* bound: bytes of the file

ASSUME ArrayAssumption == {ArraySize, FileLength} \subseteq Nat \ {0}

VARIABLES
    array,      \* pucBuffer, a function of the position
    iCurPos,    \* iCurPos
    iEnd,       \* iEnd
    read,       \* bytes read from the file so far
    taken,      \* of those, bytes copied out or skipped
    spoilt      \* a move has overlapped, or a read met the end of the file

arrayVars == <<array, iCurPos, iEnd, read, taken, spoilt>>
Slots == 0 .. ArraySize - 1

\* MBUFFERByteArrayInit: a buffer of its own, or one that has data in it.
ArrayInit(ends) ==
    /\ iCurPos = 0
    /\ iEnd \in ends
    /\ array = [i \in Slots |-> IF i < iEnd THEN i + 1 ELSE 0]
    /\ read = iEnd /\ taken = 0 /\ spoilt = FALSE

ByteArrayLength == iEnd - iCurPos

\* MBUFFERByteArrayReadFromFile, where the caller has seen there is room.
\* The end moves by what was asked for, whatever fread could read.
ByteArrayReadFromFile == \E n \in 1 .. ArraySize - iEnd :
    LET got == IF n <= FileLength - read THEN n ELSE FileLength - read
    IN  /\ array' = [i \in Slots |-> IF i \in iEnd .. iEnd + got - 1
                                     THEN read + i - iEnd + 1 ELSE array[i]]
        /\ iEnd' = iEnd + n
        /\ read' = read + got
        /\ spoilt' = (spoilt \/ got < n)
        /\ UNCHANGED <<iCurPos, taken>>

\* MBUFFERByteArrayCopy and MBUFFERByteArrayAdvance, of bytes there are.
ByteArrayAdvance == \E n \in 1 .. ByteArrayLength :
    /\ iCurPos' = iCurPos + n
    /\ taken' = taken + n
    /\ UNCHANGED <<array, iEnd, read, spoilt>>

\* MBUFFERByteArraySeek, to bytes that are still in the array.
ByteArraySeek == \E pos \in 0 .. iEnd :
    /\ iCurPos' = pos
    /\ taken' = taken + pos - iCurPos
    /\ UNCHANGED <<array, iEnd, read, spoilt>>

\* memcpy of n bytes; when source and destination overlap it may copy from
\* either end, and then repeats bytes.
CopyForward(dest, src, n) ==
    [i \in Slots |-> IF i \in dest .. dest + n - 1 THEN array[src + i - dest] ELSE array[i]]
CopyBackward(dest, src, n) ==
    LET d == src - dest
        j(i) == src + n - 1 - ((dest + n - 1 - i) % d)
    IN  [i \in Slots |->
            CASE i \in dest .. dest + n - 1 /\ n > d -> array[j(i)]
              [] i \in dest .. dest + n - 1 /\ n <= d -> array[src + i - dest]
              [] OTHER -> array[i]]

\* Slip: the end stays where it was.
ByteArrayMove_KeepsEnd(dest, src) ==
    LET n == iEnd - src
    IN  /\ array' \in {CopyForward(dest, src, n), CopyBackward(dest, src, n)}
        /\ iCurPos' = iCurPos - (src - dest)
        /\ spoilt' = (spoilt \/ n > src - dest)
        /\ UNCHANGED iEnd

ByteArrayMove(dest, src) ==
    LET n == iEnd - src
    IN  /\ array' \in {CopyForward(dest, src, n), CopyBackward(dest, src, n)}
        /\ iCurPos' = iCurPos - (src - dest)
        /\ iEnd' = iEnd - (src - dest)
        /\ spoilt' = (spoilt \/ n > src - dest)

\* MBUFFERByteArrayMove2Head.
ByteArrayMove2Head ==
    /\ iCurPos > 0
    /\ ByteArrayMove(0, iCurPos)
    /\ UNCHANGED <<read, taken>>

ArrayNext ==
    \/ ByteArrayReadFromFile \/ ByteArrayAdvance \/ ByteArraySeek
    \/ ByteArrayMove2Head

----------------------------------------------------------------------------
\* What is unread is the file, from the first byte that was not taken to the
\* last one read, through any sequence of reads, copies, seeks and moves
\* (lines 964-1012), until a move overlaps itself (line 996: memcpy) or a read
\* asks for more than the file has (line 1010).
UnreadIsTheFile ==
    ~spoilt =>
        /\ taken + ByteArrayLength = read
        /\ \A i \in iCurPos .. iEnd - 1 : array[i] = taken + i - iCurPos + 1
============================================================================
