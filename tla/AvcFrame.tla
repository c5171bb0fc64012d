------------------------------ MODULE AvcFrame ------------------------------
(* How util/mbuffer.c reads the bytes of an AVC frame: MBUFFERESGetFrame   *)
(* (lines 823-885) tells a decoder whether a parameter set, a delimiter or *)
(* an SEI comes first, and how long it is, so that the decoder copies it   *)
(* and advances over it (569-581) until the slices are left; a parser asks *)
(* whether the frame is a key frame (417-455).                             *)
(*                                                                         *)
(* A frame is a sequence of NAL units, each a start code, a header and a   *)
(* payload, and the code sees its bytes only.                              *)
EXTENDS Integers, Sequences, SequencesExt

CONSTANT Frames     \* the frames, each with where its units start

Byte == 0 .. 255
BytesOf(u) == [i \in 1 .. u.zeros |-> 0] \o <<1, u.header>> \o u.payload

\* The encoder puts a byte between two zeros and a one of the payload, and
\* one unit behind the other.
IsUnit(u) ==
    /\ u.zeros \in {2, 3} /\ u.header \in Byte /\ u.payload \in Seq(Byte)
    /\ \A i \in 1 .. Len(u.payload) - 2 :
        ~(u.payload[i] = 0 /\ u.payload[i + 1] = 0 /\ u.payload[i + 2] = 1)

ASSUME FramesAssumption == \A f \in Frames :
    LET n == Len(f.units)
    IN  /\ DOMAIN f.units = 1 .. n /\ n \in Nat /\ f.bytes \in Seq(Byte)
        /\ f.starts \in [1 .. n + 1 -> Nat]
        /\ f.starts[1] = 0 /\ f.starts[n + 1] = Len(f.bytes)
        /\ \A i \in 1 .. n :
            /\ IsUnit(f.units[i])
            /\ f.starts[i + 1] = f.starts[i] + Len(BytesOf(f.units[i]))
            /\ \A j \in 1 .. Len(BytesOf(f.units[i])) :
                f.bytes[f.starts[i] + j] = BytesOf(f.units[i])[j]
        /\ \A i, j \in 1 .. n : i < j => f.starts[i] < f.starts[j]

VARIABLES
    frame,      \* the frame as its encoder wrote it
    head,       \* how many bytes of it the decoder has advanced over
    peeled      \* the pieces it has copied before it did

avcVars == <<frame, head, peeled>>

units == frame.units

Type(header) == header % 32
RefIdc(header) == (header \div 32) % 4
IDR == 5
Slices == 1 .. 5
Extra == 6 .. 9     \* SEI, SPS, PPS and the delimiter

\* What is left of the frame; the code indexes from 0.
Size == Len(frame.bytes) - head
At(i) == frame.bytes[head + i + 1]

FrameInit(frames) == frame \in frames /\ head = 0 /\ peeled = << >>

----------------------------------------------------------------------------
\* The first byte of 00 00 01 at the start of the frame, after more zeros.
FirstCode == Min({i \in 0 .. Size - 3 : At(i) # 0 \/ At(i + 1) # 0 \/ At(i + 2) # 0})

HeadIsExtra ==
    LET i == FirstCode
    IN  At(i) = 0 /\ At(i + 1) = 0 /\ At(i + 2) = 1 /\ Type(At(i + 3)) \in Extra

\* Slip: the next start code is taken to have three bytes.
FirstLength_ThreeBytes ==
    LET next == {i \in FirstCode + 4 .. Size - 4 :
                    At(i) = 0 /\ At(i + 1) = 0 /\ At(i + 2) = 1}
    IN  IF next = {} THEN Size ELSE Min(next)

\* The length reported with it: up to the next start code, taken to have
\* four bytes, or all there is.
FirstLength ==
    LET next == {i \in FirstCode + 4 .. Size - 4 :
                    At(i) = 0 /\ At(i + 1) = 0 /\ At(i + 2) = 1}
    IN  IF next = {} THEN Size ELSE Min(next) - 1

\* MBUFFERESGetFrame and MBUFFERESFirstFrameAdvance, as its comment tells the
\* decoder to use them (lines 827-828).
Peel ==
    /\ Size > 0 /\ HeadIsExtra
    /\ peeled' = Append(peeled, SubSeq(frame.bytes, head + 1, head + FirstLength))
    /\ head' = head + FirstLength
    /\ UNCHANGED frame

AvcSpec == FrameInit(Frames) /\ [][Peel]_avcVars

\* Whether a start code of four bytes ends in front of a place.
AfterCode(i) == At(i - 4) = 0 /\ At(i - 3) = 0 /\ At(i - 2) = 0 /\ At(i - 1) = 1

\* Slip: the last place a header may be is left out.
Headers_OffByOne(size) == {i \in 4 .. size - 2 : AfterCode(i)}

\* The places of headers after a start code of four bytes.
Headers(size) == {i \in 4 .. size - 1 : AfterCode(i)}

\* MBUFFERESBufferCheck4KeyFrameTillPos: the first header that is that of a
\* slice decides, where an IDR slice nothing refers to is passed over.
KeyFrame(size) ==
    LET deciding == {i \in Headers(size) :
            \/ Type(At(i)) \in Slices \ {IDR}
            \/ Type(At(i)) = IDR /\ RefIdc(At(i)) # 0}
    IN  deciding # {} /\ Type(At(Min(deciding))) = IDR

----------------------------------------------------------------------------
FourByteCodes == \A i \in DOMAIN units : units[i].zeros = 3

\* The pieces the decoder copies are the units in front of the first slice,
\* each whole, and nothing else (lines 827-828): provided start codes have
\* four bytes, for line 877 believes that of each.
PeelsWholeUnits ==
    FourByteCodes =>
        /\ Len(peeled) <= Len(units)
        /\ \A i \in DOMAIN peeled : peeled[i] = BytesOf(units[i])
        /\ head = frame.starts[Len(peeled) + 1]
        /\ Size > 0 => (HeadIsExtra <=> Type(units[Len(peeled) + 1].header) \in Extra)

\* A frame is a key frame when its first slice is an IDR slice, wherever it
\* is, the last byte included (lines 429-443); again with start codes of four
\* bytes, the only ones it looks for, and when no IDR slice has a
\* nal_ref_idc of zero.
KeyFrameStartsWithIDR ==
    LET slices == {i \in DOMAIN units : Type(units[i].header) \in Slices}
    IN  FourByteCodes /\ peeled = << >>
        /\ (\A i \in slices : Type(units[i].header) = IDR => RefIdc(units[i].header) # 0)
        => (KeyFrame(Size) <=> slices # {} /\ Type(units[Min(slices)].header) = IDR)
=============================================================================
