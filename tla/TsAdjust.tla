------------------------------ MODULE TsAdjust ------------------------------
(* The timestamps of the elementary-stream buffer (util/mbuffer.c:627-664, *)
(* 743-752): a parser sets the side information of each new frame, and a   *)
(* reader asks for it adjusted for the wrap-around of the timestamps,      *)
(* before it advances over the frame.                                      *)
(*                                                                         *)
(* A frame is known by its time, counted without wrap-around; its PTS is   *)
(* that time modulo the wrap-around of the container, WrapAt.  DTS gets    *)
(* the same adjustment as PTS.  One thread, or a lock around each call.    *)
EXTENDS Integers, Sequences, SequencesExt

CONSTANTS
    Several,    \* iTimeScale * MBUFFER_SEVERAL_SECONDS
    WrapUnit,   \* 2^MBUFFER_TS_WRAPAROUND_BIT
    WrapAt,     \* where timestamps start again at zero
    Starts,     \* times of the first frame
    Reorder,    \* a frame is coded up to this long before those it precedes
    MaxGap,     \* a new latest frame is at most this much later
    MaxFrames,  \* bound: frames of the stream
    MaxHeld     \* bound: frames in the buffer

ASSUME TsAssumption ==
    /\ {Several, WrapUnit, WrapAt, MaxFrames, MaxHeld} \subseteq Nat \ {0}
    /\ WrapAt % WrapUnit = 0
    /\ Starts \subseteq 0 .. WrapAt - 1
    /\ Reorder \in Nat /\ MaxGap \in Nat \ {0}

\* The streams the adjustment is for.  A frame is no more than several seconds
\* (16) later than all before it, none is before time zero, and several seconds
\* are little beside the lowest wrap-around (2^27, 25 minutes at 90 kHz).
ASSUME StreamAssumption ==
    /\ MaxGap <= Several
    /\ 2 * Several + Reorder <= WrapUnit
    /\ \A t \in Starts : Reorder <= t

VARIABLES
    lastTS, lastAdjustedTS,         \* lLastTS, lLastAdjustedTS
    prevLastTS, prevLastAdjustedTS, \* lPrevLastTS, lPrevLastAdjustedTS
    frames,     \* the side information and time of each frame appended
    advanced,   \* how many of them the reader has advanced over
    reader,     \* which call the reader uses
    shown       \* the time of the frame last asked for and what was returned

current == <<lastTS, lastAdjustedTS>>
previous == <<prevLastTS, prevLastAdjustedTS>>
tsVars == <<current, previous, frames, advanced, reader, shown>>

Normal == 0         \* MBUFFER_ES_FRAME_TYPE_NORMALFRAME
ExtraInfo == 1      \* MBUFFER_ES_FRAME_TYPE_EXTRAINFOFRAME

\* MBUFFERESBufferInit.
Init ==
    /\ lastTS = -1 /\ lastAdjustedTS = -1
    /\ prevLastTS = -1 /\ prevLastAdjustedTS = -1
    /\ frames = <<>> /\ advanced = 0
    /\ reader \in {"first", "last", "lastTwo"}
    /\ shown = [time |-> 0, adjusted |-> 0]

----------------------------------------------------------------------------
\* The side information of the last frame; the first one sets all four.
SetSideInfo(info) ==
    /\ frames' = Append(frames, info)
    /\ IF lastTS = -1
       THEN /\ lastTS' = info.PTS /\ lastAdjustedTS' = info.PTS
            /\ prevLastTS' = info.PTS /\ prevLastAdjustedTS' = info.PTS
       ELSE UNCHANGED <<current, previous>>

\* The next frame is later than all before it, or it comes between the two
\* latest ones and after those already put there: the order in which a
\* stream without pyramids of B frames is coded.
NormalFrames == {i \in DOMAIN frames : frames[i].type = Normal}
Times == {frames[i].time : i \in NormalFrames}
Latest == Max(Times)
NextTimes ==
    IF Times = {} THEN Starts
    ELSE LET between == {t \in Latest - Reorder .. Latest - 1 :
                                \A u \in Times \ {Latest} : u < t}
         IN  between \cup (Latest + 1 .. Latest + MaxGap)

NumFrames == Len(frames) - advanced

\* The frame a call of the reader is about.  The last but one is refused when
\* it is not in the buffer because there is one frame in it, and not when
\* there is none: the call then returns an old frame (lines 706-712).
CanAsk == IF reader = "lastTwo" THEN NumFrames # 1 ELSE NumFrames > 0
ReaderIndex ==
    CASE reader = "first" -> advanced + 1
      [] reader = "last" -> Len(frames)
      [] reader = "lastTwo" -> Len(frames) - 1

\* A reader asks for each frame it can get, before it is gone.
Unseen == ReaderIndex \in DOMAIN frames /\ ~frames[ReaderIndex].seen

AppendFrame ==
    /\ NumFrames < MaxHeld /\ Len(frames) < MaxFrames
    /\ reader # "first" => ~Unseen
    /\ \E t \in NextTimes :
        SetSideInfo([PTS |-> t % WrapAt, type |-> Normal, time |-> t, seen |-> FALSE])
    /\ UNCHANGED <<advanced, reader, shown>>

\* MBUFFERESAddExtraInfo: a frame of its own, with -1 for its timestamps.
\* A reader tells it by its type and asks for no adjusted timestamp.
AddExtraInfo ==
    /\ NumFrames < MaxHeld /\ Len(frames) < MaxFrames
    /\ reader # "first" => ~Unseen
    /\ SetSideInfo([PTS |-> -1, type |-> ExtraInfo, time |-> -1, seen |-> TRUE])
    /\ UNCHANGED <<advanced, reader, shown>>

----------------------------------------------------------------------------
\* The candidate for the point of the wrap-around, and whether pts is the
\* first timestamp after it.
MaxPTS == ((lastTS + Several) \div WrapUnit) * WrapUnit
WrapsAround(pts) ==
    /\ pts < lastTS /\ pts < Several
    /\ MaxPTS # 0 /\ lastTS < MaxPTS

\* Slip: the previous adjustment is not kept at a wrap-around.
AfterWrap_ForgetsPrevious(pts) ==
    IF WrapsAround(pts)
    THEN [TS |-> pts, adjusted |-> lastAdjustedTS + pts + MaxPTS - lastTS,
          prevTS |-> pts, prevAdjusted |-> lastAdjustedTS + pts + MaxPTS - lastTS]
    ELSE [TS |-> lastTS, adjusted |-> lastAdjustedTS,
          prevTS |-> prevLastTS, prevAdjusted |-> prevLastAdjustedTS]

\* The four timestamps once a wrap-around has been accounted for.
AfterWrap(pts) ==
    IF WrapsAround(pts)
    THEN [TS |-> pts, adjusted |-> lastAdjustedTS + pts + MaxPTS - lastTS,
          prevTS |-> lastTS, prevAdjusted |-> lastAdjustedTS]
    ELSE [TS |-> lastTS, adjusted |-> lastAdjustedTS,
          prevTS |-> prevLastTS, prevAdjusted |-> prevLastAdjustedTS]

\* MBUFFERESGetAdjustedSideInfo.  Frames far from the current timestamp take
\* the previous adjustment, which is that from before a wrap-around until
\* another frame after it has been seen.
Adjust(i) ==
    LET pts == frames[i].PTS
        w == AfterWrap(pts)
        near == pts - w.TS \in -Several .. Several
    IN  /\ lastTS' = w.TS /\ lastAdjustedTS' = w.adjusted
        /\ IF near /\ pts # w.TS
           THEN prevLastTS' = w.TS /\ prevLastAdjustedTS' = w.adjusted
           ELSE prevLastTS' = w.prevTS /\ prevLastAdjustedTS' = w.prevAdjusted
        /\ shown' = [time |-> frames[i].time,
                     adjusted |-> pts + IF near THEN w.adjusted - w.TS
                                        ELSE w.prevAdjusted - w.prevTS]

\* MBUFFERESGetSideInfo, MBUFFERESGetLastFrameSideInfo and
\* MBUFFERESGetLastTwoFrameSideInfo; asking again is allowed.
GetSideInfo ==
    /\ CanAsk /\ ReaderIndex \in DOMAIN frames
    /\ frames[ReaderIndex].type = Normal
    /\ Adjust(ReaderIndex)
    /\ frames' = [frames EXCEPT ![ReaderIndex].seen = TRUE]
    /\ UNCHANGED <<advanced, reader>>

AdvanceFrame ==
    /\ NumFrames > 0 /\ frames[advanced + 1].seen
    /\ advanced' = advanced + 1
    /\ UNCHANGED <<current, previous, frames, reader, shown>>

TsNext == AppendFrame \/ AddExtraInfo \/ GetSideInfo \/ AdvanceFrame

TsSpec == Init /\ [][TsNext]_tsVars

----------------------------------------------------------------------------
\* "Adjust PTS/DTS for wraparound" (line 630): the adjusted timestamps of a
\* stream are its frames' times, before, across and after a wrap-around, in
\* whatever order frames around it are coded.
FollowsStream == shown.adjusted = shown.time

\* The same until the timestamps wrap around, and beyond that, until they
\* do a second time, if the first frame is no more than several seconds
\* before: lLastTS stays at the first frame, and at the first after the
\* wrap-around, and only one that close to WrapAt is taken to be before one.
FollowsStreamFromNearWrap ==
    \/ shown.time < WrapAt
    \/ /\ shown.time < 2 * WrapAt
       /\ frames[Min(NormalFrames)].time >= WrapAt - Several
    => FollowsStream
=============================================================================
