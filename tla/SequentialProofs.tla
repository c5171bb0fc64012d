-------------------------- MODULE SequentialProofs --------------------------
(* Proofs about sequential parts of the library: the deadlines of timed    *)
(* waits, for every time of day and every timeout; the byte array, for     *)
(* every size of the array and length of the file; the adjustment of       *)
(* timestamps, for every stream of its assumption and every reader; and    *)
(* the way a frame is taken apart, for every set of frames.                *)
EXTENDS TsAdjust, AvcFrame, ByteArray, Deadline,
        SequenceTheorems, WellFoundedInduction, TLAPS

LEMMA Numbers == Million \in Nat /\ Billion \in Nat
  BY SMT DEF Million, Billion

\* The same as literals.  Nowhere below is a range up to one of them in the
\* context of an arithmetic step: the translation to SMT would list it.
LEMMA InDigits == Million = 1000000 /\ Billion = 1000000000
<1>1. Million = 1000000
  BY SMT DEF Million
<1> QED
  BY <1>1, SMT DEF Billion

\* The sums and carries.
LEMMA Deadlines ==
    ASSUME NEW now, now.sec \in Nat, now.usec \in Nat, now.usec < Million,
           NEW ms \in Nat
    PROVE  LET s == SemDeadline(now, ms)
               c == CondDeadline(now, ms)
               due == [ms |-> ms, usec |-> 0]
           IN  /\ Later(now, s) = due /\ Accepted(s)
               /\ Later(now, c) = due
               /\ Accepted(c) <=> now.usec + (ms % 1000) * 1000 # Million
<1> DEFINE whole == ms \div 1000
           rest == ms % 1000
           sum == now.usec + rest * 1000
           s == SemDeadline(now, ms)
           c == CondDeadline(now, ms)
           due == [ms |-> ms, usec |-> 0]
<1>1. now.sec \in Nat /\ now.usec \in Nat /\ now.usec < Million /\ ms \in Nat
  OBVIOUS
<1>2. whole \in Nat /\ rest \in Nat /\ rest <= 999 /\ whole * 1000 + rest = ms
  BY SMT
<1> HIDE DEF whole, rest
<1>3. sum \in Nat /\ sum < Million + Million
  BY <1>1, <1>2, InDigits, SMT
<1>4. /\ s.sec = now.sec + whole + (IF sum >= Million THEN 1 ELSE 0)
      /\ s.nsec = (IF sum >= Million THEN sum - Million ELSE sum) * 1000
  BY <1>1, <1>2, Numbers DEF SemDeadline, whole, rest
<1>5. /\ c.sec = now.sec + whole + (IF sum > Million THEN 1 ELSE 0)
      /\ c.nsec = (IF sum > Million THEN sum - Million ELSE sum) * 1000
  <2>1. sum * 1000 > Billion <=> sum > Million
    <3> HIDE DEF sum
    <3> QED
      BY <1>3, InDigits, SMT
  <2>2. Billion = Million * 1000
    BY InDigits, SMT
  <2>3. c = IF sum * 1000 > Billion
            THEN [sec |-> now.sec + whole + 1, nsec |-> sum * 1000 - Billion]
            ELSE [sec |-> now.sec + whole, nsec |-> sum * 1000]
    BY DEF CondDeadline, whole, rest
  <2> HIDE DEF sum, c
  <2>4. sum * 1000 - Billion = (sum - Million) * 1000
    BY <1>3, <2>2, Numbers, SMT
  <2> QED
    BY <1>1, <1>2, <2>1, <2>3, <2>4
<1> HIDE DEF s, c, sum
<1>6. Accepted(s)
  <2>1. s.nsec \in Nat /\ s.nsec < Billion
    BY <1>3, <1>4, InDigits, SMT
  <2> QED
    BY <2>1, Numbers DEF Accepted
<1>7. Accepted(c) <=> sum # Million
  <2>1. c.nsec \in Nat /\ (c.nsec < Billion <=> sum # Million)
    BY <1>3, <1>5, InDigits, SMT
  <2> QED
    BY <2>1, Numbers DEF Accepted
<1>8. ASSUME NEW d, NEW carry \in {0, 1}, d.sec = now.sec + whole + carry,
             d.nsec = (sum - carry * Million) * 1000
      PROVE  Later(now, d) = due
  <2> DEFINE usec == d.nsec \div 1000 - now.usec
  <2>1. d.nsec \div 1000 = sum - carry * Million
    <3>1. sum - carry * Million \in Int
      BY <1>3, <1>8, Numbers
    <3> DEFINE x == sum - carry * Million
    <3> HIDE DEF x
    <3>2. (x * 1000) \div 1000 = x
      BY <3>1, SMT DEF x
    <3> QED
      BY <1>8, <3>2 DEF x
  <2>2. usec = (rest - carry * 1000) * 1000
    BY <1>1, <1>2, <2>1, InDigits, SMT DEF sum
  <2>3. usec \div 1000 = rest - carry * 1000 /\ usec % 1000 = 0
    <3> DEFINE y == rest - carry * 1000
    <3>1. y \in Int
      BY <1>2
    <3> HIDE DEF y
    <3>2. (y * 1000) \div 1000 = y /\ (y * 1000) % 1000 = 0
      BY <3>1, SMT
    <3> QED
      BY <2>2, <3>2 DEF y
  <2>4. (d.sec - now.sec) * 1000 + (rest - carry * 1000) = ms
    BY <1>1, <1>2, <1>8
  <2> QED
    BY <2>3, <2>4 DEF Later
<1>9. ASSUME NEW d, NEW P \in BOOLEAN,
             d.sec = now.sec + whole + (IF P THEN 1 ELSE 0),
             d.nsec = (IF P THEN sum - Million ELSE sum) * 1000
      PROVE  Later(now, d) = due
  <2>1. 1 * Million = Million /\ sum - 0 * Million = sum
    BY <1>3, Numbers
  <2> QED
    BY <1>8, <1>9, <2>1
<1>10. Later(now, s) = due
  <2> DEFINE P == sum >= Million
  <2>1. /\ P \in BOOLEAN
        /\ s.sec = now.sec + whole + (IF P THEN 1 ELSE 0)
        /\ s.nsec = (IF P THEN sum - Million ELSE sum) * 1000
    BY <1>3, <1>4, Numbers
  <2> HIDE DEF P
  <2> QED
    BY <1>9, <2>1
<1>11. Later(now, c) = due
  <2> DEFINE P == sum > Million
  <2>1. /\ P \in BOOLEAN
        /\ c.sec = now.sec + whole + (IF P THEN 1 ELSE 0)
        /\ c.nsec = (IF P THEN sum - Million ELSE sum) * 1000
    BY <1>3, <1>5, Numbers
  <2> HIDE DEF P
  <2> QED
    BY <1>9, <2>1
<1> QED
  BY <1>6, <1>7, <1>10, <1>11 DEF rest, sum, s, c

\* Both waits end the timeout after they began, for every time of day and
\* every timeout, and the system takes their deadlines, except that of the
\* condition when the microseconds add up to a whole second
\* (thread/cond_linux.c:79-86, thread/sem_linux.c:86-100).
THEOREM EveryDeadlineMeetsItsTimeout ==
    ASSUME wait \in [now : [sec : Nat, usec : 0 .. Million - 1], ms : Nat]
    PROVE  DeadlinesMeetTimeouts
<1>1. /\ wait.now.sec \in Nat /\ wait.ms \in Nat
      /\ wait.now.usec \in Nat /\ wait.now.usec < Million
  BY Numbers
<1> QED
  BY <1>1, Deadlines DEF DeadlinesMeetTimeouts

----------------------------------------------------------------------------
\* The bytes up to the end are the last ones of the file that were read, those
\* already taken among them: MBUFFERByteArraySeek may go back to them.
ArrayInv == ~spoilt =>
    /\ iEnd \in 0 .. ArraySize /\ iCurPos \in 0 .. iEnd
    /\ read \in Nat /\ taken \in Int
    /\ taken + iEnd - iCurPos = read
    /\ \A i \in 0 .. iEnd - 1 : array[i] = read - iEnd + i + 1

\* A move that does not overlap copies what is unread, from whichever end.
LEMMA MoveCopies ==
    ASSUME NEW n \in Nat, NEW src \in Nat, n <= src, src + n <= ArraySize,
           NEW b \in {CopyForward(0, src, n), CopyBackward(0, src, n)}
    PROVE  \A i \in 0 .. n - 1 : b[i] = array[src + i]
<1> TAKE i \in 0 .. n - 1
<1>1. /\ i \in Slots /\ i \in 0 .. 0 + n - 1 /\ n <= src - 0
      /\ src + i - 0 = src + i /\ ~(n > src - 0)
  BY ArrayAssumption DEF Slots
<1>2. CopyForward(0, src, n)[i] = array[src + i]
  BY <1>1 DEF CopyForward
<1>3. CopyBackward(0, src, n)[i] = array[src + i]
  BY <1>1 DEF CopyBackward
<1> QED
  BY <1>2, <1>3

\* What is unread is the file, from the first byte that was not taken to the
\* last one read (util/mbuffer.c:964-1012), until a move overlaps itself or a
\* read asks for more than the file has.
THEOREM ArrayUnreadIsTheFile ==
    ASSUME NEW ends \in SUBSET (0 .. ArraySize)
    PROVE  ArrayInit(ends) /\ [][ArrayNext]_arrayVars => []UnreadIsTheFile
<1> USE ArrayAssumption
<1>1. ArrayInit(ends) => ArrayInv
  <2> SUFFICES ASSUME ArrayInit(ends) PROVE ArrayInv
    OBVIOUS
  <2>1. iEnd \in 0 .. ArraySize /\ iEnd \in Nat /\ iCurPos = 0 /\ read = iEnd /\ taken = 0
    BY DEF ArrayInit
  <2>2. \A i \in 0 .. iEnd - 1 : array[i] = i + 1
    BY <2>1 DEF ArrayInit, Slots
  <2> QED
    BY <2>1, <2>2 DEF ArrayInv
<1>2. ArrayInv /\ [ArrayNext]_arrayVars => ArrayInv'
  <2> SUFFICES ASSUME ArrayInv, [ArrayNext]_arrayVars, ~spoilt' PROVE ArrayInv'
    BY DEF ArrayInv
  <2>1. ~spoilt
    BY DEF ArrayNext, ByteArrayReadFromFile, ByteArrayAdvance, ByteArraySeek,
           ByteArrayMove2Head, ByteArrayMove, arrayVars
  <2>2. /\ iEnd \in Nat /\ iEnd <= ArraySize
        /\ iCurPos \in Nat /\ iCurPos <= iEnd
        /\ read \in Nat /\ taken \in Int
        /\ taken + iEnd - iCurPos = read
        /\ \A i \in 0 .. iEnd - 1 : array[i] = read - iEnd + i + 1
    BY <2>1 DEF ArrayInv
  <2>3. CASE ByteArrayReadFromFile
    <3>1. PICK n \in 1 .. ArraySize - iEnd :
            LET got == IF n <= FileLength - read THEN n ELSE FileLength - read
            IN  /\ array' = [i \in Slots |-> IF i \in iEnd .. iEnd + got - 1
                                             THEN read + i - iEnd + 1 ELSE array[i]]
                /\ iEnd' = iEnd + n
                /\ read' = read + got
                /\ spoilt' = (spoilt \/ got < n)
                /\ UNCHANGED <<iCurPos, taken>>
      BY <2>3 DEF ByteArrayReadFromFile
    <3>2. n \in Nat /\ n >= 1 /\ iEnd + n <= ArraySize
      BY <2>2
    <3>3. n <= FileLength - read
      <4> DEFINE got == IF n <= FileLength - read THEN n ELSE FileLength - read
      <4>1. spoilt' = (spoilt \/ got < n)
        BY <3>1
      <4> HIDE DEF got
      <4>2. ~(got < n)
        BY <4>1
      <4> QED
        BY <2>2, <3>2, <4>2 DEF got
    <3>4. /\ array' = [i \in Slots |-> IF i \in iEnd .. iEnd + n - 1
                                       THEN read + i - iEnd + 1 ELSE array[i]]
          /\ iEnd' = iEnd + n /\ read' = read + n
          /\ iCurPos' = iCurPos /\ taken' = taken
      BY <3>1, <3>3
    <3>5. \A i \in 0 .. iEnd' - 1 : array'[i] = read' - iEnd' + i + 1
      BY <2>2, <3>2, <3>4 DEF Slots
    <3>6. /\ iEnd' \in 0 .. ArraySize /\ iCurPos' \in 0 .. iEnd'
          /\ read' \in Nat /\ taken' + iEnd' - iCurPos' = read'
      BY <2>2, <3>2, <3>3, <3>4
    <3> QED
      BY <2>2, <3>4, <3>5, <3>6 DEF ArrayInv
  <2>4. CASE ByteArrayAdvance
    BY <2>1, <2>2, <2>4 DEF ArrayInv, ByteArrayAdvance, ByteArrayLength
  <2>5. CASE ByteArraySeek
    BY <2>1, <2>2, <2>5 DEF ArrayInv, ByteArraySeek
  <2>6. CASE ByteArrayMove2Head
    <3> DEFINE n == iEnd - iCurPos
    <3>1. /\ array' \in {CopyForward(0, iCurPos, n), CopyBackward(0, iCurPos, n)}
          /\ iCurPos' = iCurPos - (iCurPos - 0) /\ iEnd' = iEnd - (iCurPos - 0)
          /\ ~(n > iCurPos - 0)
          /\ read' = read /\ taken' = taken
      BY <2>6 DEF ByteArrayMove2Head, ByteArrayMove
    <3>2. /\ n \in Nat /\ n <= iCurPos /\ iCurPos + n = iEnd
          /\ iCurPos' = 0 /\ iEnd' = n
      BY <2>2, <3>1
    <3>3. \A i \in 0 .. n - 1 : array'[i] = array[iCurPos + i]
      <4> HIDE DEF n
      <4>1. n \in Nat /\ iCurPos \in Nat /\ n <= iCurPos /\ iCurPos + n <= ArraySize
        BY <2>2, <3>2
      <4>2. PICK b \in {CopyForward(0, iCurPos, n), CopyBackward(0, iCurPos, n)} :
              array' = b
        BY <3>1
      <4>3. \A i \in 0 .. n - 1 : b[i] = array[iCurPos + i]
        BY <4>1, MoveCopies
      <4> QED
        BY <4>2, <4>3
    <3>4. \A i \in 0 .. iEnd' - 1 : array'[i] = read' - iEnd' + i + 1
      <4> SUFFICES ASSUME NEW i \in 0 .. n - 1 PROVE array'[i] = read - n + i + 1
        BY <3>1, <3>2
      <4>1. iCurPos + i \in 0 .. iEnd - 1
        BY <2>2
      <4>2. array[iCurPos + i] = read - iEnd + (iCurPos + i) + 1
        BY <2>2, <4>1
      <4> QED
        BY <2>2, <3>3, <4>2
    <3>5. /\ iEnd' \in 0 .. ArraySize /\ iCurPos' \in 0 .. iEnd'
          /\ read' \in Nat /\ taken' \in Int
          /\ taken' + iEnd' - iCurPos' = read'
      BY <2>1, <2>2, <3>1, <3>2 DEF ArrayInv
    <3> QED
      BY <3>4, <3>5 DEF ArrayInv
  <2>7. CASE UNCHANGED arrayVars
    BY <2>1, <2>7 DEF ArrayInv, arrayVars
  <2> QED
    BY <2>3, <2>4, <2>5, <2>6, <2>7 DEF ArrayNext
<1>3. ArrayInv => UnreadIsTheFile
  BY DEF ArrayInv, UnreadIsTheFile, ByteArrayLength
<1> QED
  BY <1>1, <1>2, <1>3, PTL

----------------------------------------------------------------------------
\* Timestamps.  What follows is about streams of any length.
\* A frame as the model keeps it.
SideInfo ==
    [PTS : Int, type : {Normal, ExtraInfo}, time : Int, seen : BOOLEAN]

TsTypeOK ==
    /\ frames \in Seq(SideInfo)
    /\ {lastTS, lastAdjustedTS, prevLastTS, prevLastAdjustedTS} \subseteq Int
    /\ advanced \in 0 .. Len(frames)
    /\ reader \in {"first", "last", "lastTwo"}
    /\ shown \in [time : Int, adjusted : Int]

\* A reader asks for the frames one after the other.
SeenOK == \A i \in NormalFrames :
    /\ i < ReaderIndex => frames[i].seen
    /\ frames[i].seen => i <= ReaderIndex

\* The first frame is h, the latest one l.
IsFirst(h) == h \in NormalFrames /\ \A i \in NormalFrames : h <= i
IsLatest(l) ==
    l \in NormalFrames /\ \A i \in NormalFrames : frames[i].time <= frames[l].time

\* The order of the times: a frame is later than one of any two before it.
CodingOrder ==
    /\ NormalFrames # {} => (\E h \in NormalFrames : IsFirst(h))
                            /\ (\E l \in NormalFrames : IsLatest(l))
    /\ \A i \in NormalFrames :
         /\ frames[i].time \in Nat /\ frames[i].PTS = frames[i].time % WrapAt
         /\ IsFirst(i) => frames[i].time \in Starts
         /\ IsFirst(i) \/ \E j \in NormalFrames :
                            j < i /\ frames[i].time <= frames[j].time + MaxGap
    /\ \A i, j \in NormalFrames : i < j =>
         /\ frames[i].time # frames[j].time
         /\ frames[j].time >= frames[i].time - Reorder
    /\ \A i, j, k \in NormalFrames : i < j /\ j < k =>
         frames[k].time > frames[i].time \/ frames[k].time > frames[j].time

\* The candidate for the wrap-around of a stream that starts at f.
Candidate(f) == ((f + Several) \div WrapUnit) * WrapUnit

\* No wrap-around has been recognised in a stream that starts at f: if one
\* can be, there has been none.
NotWrapped(f) ==
    /\ current = <<f, f>> /\ previous = <<f, f>>
    /\ Candidate(f) # 0 /\ f < Candidate(f) =>
         \A i \in NormalFrames : frames[i].seen => frames[i].time < WrapAt

\* Frame w, the only one seen after the wrap-around.
WrappedAt(w, f) ==
    /\ frames[w].seen
    /\ frames[w].time \in WrapAt .. WrapAt + MaxGap - 1
    /\ current = <<frames[w].time - WrapAt, frames[w].time - WrapAt + Candidate(f)>>
    /\ previous = <<f, f>>
    /\ \A i \in NormalFrames \ {w} : frames[i].seen => frames[i].time < WrapAt

\* Two frames have been seen after it, so that all to come are.
Wrapped(f) ==
    /\ lastTS \in 0 .. Several - 1
    /\ lastAdjustedTS = lastTS + Candidate(f)
    /\ prevLastAdjustedTS = prevLastTS + Candidate(f)
    /\ \E v, w \in NormalFrames :
         /\ v < w /\ w <= ReaderIndex
         /\ frames[v].time >= WrapAt /\ frames[w].time >= WrapAt

Phase(f) ==
    \/ NotWrapped(f)
    \/ \E w \in NormalFrames : WrappedAt(w, f)
    \/ Wrapped(f)

\* What was shown of a stream that starts at f.
ShownOK(f) ==
    \/ shown.time < WrapAt
    \/ shown.time < 2 * WrapAt /\ f >= WrapAt - Several
    => FollowsStream

TsInv ==
    /\ TsTypeOK /\ SeenOK /\ CodingOrder
    /\ NormalFrames = {} => lastTS = -1 /\ FollowsStream
    /\ \A h \in NormalFrames : IsFirst(h) =>
         Phase(frames[h].time) /\ ShownOK(frames[h].time)

----------------------------------------------------------------------------
LEMMA TsNumbers ==
    /\ Several \in Nat /\ WrapUnit \in Nat /\ WrapAt \in Nat /\ Reorder \in Nat
    /\ MaxGap \in Nat /\ MaxHeld \in Nat /\ MaxFrames \in Nat
    /\ 0 < Several /\ 0 < WrapUnit /\ WrapUnit <= WrapAt /\ 0 < MaxGap
    /\ MaxGap <= Several /\ 2 * Several + Reorder <= WrapUnit
    /\ \A t \in Starts : t \in Nat /\ Reorder <= t /\ t < WrapAt
<1>1. /\ Several \in Nat /\ WrapUnit \in Nat /\ WrapAt \in Nat /\ Reorder \in Nat
      /\ MaxGap \in Nat /\ MaxHeld \in Nat /\ MaxFrames \in Nat
      /\ 0 < Several /\ 0 < WrapUnit /\ 0 < WrapAt /\ 0 < MaxGap
  BY TsAssumption
<1>2. ASSUME WrapAt < WrapUnit PROVE FALSE
  <2>1. WrapAt % WrapUnit = WrapAt
    BY <1>1, <1>2
  <2> QED
    BY <1>1, <2>1, TsAssumption
<1>3. \A t \in Starts : t \in Nat /\ Reorder <= t /\ t < WrapAt
  BY <1>1, TsAssumption, StreamAssumption
<1> QED
  BY <1>1, <1>2, <1>3, StreamAssumption

\* What wraps, wraps once.
LEMMA PTSIs ==
    ASSUME NEW t \in Nat
    PROVE  /\ t % WrapAt \in 0 .. WrapAt - 1
           /\ t < WrapAt => t % WrapAt = t
           /\ t >= WrapAt /\ t < 2 * WrapAt => t % WrapAt = t - WrapAt
  BY TsNumbers

\* The candidate is the last multiple of WrapUnit that is near enough.
LEMMA CandidateIs ==
    ASSUME NEW f \in Nat
    PROVE  /\ Candidate(f) \in Nat
           /\ Candidate(f) # 0 => Candidate(f) >= WrapUnit
           /\ Candidate(f) <= f + Several
           /\ f + Several < WrapUnit => Candidate(f) = 0
           /\ f < WrapAt /\ f >= WrapAt - Several => Candidate(f) = WrapAt
<1> DEFINE x == f + Several
           q == x \div WrapUnit
           u == WrapUnit
<1>1. /\ x \in Nat /\ u \in Nat /\ 0 < u /\ Candidate(f) = q * u
      /\ Several < u
  BY TsNumbers DEF Candidate
<1>2. q \in Nat /\ q * u <= x /\ x < (q + 1) * u
  BY <1>1
<1>3. PICK k \in Nat : WrapAt = k * u
  <2>1. WrapAt \div u \in Nat /\ WrapAt = ((WrapAt \div u) * u) + (WrapAt % u)
    BY <1>1, TsNumbers
  <2>2. WrapAt % u = 0
    BY TsAssumption
  <2>3. WrapAt = (WrapAt \div u) * u
    BY <1>1, <2>1, <2>2, TsNumbers
  <2> QED
    BY <2>1, <2>3
<1> HIDE DEF q, u
<1>4. q # 0 => q * u >= u
  BY <1>1, <1>2
<1>5. x < u => q = 0
  BY <1>1, <1>2, <1>4
<1>6. ASSUME f < WrapAt, f >= WrapAt - Several PROVE q = k
  <2>1. k * u <= x /\ x < (k + 1) * u
    BY <1>1, <1>3, <1>6, TsNumbers
  <2>2. ASSUME q < k PROVE FALSE
    <3>1. (q + 1) * u <= k * u
      BY <1>1, <1>2, <1>3, <2>2
    <3> QED
      BY <1>1, <1>2, <1>3, <2>1, <3>1
  <2>3. ASSUME k < q PROVE FALSE
    <3>1. (k + 1) * u <= q * u
      BY <1>1, <1>2, <1>3, <2>3
    <3> QED
      BY <1>1, <1>2, <1>3, <2>1, <3>1
  <2> QED
    BY <1>2, <1>3, <2>2, <2>3
<1> QED
  BY <1>1, <1>2, <1>3, <1>4, <1>5, <1>6, TsNumbers DEF u

LEMMA InitTsInv == Init => TsInv
<1> SUFFICES ASSUME Init PROVE TsInv
  OBVIOUS
<1>1. NormalFrames = {}
  BY DEF Init, NormalFrames
<1>2. TsTypeOK
  <2>1. << >> \in Seq(SideInfo)
    OBVIOUS
  <2> QED
    BY <2>1 DEF Init, TsTypeOK
<1>3. FollowsStream
  BY DEF Init, FollowsStream
<1> QED
  BY <1>1, <1>2, <1>3 DEF Init, TsInv, SeenOK, CodingOrder

\* lLastTS is -1 as long as no normal frame has been appended, and only then.
LEMMA NotYetSet ==
    ASSUME TsInv
    PROVE  lastTS = -1 <=> NormalFrames = {}
<1>1. ASSUME NormalFrames # {} PROVE lastTS # -1
  <2>1. PICK h \in NormalFrames : IsFirst(h)
    BY <1>1 DEF TsInv, CodingOrder
  <2> DEFINE f == frames[h].time
  <2>2. f \in Nat /\ Phase(f)
    BY <2>1 DEF TsInv, CodingOrder
  <2>3. CASE NotWrapped(f)
    BY <2>2, <2>3 DEF NotWrapped, current
  <2>4. ASSUME NEW w \in NormalFrames, WrappedAt(w, f) PROVE lastTS # -1
    BY <2>4, TsNumbers DEF WrappedAt, current
  <2>5. CASE Wrapped(f)
    BY <2>5, TsNumbers DEF Wrapped
  <2> QED
    BY <2>2, <2>3, <2>4, <2>5 DEF Phase
<1> QED
  BY <1>1 DEF TsInv

----------------------------------------------------------------------------
\* A step that leaves the times of the normal frames alone.
SameTimes ==
    /\ NormalFrames' = NormalFrames
    /\ \A i \in NormalFrames :
         frames'[i].time = frames[i].time /\ frames'[i].PTS = frames[i].PTS

LEMMA OrderStays ==
    ASSUME CodingOrder, SameTimes
    PROVE  /\ CodingOrder'
           /\ \A h \in NormalFrames : IsFirst(h)' <=> IsFirst(h)
<1>1. \A h \in NormalFrames : IsFirst(h)' <=> IsFirst(h)
  BY DEF SameTimes, IsFirst
<1>2. \A l \in NormalFrames : IsLatest(l)' <=> IsLatest(l)
  BY DEF SameTimes, IsLatest
<1> QED
  BY <1>1, <1>2 DEF CodingOrder, SameTimes

\* One that also leaves the timestamps alone and has nothing seen.
LEMMA QuietStep ==
    ASSUME TsInv, TsTypeOK', SeenOK', CodingOrder',
           NormalFrames \subseteq NormalFrames',
           \A i \in NormalFrames : frames'[i] = frames[i],
           \A i \in NormalFrames' \ NormalFrames : ~frames'[i].seen,
           \A h \in NormalFrames' : IsFirst(h)' => h \in NormalFrames /\ IsFirst(h),
           ReaderIndex <= ReaderIndex',
           UNCHANGED <<current, previous, shown>>
    PROVE  TsInv'
<1>2. ASSUME NEW i \in NormalFrames PROVE i \in Int
  <2>1. DOMAIN frames = 1 .. Len(frames)
    BY DEF TsInv, TsTypeOK
  <2> QED
    BY <2>1 DEF NormalFrames
<1>3. ReaderIndex \in Int /\ ReaderIndex' \in Int
  <2>1. Len(frames) \in Nat /\ advanced \in Int /\ reader \in {"first", "last", "lastTwo"}
    BY DEF TsInv, TsTypeOK
  <2>2. Len(frames)' \in Nat /\ advanced' \in Int /\ reader' \in {"first", "last", "lastTwo"}
    BY DEF TsTypeOK
  <2> QED
    BY <2>1, <2>2 DEF ReaderIndex
<1>4. ASSUME NEW h \in NormalFrames, IsFirst(h)
      PROVE  Phase(frames[h].time)' /\ ShownOK(frames[h].time)'
  <2> DEFINE f == frames[h].time
  <2>1. frames'[h].time = f
    OBVIOUS
  <2>2. Phase(f) /\ ShownOK(f)
    BY <1>4 DEF TsInv
  <2>3. UNCHANGED <<lastTS, lastAdjustedTS, prevLastTS, prevLastAdjustedTS>>
    BY DEF current, previous
  <2>4. ASSUME NotWrapped(f) PROVE NotWrapped(frames[h].time)'
    BY <2>1, <2>4 DEF NotWrapped, Candidate
  <2>5. ASSUME NEW w \in NormalFrames, WrappedAt(w, f)
        PROVE  WrappedAt(w, frames[h].time)'
    BY <2>1, <2>5 DEF WrappedAt, Candidate
  <2>6. ASSUME Wrapped(f) PROVE Wrapped(frames[h].time)'
    <3>1. PICK v \in NormalFrames, w \in NormalFrames :
            /\ v < w /\ w <= ReaderIndex
            /\ frames[v].time >= WrapAt /\ frames[w].time >= WrapAt
      BY <2>6 DEF Wrapped
    <3>2. w <= ReaderIndex'
      BY <1>2, <1>3, <3>1
    <3>3. \E a, b \in NormalFrames' :
            /\ a < b /\ b <= ReaderIndex'
            /\ frames'[a].time >= WrapAt /\ frames'[b].time >= WrapAt
      BY <3>1, <3>2
    <3> QED
      BY <2>1, <2>3, <2>6, <3>3 DEF Wrapped, Candidate
  <2>7. Phase(frames[h].time)'
    BY <2>2, <2>4, <2>5, <2>6 DEF Phase
  <2>8. ShownOK(frames[h].time)'
    BY <2>1, <2>2 DEF ShownOK, FollowsStream
  <2> QED
    BY <2>7, <2>8
<1>5. NormalFrames' = {} => lastTS' = -1 /\ FollowsStream'
  BY DEF TsInv, FollowsStream, current
<1> QED
  BY <1>4, <1>5 DEF TsInv

----------------------------------------------------------------------------
\* A frame appended: which the normal ones are, and where the reader is.
LEMMA Appended ==
    ASSUME TsInv, NEW info \in SideInfo,
           frames' = Append(frames, info),
           reader # "first" => ~Unseen,
           info.type = Normal => ~info.seen,
           UNCHANGED <<advanced, reader>>
    PROVE  /\ frames' \in Seq(SideInfo)
           /\ NormalFrames \subseteq 1 .. Len(frames) /\ Len(frames) \in Nat
           /\ \A i \in NormalFrames : frames'[i] = frames[i]
           /\ frames'[Len(frames) + 1] = info
           /\ NormalFrames' = NormalFrames \cup
                (IF info.type = Normal THEN {Len(frames) + 1} ELSE {})
           /\ ReaderIndex <= ReaderIndex'
           /\ advanced' \in 0 .. Len(frames')
           /\ SeenOK'
<1> DEFINE n == Len(frames)
<1>1. /\ frames \in Seq(SideInfo)
      /\ n \in Nat /\ advanced \in 0 .. n
      /\ reader \in {"first", "last", "lastTwo"}
  BY DEF TsInv, TsTypeOK
<1>2. /\ frames' \in Seq(SideInfo)
      /\ Len(frames') = n + 1 /\ frames'[n + 1] = info
      /\ \A i \in 1 .. n : frames'[i] = frames[i]
  BY <1>1
<1>3. DOMAIN frames = 1 .. n /\ DOMAIN frames' = 1 .. n + 1
  BY <1>1, <1>2
<1>4. NormalFrames \subseteq 1 .. n
  BY <1>3 DEF NormalFrames
<1>5. NormalFrames' = NormalFrames \cup (IF info.type = Normal THEN {n + 1} ELSE {})
  <2>1. ASSUME NEW i \in 1 .. n + 1 PROVE i \in 1 .. n \/ i = n + 1
    BY <1>1
  <2>2. ASSUME NEW i \in 1 .. n PROVE i \in 1 .. n + 1 /\ i # n + 1
    BY <1>1
  <2>3. n + 1 \in 1 .. n + 1
    BY <1>1
  <2> HIDE DEF n
  <2> QED
    BY <1>2, <1>3, <2>1, <2>2, <2>3 DEF NormalFrames
<1>6. /\ reader = "first" => ReaderIndex = advanced + 1 /\ ReaderIndex' = advanced + 1
      /\ reader = "last" => ReaderIndex = n /\ ReaderIndex' = n + 1
      /\ reader = "lastTwo" => ReaderIndex = n - 1 /\ ReaderIndex' = n
  BY <1>1, <1>2 DEF ReaderIndex
<1>7. ReaderIndex <= ReaderIndex'
  BY <1>1, <1>6
<1>8. ASSUME NEW i \in NormalFrames
      PROVE  /\ i < ReaderIndex' => frames'[i].seen
             /\ frames'[i].seen => i <= ReaderIndex'
  <2>1. i \in 1 .. n /\ frames'[i] = frames[i]
    BY <1>2, <1>4
  <2>2. /\ i < ReaderIndex => frames[i].seen
        /\ frames[i].seen => i <= ReaderIndex
    BY DEF TsInv, SeenOK
  <2>3. reader # "first" /\ i = ReaderIndex => frames[i].seen
    BY <1>3, <2>1 DEF Unseen
  <2>4. /\ i < ReaderIndex' => i < ReaderIndex \/ (reader # "first" /\ i = ReaderIndex)
        /\ i <= ReaderIndex => i <= ReaderIndex'
    BY <1>1, <1>6, <2>1
  <2> QED
    BY <2>1, <2>2, <2>3, <2>4
<1>9. ASSUME info.type = Normal
      PROVE  /\ ~(n + 1 < ReaderIndex')
             /\ ~frames'[n + 1].seen
  BY <1>1, <1>2, <1>6, <1>9
<1>10. SeenOK'
  BY <1>5, <1>8, <1>9 DEF SeenOK
<1>11. advanced' \in 0 .. Len(frames')
  BY <1>1, <1>2
<1>12. \A i \in NormalFrames : frames'[i] = frames[i]
  BY <1>2, <1>4
<1> QED
  BY <1>1, <1>2, <1>4, <1>5, <1>7, <1>10, <1>11, <1>12

LEMMA ExtraInfoInv == TsInv /\ AddExtraInfo => TsInv'
<1> SUFFICES ASSUME TsInv, AddExtraInfo PROVE TsInv'
  OBVIOUS
<1> DEFINE info == [PTS |-> -1, type |-> ExtraInfo, time |-> -1, seen |-> TRUE]
<1>1. /\ SetSideInfo(info) /\ (reader # "first" => ~Unseen)
      /\ UNCHANGED <<advanced, reader, shown>>
  BY DEF AddExtraInfo
<1>2. /\ info \in SideInfo
      /\ info.type # Normal
  BY DEF Normal, ExtraInfo, SideInfo
<1>3. frames' = Append(frames, info)
  BY <1>1 DEF SetSideInfo
<1> HIDE DEF info
<1>4. /\ frames' \in Seq(SideInfo)
      /\ \A i \in NormalFrames : frames'[i] = frames[i]
      /\ NormalFrames' = NormalFrames
      /\ ReaderIndex <= ReaderIndex'
      /\ advanced' \in 0 .. Len(frames')
      /\ SeenOK'
  BY <1>1, <1>2, <1>3, Appended
<1>5. CASE lastTS # -1
  <2>1. UNCHANGED <<current, previous>>
    BY <1>1, <1>5 DEF SetSideInfo
  <2>2. TsTypeOK'
    BY <1>1, <1>4, <2>1 DEF TsInv, TsTypeOK, current, previous
  <2>3. CodingOrder' /\ \A h \in NormalFrames : IsFirst(h)' <=> IsFirst(h)
    BY <1>4, OrderStays DEF TsInv, SameTimes
  <2> QED
    BY <1>1, <1>4, <2>1, <2>2, <2>3, QuietStep
<1>6. CASE lastTS = -1
  <2>1. NormalFrames = {} /\ FollowsStream
    BY <1>6, NotYetSet DEF TsInv
  <2>2. /\ lastTS' = -1 /\ lastAdjustedTS' = -1
        /\ prevLastTS' = -1 /\ prevLastAdjustedTS' = -1
    BY <1>1, <1>6 DEF SetSideInfo, info
  <2>3. TsTypeOK'
    BY <1>1, <1>4, <2>2 DEF TsInv, TsTypeOK
  <2> QED
    BY <1>1, <1>4, <2>1, <2>2, <2>3 DEF TsInv, CodingOrder, FollowsStream
<1> QED
  BY <1>5, <1>6

\* The frame dropped has been seen, so that a reader of the first goes on to
\* one that has not.
LEMMA AdvanceInv == TsInv /\ AdvanceFrame => TsInv'
<1> SUFFICES ASSUME TsInv, AdvanceFrame PROVE TsInv'
  OBVIOUS
<1>1. /\ NumFrames > 0 /\ frames[advanced + 1].seen /\ advanced' = advanced + 1
      /\ UNCHANGED <<current, previous, frames, reader, shown>>
  BY DEF AdvanceFrame
<1>2. /\ frames \in Seq(SideInfo)
      /\ Len(frames) \in Nat /\ advanced \in 0 .. Len(frames)
      /\ reader \in {"first", "last", "lastTwo"}
  BY DEF TsInv, TsTypeOK
<1>3. advanced + 1 <= Len(frames)
  BY <1>1, <1>2 DEF NumFrames
<1>4. TsTypeOK'
  BY <1>1, <1>2, <1>3 DEF TsInv, TsTypeOK, current, previous
<1>5. /\ reader = "first" => ReaderIndex = advanced + 1 /\ ReaderIndex' = advanced + 2
      /\ reader # "first" => ReaderIndex' = ReaderIndex
      /\ ReaderIndex \in Int
  BY <1>1, <1>2 DEF ReaderIndex
<1>6. NormalFrames' = NormalFrames /\ NormalFrames \subseteq 1 .. Len(frames)
  BY <1>1, <1>2 DEF NormalFrames
<1>7. SeenOK'
  <2>1. ASSUME NEW i \in NormalFrames
        PROVE  /\ i < ReaderIndex' => frames[i].seen
               /\ frames[i].seen => i <= ReaderIndex'
    <3>1. /\ i < ReaderIndex => frames[i].seen
          /\ frames[i].seen => i <= ReaderIndex
      BY DEF TsInv, SeenOK
    <3>2. i \in Int
      BY <1>6
    <3> QED
      BY <1>1, <1>2, <1>5, <3>1, <3>2
  <2> QED
    BY <1>1, <1>6, <2>1 DEF SeenOK
<1>8. CodingOrder' /\ \A h \in NormalFrames : IsFirst(h)' <=> IsFirst(h)
  BY <1>1, <1>6, OrderStays DEF TsInv, SameTimes
<1> QED
  BY <1>1, <1>2, <1>4, <1>5, <1>6, <1>7, <1>8, QuietStep

----------------------------------------------------------------------------
\* The maximum of the times is that of the latest frame.
LEMMA LatestIs ==
    ASSUME CodingOrder, NEW l \in NormalFrames, IsLatest(l)
    PROVE  Latest = frames[l].time
<1> DEFINE t == frames[l].time
<1>1. t \in Times /\ \A u \in Times : u \in Nat /\ t >= u
  BY DEF CodingOrder, IsLatest, Times
<1> HIDE DEF t
<1>2. Latest \in Times /\ \A u \in Times : Latest >= u
  BY <1>1 DEF Latest, Max
<1> QED
  BY <1>1, <1>2 DEF t

\* What the next time is, seen from each frame.
LEMMA NextTimeIs ==
    ASSUME CodingOrder, NEW l \in NormalFrames, IsLatest(l), NEW t \in NextTimes
    PROVE  /\ t \in Nat /\ t # frames[l].time
           /\ t >= frames[l].time - Reorder /\ t <= frames[l].time + MaxGap
           /\ \A i \in NormalFrames : frames[i].time < t
                                      \/ frames[i].time = frames[l].time
<1> DEFINE m == frames[l].time
<1>1. /\ m \in Times /\ m \in Nat
      /\ \A i \in NormalFrames : frames[i].time \in Times /\ frames[i].time \in Nat
                                 /\ frames[i].time <= m
  BY DEF CodingOrder, IsLatest, Times
<1>2. Reorder <= m
  <2>1. PICK h \in NormalFrames : IsFirst(h)
    BY DEF CodingOrder
  <2>2. frames[h].time \in Starts
    BY <2>1 DEF CodingOrder
  <2> QED
    BY <1>1, <2>2, TsNumbers
<1>3. Latest = m
  BY LatestIs
<1> HIDE DEF m
<1>4. \/ t \in m - Reorder .. m - 1 /\ \A u \in Times \ {m} : u < t
      \/ t \in m + 1 .. m + MaxGap
  BY <1>1, <1>3 DEF NextTimes
<1>5. t \in Nat /\ t # m /\ t >= m - Reorder /\ t <= m + MaxGap
  BY <1>1, <1>2, <1>4, TsNumbers
<1>6. ASSUME NEW i \in NormalFrames PROVE frames[i].time < t \/ frames[i].time = m
  BY <1>1, <1>4, TsNumbers
<1> QED
  BY <1>5, <1>6 DEF m

\* The order with one more frame: at most the latest of those before it is
\* later, and a frame later than all before it is not far from the latest.
LEMMA OrderGrows ==
    ASSUME CodingOrder, NormalFrames # {}, NEW t \in NextTimes, NEW n \in Nat,
           NormalFrames \subseteq 1 .. n,
           NormalFrames' = NormalFrames \cup {n + 1},
           \A i \in NormalFrames : frames'[i] = frames[i],
           frames'[n + 1] = [PTS |-> t % WrapAt, type |-> Normal, time |-> t, seen |-> FALSE]
    PROVE  /\ CodingOrder'
           /\ \A h \in NormalFrames' : IsFirst(h)' => h \in NormalFrames /\ IsFirst(h)
<1>1. PICK l \in NormalFrames : IsLatest(l)
  BY DEF CodingOrder
<1>2. PICK h \in NormalFrames : IsFirst(h)
  BY DEF CodingOrder
<1> DEFINE m == frames[l].time
<1>3. /\ t \in Nat /\ t # m /\ t >= m - Reorder /\ t <= m + MaxGap
      /\ \A i \in NormalFrames : frames[i].time < t \/ frames[i].time = m
  BY <1>1, NextTimeIs
<1>4. /\ frames'[n + 1].time = t /\ frames'[n + 1].PTS = t % WrapAt
      /\ n + 1 \in NormalFrames' /\ n + 1 \notin NormalFrames
      /\ \A i \in NormalFrames : i \in Nat /\ i < n + 1
      /\ \A i \in NormalFrames' : i \in NormalFrames \/ i = n + 1
  OBVIOUS
<1>5. m \in Nat /\ \A i \in NormalFrames : frames[i].time \in Nat /\ frames[i].time <= m
  BY <1>1 DEF CodingOrder, IsLatest
<1>6. \A i \in NormalFrames : IsFirst(i) => IsFirst(i)'
  <2> SUFFICES ASSUME NEW i \in NormalFrames, IsFirst(i) PROVE IsFirst(i)'
    OBVIOUS
  <2>1. ASSUME NEW j \in NormalFrames' PROVE i <= j
    BY <1>4 DEF IsFirst
  <2> QED
    BY <2>1 DEF IsFirst
<1>7. \A i \in NormalFrames' : IsFirst(i)' => i \in NormalFrames /\ IsFirst(i)
  BY <1>2, <1>4 DEF IsFirst
<1>8. \E i \in NormalFrames' : IsFirst(i)'
  BY <1>2, <1>6
<1>9. \E i \in NormalFrames' : IsLatest(i)'
  <2>1. CASE t < m
    <3>1. IsLatest(l)'
      <4>1. ASSUME NEW j \in NormalFrames' PROVE frames'[j].time <= frames'[l].time
        BY <1>3, <1>4, <1>5, <2>1
      <4> QED
        BY <4>1 DEF IsLatest
    <3> QED
      BY <3>1
  <2>2. CASE m < t
    <3>1. IsLatest(n + 1)'
      BY <1>3, <1>4, <1>5, <2>2 DEF IsLatest
    <3> QED
      BY <1>4, <3>1
  <2> QED
    BY <1>3, <1>5, <2>1, <2>2
<1>10. \A i \in NormalFrames' :
         /\ frames'[i].time \in Nat /\ frames'[i].PTS = frames'[i].time % WrapAt
         /\ IsFirst(i)' => frames'[i].time \in Starts
         /\ IsFirst(i)' \/ \E j \in NormalFrames' :
                             j < i /\ frames'[i].time <= frames'[j].time + MaxGap
  <2>1. ASSUME NEW i \in NormalFrames
        PROVE  /\ frames'[i].time \in Nat /\ frames'[i].PTS = frames'[i].time % WrapAt
               /\ IsFirst(i)' => frames'[i].time \in Starts
               /\ IsFirst(i)' \/ \E j \in NormalFrames' :
                             j < i /\ frames'[i].time <= frames'[j].time + MaxGap
    BY <1>6, <1>7 DEF CodingOrder
  <2>2. l < n + 1 /\ frames'[n + 1].time <= frames'[l].time + MaxGap
    BY <1>3, <1>4
  <2>3. ~IsFirst(n + 1)'
    BY <1>4, <1>7
  <2> QED
    BY <1>3, <1>4, <2>1, <2>2, <2>3
<1>11. \A i, j \in NormalFrames' : i < j =>
         /\ frames'[i].time # frames'[j].time
         /\ frames'[j].time >= frames'[i].time - Reorder
  <2>1. ASSUME NEW i \in NormalFrames, NEW j \in NormalFrames, i < j
        PROVE  /\ frames'[i].time # frames'[j].time
               /\ frames'[j].time >= frames'[i].time - Reorder
    BY <2>1 DEF CodingOrder
  <2>2. ASSUME NEW i \in NormalFrames
        PROVE  /\ frames'[i].time # t
               /\ t >= frames'[i].time - Reorder
    BY <1>3, <1>5, TsNumbers
  <2> QED
    BY <1>4, <2>1, <2>2
<1>12. \A i, j, k \in NormalFrames' : i < j /\ j < k =>
         frames'[k].time > frames'[i].time \/ frames'[k].time > frames'[j].time
  <2>1. ASSUME NEW i \in NormalFrames, NEW j \in NormalFrames, NEW k \in NormalFrames,
               i < j, j < k
        PROVE  frames'[k].time > frames'[i].time \/ frames'[k].time > frames'[j].time
    BY <2>1 DEF CodingOrder
  <2>2. ASSUME NEW i \in NormalFrames, NEW j \in NormalFrames, i < j
        PROVE  t > frames'[i].time \/ t > frames'[j].time
    <3>1. frames[i].time # frames[j].time
      BY <2>2 DEF CodingOrder
    <3> QED
      BY <1>3, <1>5, <3>1
  <2> QED
    BY <1>4, <2>1, <2>2
<1> QED
  BY <1>7, <1>8, <1>9, <1>10, <1>11, <1>12 DEF CodingOrder

LEMMA AppendInv == TsInv /\ AppendFrame => TsInv'
<1> SUFFICES ASSUME TsInv, AppendFrame PROVE TsInv'
  OBVIOUS
<1>1. PICK t \in NextTimes :
        SetSideInfo([PTS |-> t % WrapAt, type |-> Normal, time |-> t, seen |-> FALSE])
  BY DEF AppendFrame
<1>2. /\ reader # "first" => ~Unseen
      /\ UNCHANGED <<advanced, reader, shown>>
  BY DEF AppendFrame
<1> DEFINE info == [PTS |-> t % WrapAt, type |-> Normal, time |-> t, seen |-> FALSE]
           n == Len(frames)
<1>3. t \in Nat
  <2>1. CASE NormalFrames = {}
    <3>1. Times = {}
      BY <2>1 DEF Times
    <3> QED
      BY <3>1, TsNumbers DEF NextTimes
  <2>2. CASE NormalFrames # {}
    <3>1. PICK l \in NormalFrames : IsLatest(l)
      BY <2>2 DEF TsInv, CodingOrder
    <3> QED
      BY <3>1, NextTimeIs DEF TsInv
  <2> QED
    BY <2>1, <2>2
<1>4. /\ info \in SideInfo
      /\ info.type = Normal /\ ~info.seen
  BY <1>3, PTSIs DEF SideInfo
<1>5. frames' = Append(frames, info)
  BY <1>1 DEF SetSideInfo
<1> HIDE DEF info
<1>6. /\ frames' \in Seq(SideInfo)
      /\ NormalFrames \subseteq 1 .. n /\ n \in Nat
      /\ \A i \in NormalFrames : frames'[i] = frames[i]
      /\ frames'[n + 1] = info
      /\ NormalFrames' = NormalFrames \cup {n + 1}
      /\ ReaderIndex <= ReaderIndex'
      /\ advanced' \in 0 .. Len(frames')
      /\ SeenOK'
  BY <1>2, <1>4, <1>5, Appended
<1>7. CASE NormalFrames # {}
  <2>1. UNCHANGED <<current, previous>>
    BY <1>1, <1>7, NotYetSet DEF SetSideInfo
  <2>2. TsTypeOK'
    BY <1>2, <1>6, <2>1 DEF TsInv, TsTypeOK, current, previous
  <2>3. /\ CodingOrder'
        /\ \A h \in NormalFrames' : IsFirst(h)' => h \in NormalFrames /\ IsFirst(h)
    BY <1>6, <1>7, OrderGrows DEF TsInv, info
  <2>4. \A i \in NormalFrames' \ NormalFrames : ~frames'[i].seen
    BY <1>4, <1>6
  <2> HIDE DEF n
  <2> QED
    BY <1>2, <1>6, <2>1, <2>2, <2>3, <2>4, QuietStep
<1>8. CASE NormalFrames = {}
  <2>1. t \in Starts /\ t < WrapAt
    <3>1. Times = {}
      BY <1>8 DEF Times
    <3> QED
      BY <3>1, TsNumbers DEF NextTimes
  <2>2. info.PTS = t /\ info.time = t /\ t \in Nat
    BY <1>3, <2>1, PTSIs DEF info
  <2>3. /\ lastTS' = t /\ lastAdjustedTS' = t
        /\ prevLastTS' = t /\ prevLastAdjustedTS' = t
    BY <1>1, <1>8, <2>2, NotYetSet DEF SetSideInfo, info
  <2>4. TsTypeOK'
    BY <1>2, <1>6, <2>2, <2>3 DEF TsInv, TsTypeOK
  <2>a. PICK k : k = n + 1
    OBVIOUS
  <2>5. /\ NormalFrames' = {k} /\ k \in Nat
        /\ frames'[k].time = t /\ frames'[k].PTS = t % WrapAt
        /\ ~frames'[k].seen
    BY <1>4, <1>6, <1>8, <2>2, <2>a DEF info
  <2>6. IsFirst(k)' /\ IsLatest(k)'
    BY <2>2, <2>5 DEF IsFirst, IsLatest
  <2>7. CodingOrder'
    BY <2>1, <2>2, <2>5, <2>6 DEF CodingOrder
  <2>8. NotWrapped(frames[k].time)'
    BY <2>3, <2>5 DEF NotWrapped, current, previous
  <2>9. FollowsStream /\ shown' = shown
    BY <1>2, <1>8 DEF TsInv
  <2>10. \A h \in NormalFrames' : Phase(frames[h].time)' /\ ShownOK(frames[h].time)'
    BY <2>5, <2>8, <2>9 DEF Phase, ShownOK, FollowsStream
  <2> QED
    BY <1>6, <2>4, <2>5, <2>7, <2>10 DEF TsInv
<1> QED
  BY <1>7, <1>8

----------------------------------------------------------------------------
\* The adjustment when no wrap-around is recognised: nearby frames take the
\* current one, the others the previous one.
LEMMA NoWrapAround ==
    ASSUME TsTypeOK, NEW i \in NormalFrames, Adjust(i), NEW p \in Int,
           p = frames[i].PTS, ~WrapsAround(p)
    PROVE  /\ current' = current
           /\ ~(p - lastTS \in -Several .. Several) =>
                previous' = previous /\ shown'.adjusted = p + prevLastAdjustedTS - prevLastTS
           /\ p - lastTS \in -Several .. Several =>
                /\ shown'.adjusted = p + lastAdjustedTS - lastTS
                /\ previous' = IF p = lastTS THEN previous ELSE current
<1>1. /\ lastTS \in Int /\ lastAdjustedTS \in Int
      /\ prevLastTS \in Int /\ prevLastAdjustedTS \in Int
  BY DEF TsTypeOK
<1>2. AfterWrap(p) = [TS |-> lastTS, adjusted |-> lastAdjustedTS,
                      prevTS |-> prevLastTS, prevAdjusted |-> prevLastAdjustedTS]
  BY DEF AfterWrap
<1> DEFINE near == p - lastTS \in -Several .. Several
<1>3. /\ lastTS' = lastTS /\ lastAdjustedTS' = lastAdjustedTS
      /\ IF near /\ p # lastTS
         THEN prevLastTS' = lastTS /\ prevLastAdjustedTS' = lastAdjustedTS
         ELSE prevLastTS' = prevLastTS /\ prevLastAdjustedTS' = prevLastAdjustedTS
      /\ shown'.adjusted = p + (IF near THEN lastAdjustedTS - lastTS
                                        ELSE prevLastAdjustedTS - prevLastTS)
  BY <1>2 DEF Adjust
<1> HIDE DEF near
<1>4. /\ near => shown'.adjusted = p + lastAdjustedTS - lastTS
      /\ ~near => shown'.adjusted = p + prevLastAdjustedTS - prevLastTS
  BY <1>1, <1>3
<1>5. /\ current' = current
      /\ ~near => previous' = previous
      /\ near => previous' = IF p = lastTS THEN previous ELSE current
  BY <1>3 DEF current, previous
<1> QED
  BY <1>4, <1>5 DEF near

\* And when one is.
LEMMA WrapAround ==
    ASSUME TsTypeOK, NEW i \in NormalFrames, Adjust(i), NEW p \in Int,
           p = frames[i].PTS, WrapsAround(p)
    PROVE  /\ current' = <<p, lastAdjustedTS + p + MaxPTS - lastTS>>
           /\ previous' = current
           /\ shown'.adjusted = p + lastAdjustedTS + MaxPTS - lastTS
<1>1. lastTS \in Int /\ lastAdjustedTS \in Int /\ MaxPTS \in Int /\ Several \in Nat
  BY TsNumbers DEF TsTypeOK, MaxPTS
<1> DEFINE a == lastAdjustedTS + p + MaxPTS - lastTS
<1>2. AfterWrap(p) = [TS |-> p, adjusted |-> a,
                      prevTS |-> lastTS, prevAdjusted |-> lastAdjustedTS]
  BY DEF AfterWrap
<1>3. a \in Int /\ p - p \in -Several .. Several
  BY <1>1
<1> HIDE DEF a
<1>4. /\ lastTS' = p /\ lastAdjustedTS' = a
      /\ prevLastTS' = lastTS /\ prevLastAdjustedTS' = lastAdjustedTS
      /\ shown'.adjusted = p + (a - p)
  BY <1>2, <1>3 DEF Adjust
<1> QED
  BY <1>1, <1>4 DEF current, previous, a

----------------------------------------------------------------------------
\* The frame r asked for: which frames have been seen when it has, and where
\* its time lies between those of the first frame and of one seen before.
LEMMA Asked ==
    ASSUME TsInv, GetSideInfo, NEW h \in NormalFrames, IsFirst(h),
           NEW r, r = ReaderIndex
    PROVE  /\ r \in NormalFrames /\ Adjust(r) /\ ReaderIndex' = r
           /\ \A i \in NormalFrames : i \in Nat
           /\ TsTypeOK' /\ SeenOK' /\ SameTimes
           /\ \A i \in NormalFrames : frames'[i].seen <=> i = r \/ frames[i].seen
           /\ \A i \in NormalFrames : frames[i].seen => i <= r
           /\ frames[h].time \in Starts
           /\ frames[r].time \in Nat /\ frames[r].PTS = frames[r].time % WrapAt
           /\ r = h \/ frames[r].time >= frames[h].time - Reorder
           /\ r = h \/ \E j \in NormalFrames :
                j < r /\ frames[j].seen /\ frames[r].time <= frames[j].time + MaxGap
           /\ shown'.time = frames[r].time
<1>1. /\ r \in DOMAIN frames /\ frames[r].type = Normal /\ Adjust(r)
      /\ frames' = [frames EXCEPT ![r].seen = TRUE]
      /\ UNCHANGED <<advanced, reader>>
  BY DEF GetSideInfo
<1>2. /\ frames \in Seq(SideInfo)
      /\ DOMAIN frames = 1 .. Len(frames) /\ Len(frames) \in Nat
  BY DEF TsInv, TsTypeOK
<1>3. r \in NormalFrames /\ NormalFrames \subseteq DOMAIN frames
  BY <1>1 DEF NormalFrames
<1>4. /\ frames' \in Seq(SideInfo)
      /\ Len(frames') = Len(frames) /\ DOMAIN frames' = DOMAIN frames
  <2> DEFINE g == [frames[r] EXCEPT !.seen = TRUE]
  <2>1. frames[r] \in SideInfo
    BY <1>1, <1>2
  <2>2. g \in SideInfo
    BY <2>1 DEF SideInfo
  <2>3. frames' = [frames EXCEPT ![r] = g]
    BY <1>1
  <2> HIDE DEF g
  <2>4. ASSUME NEW e \in SideInfo
        PROVE  /\ [frames EXCEPT ![r] = e] \in Seq(SideInfo)
               /\ Len([frames EXCEPT ![r] = e]) = Len(frames)
               /\ DOMAIN [frames EXCEPT ![r] = e] = DOMAIN frames
    <3>1. frames \in Seq(SideInfo) /\ r \in DOMAIN frames
      BY <1>1, <1>2
    <3> QED
      BY <3>1
  <2> QED
    BY <2>2, <2>3, <2>4
<1>5. ASSUME NEW i \in DOMAIN frames
      PROVE  /\ frames'[i].time = frames[i].time /\ frames'[i].PTS = frames[i].PTS
             /\ frames'[i].type = frames[i].type
             /\ frames'[i].seen <=> i = r \/ frames[i].seen
  BY <1>1, <1>2
<1>6. NormalFrames' = NormalFrames
  BY <1>4, <1>5 DEF NormalFrames
<1>7. SameTimes
  BY <1>3, <1>5, <1>6 DEF SameTimes
<1>8. \A i \in NormalFrames : frames'[i].seen <=> i = r \/ frames[i].seen
  BY <1>3, <1>5
<1>9. ReaderIndex' = r
  BY <1>1, <1>4 DEF ReaderIndex
<1>10. \A i \in NormalFrames : i \in Nat
  BY <1>2, <1>3
<1>11. \A i \in NormalFrames : /\ i < r => frames[i].seen
                               /\ frames[i].seen => i <= r
  BY DEF TsInv, SeenOK
<1>12. SeenOK'
  <2>1. ASSUME NEW i \in NormalFrames
        PROVE  /\ i < r => frames'[i].seen
               /\ frames'[i].seen => i <= r
    BY <1>8, <1>10, <1>11
  <2> QED
    BY <1>6, <1>9, <2>1 DEF SeenOK
<1>13. /\ frames[h].time \in Starts
       /\ frames[r].time \in Nat /\ frames[r].PTS = frames[r].time % WrapAt
       /\ IsFirst(r) \/ \E j \in NormalFrames :
            j < r /\ frames[r].time <= frames[j].time + MaxGap
       /\ h < r => frames[r].time >= frames[h].time - Reorder
  BY <1>3 DEF TsInv, CodingOrder
<1>14. r = h \/ h < r
  BY <1>3, <1>10 DEF IsFirst
<1>15. r = h \/ \E j \in NormalFrames :
            j < r /\ frames[j].seen /\ frames[r].time <= frames[j].time + MaxGap
  <2>1. IsFirst(r) => r = h
    BY <1>3, <1>10 DEF IsFirst
  <2> QED
    BY <1>11, <1>13, <2>1
<1>16. shown'.time = frames[r].time
  BY <1>1 DEF Adjust
<1>17. TsTypeOK'
  <2> DEFINE p == frames[r].PTS
  <2>1. p \in Int /\ frames[r].time \in Int
    <3>1. frames[r] \in SideInfo
      BY <1>1, <1>2
    <3> QED
      BY <3>1 DEF SideInfo
  <2>2. /\ lastTS \in Int /\ lastAdjustedTS \in Int
        /\ prevLastTS \in Int /\ prevLastAdjustedTS \in Int /\ MaxPTS \in Int
    BY TsNumbers DEF TsInv, TsTypeOK, MaxPTS
  <2>3. AfterWrap(p) \in [TS : Int, adjusted : Int, prevTS : Int, prevAdjusted : Int]
    <3> HIDE DEF p
    <3> QED
      BY <2>1, <2>2 DEF AfterWrap
  <2> DEFINE w == AfterWrap(p)
  <2>4. /\ w.TS \in Int /\ w.adjusted \in Int /\ w.prevTS \in Int /\ w.prevAdjusted \in Int
    <3> HIDE DEF p
    <3> QED
      BY <2>3
  <2>5. /\ lastTS' = w.TS /\ lastAdjustedTS' = w.adjusted
        /\ prevLastTS' \in {w.TS, w.prevTS}
        /\ prevLastAdjustedTS' \in {w.adjusted, w.prevAdjusted}
        /\ \E a \in {w.adjusted - w.TS, w.prevAdjusted - w.prevTS} :
             shown' = [time |-> frames[r].time, adjusted |-> p + a]
    BY <1>1 DEF Adjust
  <2> HIDE DEF p, w
  <2>6. {lastTS', lastAdjustedTS', prevLastTS', prevLastAdjustedTS'} \subseteq Int
    BY <2>4, <2>5
  <2>7. shown' \in [time : Int, adjusted : Int]
    BY <2>1, <2>4, <2>5
  <2> QED
    BY <1>1, <1>4, <2>6, <2>7 DEF TsInv, TsTypeOK
<1> QED
  BY <1>1, <1>3, <1>7, <1>8, <1>9, <1>10, <1>11, <1>12, <1>13, <1>14, <1>15, <1>16, <1>17

----------------------------------------------------------------------------
\* Before a wrap-around is recognised, and the step that does.
LEMMA AskNotWrapped ==
    ASSUME TsInv, GetSideInfo, NEW h \in NormalFrames, IsFirst(h),
           NEW f, f = frames[h].time, NotWrapped(f)
    PROVE  /\ NotWrapped(f)' \/ \E w \in NormalFrames' : WrappedAt(w, f)'
           /\ ShownOK(f)'
<1>r. PICK r : r = ReaderIndex
  OBVIOUS
<1>t. PICK t : t = frames[r].time
  OBVIOUS
<1>p. PICK p : p = frames[r].PTS
  OBVIOUS
<1>1. /\ r \in NormalFrames /\ Adjust(r) /\ SameTimes
      /\ \A i \in NormalFrames : frames'[i].seen <=> i = r \/ frames[i].seen
      /\ f \in Starts /\ t \in Nat /\ p = t % WrapAt
      /\ r = h \/ t >= f - Reorder
      /\ r = h \/ \E j \in NormalFrames : frames[j].seen /\ t <= frames[j].time + MaxGap
      /\ shown'.time = t
  BY <1>r, <1>t, <1>p, Asked
<1>2. /\ lastTS = f /\ lastAdjustedTS = f /\ prevLastTS = f /\ prevLastAdjustedTS = f
      /\ current = <<f, f>> /\ previous = <<f, f>> /\ MaxPTS = Candidate(f)
  BY DEF NotWrapped, current, previous, Candidate, MaxPTS
<1>3. /\ f \in Nat /\ Reorder <= f /\ f < WrapAt
      /\ p \in 0 .. WrapAt - 1
      /\ t < WrapAt => p = t
      /\ t >= WrapAt /\ t < 2 * WrapAt => p = t - WrapAt
  BY <1>1, PTSIs, TsNumbers
<1> DEFINE c == Candidate(f)
           soon == c # 0 /\ f < c
<1>4. /\ c \in Nat
      /\ soon => f >= WrapUnit - Several
      /\ f >= WrapAt - Several => c = WrapAt /\ soon
  BY <1>3, CandidateIs, TsNumbers
<1>5. soon => \A i \in NormalFrames : frames[i].seen => frames[i].time < WrapAt
  BY DEF NotWrapped
<1> HIDE DEF c
<1>6. \A i \in NormalFrames : frames[i].time \in Nat
  BY DEF TsInv, CodingOrder
<1>7. soon /\ t >= WrapAt => t < WrapAt + MaxGap
  BY <1>1, <1>3, <1>5, <1>6, <1>t, TsNumbers
<1>8. soon => (t >= WrapAt <=> WrapsAround(p))
  <2>1. ASSUME soon, t >= WrapAt PROVE WrapsAround(p)
    <3>1. p = t - WrapAt /\ p < Several /\ p < f
      BY <1>1, <1>3, <1>4, <1>7, <2>1, TsNumbers
    <3> QED
      BY <1>2, <2>1, <3>1 DEF WrapsAround, c
  <2>2. ASSUME soon, t < WrapAt PROVE ~WrapsAround(p)
    <3>1. p = t /\ (p = f \/ p >= Several)
      BY <1>1, <1>3, <1>4, <1>t, <2>2, TsNumbers
    <3> QED
      BY <1>2, <1>3, <3>1, TsNumbers DEF WrapsAround
  <2> QED
    BY <1>1, <2>1, <2>2, TsNumbers
<1>9. WrapsAround(p) => soon
  BY <1>2 DEF WrapsAround, c
<1>10. CASE ~WrapsAround(p)
  <2>1. /\ current' = <<f, f>> /\ previous' = <<f, f>>
        /\ shown'.adjusted = p
    <3>1. p \in Int /\ p + f - f = p
      BY <1>3
    <3>2. /\ current' = current /\ previous' \in {previous, current}
          /\ \/ shown'.adjusted = p + prevLastAdjustedTS - prevLastTS
             \/ shown'.adjusted = p + lastAdjustedTS - lastTS
      BY <1>1, <1>p, <1>10, <3>1, NoWrapAround DEF TsInv
    <3> QED
      BY <1>2, <3>1, <3>2
  <2>2. soon => \A i \in NormalFrames' : frames'[i].seen => frames'[i].time < WrapAt
    BY <1>1, <1>5, <1>8, <1>10, <1>t, TsNumbers DEF SameTimes
  <2>3. NotWrapped(f)'
    BY <2>1, <2>2 DEF NotWrapped, c, Candidate
  <2>4. shown'.time < WrapAt \/ f >= WrapAt - Several => shown'.adjusted = shown'.time
    BY <1>1, <1>3, <1>4, <1>8, <1>10, <2>1, TsNumbers
  <2>5. ShownOK(f)'
    BY <2>4 DEF ShownOK, FollowsStream
  <2> QED
    BY <2>3, <2>5
<1>11. CASE WrapsAround(p)
  <2>1. soon /\ t >= WrapAt /\ t < WrapAt + MaxGap /\ p = t - WrapAt
    BY <1>1, <1>3, <1>7, <1>8, <1>9, <1>11, TsNumbers
  <2>2. /\ current' = <<p, p + c>> /\ previous' = <<f, f>>
        /\ shown'.adjusted = p + c
    <3>1. /\ current' = <<p, lastAdjustedTS + p + MaxPTS - lastTS>>
          /\ previous' = current
          /\ shown'.adjusted = p + lastAdjustedTS + MaxPTS - lastTS
      BY <1>1, <1>3, <1>p, <1>11, WrapAround DEF TsInv
    <3>2. /\ lastAdjustedTS + p + MaxPTS - lastTS = p + c
          /\ p + lastAdjustedTS + MaxPTS - lastTS = p + c
      BY <1>2, <1>3, <1>4 DEF c
    <3> QED
      BY <1>2, <3>1, <3>2
  <2>3. r \in NormalFrames' /\ frames'[r].seen /\ frames'[r].time = t
    BY <1>1, <1>t DEF SameTimes
  <2>4. \A i \in NormalFrames' \ {r} : frames'[i].seen => frames'[i].time < WrapAt
    BY <1>1, <1>5, <2>1 DEF SameTimes
  <2>5. t \in WrapAt .. WrapAt + MaxGap - 1
    BY <1>1, <2>1, TsNumbers
  <2>6. WrappedAt(r, f)'
    BY <2>1, <2>2, <2>3, <2>4, <2>5 DEF WrappedAt, c, Candidate
  <2>7. f >= WrapAt - Several => shown'.adjusted = shown'.time
    BY <1>1, <1>3, <1>4, <2>1, <2>2, TsNumbers
  <2>8. ~(shown'.time < WrapAt)
    BY <1>1, <2>1, TsNumbers
  <2>9. ShownOK(f)'
    BY <2>7, <2>8 DEF ShownOK, FollowsStream
  <2> QED
    BY <2>3, <2>6, <2>9
<1> QED
  BY <1>10, <1>11

\* After it, no other is recognised.
LEMMA NoSecondWrapAround ==
    ASSUME lastTS \in 0 .. Several - 1
    PROVE  \A p \in Int : ~WrapsAround(p)
<1>1. lastTS \in Nat /\ lastTS + Several < WrapUnit
  BY TsNumbers
<1>2. MaxPTS = 0
  BY <1>1, CandidateIs DEF MaxPTS, Candidate
<1> QED
  BY <1>2 DEF WrapsAround

\* When one frame after the wrap-around has been seen: another one brings the
\* previous adjustment to the current one, and one from before the
\* wrap-around is far enough away to take the previous one.
LEMMA AskWrappedAt ==
    ASSUME TsInv, GetSideInfo, NEW h \in NormalFrames, IsFirst(h),
           NEW f, f = frames[h].time, NEW w \in NormalFrames, WrappedAt(w, f)
    PROVE  /\ WrappedAt(w, f)' \/ Wrapped(f)'
           /\ ShownOK(f)'
<1>r. PICK r : r = ReaderIndex
  OBVIOUS
<1>t. PICK t : t = frames[r].time
  OBVIOUS
<1>p. PICK p : p = frames[r].PTS
  OBVIOUS
<1>a. PICK a : a = frames[w].time
  OBVIOUS
<1>1. /\ r \in NormalFrames /\ Adjust(r) /\ SameTimes /\ ReaderIndex' = r
      /\ \A i \in NormalFrames : i \in Nat
      /\ \A i \in NormalFrames : frames'[i].seen <=> i = r \/ frames[i].seen
      /\ \A i \in NormalFrames : frames[i].seen => i <= r
      /\ f \in Starts /\ t \in Nat /\ p = t % WrapAt
      /\ r = h \/ \E j \in NormalFrames : frames[j].seen /\ t <= frames[j].time + MaxGap
      /\ shown'.time = t
  BY <1>r, <1>t, <1>p, Asked
<1> DEFINE c == Candidate(f)
<1>2. /\ frames[w].seen /\ a \in WrapAt .. WrapAt + MaxGap - 1
      /\ current = <<a - WrapAt, a - WrapAt + c>> /\ previous = <<f, f>>
      /\ lastTS = a - WrapAt /\ lastAdjustedTS = a - WrapAt + c
      /\ prevLastTS = f /\ prevLastAdjustedTS = f
      /\ \A i \in NormalFrames \ {w} : frames[i].seen => frames[i].time < WrapAt
  BY <1>a DEF WrappedAt, current, previous
<1>3. /\ f \in Nat /\ f < WrapAt
      /\ p \in 0 .. WrapAt - 1
      /\ t < WrapAt => p = t
      /\ t >= WrapAt /\ t < 2 * WrapAt => p = t - WrapAt
  BY <1>1, PTSIs, TsNumbers
<1>4. c \in Nat /\ (f >= WrapAt - Several => c = WrapAt)
  BY <1>3, CandidateIs
<1> HIDE DEF c
<1>5. ~WrapsAround(p)
  <2>1. lastTS \in 0 .. Several - 1
    BY <1>2, TsNumbers
  <2> QED
    BY <1>3, <2>1, NoSecondWrapAround
<1>6. /\ current' = current
      /\ ~(p - lastTS \in -Several .. Several) =>
           previous' = previous /\ shown'.adjusted = p + prevLastAdjustedTS - prevLastTS
      /\ p - lastTS \in -Several .. Several =>
           /\ shown'.adjusted = p + lastAdjustedTS - lastTS
           /\ previous' = IF p = lastTS THEN previous ELSE current
  BY <1>1, <1>3, <1>5, <1>p, NoWrapAround DEF TsInv
<1>7. p + lastAdjustedTS - lastTS = p + c /\ p + prevLastAdjustedTS - prevLastTS = p
  BY <1>2, <1>3, <1>4, TsNumbers
<1>8. /\ NormalFrames' = NormalFrames /\ frames'[w].seen /\ frames'[w].time = a
      /\ \A i \in NormalFrames : frames'[i].time = frames[i].time
  BY <1>1, <1>2, <1>a DEF SameTimes
<1>9. ASSUME t < WrapAt \/ r = w, previous' = previous PROVE WrappedAt(w, f)'
  <2>1. \A i \in NormalFrames' \ {w} : frames'[i].seen => frames'[i].time < WrapAt
    BY <1>1, <1>2, <1>8, <1>9, <1>t
  <2> QED
    BY <1>2, <1>6, <1>8, <1>9, <2>1 DEF WrappedAt, c, Candidate
<1>10. ASSUME shown'.adjusted = p + c, t >= WrapAt PROVE ShownOK(f)'
  <2>1. shown'.time < 2 * WrapAt /\ f >= WrapAt - Several => shown'.adjusted = shown'.time
    BY <1>1, <1>3, <1>4, <1>10, TsNumbers
  <2>2. ~(shown'.time < WrapAt)
    BY <1>1, <1>10, TsNumbers
  <2> QED
    BY <2>1, <2>2 DEF ShownOK, FollowsStream
<1>11. CASE r = w
  <2>1. t = a /\ t >= WrapAt /\ p = lastTS
    BY <1>2, <1>3, <1>11, <1>a, <1>t, TsNumbers
  <2>2. p - lastTS \in -Several .. Several
    BY <1>3, <2>1, TsNumbers
  <2>3. previous' = previous /\ shown'.adjusted = p + c
    BY <1>6, <1>7, <2>1, <2>2
  <2> QED
    BY <1>9, <1>10, <1>11, <2>1, <2>3
<1>12. ASSUME r # w PROVE w < r /\ t # a /\ t >= a - Reorder
  <2>1. w < r
    BY <1>1, <1>2, <1>12
  <2> QED
    BY <1>1, <1>a, <1>t, <2>1 DEF TsInv, CodingOrder
<1>13. CASE r # w /\ t < WrapAt
  <2>1. p = t /\ p - lastTS > Several
    BY <1>1, <1>2, <1>3, <1>12, <1>13, TsNumbers
  <2>2. ~(p - lastTS \in -Several .. Several)
    BY <2>1, TsNumbers
  <2>3. previous' = previous /\ shown'.adjusted = shown'.time
    BY <1>1, <1>6, <1>7, <2>1, <2>2
  <2> QED
    BY <1>9, <1>13, <2>3 DEF ShownOK, FollowsStream
<1>14. CASE r # w /\ t >= WrapAt
  <2>1. t <= a + MaxGap
    <3>1. PICK j \in NormalFrames : frames[j].seen /\ t <= frames[j].time + MaxGap
      BY <1>1, <1>3, <1>14, <1>t, TsNumbers
    <3>2. frames[j].time \in Nat
      BY DEF TsInv, CodingOrder
    <3>3. j = w \/ frames[j].time < WrapAt
      BY <1>2, <3>1
    <3> QED
      BY <1>1, <1>2, <1>a, <3>1, <3>2, <3>3, TsNumbers
  <2>2. p = t - WrapAt /\ p # lastTS /\ p - lastTS \in -Several .. Several
    BY <1>1, <1>2, <1>3, <1>12, <1>14, <2>1, TsNumbers
  <2>3. previous' = current /\ shown'.adjusted = p + c
    BY <1>6, <1>7, <2>2
  <2>4. /\ lastTS' = lastTS /\ lastAdjustedTS' = lastAdjustedTS
        /\ prevLastTS' = lastTS /\ prevLastAdjustedTS' = lastAdjustedTS
    BY <1>6, <2>3 DEF current, previous
  <2>5. lastTS \in 0 .. Several - 1 /\ lastAdjustedTS = lastTS + c
    BY <1>2, <1>4, TsNumbers
  <2>6. /\ w \in NormalFrames' /\ r \in NormalFrames' /\ w < r /\ r <= ReaderIndex'
        /\ frames'[w].time >= WrapAt /\ frames'[r].time >= WrapAt
    BY <1>1, <1>2, <1>8, <1>12, <1>14, <1>t, TsNumbers
  <2>7. Wrapped(f)'
    BY <2>4, <2>5, <2>6 DEF Wrapped, c, Candidate
  <2> QED
    BY <1>10, <1>14, <2>3, <2>7
<1> QED
  BY <1>1, <1>11, <1>13, <1>14, TsNumbers

\* When two have been seen, both adjustments are the same and every frame to
\* come is after the wrap-around.
LEMMA AskWrapped ==
    ASSUME TsInv, GetSideInfo, NEW h \in NormalFrames, IsFirst(h),
           NEW f, f = frames[h].time, Wrapped(f)
    PROVE  Wrapped(f)' /\ ShownOK(f)'
<1>r. PICK r : r = ReaderIndex
  OBVIOUS
<1>t. PICK t : t = frames[r].time
  OBVIOUS
<1>p. PICK p : p = frames[r].PTS
  OBVIOUS
<1>1. /\ r \in NormalFrames /\ Adjust(r) /\ SameTimes /\ ReaderIndex' = r
      /\ \A i \in NormalFrames : i \in Nat
      /\ f \in Starts /\ t \in Nat /\ p = t % WrapAt
      /\ shown'.time = t
  BY <1>r, <1>t, <1>p, Asked
<1>2. PICK v \in NormalFrames, w \in NormalFrames :
        /\ v < w /\ w <= r
        /\ frames[v].time >= WrapAt /\ frames[w].time >= WrapAt
  BY <1>r DEF Wrapped
<1> DEFINE c == Candidate(f)
<1>3. /\ lastTS \in 0 .. Several - 1 /\ lastAdjustedTS = lastTS + c
      /\ prevLastTS \in Int /\ prevLastAdjustedTS = prevLastTS + c
  BY DEF Wrapped, TsInv, TsTypeOK
<1>4. /\ f \in Nat /\ f < WrapAt
      /\ p \in 0 .. WrapAt - 1
      /\ t < 2 * WrapAt /\ t >= WrapAt => p = t - WrapAt
  BY <1>1, PTSIs, TsNumbers
<1>5. c \in Nat /\ (f >= WrapAt - Several => c = WrapAt)
  BY <1>4, CandidateIs
<1> HIDE DEF c
<1>6. t >= WrapAt
  <2>1. CASE w = r
    BY <1>2, <1>t, <2>1
  <2>2. CASE w < r
    <3>1. t > frames[v].time \/ t > frames[w].time
      BY <1>1, <1>2, <1>t, <2>2 DEF TsInv, CodingOrder
    <3>2. frames[v].time \in Nat /\ frames[w].time \in Nat
      BY DEF TsInv, CodingOrder
    <3> QED
      BY <1>1, <1>2, <3>1, <3>2, TsNumbers
  <2> QED
    BY <1>1, <1>2, <2>1, <2>2
<1>7. p \in Int /\ ~WrapsAround(p)
  BY <1>3, <1>4, NoSecondWrapAround, TsNumbers
<1>8. /\ current' = current /\ previous' \in {previous, current}
      /\ \/ shown'.adjusted = p + prevLastAdjustedTS - prevLastTS
         \/ shown'.adjusted = p + lastAdjustedTS - lastTS
  BY <1>1, <1>7, <1>p, NoWrapAround DEF TsInv
<1>9. shown'.adjusted = p + c
  BY <1>3, <1>5, <1>7, <1>8, TsNumbers
<1>10. /\ lastTS' = lastTS /\ lastAdjustedTS' = lastAdjustedTS
       /\ prevLastAdjustedTS' = prevLastTS' + c
  BY <1>3, <1>8 DEF current, previous
<1>11. /\ v \in NormalFrames' /\ w \in NormalFrames' /\ v < w /\ w <= ReaderIndex'
       /\ frames'[v].time >= WrapAt /\ frames'[w].time >= WrapAt
  BY <1>1, <1>2 DEF SameTimes
<1>12. Wrapped(f)'
  BY <1>3, <1>10, <1>11 DEF Wrapped, c, Candidate
<1>13. shown'.time < 2 * WrapAt /\ f >= WrapAt - Several => shown'.adjusted = shown'.time
  BY <1>1, <1>4, <1>5, <1>6, <1>9, TsNumbers
<1>14. ~(shown'.time < WrapAt)
  BY <1>1, <1>6, TsNumbers
<1>15. ShownOK(f)'
  BY <1>13, <1>14 DEF ShownOK, FollowsStream
<1> QED
  BY <1>12, <1>15

LEMMA GetSideInfoInv == TsInv /\ GetSideInfo => TsInv'
<1> SUFFICES ASSUME TsInv, GetSideInfo PROVE TsInv'
  OBVIOUS
<1>1. NormalFrames # {}
  BY DEF GetSideInfo, NormalFrames
<1>2. PICK h \in NormalFrames : IsFirst(h)
  BY <1>1 DEF TsInv, CodingOrder
<1>3. TsTypeOK' /\ SeenOK' /\ SameTimes
  BY <1>2, Asked
<1>4. /\ CodingOrder'
      /\ \A i \in NormalFrames : IsFirst(i)' <=> IsFirst(i)
  BY <1>3, OrderStays DEF TsInv
<1>5. NormalFrames' = NormalFrames
  BY <1>3 DEF SameTimes
<1>6. ASSUME NEW i \in NormalFrames, IsFirst(i)
      PROVE  Phase(frames[i].time)' /\ ShownOK(frames[i].time)'
  <2>f. PICK f : f = frames[i].time
    OBVIOUS
  <2>1. Phase(f)
    BY <1>6, <2>f DEF TsInv
  <2>2. Phase(f)' /\ ShownOK(f)'
    <3>1. CASE NotWrapped(f)
      BY <1>6, <2>f, <3>1, AskNotWrapped DEF Phase
    <3>2. ASSUME NEW w \in NormalFrames, WrappedAt(w, f)
          PROVE  Phase(f)' /\ ShownOK(f)'
      BY <1>5, <1>6, <2>f, <3>2, AskWrappedAt DEF Phase
    <3>3. CASE Wrapped(f)
      BY <1>6, <2>f, <3>3, AskWrapped DEF Phase
    <3> QED
      BY <2>1, <3>1, <3>2, <3>3 DEF Phase
  <2>3. frames'[i].time = f
    BY <1>3, <2>f DEF SameTimes
  <2> QED
    BY <2>2, <2>3
<1> QED
  BY <1>1, <1>3, <1>4, <1>5, <1>6 DEF TsInv

----------------------------------------------------------------------------
\* The invariant of the adjustment, kept by each of the four operations.
THEOREM SpecTsInv == TsSpec => []TsInv
<1>1. TsInv /\ [TsNext]_tsVars => TsInv'
  <2> SUFFICES ASSUME TsInv, [TsNext]_tsVars PROVE TsInv'
    OBVIOUS
  <2>1. CASE UNCHANGED tsVars
    <3>1. UNCHANGED <<current, previous, frames, advanced, reader, shown>>
      BY <2>1 DEF tsVars
    <3>2. TsTypeOK' /\ SeenOK' /\ SameTimes /\ ReaderIndex' = ReaderIndex
      BY <3>1 DEF TsInv, TsTypeOK, SeenOK, SameTimes, NormalFrames, ReaderIndex,
                  current, previous
    <3>3. CodingOrder' /\ \A h \in NormalFrames : IsFirst(h)' <=> IsFirst(h)
      BY <3>2, OrderStays DEF TsInv
    <3>4. NormalFrames' = NormalFrames /\ ReaderIndex \in Int
      BY <3>2 DEF SameTimes, TsInv, TsTypeOK, ReaderIndex
    <3> QED
      BY <3>1, <3>2, <3>3, <3>4, QuietStep
  <2> QED
    BY <2>1, AppendInv, ExtraInfoInv, GetSideInfoInv, AdvanceInv DEF TsNext
<1> QED
  BY <1>1, InitTsInv, PTL DEF TsSpec

\* Adjusted timestamps are the frames' times: of every frame before the
\* timestamps wrap around, however the frames are coded, and of every frame
\* up to a second wrap-around in a stream that starts near enough to the first.
\* This is for streams of any length and for every reader.
THEOREM StreamFollowsFromNearWrap == TsSpec => []FollowsStreamFromNearWrap
<1>1. TsInv => FollowsStreamFromNearWrap
  <2> SUFFICES ASSUME TsInv PROVE FollowsStreamFromNearWrap
    OBVIOUS
  <2>1. CASE NormalFrames = {}
    BY <2>1 DEF TsInv, FollowsStreamFromNearWrap
  <2>2. CASE NormalFrames # {}
    <3>1. PICK h \in NormalFrames : IsFirst(h)
      BY <2>2 DEF TsInv, CodingOrder
    <3>2. \A i \in NormalFrames : i \in Int
      BY DEF NormalFrames, TsInv, TsTypeOK
    <3>3. Min(NormalFrames) = h
      <4>1. \A i \in NormalFrames : h <= i
        BY <3>1 DEF IsFirst
      <4>2. /\ Min(NormalFrames) \in NormalFrames
            /\ \A i \in NormalFrames : Min(NormalFrames) <= i
        BY <4>1 DEF Min
      <4> QED
        BY <3>2, <4>1, <4>2
    <3>4. ShownOK(frames[h].time)
      BY <3>1 DEF TsInv
    <3> QED
      BY <3>3, <3>4 DEF ShownOK, FollowsStreamFromNearWrap
  <2> QED
    BY <2>1, <2>2
<1> QED
  BY <1>1, SpecTsInv, PTL

(***************************************************************************)
(* AvcFrame.                                                               *)
(***************************************************************************)
\* A set of natural numbers has a least one.
LEMMA LeastNat ==
    ASSUME NEW S \in SUBSET Nat, S # {}
    PROVE  \E m \in S : \A x \in S : m <= x
<1>1. PICK m \in S : \A x \in S : <<x, m>> \notin OpToRel(<, Nat)
  BY NatLessThanWellFounded, WFMin
<1>2. \A x \in S : ~(x < m)
  BY <1>1 DEF OpToRel
<1> QED
  BY <1>2

LEMMA MinIs ==
    ASSUME NEW S \in SUBSET Int, NEW m \in S, \A x \in S : m <= x
    PROVE  Min(S) = m
<1>1. \A x \in S : (\A y \in S : x <= y) => x = m
  OBVIOUS
<1> QED
  BY <1>1 DEF Min

\* The bytes of a unit with a start code of four bytes.
LEMMA UnitBytes ==
    ASSUME NEW u, IsUnit(u), u.zeros = 3
    PROVE  LET b == BytesOf(u)
               n == Len(u.payload)
           IN  /\ n \in Nat /\ b \in Seq(Byte) /\ Len(b) = n + 5
               /\ b[1] = 0 /\ b[2] = 0 /\ b[3] = 0 /\ b[4] = 1 /\ b[5] = u.header
               /\ \A j \in 1 .. n : b[j + 5] = u.payload[j]
<1> DEFINE z == [i \in 1 .. 3 |-> 0]
           c == <<1, u.header>>
           p == u.payload
<1>1. p \in Seq(Byte) /\ u.header \in Byte /\ Len(p) \in Nat
  BY DEF IsUnit
<1>2. z \in Seq(Byte) /\ Len(z) = 3 /\ z[1] = 0 /\ z[2] = 0 /\ z[3] = 0
  BY DEF Byte
<1>3. c \in Seq(Byte) /\ Len(c) = 2 /\ c[1] = 1 /\ c[2] = u.header
  BY <1>1 DEF Byte
<1>4. BytesOf(u) = (z \o c) \o p
  BY DEF BytesOf
<1> HIDE DEF z, c, p
<1>5. /\ z \o c \in Seq(Byte) /\ Len(z \o c) = 5
      /\ \A i \in 1 .. 5 : (z \o c)[i] = IF i <= 3 THEN z[i] ELSE c[i - 3]
  <2>1. /\ z \o c \in Seq(Byte) /\ Len(z \o c) = Len(z) + Len(c)
        /\ \A i \in 1 .. Len(z) + Len(c) :
            (z \o c)[i] = IF i <= Len(z) THEN z[i] ELSE c[i - Len(z)]
    BY <1>2, <1>3, ConcatProperties
  <2>2. Len(z) + Len(c) = 5
    BY <1>2, <1>3
  <2> QED
    BY <1>2, <2>1, <2>2
<1>6. PICK a : a = z \o c
  OBVIOUS
<1>7. /\ a \in Seq(Byte) /\ Len(a) = 5
      /\ a[1] = 0 /\ a[2] = 0 /\ a[3] = 0 /\ a[4] = 1 /\ a[5] = u.header
  BY <1>2, <1>3, <1>5, <1>6
<1>8. /\ a \o p \in Seq(Byte) /\ Len(a \o p) = 5 + Len(p)
      /\ \A i \in 1 .. 5 + Len(p) : (a \o p)[i] = IF i <= 5 THEN a[i] ELSE p[i - 5]
  <2>1. /\ a \o p \in Seq(Byte) /\ Len(a \o p) = Len(a) + Len(p)
        /\ \A i \in 1 .. Len(a) + Len(p) :
            (a \o p)[i] = IF i <= Len(a) THEN a[i] ELSE p[i - Len(a)]
    BY <1>1, <1>7, ConcatProperties
  <2> QED
    BY <1>7, <2>1
<1>9. BytesOf(u) = a \o p
  BY <1>4, <1>6
<1>10. PICK b, n : b = a \o p /\ n = Len(p)
  OBVIOUS
<1>11. /\ n \in Nat /\ b \in Seq(Byte) /\ Len(b) = n + 5
       /\ b[1] = 0 /\ b[2] = 0 /\ b[3] = 0 /\ b[4] = 1 /\ b[5] = u.header
       /\ \A j \in 1 .. n : b[j + 5] = p[j]
  BY <1>1, <1>7, <1>8, <1>10
<1> QED
  BY <1>9, <1>10, <1>11 DEF p

\* Where the bytes of a unit are in a frame, and that none of its payload
\* looks like a start code.
LEMMA UnitPlace ==
    ASSUME NEW f \in Frames, NEW k \in 1 .. Len(f.units), f.units[k].zeros = 3
    PROVE  \E s, l \in Nat :
            /\ s = f.starts[k] /\ f.starts[k + 1] = s + l + 5
            /\ Len(BytesOf(f.units[k])) = l + 5 /\ BytesOf(f.units[k]) \in Seq(Byte)
            /\ \A j \in 1 .. l + 5 : f.bytes[s + j] = BytesOf(f.units[k])[j]
            /\ f.bytes[s + 1] = 0 /\ f.bytes[s + 2] = 0 /\ f.bytes[s + 3] = 0
            /\ f.bytes[s + 4] = 1 /\ f.bytes[s + 5] = f.units[k].header
            /\ \A j \in 6 .. l + 3 :
                ~(f.bytes[s + j] = 0 /\ f.bytes[s + j + 1] = 0 /\ f.bytes[s + j + 2] = 1)
<1>1. PICK u, s, b, l : /\ u = f.units[k] /\ s = f.starts[k] /\ b = BytesOf(u)
                        /\ l = Len(u.payload)
  OBVIOUS
<1>2. /\ Len(f.units) \in Nat /\ f.starts \in [1 .. Len(f.units) + 1 -> Nat]
      /\ IsUnit(u) /\ f.starts[k + 1] = s + Len(b)
      /\ \A j \in 1 .. Len(b) : f.bytes[s + j] = b[j]
  BY <1>1, FramesAssumption
<1>3. s \in Nat
  BY <1>1, <1>2
<1>4. /\ l \in Nat /\ b \in Seq(Byte) /\ Len(b) = l + 5
      /\ b[1] = 0 /\ b[2] = 0 /\ b[3] = 0 /\ b[4] = 1 /\ b[5] = u.header
      /\ \A j \in 1 .. l : b[j + 5] = u.payload[j]
  BY <1>1, <1>2, UnitBytes
<1>5. \A j \in 1 .. l - 2 :
        ~(u.payload[j] = 0 /\ u.payload[j + 1] = 0 /\ u.payload[j + 2] = 1)
  BY <1>1, <1>2 DEF IsUnit
<1>6. \A j \in 1 .. l + 5 : f.bytes[s + j] = b[j]
  BY <1>2, <1>4
<1>7. /\ f.bytes[s + 1] = 0 /\ f.bytes[s + 2] = 0 /\ f.bytes[s + 3] = 0
      /\ f.bytes[s + 4] = 1 /\ f.bytes[s + 5] = u.header
  BY <1>4, <1>6
<1>8. ASSUME NEW j \in 6 .. l + 3
      PROVE  ~(f.bytes[s + j] = 0 /\ f.bytes[s + j + 1] = 0 /\ f.bytes[s + j + 2] = 1)
  <2>1. PICK i \in 1 .. l - 2 : j = i + 5
    <3>1. j - 5 \in 1 .. l - 2 /\ j = (j - 5) + 5
      BY <1>4
    <3> QED
      BY <3>1
  <2>2. /\ i \in 1 .. l /\ i + 1 \in 1 .. l /\ i + 2 \in 1 .. l
        /\ j \in 1 .. l + 5 /\ j + 1 \in 1 .. l + 5 /\ j + 2 \in 1 .. l + 5
        /\ j + 1 = (i + 1) + 5 /\ j + 2 = (i + 2) + 5
        /\ s + (j + 1) = s + j + 1 /\ s + (j + 2) = s + j + 2
    BY <1>3, <1>4, <2>1
  <2>3. b[j] = u.payload[i] /\ b[j + 1] = u.payload[i + 1] /\ b[j + 2] = u.payload[i + 2]
    BY <1>4, <2>1, <2>2
  <2>4. f.bytes[s + j] = b[j] /\ f.bytes[s + j + 1] = b[j + 1] /\ f.bytes[s + j + 2] = b[j + 2]
    BY <1>6, <2>2
  <2> QED
    BY <1>5, <2>1, <2>3, <2>4
<1>9. f.starts[k + 1] = s + l + 5
  BY <1>2, <1>3, <1>4
<1>10. /\ s = f.starts[k] /\ f.starts[k + 1] = s + l + 5
       /\ Len(BytesOf(f.units[k])) = l + 5 /\ BytesOf(f.units[k]) \in Seq(Byte)
       /\ \A j \in 1 .. l + 5 : f.bytes[s + j] = BytesOf(f.units[k])[j]
       /\ f.bytes[s + 5] = f.units[k].header
  BY <1>1, <1>4, <1>6, <1>7, <1>9
<1> QED
  BY <1>3, <1>4, <1>7, <1>8, <1>10

\* The units stand behind each other and fill the frame.
LEMMA StartsFacts ==
    ASSUME NEW f \in Frames
    PROVE  /\ Len(f.units) \in Nat /\ f.bytes \in Seq(Byte) /\ Len(f.bytes) \in Nat
           /\ DOMAIN f.units = 1 .. Len(f.units)
           /\ f.starts \in [1 .. Len(f.units) + 1 -> Nat]
           /\ f.starts[1] = 0 /\ f.starts[Len(f.units) + 1] = Len(f.bytes)
           /\ \A i, j \in 1 .. Len(f.units) : i < j => f.starts[i] < f.starts[j]
<1>1. PICK n : n = Len(f.units)
  OBVIOUS
<1>2. /\ n \in Nat /\ f.bytes \in Seq(Byte) /\ DOMAIN f.units = 1 .. n
      /\ f.starts \in [1 .. n + 1 -> Nat]
      /\ f.starts[1] = 0 /\ f.starts[n + 1] = Len(f.bytes)
      /\ \A i, j \in 1 .. n : i < j => f.starts[i] < f.starts[j]
  BY <1>1, FramesAssumption
<1>3. Len(f.bytes) \in Nat
  BY <1>2
<1> QED
  BY <1>1, <1>2, <1>3

\* Every byte of a frame is one of some unit.
LEMMA WhichUnit ==
    ASSUME NEW f \in Frames, NEW q \in Nat, q < Len(f.bytes)
    PROVE  \E k \in 1 .. Len(f.units) : f.starts[k] <= q /\ q < f.starts[k + 1]
<1>1. PICK n : n = Len(f.units)
  OBVIOUS
<1>2. /\ n \in Nat /\ f.starts \in [1 .. n + 1 -> Nat] /\ f.starts[1] = 0
      /\ f.starts[n + 1] = Len(f.bytes)
  BY <1>1, StartsFacts
<1> DEFINE T == {k \in 1 .. n + 1 : q < f.starts[k]}
<1>3. T \in SUBSET Nat /\ n + 1 \in T
  BY <1>2
<1>4. PICK m \in T : \A x \in T : m <= x
  BY <1>3, LeastNat
<1>5. m \in 1 .. n + 1 /\ q < f.starts[m] /\ m # 1
  BY <1>2
<1>6. m - 1 \in 1 .. n /\ m - 1 \in 1 .. n + 1 /\ m = (m - 1) + 1
  BY <1>2, <1>5
<1>7. m - 1 \notin T
  BY <1>4, <1>5
<1>8. ~(q < f.starts[m - 1]) /\ f.starts[m - 1] \in Nat
  BY <1>2, <1>6, <1>7
<1>9. f.starts[m - 1] <= q /\ q < f.starts[(m - 1) + 1]
  BY <1>5, <1>6, <1>8
<1> QED
  BY <1>1, <1>6, <1>9

\* No unit ends behind the frame.
LEMMA UnitEnds ==
    ASSUME NEW f \in Frames, NEW k \in 1 .. Len(f.units),
           \A i \in 1 .. Len(f.units) : f.units[i].zeros = 3
    PROVE  f.starts[k + 1] <= Len(f.bytes)
<1>1. PICK n, s, z : n = Len(f.units) /\ s = f.starts /\ z = Len(f.bytes)
  OBVIOUS
<1>2. /\ n \in Nat /\ s \in [1 .. n + 1 -> Nat] /\ s[n + 1] = z
      /\ \A i, j \in 1 .. n : i < j => s[i] < s[j]
  BY <1>1, StartsFacts
<1>3. k \in 1 .. n /\ z \in Nat
  BY <1>1, <1>2
<1>4. CASE k = n
  <2>1. s[k + 1] = z
    BY <1>2, <1>4
  <2> QED
    BY <1>1, <1>3, <2>1
<1>5. CASE k # n
  <2>1. k + 1 \in 1 .. n /\ n \in 1 .. n
    BY <1>2, <1>3, <1>5
  <2>2. s[k + 1] \in Nat /\ s[k + 1] <= s[n]
    <3>1. k + 1 = n \/ k + 1 < n
      BY <1>2, <2>1
    <3>2. s[k + 1] \in Nat /\ s[n] \in Nat
      BY <1>2, <2>1
    <3>3. k + 1 < n => s[k + 1] < s[n]
      BY <1>2, <2>1
    <3> QED
      BY <3>1, <3>2, <3>3
  <2>3. PICK w, v \in Nat : w = s[n] /\ s[n + 1] = w + v + 5
    BY <1>1, <2>1, UnitPlace
  <2>4. w \in Nat /\ v \in Nat /\ z = w + v + 5 /\ s[k + 1] <= w
    BY <1>2, <2>2, <2>3
  <2>5. s[k + 1] <= z
    BY <2>2, <2>4
  <2> QED
    BY <1>1, <2>5
<1> QED
  BY <1>4, <1>5

\* What is left of the frame when the decoder has come to a unit.
LEMMA AtUnit ==
    ASSUME frame \in Frames, FourByteCodes, NEW k \in 1 .. Len(units),
           head = frame.starts[k]
    PROVE  \E l \in Nat :
            /\ head \in Nat /\ Size \in Nat /\ l + 5 <= Size
            /\ frame.starts[k + 1] = head + l + 5
            /\ Len(BytesOf(units[k])) = l + 5 /\ BytesOf(units[k]) \in Seq(Byte)
            /\ \A j \in 1 .. l + 5 : frame.bytes[head + j] = BytesOf(units[k])[j]
            /\ At(0) = 0 /\ At(1) = 0 /\ At(2) = 0 /\ At(3) = 1 /\ At(4) = units[k].header
            /\ \A i \in 5 .. l + 2 : ~(At(i) = 0 /\ At(i + 1) = 0 /\ At(i + 2) = 1)
            /\ k = Len(units) => Size = l + 5
            /\ k # Len(units) =>
                /\ l + 10 <= Size
                /\ At(l + 5) = 0 /\ At(l + 6) = 0 /\ At(l + 7) = 0 /\ At(l + 8) = 1
<1>1. PICK n, s, b, z : n = Len(units) /\ s = frame.starts /\ b = frame.bytes /\ z = Len(b)
  OBVIOUS
<1>2. /\ n \in Nat /\ z \in Nat /\ s \in [1 .. n + 1 -> Nat] /\ s[n + 1] = z
      /\ \A i, j \in 1 .. n : i < j => s[i] < s[j]
  BY <1>1, StartsFacts DEF units
<1>3. \A i \in 1 .. n : units[i].zeros = 3
  BY <1>1, StartsFacts DEF FourByteCodes, units
<1>4. k \in 1 .. n /\ head = s[k]
  BY <1>1
<1>5. PICK h, l \in Nat :
            /\ h = s[k] /\ s[k + 1] = h + l + 5
            /\ Len(BytesOf(units[k])) = l + 5 /\ BytesOf(units[k]) \in Seq(Byte)
            /\ \A j \in 1 .. l + 5 : b[h + j] = BytesOf(units[k])[j]
            /\ b[h + 1] = 0 /\ b[h + 2] = 0 /\ b[h + 3] = 0
            /\ b[h + 4] = 1 /\ b[h + 5] = units[k].header
            /\ \A j \in 6 .. l + 3 : ~(b[h + j] = 0 /\ b[h + j + 1] = 0 /\ b[h + j + 2] = 1)
  BY <1>1, <1>3, UnitPlace DEF units
<1>6. head = h /\ Size = z - h /\ h \in Nat /\ l \in Nat
  BY <1>1, <1>4, <1>5 DEF Size
<1>7. /\ At(0) = 0 /\ At(1) = 0 /\ At(2) = 0 /\ At(3) = 1 /\ At(4) = units[k].header
  <2>1. /\ h + 0 + 1 = h + 1 /\ h + 1 + 1 = h + 2 /\ h + 2 + 1 = h + 3
        /\ h + 3 + 1 = h + 4 /\ h + 4 + 1 = h + 5
    BY <1>6
  <2> QED
    BY <1>1, <1>5, <1>6, <2>1 DEF At
<1>8. ASSUME NEW i \in 5 .. l + 2
      PROVE  ~(At(i) = 0 /\ At(i + 1) = 0 /\ At(i + 2) = 1)
  <2>1. /\ i + 1 \in 6 .. l + 3 /\ h + i + 1 = h + (i + 1)
        /\ h + (i + 2) + 1 = h + (i + 1) + 2
    BY <1>6, <1>8
  <2>2. /\ At(i) = b[h + (i + 1)] /\ At(i + 1) = b[h + (i + 1) + 1]
        /\ At(i + 2) = b[h + (i + 1) + 2]
    BY <1>1, <1>6, <2>1 DEF At
  <2> QED
    BY <1>5, <2>1, <2>2
<1>11. /\ head \in Nat /\ frame.starts[k + 1] = head + l + 5
       /\ \A j \in 1 .. l + 5 : frame.bytes[head + j] = BytesOf(units[k])[j]
  BY <1>1, <1>5, <1>6
<1>9. CASE k = n
  <2>1. z = h + l + 5
    BY <1>2, <1>5, <1>9
  <2>2. Size = l + 5
    BY <1>2, <1>6, <2>1
  <2>3. Size \in Nat /\ l + 5 <= Size
    BY <1>6, <2>2
  <2> QED
    BY <1>1, <1>5, <1>6, <1>7, <1>8, <1>9, <1>11, <2>2, <2>3
<1>10. CASE k # n
  <2>1. k + 1 \in 1 .. n /\ k + 1 + 1 = k + 2
    BY <1>2, <1>4, <1>10
  <2>2. PICK g, m \in Nat :
            /\ g = s[k + 1] /\ s[k + 2] = g + m + 5
            /\ b[g + 1] = 0 /\ b[g + 2] = 0 /\ b[g + 3] = 0 /\ b[g + 4] = 1
    <3>1. PICK i : i = k + 1
      OBVIOUS
    <3>2. i \in 1 .. Len(frame.units) /\ frame.units[i].zeros = 3 /\ i + 1 = k + 2
      BY <1>1, <1>3, <2>1, <3>1 DEF units
    <3>3. \E g, m \in Nat :
            /\ g = s[i] /\ s[i + 1] = g + m + 5
            /\ b[g + 1] = 0 /\ b[g + 2] = 0 /\ b[g + 3] = 0 /\ b[g + 4] = 1
      BY <1>1, <3>2, UnitPlace
    <3> QED
      BY <3>1, <3>2, <3>3
  <2>3. g = h + l + 5 /\ g \in Nat /\ m \in Nat
    BY <1>5, <2>2
  <2>4. g + m + 5 <= z
    <3>1. PICK i : i = k + 1
      OBVIOUS
    <3>2. i \in 1 .. Len(frame.units) /\ i + 1 = k + 2
      BY <1>1, <2>1, <3>1 DEF units
    <3>3. \A x \in 1 .. Len(frame.units) : frame.units[x].zeros = 3
      BY <1>1, <1>3 DEF units
    <3>4. s[i + 1] <= z
      BY <1>1, <3>2, <3>3, UnitEnds
    <3> QED
      BY <2>2, <3>2, <3>4
  <2>5. Size \in Nat /\ l + 10 <= Size
    BY <1>2, <1>6, <2>3, <2>4
  <2>6. /\ h + (l + 5) + 1 = g + 1 /\ h + (l + 6) + 1 = g + 2
        /\ h + (l + 7) + 1 = g + 3 /\ h + (l + 8) + 1 = g + 4
    BY <1>6, <2>3
  <2>7. At(l + 5) = 0 /\ At(l + 6) = 0 /\ At(l + 7) = 0 /\ At(l + 8) = 1
    BY <1>1, <1>6, <2>2, <2>6 DEF At
  <2> QED
    BY <1>1, <1>5, <1>6, <1>7, <1>8, <1>10, <1>11, <2>5, <2>7
<1> QED
  BY <1>9, <1>10

----------------------------------------------------------------------------
\* The start code that a unit begins with is found behind one zero.
LEMMA FirstCodeIs ==
    ASSUME Size \in Nat, Size >= 5, At(0) = 0, At(1) = 0, At(2) = 0, At(3) = 1
    PROVE  FirstCode = 1
<1> DEFINE S == {i \in 0 .. Size - 3 : At(i) # 0 \/ At(i + 1) # 0 \/ At(i + 2) # 0}
<1>1. 1 \in 0 .. Size - 3 /\ 1 + 1 = 2 /\ 1 + 2 = 3 /\ 0 + 1 = 1 /\ 0 + 2 = 2
  OBVIOUS
<1>2. 1 \in S
  BY <1>1
<1>3. 0 \notin S
  BY <1>1
<1>4. S \in SUBSET Int /\ \A x \in S : 1 <= x
  <2>1. ASSUME NEW x \in S PROVE x \in Int /\ 1 <= x
    <3>1. x \in 0 .. Size - 3 /\ x # 0
      BY <1>3
    <3> QED
      BY <3>1
  <2> QED
    BY <2>1
<1> HIDE DEF S
<1>5. Min(S) = 1
  BY <1>2, <1>4, MinIs
<1> QED
  BY <1>5 DEF FirstCode, S

\* The length reported is that of the unit: its payload holds no start code,
\* nor do its last bytes with the zeros behind them.
LEMMA FirstLengthIs ==
    ASSUME FirstCode = 1, Size \in Nat, NEW l \in Nat, l + 5 <= Size,
           \A i \in 5 .. l + 2 : ~(At(i) = 0 /\ At(i + 1) = 0 /\ At(i + 2) = 1),
           \/ Size = l + 5
           \/ /\ l + 10 <= Size
              /\ At(l + 5) = 0 /\ At(l + 6) = 0 /\ At(l + 7) = 0 /\ At(l + 8) = 1
    PROVE  FirstLength = l + 5
<1> DEFINE S == {i \in FirstCode + 4 .. Size - 4 : At(i) = 0 /\ At(i + 1) = 0 /\ At(i + 2) = 1}
<1>1. S \in SUBSET Int /\ \A i \in S : i >= 5 /\ i <= Size - 4 /\ i \notin 5 .. l + 2
  OBVIOUS
<1>2. CASE Size = l + 5
  <2>1. S = {}
    BY <1>1, <1>2
  <2> QED
    BY <1>2, <2>1 DEF FirstLength
<1>3. CASE /\ l + 10 <= Size
           /\ At(l + 5) = 0 /\ At(l + 6) = 0 /\ At(l + 7) = 0 /\ At(l + 8) = 1
  <2>1. l + 6 \in FirstCode + 4 .. Size - 4 /\ l + 6 + 1 = l + 7 /\ l + 6 + 2 = l + 8
    BY <1>3
  <2>2. l + 6 \in S
    BY <1>3, <2>1
  <2>3. l + 3 + 2 = l + 5 /\ l + 4 + 2 = l + 6 /\ l + 5 + 2 = l + 7
    OBVIOUS
  <2>4. l + 3 \notin S /\ l + 4 \notin S /\ l + 5 \notin S
    BY <1>3, <2>3
  <2>5. \A i \in S : l + 6 <= i
    <3>1. SUFFICES ASSUME NEW i \in S PROVE l + 6 <= i
      OBVIOUS
    <3>2. i \in Int /\ i >= 5 /\ i \notin 5 .. l + 2 /\ i # l + 3 /\ i # l + 4 /\ i # l + 5
      BY <1>1, <2>4, <3>1
    <3> QED
      BY <3>2
  <2> HIDE DEF S
  <2>6. Min(S) = l + 6 /\ S # {}
    BY <1>1, <2>2, <2>5, MinIs
  <2> QED
    BY <2>6 DEF FirstLength, S
<1> QED
  BY <1>2, <1>3

\* The inductive invariant: the decoder stands at the start of a unit, and
\* has copied those in front of it.
Peeled ==
    /\ peeled \in Seq(Seq(Byte)) /\ Len(peeled) <= Len(units)
    /\ \A i \in DOMAIN peeled : peeled[i] = BytesOf(units[i])
    /\ head = frame.starts[Len(peeled) + 1]

AvcInv == frame \in Frames /\ (FourByteCodes => Peeled)

\* Which unit comes next, and what its bytes say.
LEMMA NextUnit ==
    ASSUME AvcInv, FourByteCodes, Size > 0
    PROVE  LET k == Len(peeled) + 1
           IN  /\ k \in 1 .. Len(units)
               /\ HeadIsExtra <=> Type(units[k].header) \in Extra
               /\ FirstLength = Len(BytesOf(units[k]))
               /\ frame.starts[k + 1] = head + FirstLength
               /\ head \in Nat /\ FirstLength \in Nat /\ BytesOf(units[k]) \in Seq(Byte)
               /\ \A j \in 1 .. FirstLength : frame.bytes[head + j] = BytesOf(units[k])[j]
<1>1. PICK k, n : k = Len(peeled) + 1 /\ n = Len(units)
  OBVIOUS
<1>2. frame \in Frames /\ Peeled
  BY DEF AvcInv
<1>3. n \in Nat /\ frame.starts[n + 1] = Len(frame.bytes) /\ Len(frame.bytes) \in Nat
  BY <1>1, <1>2, StartsFacts DEF units
<1>4. Len(peeled) \in Nat /\ Len(peeled) <= n /\ head = frame.starts[k]
  BY <1>1, <1>2 DEF Peeled
<1>5. k \in 1 .. n
  <2>1. k # n + 1
    BY <1>3, <1>4 DEF Size
  <2> QED
    BY <1>1, <1>3, <1>4, <2>1
<1>6. PICK l \in Nat :
            /\ head \in Nat /\ Size \in Nat /\ l + 5 <= Size
            /\ frame.starts[k + 1] = head + l + 5
            /\ Len(BytesOf(units[k])) = l + 5 /\ BytesOf(units[k]) \in Seq(Byte)
            /\ \A j \in 1 .. l + 5 : frame.bytes[head + j] = BytesOf(units[k])[j]
            /\ At(0) = 0 /\ At(1) = 0 /\ At(2) = 0 /\ At(3) = 1 /\ At(4) = units[k].header
            /\ \A i \in 5 .. l + 2 : ~(At(i) = 0 /\ At(i + 1) = 0 /\ At(i + 2) = 1)
            /\ k = Len(units) => Size = l + 5
            /\ k # Len(units) =>
                /\ l + 10 <= Size
                /\ At(l + 5) = 0 /\ At(l + 6) = 0 /\ At(l + 7) = 0 /\ At(l + 8) = 1
  BY <1>1, <1>2, <1>4, <1>5, AtUnit
<1>7. FirstCode = 1
  <2>1. Size >= 5
    BY <1>6
  <2> QED
    BY <1>6, <2>1, FirstCodeIs
<1>8. FirstLength = l + 5
  BY <1>6, <1>7, FirstLengthIs
<1>9. HeadIsExtra <=> Type(units[k].header) \in Extra
  BY <1>6, <1>7 DEF HeadIsExtra
<1>10. frame.starts[k + 1] = head + FirstLength /\ FirstLength \in Nat
  BY <1>6, <1>8
<1> QED
  BY <1>1, <1>5, <1>6, <1>8, <1>9, <1>10

LEMMA InitAvcInv == FrameInit(Frames) => AvcInv
<1> SUFFICES ASSUME FrameInit(Frames) PROVE AvcInv
  OBVIOUS
<1>1. frame \in Frames /\ head = 0 /\ peeled = << >>
  BY DEF FrameInit
<1>2. Len(units) \in Nat /\ frame.starts[1] = 0
  BY <1>1, StartsFacts DEF units
<1>3. peeled \in Seq(Seq(Byte)) /\ Len(peeled) = 0 /\ DOMAIN peeled = {}
  BY <1>1
<1> QED
  BY <1>1, <1>2, <1>3 DEF AvcInv, Peeled

LEMMA PeelAvcInv == AvcInv /\ [Peel]_avcVars => AvcInv'
<1> SUFFICES ASSUME AvcInv, [Peel]_avcVars PROVE AvcInv'
  OBVIOUS
<1>1. CASE UNCHANGED avcVars
  BY <1>1 DEF AvcInv, Peeled, FourByteCodes, avcVars, units
<1>2. CASE Peel
  <2>1. /\ Size > 0 /\ frame' = frame /\ head' = head + FirstLength
        /\ peeled' = Append(peeled, SubSeq(frame.bytes, head + 1, head + FirstLength))
    BY <1>2 DEF Peel
  <2>2. frame' \in Frames /\ units' = units /\ FourByteCodes' = FourByteCodes
    BY <2>1 DEF AvcInv, units, FourByteCodes
  <2>3. ASSUME FourByteCodes PROVE Peeled'
    <3>1. PICK p, b : p = Len(peeled) /\ b = BytesOf(units[p + 1])
      OBVIOUS
    <3>2. /\ p + 1 \in 1 .. Len(units) /\ FirstLength = Len(b) /\ FirstLength \in Nat
          /\ frame.starts[p + 1 + 1] = head + FirstLength
          /\ head \in Nat /\ b \in Seq(Byte)
          /\ \A j \in 1 .. FirstLength : frame.bytes[head + j] = b[j]
      BY <2>1, <2>3, <3>1, NextUnit
    <3>3. SubSeq(frame.bytes, head + 1, head + FirstLength) = b
      <4>1. PICK h, l \in Nat : h = head /\ l = FirstLength
        BY <3>2
      <4>2. PICK m, n \in Int : m = h + 1 /\ n = h + l
        BY <4>1
      <4>3. Len(b) = l /\ b \in Seq(Byte) /\ \A j \in 1 .. l : frame.bytes[h + j] = b[j] /\ b[j] \in Byte
        BY <3>2, <4>1
      <4>4. \A i \in m .. n : frame.bytes[i] \in Byte
        <5>1. SUFFICES ASSUME NEW i \in m .. n PROVE frame.bytes[i] \in Byte
          OBVIOUS
        <5>2. i - h \in 1 .. l /\ h + (i - h) = i
          BY <4>2
        <5> QED
          BY <4>3, <5>2
      <4>5. PICK s : s = SubSeq(frame.bytes, m, n)
        OBVIOUS
      <4>6. /\ s \in Seq(Byte)
            /\ Len(s) = IF m <= n THEN n - m + 1 ELSE 0
            /\ \A i \in 1 .. n - m + 1 : s[i] = frame.bytes[m + i - 1]
        BY <4>4, <4>5, SubSeqProperties
      <4>7. Len(s) = l /\ n - m + 1 = l
        BY <4>2, <4>6
      <4>8. \A i \in 1 .. l : s[i] = b[i]
        <5>1. SUFFICES ASSUME NEW i \in 1 .. l PROVE s[i] = b[i]
          OBVIOUS
        <5>2. m + i - 1 = h + i
          BY <4>2
        <5> QED
          BY <4>3, <4>6, <4>7, <5>2
      <4>9. s = b
        BY <4>3, <4>6, <4>7, <4>8, SeqEqual
      <4> QED
        BY <4>1, <4>2, <4>5, <4>9
    <3>4. PICK B : B = Seq(Byte)
      OBVIOUS
    <3>5. /\ peeled \in Seq(B) /\ b \in B /\ p \in Nat /\ Len(units) \in Nat
          /\ \A i \in 1 .. p : peeled[i] = BytesOf(units[i])
      <4>1. frame \in Frames /\ Peeled /\ p = Len(peeled)
        BY <2>3, <3>1 DEF AvcInv
      <4>2. peeled \in Seq(B) /\ b \in B
        BY <3>2, <3>4, <4>1 DEF Peeled
      <4>3. p \in Nat /\ DOMAIN peeled = 1 .. p
        BY <4>1, <4>2
      <4>4. Len(units) \in Nat
        BY <4>1, StartsFacts DEF units
      <4> QED
        BY <4>1, <4>2, <4>3, <4>4 DEF Peeled
    <3>6. peeled' = Append(peeled, b)
      BY <2>1, <3>3
    <3>7. /\ peeled' \in Seq(B) /\ Len(peeled') = p + 1
          /\ \A i \in 1 .. p : peeled'[i] = peeled[i]
          /\ peeled'[p + 1] = b
      BY <3>1, <3>5, <3>6, AppendProperties
    <3>8. DOMAIN peeled' = 1 .. p + 1
      BY <3>7
    <3>9. \A i \in 1 .. p + 1 : peeled'[i] = BytesOf(units[i])
      <4>1. \A i \in 1 .. p + 1 : i \in 1 .. p \/ i = p + 1
        BY <3>5
      <4> QED
        BY <3>1, <3>5, <3>7, <4>1
    <3>10. Len(peeled') <= Len(units') /\ head' = frame'.starts[Len(peeled') + 1]
      BY <2>1, <2>2, <3>2, <3>7
    <3> QED
      BY <2>2, <3>4, <3>7, <3>8, <3>9, <3>10 DEF Peeled
  <2> QED
    BY <2>2, <2>3 DEF AvcInv
<1> QED
  BY <1>1, <1>2

\* For every set of frames the assumption describes, the decoder copies whole
\* units and stands at the start of one.
THEOREM SpecPeelsWholeUnits == AvcSpec => []PeelsWholeUnits
<1>1. AvcInv => PeelsWholeUnits
  BY NextUnit DEF PeelsWholeUnits, AvcInv, Peeled
<1> QED
  BY <1>1, InitAvcInv, PeelAvcInv, PTL DEF AvcSpec

----------------------------------------------------------------------------
\* The bytes of a frame that follow a start code are the headers of its units.
LEMMA HeaderPlaces ==
    ASSUME frame \in Frames, FourByteCodes, head = 0
    PROVE  /\ \A i \in Headers(Size) :
                \E k \in 1 .. Len(units) : i = frame.starts[k] + 4
           /\ \A k \in 1 .. Len(units) :
                /\ frame.starts[k] + 4 \in Headers(Size)
                /\ At(frame.starts[k] + 4) = units[k].header
<1>1. PICK n, s, b, z : n = Len(units) /\ s = frame.starts /\ b = frame.bytes /\ z = Len(b)
  OBVIOUS
<1>2. n \in Nat /\ z \in Nat /\ Size = z /\ s \in [1 .. n + 1 -> Nat]
  BY <1>1, StartsFacts DEF units, Size
<1>3. \A i \in 1 .. n : units[i].zeros = 3
  BY <1>1, StartsFacts DEF FourByteCodes, units
<1>4. \A i \in Int : At(i) = b[i + 1]
  BY <1>1 DEF At
<1>5. ASSUME NEW k \in 1 .. n
      PROVE  \E h, l \in Nat :
                /\ h = s[k] /\ s[k + 1] = h + l + 5 /\ h + l + 5 <= z
                /\ b[h + 1] = 0 /\ b[h + 2] = 0 /\ b[h + 3] = 0
                /\ b[h + 4] = 1 /\ b[h + 5] = units[k].header
                /\ \A j \in 6 .. l + 3 :
                    ~(b[h + j] = 0 /\ b[h + j + 1] = 0 /\ b[h + j + 2] = 1)
  <2>1. k \in 1 .. Len(frame.units) /\ \A i \in 1 .. Len(frame.units) : frame.units[i].zeros = 3
    BY <1>1, <1>3, <1>5 DEF units
  <2>2. s[k + 1] <= z
    BY <1>1, <2>1, UnitEnds
  <2>3. PICK h, l \in Nat :
                /\ h = s[k] /\ s[k + 1] = h + l + 5
                /\ b[h + 1] = 0 /\ b[h + 2] = 0 /\ b[h + 3] = 0
                /\ b[h + 4] = 1 /\ b[h + 5] = units[k].header
                /\ \A j \in 6 .. l + 3 :
                    ~(b[h + j] = 0 /\ b[h + j + 1] = 0 /\ b[h + j + 2] = 1)
    BY <1>1, <2>1, UnitPlace DEF units
  <2>4. h + l + 5 <= z
    BY <2>2, <2>3
  <2> QED
    BY <2>3, <2>4
<1>6. ASSUME NEW k \in 1 .. n
      PROVE  s[k] + 4 \in Headers(Size) /\ At(s[k] + 4) = units[k].header
  <2>1. PICK h, l \in Nat :
                /\ h = s[k] /\ h + l + 5 <= z
                /\ b[h + 1] = 0 /\ b[h + 2] = 0 /\ b[h + 3] = 0
                /\ b[h + 4] = 1 /\ b[h + 5] = units[k].header
    BY <1>5, <1>6
  <2>2. /\ h + 4 - 4 + 1 = h + 1 /\ h + 4 - 3 + 1 = h + 2
        /\ h + 4 - 2 + 1 = h + 3 /\ h + 4 - 1 + 1 = h + 4 /\ h + 4 + 1 = h + 5
        /\ h + 4 - 4 \in Int /\ h + 4 - 3 \in Int /\ h + 4 - 2 \in Int
        /\ h + 4 - 1 \in Int /\ h + 4 \in Int
    OBVIOUS
  <2>3. AfterCode(h + 4) /\ At(h + 4) = units[k].header
    BY <1>4, <2>1, <2>2 DEF AfterCode
  <2>4. h + 4 \in 4 .. Size - 1
    <3>1. z \in Nat /\ Size = z
      BY <1>2
    <3>2. h + l + 5 <= z
      BY <2>1
    <3>3. h + 4 <= z - 1 /\ h + 4 >= 4
      BY <3>1, <3>2
    <3> QED
      BY <3>1, <3>3
  <2> QED
    BY <2>1, <2>3, <2>4 DEF Headers
<1>7. ASSUME NEW i \in Headers(Size)
      PROVE  \E k \in 1 .. n : i = s[k] + 4
  <2>1. i \in 4 .. z - 1 /\ AfterCode(i)
    BY <1>2, <1>7 DEF Headers
  <2>2. /\ i \in Int /\ i >= 4 /\ i < z /\ i - 1 \in Nat /\ i - 1 < z
        /\ i - 4 + 1 = i - 3 /\ i - 3 + 1 = i - 2 /\ i - 2 + 1 = i - 1 /\ i - 1 + 1 = i
    BY <1>2, <2>1
  <2>3. b[i - 3] = 0 /\ b[i - 2] = 0 /\ b[i - 1] = 0 /\ b[i] = 1
    BY <1>4, <2>1, <2>2 DEF AfterCode
  <2>4. PICK k \in 1 .. n : s[k] <= i - 1 /\ i - 1 < s[k + 1]
    BY <1>1, <2>2, WhichUnit DEF units
  <2>5. PICK h, l \in Nat :
                /\ h = s[k] /\ s[k + 1] = h + l + 5
                /\ b[h + 1] = 0 /\ b[h + 2] = 0 /\ b[h + 3] = 0 /\ b[h + 4] = 1
                /\ \A j \in 6 .. l + 3 :
                    ~(b[h + j] = 0 /\ b[h + j + 1] = 0 /\ b[h + j + 2] = 1)
    BY <1>5
  <2>6. h <= i - 1 /\ i - 1 < h + l + 5
    BY <2>4, <2>5
  <2>7. i # h + 1 /\ i # h + 2 /\ i # h + 3
    BY <2>3, <2>5
  <2>8. i - 1 # h + 4 /\ i - 2 # h + 4 /\ i - 3 # h + 4
    BY <2>3, <2>5
  <2>9. ~(i >= h + 8)
    <3>1. SUFFICES ASSUME i >= h + 8 PROVE FALSE
      OBVIOUS
    <3>2. PICK j : j = i - 2 - h
      OBVIOUS
    <3>3. j \in 6 .. l + 3 /\ h + j = i - 2 /\ h + j + 1 = i - 1 /\ h + j + 2 = i
      BY <2>2, <2>6, <3>1, <3>2
    <3> QED
      BY <2>3, <2>5, <3>3
  <2>10. i = h + 4
    BY <2>2, <2>6, <2>7, <2>8, <2>9
  <2> QED
    BY <2>5, <2>10
<1> QED
  BY <1>1, <1>6, <1>7

\* For every set of frames the assumption describes, a frame is a key frame
\* exactly when its first slice is an IDR slice.
THEOREM SpecKeyFrameStartsWithIDR == AvcSpec => []KeyFrameStartsWithIDR
<1>1. AvcInv => KeyFrameStartsWithIDR
  <2> DEFINE slices == {i \in DOMAIN units : Type(units[i].header) \in Slices}
             deciding == {i \in Headers(Size) :
                \/ Type(At(i)) \in Slices \ {IDR}
                \/ Type(At(i)) = IDR /\ RefIdc(At(i)) # 0}
  <2>1. SUFFICES ASSUME AvcInv, FourByteCodes, peeled = << >>,
                 \A i \in slices : Type(units[i].header) = IDR => RefIdc(units[i].header) # 0
        PROVE  KeyFrame(Size) <=> slices # {} /\ Type(units[Min(slices)].header) = IDR
    BY DEF KeyFrameStartsWithIDR
  <2>2. frame \in Frames /\ Peeled /\ Len(peeled) + 1 = 1
    BY <2>1 DEF AvcInv
  <2>3. PICK n, s : n = Len(units) /\ s = frame.starts
    OBVIOUS
  <2>4. /\ n \in Nat /\ DOMAIN units = 1 .. n /\ s \in [1 .. n + 1 -> Nat] /\ head = 0
        /\ \A i, j \in 1 .. n : i < j => s[i] < s[j]
    BY <2>2, <2>3, StartsFacts DEF Peeled, units
  <2>5. /\ \A i \in Headers(Size) : \E k \in 1 .. n : i = s[k] + 4
        /\ \A k \in 1 .. n : s[k] + 4 \in Headers(Size) /\ At(s[k] + 4) = units[k].header
    BY <2>1, <2>2, <2>3, <2>4, HeaderPlaces
  <2>6. \A k \in slices : k \in 1 .. n /\ s[k] + 4 \in deciding
    BY <2>1, <2>4, <2>5
  <2>7. \A i \in deciding : \E k \in slices : i = s[k] + 4
    <3>1. IDR \in Slices
      BY DEF IDR, Slices
    <3> QED
      BY <2>4, <2>5, <3>1
  <2>8. KeyFrame(Size) <=> deciding # {} /\ Type(At(Min(deciding))) = IDR
    BY DEF KeyFrame
  <2> HIDE DEF deciding
  <2>9. CASE slices = {}
    <3>1. deciding = {}
      BY <2>7, <2>9
    <3> QED
      BY <2>8, <2>9, <3>1
  <2>10. CASE slices # {}
    <3>1. slices \in SUBSET Nat
      BY <2>4
    <3> HIDE DEF slices
    <3>2. PICK m \in slices : \A k \in slices : m <= k
      BY <2>10, <3>1, LeastNat
    <3>3. slices \in SUBSET Int
      BY <3>1
    <3>4. Min(slices) = m
      BY <3>2, <3>3, MinIs
    <3>5. \A k \in slices : s[m] + 4 <= s[k] + 4 /\ s[k] + 4 \in Int
      <4>1. SUFFICES ASSUME NEW k \in slices PROVE s[m] + 4 <= s[k] + 4 /\ s[k] + 4 \in Int
        OBVIOUS
      <4>2. m \in 1 .. n /\ k \in 1 .. n /\ m <= k
        BY <2>6, <3>2, <4>1
      <4>3. s[m] \in Nat /\ s[k] \in Nat
        BY <2>4, <4>2
      <4>4. s[m] <= s[k]
        BY <2>4, <4>2, <4>3
      <4> QED
        BY <4>3, <4>4
    <3>6. deciding \in SUBSET Int /\ s[m] + 4 \in deciding /\ \A i \in deciding : s[m] + 4 <= i
      BY <2>6, <2>7, <3>2, <3>5
    <3>7. Min(deciding) = s[m] + 4
      BY <3>6, MinIs
    <3>8. At(s[m] + 4) = units[m].header
      BY <2>5, <2>6, <3>2
    <3> QED
      BY <2>8, <2>10, <3>4, <3>6, <3>7, <3>8
  <2> QED
    BY <2>9, <2>10
<1> QED
  BY <1>1, InitAvcInv, PeelAvcInv, PTL DEF AvcSpec
=============================================================================
