--------------------------- MODULE EsBufferProofs ---------------------------
(* Proofs about EsBuffer for every size of the area, every number of       *)
(* descriptors and every length of the calls.                              *)
(*                                                                         *)
(* The frames in use lie in the area in their order, or those of the front *)
(* of the queue lie behind the others: the invariant says so frame by      *)
(* frame, with the distance of a descriptor from the first one, so that    *)
(* only the lemmas about the ring of descriptors speak of %.               *)
EXTENDS EsBuffer, TLAPS

\* How far descriptor f comes after the first one, and whether it is in use.
Pos(f) == IF f >= iIndexHead THEN f - iIndexHead ELSE f - iIndexHead + MaxFrames
Used(f) == Pos(f) < NumFrames

\* The range of f ends before the first frame begins: it has wrapped around.
Low(f) == piTail[f] < piHead[iIndexHead]

\* No range is turned round; those that have not wrapped lie behind the start
\* of the first frame.
RangesOK == \A f \in Frames : Used(f) =>
    /\ piHead[f] <= piTail[f]
    /\ ~Low(f) => piHead[iIndexHead] <= piHead[f]

\* A later frame lies behind an earlier one, unless it alone has wrapped; and
\* what comes after a frame that has wrapped, has.
OrderOK == \A f, g \in Frames : Pos(f) < Pos(g) /\ Used(g) =>
    /\ Low(f) => Low(g)
    /\ piTail[f] <= piHead[g] \/ (~Low(f) /\ Low(g))

\* What the decoder holds is no longer than the first frame.
HeldFits == held # Nothing =>
    /\ ~IsEmpty
    /\ Len(held.data) <= piTail[iIndexHead] - piHead[iIndexHead]

IInv == TypeOK /\ RangesOK /\ OrderOK /\ HeldFits

----------------------------------------------------------------------------
\* What is less than twice the divisor wraps at most once.
LEMMA WrapFrame ==
    ASSUME NEW x \in Nat, x < 2 * MaxFrames
    PROVE  x % MaxFrames = IF x < MaxFrames THEN x ELSE x - MaxFrames
  BY EsAssumption

LEMMA WrapByte ==
    ASSUME NEW x \in Nat, x < 2 * Size
    PROVE  x % Size = IF x < Size THEN x ELSE x - Size
  BY EsAssumption

\* The ring of descriptors, without %.
LEMMA Ring ==
    ASSUME TypeOK
    PROVE  /\ \A f \in Frames : NextFrame(f) = IF f + 1 = MaxFrames THEN 0 ELSE f + 1
           /\ LastFrameNo = IF iIndexTail = 0 THEN MaxFrames - 1 ELSE iIndexTail - 1
           /\ NumFrames \in 0 .. MaxFrames - 1
           /\ IsEmpty <=> NumFrames = 0
           /\ IsIndexFull <=> NumFrames = MaxFrames - 1
<1> USE EsAssumption DEF Frames
<1>1. ASSUME NEW f \in Frames
      PROVE  NextFrame(f) = IF f + 1 = MaxFrames THEN 0 ELSE f + 1
  <2>1. f + 1 \in Nat /\ f + 1 < 2 * MaxFrames
    OBVIOUS
  <2> QED
    BY <2>1, WrapFrame DEF NextFrame
<1>t. iIndexTail \in Frames /\ iIndexHead \in Frames
  BY DEF TypeOK
<1>2. LastFrameNo = IF iIndexTail = 0 THEN MaxFrames - 1 ELSE iIndexTail - 1
  <2>1. iIndexTail - 1 + MaxFrames \in Nat /\ iIndexTail - 1 + MaxFrames < 2 * MaxFrames
    BY <1>t
  <2> QED
    BY <1>t, <2>1, WrapFrame DEF LastFrameNo
<1>3. NumFrames \in 0 .. MaxFrames - 1
  BY <1>t DEF NumFrames
<1>4. IsEmpty <=> NumFrames = 0
  BY <1>t DEF NumFrames, IsEmpty
<1>5. IsIndexFull <=> NumFrames = MaxFrames - 1
  BY <1>1, <1>t DEF NumFrames, IsIndexFull
<1> QED
  BY <1>1, <1>2, <1>3, <1>4, <1>5

\* Where descriptors are in it.
LEMMA Places ==
    ASSUME TypeOK
    PROVE  /\ \A f \in Frames : Pos(f) \in 0 .. MaxFrames - 1
           /\ \A f, g \in Frames : Pos(f) = Pos(g) => f = g
           /\ Pos(iIndexHead) = 0
           /\ LastFrameNo \in Frames
           /\ ~IsEmpty => Pos(LastFrameNo) = NumFrames - 1
           /\ Pos(iIndexTail) = NumFrames
<1> USE EsAssumption DEF Frames, Pos
<1>t. iIndexTail \in Frames /\ iIndexHead \in Frames
  BY DEF TypeOK
<1>1. LastFrameNo = IF iIndexTail = 0 THEN MaxFrames - 1 ELSE iIndexTail - 1
  BY Ring
<1>2. LastFrameNo \in Frames
  BY <1>t, <1>1
<1>3. ~IsEmpty => Pos(LastFrameNo) = NumFrames - 1
  BY <1>t, <1>1 DEF IsEmpty, NumFrames
<1>4. Pos(iIndexTail) = NumFrames
  BY <1>t DEF NumFrames
<1> QED
  BY <1>t, <1>2, <1>3, <1>4

\* The remainder a length is reported with.
LEMMA FirstLength ==
    ASSUME IInv
    PROVE  /\ FirstFrameLength \in Nat
           /\ ~IsEmpty => FirstFrameLength <= piTail[iIndexHead] - piHead[iIndexHead]
<1> DEFINE n == piTail[iIndexHead] - piHead[iIndexHead]
<1>1. CASE IsEmpty
  BY <1>1 DEF FirstFrameLength
<1>2. CASE ~IsEmpty
  <2>1. Used(iIndexHead)
    BY <1>2, Ring, Places DEF IInv, Used
  <2>2. n \in 0 .. Size
    BY <2>1, EsAssumption DEF IInv, TypeOK, RangesOK
  <2>3. n % Size = IF n = Size THEN 0 ELSE n
    <3> HIDE DEF n
    <3> QED
      BY <2>2, WrapByte, EsAssumption
  <2>4. FirstFrameLength = n % Size
    BY <1>2 DEF FirstFrameLength
  <2> HIDE DEF n
  <2>5. FirstFrameLength \in Nat /\ FirstFrameLength <= n
    BY <2>2, <2>3, <2>4, EsAssumption
  <2> QED
    BY <2>5 DEF n
<1> QED
  BY <1>1, <1>2

\* What the room found is worth: the byte kept free is counted in.
LEMMA Room ==
    ASSUME TypeOK, NEW n \in Lengths, NEW start \in BOOLEAN,
           SpaceAvailable(start) >= n
    PROVE  LET h == piHead[iIndexHead]
               t == piTail[LastFrameNo]
           IN  /\ n \in Nat /\ n >= 1 /\ (n < Size \/ ~IsEmpty)
               /\ ~IsEmpty /\ t < h => t + n < h
               /\ ~IsEmpty /\ t >= h /\ Size - t < n =>
                    IF start THEN n < h ELSE LastFrameLength + n < h
<1> DEFINE h == piHead[iIndexHead]
           t == piTail[LastFrameNo]
           k == LastFrameLength
<1>1. h \in Nat /\ t \in Nat /\ k \in Int /\ n \in Nat /\ n >= 1 /\ Size \in Nat
  BY Places, EsAssumption DEF TypeOK, LastFrameLength, Lengths
<1>2. SpaceAvailable(start) =
        (IF IsEmpty THEN Size
         ELSE IF t >= h THEN IF Size - t >= (IF start THEN h ELSE h - k) THEN Size - t
                             ELSE IF start THEN h ELSE h - k
              ELSE h - t) - 1
  BY DEF SpaceAvailable, MaxOf
<1> HIDE DEF h, t, k
<1>3. /\ IsEmpty => n < Size
      /\ ~IsEmpty /\ t < h => t + n < h
      /\ ~IsEmpty /\ t >= h /\ Size - t < n => IF start THEN n < h ELSE k + n < h
  BY <1>1, <1>2
<1> QED
  BY <1>1, <1>3 DEF h, t, k

\* The frames in use and the last of them.
LEMMA Last ==
    ASSUME IInv, ~IsEmpty
    PROVE  /\ LastFrameNo \in Frames /\ Used(LastFrameNo)
           /\ iIndexHead \in Frames /\ Used(iIndexHead)
           /\ piHead[LastFrameNo] <= piTail[LastFrameNo]
           /\ LastFrameNo = iIndexHead <=> NumFrames = 1
           /\ \A f \in Frames : Used(f) /\ f # LastFrameNo =>
                /\ Pos(f) < Pos(LastFrameNo)
                /\ Low(f) => Low(LastFrameNo)
                /\ piTail[f] <= piHead[LastFrameNo] \/ (~Low(f) /\ Low(LastFrameNo))
<1>1. /\ LastFrameNo \in Frames /\ iIndexHead \in Frames
      /\ NumFrames \in Nat /\ NumFrames >= 1
      /\ Pos(LastFrameNo) = NumFrames - 1 /\ Pos(iIndexHead) = 0
      /\ \A f \in Frames : Pos(f) \in Nat
      /\ \A f, g \in Frames : Pos(f) = Pos(g) => f = g
  <2>1. NumFrames \in Nat /\ NumFrames >= 1
    BY Ring, EsAssumption DEF IInv
  <2> QED
    BY <2>1, Places, EsAssumption DEF IInv, TypeOK
<1>2. Used(LastFrameNo) /\ Used(iIndexHead)
  BY <1>1 DEF Used
<1>3. LastFrameNo = iIndexHead <=> NumFrames = 1
  BY <1>1
<1>4. ASSUME NEW f \in Frames, Used(f), f # LastFrameNo
      PROVE  Pos(f) < Pos(LastFrameNo)
  <2> Pos(f) # Pos(LastFrameNo)
    BY <1>1, <1>4
  <2> QED
    BY <1>1, <1>4 DEF Used
<1> QED
  BY <1>1, <1>2, <1>3, <1>4 DEF IInv, RangesOK, OrderOK

\* How the ring of descriptors grows at its end, and shrinks at either.
LEMMA Grow ==
    ASSUME TypeOK, ~IsIndexFull, iIndexTail' = NextFrame(iIndexTail),
           iIndexHead' = iIndexHead
    PROVE  /\ iIndexTail' \in Frames /\ iIndexTail \in Frames
           /\ Pos(iIndexTail) = NumFrames
           /\ NumFrames' = NumFrames + 1
           /\ ~IsEmpty' /\ LastFrameNo' = iIndexTail
           /\ \A f : Pos(f)' = Pos(f)
           /\ \A f \in Frames : Used(f)' <=> Used(f) \/ f = iIndexTail
<1> USE EsAssumption DEF Frames
<1>1. iIndexTail \in Frames /\ iIndexHead \in Frames
  BY DEF TypeOK
<1>2. iIndexTail' = (IF iIndexTail + 1 = MaxFrames THEN 0 ELSE iIndexTail + 1)
  BY <1>1, Ring
<1>3. iIndexTail' \in Frames
  BY <1>1, <1>2
<1>4. NumFrames' = NumFrames + 1 /\ ~IsEmpty'
  BY <1>1, <1>2 DEF NumFrames, IsEmpty, IsIndexFull
<1>5. \A f : Pos(f)' = Pos(f)
  BY DEF Pos
<1>6. /\ Pos(iIndexTail) = NumFrames /\ NumFrames \in Nat
      /\ \A f \in Frames : Pos(f) \in Nat
      /\ \A f \in Frames : Pos(f) = Pos(iIndexTail) => f = iIndexTail
  BY <1>1, Ring, Places
<1>7. \A f \in Frames : Used(f)' <=> Used(f) \/ f = iIndexTail
  BY <1>4, <1>5, <1>6 DEF Used
<1>8. LastFrameNo' = iIndexTail
  <2>1. iIndexTail' - 1 + MaxFrames \in Nat /\ iIndexTail' - 1 + MaxFrames < 2 * MaxFrames
    BY <1>3
  <2>2. (iIndexTail' - 1 + MaxFrames) % MaxFrames
          = IF iIndexTail' - 1 + MaxFrames < MaxFrames
            THEN iIndexTail' - 1 + MaxFrames ELSE iIndexTail' - 1
    BY <1>3, <2>1, WrapFrame
  <2> QED
    BY <1>1, <1>2, <2>2 DEF LastFrameNo
<1> QED
  BY <1>1, <1>3, <1>4, <1>5, <1>6, <1>7, <1>8

LEMMA Recede ==
    ASSUME TypeOK, ~IsEmpty, iIndexTail' = LastFrameNo, iIndexHead' = iIndexHead
    PROVE  /\ iIndexTail' \in Frames
           /\ NumFrames' = NumFrames - 1
           /\ IsEmpty' <=> NumFrames = 1
           /\ \A f : Pos(f)' = Pos(f)
           /\ \A f \in Frames : Used(f)' <=> Used(f) /\ f # LastFrameNo
<1> USE EsAssumption DEF Frames
<1>1. iIndexTail \in Frames /\ iIndexHead \in Frames
  BY DEF TypeOK
<1>2. iIndexTail' = (IF iIndexTail = 0 THEN MaxFrames - 1 ELSE iIndexTail - 1)
  BY Ring
<1>3. NumFrames' = NumFrames - 1 /\ (IsEmpty' <=> NumFrames = 1)
  BY <1>1, <1>2 DEF NumFrames, IsEmpty
<1>4. \A f : Pos(f)' = Pos(f)
  BY DEF Pos
<1>5. /\ LastFrameNo \in Frames /\ Pos(LastFrameNo) = NumFrames - 1
      /\ \A f \in Frames : Pos(f) \in Nat
      /\ \A f, g \in Frames : Pos(f) = Pos(g) => f = g
      /\ NumFrames \in Nat
  BY Ring, Places
<1>6. \A f \in Frames : Used(f)' <=> Used(f) /\ f # LastFrameNo
  BY <1>3, <1>4, <1>5 DEF Used
<1> QED
  BY <1>3, <1>4, <1>5, <1>6

LEMMA Advance ==
    ASSUME TypeOK, ~IsEmpty, iIndexHead' = NextFrame(iIndexHead), iIndexTail' = iIndexTail
    PROVE  /\ iIndexHead' \in Frames
           /\ NumFrames' = NumFrames - 1
           /\ Pos(iIndexHead') = 1
           /\ \A f \in Frames : Used(f)' => /\ Used(f) /\ f # iIndexHead
                                            /\ Pos(f)' = Pos(f) - 1
           /\ NumFrames >= 2 => Used(iIndexHead') /\ iIndexHead' # iIndexHead
           /\ LastFrameNo' = LastFrameNo
<1> USE EsAssumption DEF Frames
<1>1. iIndexTail \in Frames /\ iIndexHead \in Frames
  BY DEF TypeOK
<1>2. iIndexHead' = (IF iIndexHead + 1 = MaxFrames THEN 0 ELSE iIndexHead + 1)
  BY <1>1, Ring
<1>3. NumFrames' = NumFrames - 1
  BY <1>1, <1>2 DEF NumFrames, IsEmpty
<1>4. Pos(iIndexHead') = 1
  BY <1>1, <1>2 DEF Pos
<1>5. \A f \in Frames : f # iIndexHead => Pos(f)' = Pos(f) - 1
  BY <1>1, <1>2 DEF Pos
<1>6. \A f \in Frames : f = iIndexHead => Pos(f)' = MaxFrames - 1
  BY <1>1, <1>2 DEF Pos
<1>7. NumFrames \in 0 .. MaxFrames - 1
  BY Ring
<1>8. \A f \in Frames : Pos(f) \in Nat
  BY Places
<1>9. ASSUME NEW f \in Frames, Used(f)'
      PROVE  Used(f) /\ f # iIndexHead /\ Pos(f)' = Pos(f) - 1
  BY <1>3, <1>5, <1>6, <1>7, <1>8, <1>9 DEF Used
<1>10. NumFrames >= 2 => Used(iIndexHead') /\ iIndexHead' # iIndexHead
  BY <1>1, <1>2, <1>4, <1>7 DEF Used
<1>11. LastFrameNo' = LastFrameNo
  BY DEF LastFrameNo
<1> QED
  BY <1>1, <1>2, <1>3, <1>4, <1>9, <1>10, <1>11


\* The last frame may be given another range where nothing else lies.
LEMMA LastChanged ==
    ASSUME IInv, ~IsEmpty, UNCHANGED index, UNCHANGED held,
           NEW a \in 0 .. Size, NEW b \in 0 .. Size, a <= b,
           piHead' = [piHead EXCEPT ![LastFrameNo] = a],
           piTail' = [piTail EXCEPT ![LastFrameNo] = b],
           \/ NumFrames = 1
           \/ /\ piHead[iIndexHead] <= b => piHead[iIndexHead] <= a
              /\ piTail[LastFrameNo] < piHead[iIndexHead] => b < piHead[iIndexHead]
              /\ \/ piHead[LastFrameNo] <= a
                 \/ b < piHead[iIndexHead] /\ piHead[iIndexHead] <= piTail[LastFrameNo],
           NumFrames = 1 /\ held # Nothing =>
              piTail[LastFrameNo] - piHead[LastFrameNo] <= b - a
    PROVE  RangesOK' /\ OrderOK' /\ HeldFits'
<1> DEFINE h == piHead[iIndexHead]
           last == LastFrameNo
<1>1. /\ iIndexHead' = iIndexHead /\ iIndexTail' = iIndexTail /\ held' = held
      /\ IsEmpty' <=> IsEmpty
      /\ \A f : Pos(f)' = Pos(f)
      /\ \A f \in Frames : Used(f)' <=> Used(f)
  BY DEF index, Pos, Used, NumFrames, IsEmpty
<1>2. /\ last \in Frames /\ Used(last)
      /\ iIndexHead \in Frames /\ Used(iIndexHead)
      /\ last = iIndexHead <=> NumFrames = 1
      /\ \A f \in Frames : Used(f) /\ f # last =>
           /\ Pos(f) < Pos(last)
           /\ piTail[f] < h => piTail[last] < h
           /\ piTail[f] <= piHead[last] \/ (~(piTail[f] < h) /\ piTail[last] < h)
  BY Last DEF Low
<1>3. \A f \in Frames : /\ piHead[f] \in Nat /\ piHead[f] <= Size
                        /\ piTail[f] \in Nat /\ piTail[f] <= Size
  BY EsAssumption DEF IInv, TypeOK
<1>4. /\ \A f \in Frames : f # last => piHead'[f] = piHead[f] /\ piTail'[f] = piTail[f]
      /\ piHead'[last] = a /\ piTail'[last] = b
  BY <1>2 DEF IInv, TypeOK
<1>5. a \in Nat /\ b \in Nat
  BY EsAssumption
<1>6. CASE NumFrames = 1
  <2>1. last = iIndexHead
    BY <1>2, <1>6
  <2>2. Pos(last) = 0 /\ \A f \in Frames : Pos(f) \in Nat
    BY <2>1, Places DEF IInv
  <2>3. \A f \in Frames : Pos(f) = Pos(last) => f = last
    BY <1>2, Places DEF IInv
  <2>4. \A f \in Frames : Used(f) => f = last
    BY <1>6, <2>2, <2>3 DEF Used
  <2>5. RangesOK'
    BY <1>1, <1>4, <2>1, <2>4 DEF RangesOK
  <2>6. OrderOK'
    BY <1>1, <2>2, <2>4 DEF OrderOK
  <2>7. HeldFits'
    <3> SUFFICES ASSUME held # Nothing PROVE Len(held.data) <= b - a
      BY <1>1, <1>4, <2>1 DEF HeldFits
    <3>1. Len(held.data) <= piTail[last] - piHead[last]
      BY <2>1 DEF IInv, HeldFits
    <3>2. piTail[last] - piHead[last] <= b - a
      BY <1>6
    <3>3. Len(held.data) \in Nat
      BY DEF IInv, TypeOK
    <3> QED
      BY <1>2, <1>3, <1>5, <3>1, <3>2, <3>3
  <2> QED
    BY <2>5, <2>6, <2>7
<1>7. CASE NumFrames # 1
  <2>1. /\ h <= b => h <= a
        /\ piTail[last] < h => b < h
        /\ piHead[last] <= a \/ (b < h /\ h <= piTail[last])
    BY <1>7
  <2>2. h \in Nat /\ piHead'[iIndexHead'] = h
    BY <1>1, <1>2, <1>3, <1>4, <1>7
  <2>3. \A f \in Frames : Low(f)' <=> piTail'[f] < h
    BY <2>2 DEF Low
  <2> HIDE DEF h, last
  <2>4. RangesOK'
    <3>1. ASSUME NEW f \in Frames, Used(f)'
          PROVE  piHead'[f] <= piTail'[f] /\ (~(piTail'[f] < h) => h <= piHead'[f])
      <4>1. CASE f = last
        BY <1>4, <1>5, <2>1, <2>2, <4>1
      <4>2. CASE f # last
        BY <1>1, <1>4, <3>1, <4>2 DEF IInv, RangesOK, Low, h
      <4> QED
        BY <4>1, <4>2
    <3> QED
      BY <2>2, <2>3, <3>1 DEF RangesOK
  <2>5. OrderOK'
    <3>1. ASSUME NEW f \in Frames, NEW g \in Frames, Pos(f) < Pos(g), Used(g)
          PROVE  /\ piTail'[f] < h => piTail'[g] < h
                 /\ piTail'[f] <= piHead'[g] \/ (~(piTail'[f] < h) /\ piTail'[g] < h)
      <4>1. Used(f) /\ f # last
        <5>1. Pos(f) \in Nat /\ Pos(g) \in Nat /\ Pos(last) \in Nat /\ NumFrames \in Nat
          BY <1>2, Ring, Places DEF IInv
        <5>2. g = last \/ Pos(g) < Pos(last)
          BY <1>2, <3>1
        <5> QED
          BY <3>1, <5>1, <5>2 DEF Used
      <4>2. CASE g = last
        <5>1. /\ piTail[f] < h => piTail[last] < h
              /\ piTail[f] <= piHead[last] \/ (~(piTail[f] < h) /\ piTail[last] < h)
          BY <1>2, <4>1
        <5>2. piTail'[f] = piTail[f] /\ piTail[f] \in Nat
          BY <1>3, <1>4, <4>1
        <5>3. piHead[last] \in Nat /\ piTail[last] \in Nat
          BY <1>2, <1>3
        <5>4. piHead'[g] = a /\ piTail'[g] = b
          BY <1>4, <4>2
        <5> QED
          BY <1>5, <2>1, <2>2, <5>1, <5>2, <5>3, <5>4
      <4>3. CASE g # last
        BY <1>4, <3>1, <4>1, <4>3 DEF IInv, OrderOK, Low, h
      <4> QED
        BY <4>2, <4>3
    <3> QED
      BY <1>1, <2>3, <3>1 DEF OrderOK
  <2>6. HeldFits'
    BY <1>1, <1>2, <1>4, <1>7 DEF IInv, HeldFits, last
  <2> QED
    BY <2>4, <2>5, <2>6
<1> QED
  BY <1>6, <1>7

----------------------------------------------------------------------------
\* The parser's steps keep the invariant: a new frame,
LEMMA StartFrameKeeps ==
    ASSUME IInv, NEW n \in Lengths, StartFrame(n)
    PROVE  IInv'
<1> DEFINE h == piHead[iIndexHead]
           t == piTail[LastFrameNo]
           g == iIndexTail
           pos == IF ~IsEmpty /\ FitsBehind(n) THEN t ELSE 0
<1>1. /\ piTail' = [piTail EXCEPT ![g] = pos + n]
      /\ piHead' = [piHead EXCEPT ![g] = pos]
      /\ bytes' = Store(bytes, pos, n)
      /\ iIndexTail' = NextFrame(g) /\ iIndexHead' = iIndexHead
      /\ ~IsIndexFull
      /\ nIn + n <= MaxBytes /\ nIn' = nIn + n /\ open' = TRUE /\ held' = held
  BY DEF StartFrame, Appended
<1>2. /\ g \in Frames /\ iIndexHead \in Frames /\ iIndexTail' \in Frames
      /\ Pos(g) = NumFrames /\ NumFrames \in Nat
      /\ \A f : Pos(f)' = Pos(f)
      /\ \A f \in Frames : Pos(f) \in Nat
      /\ \A f \in Frames : Used(f)' <=> Used(f) \/ f = g
      /\ ~IsEmpty'
  BY <1>1, Grow, Ring, Places DEF IInv, TypeOK
<1>3. ~Used(g)
  BY <1>2 DEF Used
<1>4. \A f \in Frames : /\ piHead[f] \in Nat /\ piHead[f] <= Size
                        /\ piTail[f] \in Nat /\ piTail[f] <= Size
  BY EsAssumption DEF IInv, TypeOK
<1>5. LastFrameNo \in Frames
  BY Places DEF IInv
<1>6. SpaceAvailable(TRUE) >= n
  BY DEF StartFrame
<1>7. /\ n \in Nat /\ n >= 1 /\ (n < Size \/ ~IsEmpty)
      /\ ~IsEmpty /\ t < h => t + n < h
      /\ ~IsEmpty /\ t >= h /\ Size - t < n => n < h
  BY <1>6, Room DEF IInv
<1>8. /\ pos \in Nat /\ pos + n <= Size
      /\ IsEmpty => pos = 0
      /\ ~IsEmpty => \/ pos = t /\ t < h /\ t + n < h
                     \/ pos = t /\ t >= h
                     \/ pos = 0 /\ t >= h /\ n < h
  BY <1>2, <1>4, <1>5, <1>7, EsAssumption DEF FitsBehind
<1> HIDE DEF pos
<1>9. \A f \in Frames : f # g => /\ piHead'[f] = piHead[f]
                                /\ piTail'[f] = piTail[f]
  BY <1>1, <1>2 DEF IInv, TypeOK
<1>10. piHead'[g] = pos /\ piTail'[g] = pos + n
  BY <1>1, <1>2 DEF IInv, TypeOK
<1>11. TypeOK'
  <2>1. piHead' \in [Frames -> 0 .. Size] /\ piTail' \in [Frames -> 0 .. Size]
    BY <1>1, <1>2, <1>7, <1>8, EsAssumption DEF IInv, TypeOK
  <2>2. bytes' \in [Slots -> Int] /\ nIn' \in 0 .. MaxBytes
    BY <1>1, <1>7, <1>8, EsAssumption DEF IInv, TypeOK, Store, Slots
  <2> QED
    BY <1>1, <1>2, <2>1, <2>2 DEF IInv, TypeOK
<1>12. CASE IsEmpty
  <2>1. NumFrames = 0 /\ iIndexHead = g
    BY <1>12, Ring DEF IInv, IsEmpty
  <2>2. \A f \in Frames : Used(f)' => f = g
    BY <1>2, <2>1 DEF Used
  <2>3. RangesOK'
    BY <1>1, <1>7, <1>8, <1>10, <2>1, <2>2 DEF RangesOK
  <2>4. OrderOK'
    BY <1>2, <2>1, <2>2 DEF OrderOK
  <2>5. HeldFits'
    BY <1>1, <1>12 DEF IInv, HeldFits
  <2> QED
    BY <1>11, <2>3, <2>4, <2>5 DEF IInv
<1>13. CASE ~IsEmpty
  <2>1. Used(iIndexHead) /\ iIndexHead # g
    BY <1>3, <1>13, Last
  <2>2. iIndexHead' = iIndexHead /\ piHead'[iIndexHead'] = h
    BY <1>1, <1>2, <1>9, <2>1
  <2>3. \A f \in Frames : Low(f)' <=> piTail'[f] < h
    BY <2>2 DEF Low
  <2>4. \A f \in Frames : Low(f) <=> piTail[f] < h
    BY DEF Low
  <2>5. \A f \in Frames : Used(f) =>
          /\ piTail[f] < h => t < h
          /\ piTail[f] <= t \/ (piTail[f] >= h /\ t < h)
    <3>1. piHead[LastFrameNo] \in Nat /\ t \in Nat /\ piHead[LastFrameNo] <= t
      BY <1>4, <1>5, <1>13, Last
    <3> QED
      BY <1>2, <1>4, <1>5, <1>13, <2>4, <3>1, Last
  <2>6. h \in Nat /\ t \in Nat
    BY <1>2, <1>4, <1>5
  <2>7. RangesOK'
    <3>1. ASSUME NEW f \in Frames, Used(f)'
          PROVE  piHead'[f] <= piTail'[f] /\ (piTail'[f] >= h => h <= piHead'[f])
      <4>1. CASE f = g
        <5> HIDE DEF h, t
        <5> QED
          BY <1>7, <1>8, <1>10, <1>13, <2>6, <4>1
      <4>2. CASE f # g
        BY <1>2, <1>4, <1>9, <2>4, <3>1, <4>2 DEF IInv, RangesOK
      <4> QED
        BY <4>1, <4>2
    <3>2. \A f \in Frames : piTail'[f] \in Nat
      BY <1>4, <1>7, <1>8, <1>9, <1>10
    <3> QED
      BY <2>2, <2>3, <2>6, <3>1, <3>2 DEF RangesOK
  <2>8. OrderOK'
    <3>1. ASSUME NEW a \in Frames, NEW b \in Frames, Pos(a) < Pos(b), Used(b)'
          PROVE  /\ piTail'[a] < h => piTail'[b] < h
                 /\ piTail'[a] <= piHead'[b] \/ (~(piTail'[a] < h) /\ piTail'[b] < h)
      <4>1. Used(b) \/ b = g
        BY <1>2, <3>1
      <4>2. a # g /\ Used(a)
        BY <1>2, <3>1, <4>1 DEF Used
      <4>3. CASE b = g
        <5>1. /\ piTail[a] < h => t < h
              /\ piTail[a] <= t \/ (piTail[a] >= h /\ t < h)
          BY <2>5, <4>2
        <5>2. piTail'[a] = piTail[a] /\ piTail[a] \in Nat
          BY <1>4, <1>9, <4>2
        <5> HIDE DEF h, t
        <5> QED
          BY <1>7, <1>8, <1>10, <1>13, <2>6, <4>3, <5>1, <5>2
      <4>4. CASE b # g
        BY <1>9, <2>4, <3>1, <4>1, <4>2, <4>4 DEF IInv, OrderOK
      <4> QED
        BY <4>3, <4>4
    <3> QED
      BY <1>2, <2>3, <3>1 DEF OrderOK
  <2>9. HeldFits'
    BY <1>1, <1>2, <1>9, <2>1 DEF IInv, HeldFits
  <2> QED
    BY <1>11, <2>7, <2>8, <2>9 DEF IInv
<1> QED
  BY <1>12, <1>13

\* more of the last frame, in place or at the front of the area,
LEMMA ContinueFrameKeeps ==
    ASSUME IInv, NEW n \in Lengths, ContinueFrame(n)
    PROVE  IInv'
<1> DEFINE h == piHead[iIndexHead]
           last == LastFrameNo
           t == piTail[last]
           k == LastFrameLength
           pos == CASE IsEmpty -> 0
                    [] Moves(n) -> k
                    [] OTHER -> t
<1>1. /\ piTail' = [piTail EXCEPT ![last] = pos + n]
      /\ piHead' = IF Moves(n) THEN [piHead EXCEPT ![last] = 0] ELSE piHead
      /\ bytes' = Store(IF Moves(n) THEN MoveToFront ELSE bytes, pos, n)
      /\ nIn + n <= MaxBytes /\ nIn' = nIn + n
      /\ UNCHANGED index /\ UNCHANGED held /\ open' = open
  BY DEF ContinueFrame, Appended
<1>2. /\ iIndexHead' = iIndexHead /\ iIndexTail' = iIndexTail /\ held' = held
      /\ last \in Frames /\ iIndexHead \in Frames
  BY <1>1, Places DEF index, IInv, TypeOK
<1>3. \A f \in Frames : /\ piHead[f] \in Nat /\ piHead[f] <= Size
                        /\ piTail[f] \in Nat /\ piTail[f] <= Size
  BY EsAssumption DEF IInv, TypeOK
<1>4. SpaceAvailable(FALSE) >= n
  BY DEF ContinueFrame
<1>5. /\ n \in Nat /\ n >= 1 /\ (n < Size \/ ~IsEmpty)
      /\ ~IsEmpty /\ t < h => t + n < h
      /\ ~IsEmpty /\ t >= h /\ Size - t < n => k + n < h
  BY <1>4, Room DEF IInv
<1>6. ~IsEmpty => k = t - piHead[last] /\ piHead[last] <= t
  BY Last DEF LastFrameLength
<1>7. Moves(n) <=> ~IsEmpty /\ t >= h /\ Size - t < n
  BY <1>2, <1>3, <1>5, EsAssumption DEF Moves, FitsBehind
<1>8. /\ IsEmpty => pos = 0
      /\ Moves(n) => pos = k /\ k \in Nat
      /\ ~IsEmpty /\ ~Moves(n) => pos = t
  BY <1>2, <1>3, <1>6, <1>7
<1>9. pos \in Nat /\ pos + n <= Size
  BY <1>2, <1>3, <1>5, <1>7, <1>8, EsAssumption
<1> HIDE DEF pos
<1>10. TypeOK'
  <2>1. piHead' \in [Frames -> 0 .. Size] /\ piTail' \in [Frames -> 0 .. Size]
    BY <1>1, <1>2, <1>5, <1>9, EsAssumption DEF IInv, TypeOK
  <2>2. bytes' \in [Slots -> Int]
    <3>1. ASSUME Moves(n), NEW s \in Slots, s < k
          PROVE  piHead[last] + s \in Slots
      BY <1>2, <1>3, <1>6, <1>7, <3>1, EsAssumption DEF Slots
    <3>2. Moves(n) => MoveToFront \in [Slots -> Int]
      BY <3>1 DEF MoveToFront, IInv, TypeOK
    <3>3. \A s \in Slots : nIn + s - pos \in Int
      BY <1>9, EsAssumption DEF IInv, TypeOK, Slots
    <3> QED
      BY <1>1, <3>2, <3>3 DEF IInv, TypeOK, Store
  <2>3. nIn' \in 0 .. MaxBytes
    BY <1>1, <1>5, EsAssumption DEF IInv, TypeOK
  <2> QED
    BY <1>1, <1>2, <2>1, <2>2, <2>3 DEF IInv, TypeOK
<1>11. CASE IsEmpty
  <2>1. NumFrames' = 0 /\ IsEmpty' /\ NumFrames \in Nat
    BY <1>2, <1>11, Ring DEF IInv, NumFrames, IsEmpty
  <2>2. \A f \in Frames : Pos(f)' \in Nat
    BY <1>2, Places DEF IInv, Pos
  <2>3. \A f \in Frames : ~Used(f)'
    BY <2>1, <2>2 DEF Used
  <2>4. held' = Nothing
    BY <1>1, <1>11 DEF IInv, HeldFits
  <2> QED
    BY <1>10, <2>3, <2>4 DEF IInv, RangesOK, OrderOK, HeldFits
<1>12. CASE ~IsEmpty
  <2> DEFINE a == IF Moves(n) THEN 0 ELSE piHead[last]
  <2>1. piHead' = [piHead EXCEPT ![last] = a]
    BY <1>1, <1>2 DEF IInv, TypeOK
  <2>2. a \in 0 .. Size /\ pos + n \in 0 .. Size /\ a <= pos + n
    BY <1>2, <1>3, <1>5, <1>6, <1>8, <1>9, <1>12, EsAssumption
  <2>3. h <= t => h <= piHead[last]
    BY <1>2, <1>3, <1>12, Last DEF IInv, RangesOK, Low
  <2>4. \/ NumFrames = 1
        \/ /\ h <= pos + n => h <= a
           /\ t < h => pos + n < h
           /\ piHead[last] <= a \/ (pos + n < h /\ h <= t)
    BY <1>2, <1>3, <1>5, <1>7, <1>8, <1>12, <2>3
  <2>5. t - piHead[last] <= pos + n - a
    BY <1>2, <1>3, <1>5, <1>6, <1>8, <1>12
  <2> HIDE DEF a
  <2> DEFINE b == pos + n
  <2>6. piTail' = [piTail EXCEPT ![last] = b]
    BY <1>1
  <2>7. /\ b \in 0 .. Size /\ a <= b /\ t - piHead[last] <= b - a
        /\ \/ NumFrames = 1
           \/ /\ h <= b => h <= a
              /\ t < h => b < h
              /\ piHead[last] <= a \/ (b < h /\ h <= t)
    BY <1>2, <1>3, <1>5, <1>9, <2>2, <2>4, <2>5, EsAssumption
  <2> HIDE DEF b
  <2>8. RangesOK' /\ OrderOK' /\ HeldFits'
    BY <1>1, <1>12, <2>1, <2>2, <2>6, <2>7, LastChanged
  <2> QED
    BY <1>10, <2>8 DEF IInv
<1> QED
  BY <1>11, <1>12

\* the last frame taken away, with its descriptor or without it,
LEMMA ThrowLastFrameKeeps ==
    ASSUME IInv, NEW recede \in BOOLEAN, ThrowLastFrame(recede)
    PROVE  IInv'
<1> DEFINE h == piHead[iIndexHead]
           last == LastFrameNo
<1>1. /\ piTail' = [piTail EXCEPT ![last] = piHead[last]]
      /\ iIndexTail' = (IF recede /\ ~IsEmpty THEN last ELSE iIndexTail)
      /\ open' = ~recede /\ piHead' = piHead /\ iIndexHead' = iIndexHead
      /\ bytes' = bytes /\ nIn' = nIn /\ held' = held /\ UNCHANGED held
      /\ ~IsHeld
  BY DEF ThrowLastFrame
<1>2. last \in Frames /\ iIndexHead \in Frames
  BY Places DEF IInv, TypeOK
<1>3. TypeOK'
  BY <1>1, <1>2 DEF IInv, TypeOK
<1>4. CASE IsEmpty
  <2>1. NumFrames' = 0 /\ IsEmpty'
    BY <1>1, <1>4, Ring DEF IInv, NumFrames, IsEmpty
  <2>2. \A f \in Frames : Pos(f)' \in Nat
    BY <1>1, Places DEF IInv, Pos
  <2>3. \A f \in Frames : ~Used(f)'
    BY <2>1, <2>2 DEF Used
  <2>4. held' = Nothing
    BY <1>1, <1>4 DEF IInv, HeldFits
  <2> QED
    BY <1>3, <2>3, <2>4 DEF IInv, RangesOK, OrderOK, HeldFits
<1>5. CASE ~IsEmpty /\ recede
  <2>1. /\ NumFrames' = NumFrames - 1
        /\ IsEmpty' <=> NumFrames = 1
        /\ \A f : Pos(f)' = Pos(f)
        /\ \A f \in Frames : Used(f)' <=> Used(f) /\ f # last
    BY <1>1, <1>5, Recede DEF IInv
  <2>2. last = iIndexHead <=> NumFrames = 1
    BY <1>5, Last
  <2>3. \A f \in Frames : f # last => piTail'[f] = piTail[f]
    BY <1>1, <1>2 DEF IInv, TypeOK
  <2>4. \A f \in Frames : f # last => (Low(f)' <=> Low(f))
    BY <1>1, <2>3 DEF Low
  <2>5. RangesOK'
    BY <1>1, <2>1, <2>3, <2>4 DEF IInv, RangesOK
  <2>6. OrderOK'
    <3>1. ASSUME NEW f \in Frames, NEW g \in Frames, Pos(f) < Pos(g), Used(g), g # last
          PROVE  f # last
      <4>1. Pos(f) \in Nat /\ Pos(g) \in Nat /\ Pos(g) < Pos(last)
        BY <1>5, <3>1, Places, Last DEF IInv
      <4> QED
        BY <3>1, <4>1
    <3> QED
      BY <1>1, <2>1, <2>3, <2>4, <3>1 DEF IInv, OrderOK
  <2>7. HeldFits'
    BY <1>1, <1>2, <1>5, <2>1, <2>2, <2>3 DEF IInv, HeldFits, IsHeld
  <2> QED
    BY <1>3, <2>5, <2>6, <2>7 DEF IInv
<1>6. CASE ~IsEmpty /\ ~recede
  <2>1. piHead' = [piHead EXCEPT ![last] = piHead[last]] /\ UNCHANGED index
    BY <1>1, <1>2, <1>6 DEF IInv, TypeOK, index
  <2>2. /\ piHead[last] \in 0 .. Size /\ piHead[last] <= piHead[last]
        /\ h \in Nat /\ piTail[last] \in Nat /\ piHead[last] \in Nat
    BY <1>2, EsAssumption DEF IInv, TypeOK
  <2>3. piHead[last] <= piTail[last]
    BY <1>6, Last
  <2>4. /\ piTail[last] < h => piHead[last] < h
    BY <2>2, <2>3
  <2>5. NumFrames = 1 /\ held # Nothing => FALSE
    BY <1>1 DEF IsHeld
  <2>6. RangesOK' /\ OrderOK' /\ HeldFits'
    BY <1>1, <1>6, <2>1, <2>2, <2>4, <2>5, LastChanged
  <2> QED
    BY <1>3, <2>6 DEF IInv
<1> QED
  BY <1>4, <1>5, <1>6

\* bytes taken off its front,
LEMMA LastFrameAdvanceKeeps ==
    ASSUME IInv, NEW n \in Lengths, LastFrameAdvance(n)
    PROVE  IInv'
<1> DEFINE h == piHead[iIndexHead]
           last == LastFrameNo
           a == piHead[last] + n
<1>1. /\ piHead' = [piHead EXCEPT ![last] = a]
      /\ piTail' = piTail /\ UNCHANGED index /\ UNCHANGED held
      /\ iIndexHead' = iIndexHead /\ iIndexTail' = iIndexTail
      /\ bytes' = bytes /\ nIn' = nIn /\ open' = open /\ held' = held
      /\ ~IsHeld /\ n <= LastFrameLength
  BY DEF LastFrameAdvance, index
<1>2. last \in Frames /\ iIndexHead \in Frames
  BY Places DEF IInv, TypeOK
<1>3. n \in Nat /\ n >= 1
  BY EsAssumption DEF Lengths
<1>4. ~IsEmpty
  BY <1>1, <1>3 DEF LastFrameLength
<1>5. /\ h \in Nat /\ piTail[last] \in 0 .. Size /\ piTail[last] \in Nat
      /\ piHead[last] \in Nat
  BY <1>2, EsAssumption DEF IInv, TypeOK
<1>6. a <= piTail[last] /\ a \in 0 .. Size /\ piHead[last] <= a
  BY <1>1, <1>3, <1>4, <1>5, EsAssumption DEF LastFrameLength
<1>7. TypeOK'
  BY <1>1, <1>2, <1>6 DEF IInv, TypeOK
<1>8. piTail' = [piTail EXCEPT ![last] = piTail[last]]
  BY <1>1, <1>2 DEF IInv, TypeOK
<1>9. h <= piTail[last] => h <= piHead[last]
  BY <1>4, <1>5, Last DEF IInv, RangesOK, Low
<1>10. h <= piTail[last] => h <= a
  BY <1>3, <1>5, <1>9
<1>11. NumFrames = 1 /\ held # Nothing => FALSE
  BY <1>1 DEF IsHeld
<1> HIDE DEF a
<1>12. RangesOK' /\ OrderOK' /\ HeldFits'
  BY <1>1, <1>4, <1>5, <1>6, <1>8, <1>10, <1>11, LastChanged
<1> QED
  BY <1>7, <1>12 DEF IInv

\* the last frame cut in two;
LEMMA SplitFrameKeeps ==
    ASSUME IInv, NEW n \in Lengths, SplitFrame(n)
    PROVE  IInv'
<1> DEFINE h == piHead[iIndexHead]
           last == LastFrameNo
           t == piTail[last]
           g == iIndexTail
           cut == piHead[last] + n
<1>1. /\ piTail' = [piTail EXCEPT ![g] = t, ![last] = cut]
      /\ piHead' = [piHead EXCEPT ![g] = cut]
      /\ iIndexTail' = NextFrame(g) /\ iIndexHead' = iIndexHead
      /\ bytes' = bytes /\ nIn' = nIn /\ open' = open /\ held' = held
      /\ ~IsHeld /\ ~IsEmpty /\ ~IsIndexFull /\ n < LastFrameLength
  BY DEF SplitFrame
<1>2. /\ g \in Frames /\ iIndexHead \in Frames /\ iIndexTail' \in Frames
      /\ Pos(g) = NumFrames /\ NumFrames \in Nat
      /\ NumFrames' = NumFrames + 1
      /\ \A f : Pos(f)' = Pos(f)
      /\ \A f \in Frames : Pos(f) \in Nat
      /\ \A f \in Frames : Used(f)' <=> Used(f) \/ f = g
      /\ ~IsEmpty'
  BY <1>1, Grow, Ring, Places DEF IInv, TypeOK
<1>3. ~Used(g)
  BY <1>2 DEF Used
<1>4. \A f \in Frames : /\ piHead[f] \in Nat /\ piHead[f] <= Size
                        /\ piTail[f] \in Nat /\ piTail[f] <= Size
  BY EsAssumption DEF IInv, TypeOK
<1>5. /\ last \in Frames /\ Used(last) /\ Used(iIndexHead)
      /\ last = iIndexHead <=> NumFrames = 1
      /\ piHead[last] <= t
      /\ \A f \in Frames : Used(f) /\ f # last =>
           /\ Pos(f) < Pos(last)
           /\ piTail[f] < h => t < h
           /\ piTail[f] <= piHead[last] \/ (~(piTail[f] < h) /\ t < h)
  BY <1>1, Last DEF Low
<1>6. n \in Nat
  BY EsAssumption DEF Lengths
<1>7. cut \in Nat /\ piHead[last] <= cut /\ cut < t
  BY <1>1, <1>4, <1>5, <1>6 DEF LastFrameLength
<1>8. g # last /\ g # iIndexHead
  BY <1>3, <1>5
<1>9. /\ \A f \in Frames : f # g => piHead'[f] = piHead[f]
      /\ \A f \in Frames : f # g /\ f # last => piTail'[f] = piTail[f]
      /\ piHead'[g] = cut /\ piTail'[g] = t /\ piTail'[last] = cut
  BY <1>1, <1>2, <1>5, <1>8 DEF IInv, TypeOK
<1>10. TypeOK'
  <2>1. cut \in 0 .. Size /\ t \in 0 .. Size
    BY <1>4, <1>5, <1>7, EsAssumption
  <2> HIDE DEF cut, t
  <2>2. piHead' \in [Frames -> 0 .. Size] /\ piTail' \in [Frames -> 0 .. Size]
    BY <1>1, <1>2, <2>1 DEF IInv, TypeOK
  <2> QED
    BY <1>1, <1>2, <2>2 DEF IInv, TypeOK
<1>11. iIndexHead' = iIndexHead /\ piHead'[iIndexHead] = h
  BY <1>1, <1>2, <1>8, <1>9
<1>12. \A f \in Frames : Low(f)' <=> piTail'[f] < h
  BY <1>11 DEF Low
<1>13. h \in Nat /\ t \in Nat /\ piHead[last] \in Nat
  BY <1>2, <1>4, <1>5
<1>14. h <= t => h <= piHead[last]
  BY <1>5, <1>13 DEF IInv, RangesOK, Low
<1>15. RangesOK'
  <2>1. ASSUME NEW f \in Frames, Used(f)'
        PROVE  piHead'[f] <= piTail'[f] /\ (~(piTail'[f] < h) => h <= piHead'[f])
    <3>1. CASE f = g
      <4> HIDE DEF cut, t, h
      <4> QED
        BY <1>7, <1>9, <1>13, <1>14, <3>1
    <3>2. CASE f = last
      <4>1. piHead'[f] = piHead[last] /\ piTail'[f] = cut
        BY <1>2, <1>8, <1>9, <3>2
      <4> HIDE DEF cut, t, h
      <4> QED
        BY <1>7, <1>13, <1>14, <4>1
    <3>3. CASE f # g /\ f # last
      BY <1>2, <1>9, <2>1, <3>3 DEF IInv, RangesOK, Low
    <3> QED
      BY <3>1, <3>2, <3>3
  <2> QED
    BY <1>11, <1>12, <2>1 DEF RangesOK
<1>16. OrderOK'
  <2>1. ASSUME NEW a \in Frames, NEW b \in Frames, Pos(a) < Pos(b), Used(b)'
        PROVE  /\ piTail'[a] < h => piTail'[b] < h
               /\ piTail'[a] <= piHead'[b] \/ (~(piTail'[a] < h) /\ piTail'[b] < h)
    <3>1. Used(b) \/ b = g
      BY <1>2, <2>1
    <3>2. a # g /\ Used(a)
      BY <1>2, <2>1, <3>1 DEF Used
    <3>3. CASE b = g /\ a = last
      <4>1. piTail'[a] = cut /\ piHead'[b] = cut /\ piTail'[b] = t
        BY <1>9, <3>3
      <4>2. cut < h => t < h
        <5> HIDE DEF cut, t, h
        <5> QED
          BY <1>7, <1>13, <1>14
      <4> HIDE DEF cut, t, h
      <4> QED
        BY <1>7, <4>1, <4>2
    <3>4. CASE b = g /\ a # last
      <4>1. /\ piTail[a] < h => t < h
            /\ piTail[a] <= piHead[last] \/ (~(piTail[a] < h) /\ t < h)
        BY <1>5, <3>2, <3>4
      <4>2. /\ piTail'[a] = piTail[a] /\ piTail[a] \in Nat
            /\ piHead'[b] = cut /\ piTail'[b] = t
        BY <1>4, <1>9, <3>2, <3>4
      <4> HIDE DEF cut, t, h
      <4> QED
        BY <1>7, <1>13, <4>1, <4>2
    <3>5. CASE b = last
      <4>1. a # last
        BY <1>2, <2>1, <3>5
      <4>2. /\ piTail[a] < h => t < h
            /\ piTail[a] <= piHead[last] \/ (~(piTail[a] < h) /\ t < h)
        BY <1>5, <3>2, <4>1
      <4>3. /\ piTail'[a] = piTail[a] /\ piTail[a] \in Nat
            /\ piHead'[b] = piHead[last] /\ piTail'[b] = cut
        BY <1>4, <1>8, <1>9, <3>2, <3>5, <4>1
      <4> HIDE DEF cut, t, h
      <4> QED
        BY <1>7, <1>13, <4>2, <4>3
    <3>6. CASE b # g /\ b # last
      <4>1. Used(b) /\ Pos(b) < Pos(last)
        BY <1>5, <3>1, <3>6
      <4>2. a # last
        BY <1>2, <1>5, <2>1, <4>1
      <4> QED
        BY <1>9, <2>1, <3>2, <3>6, <4>1, <4>2 DEF IInv, OrderOK, Low
    <3> QED
      BY <3>3, <3>4, <3>5, <3>6
  <2> QED
    BY <1>2, <1>12, <2>1 DEF OrderOK
<1>17. HeldFits'
  <2>1. held # Nothing => NumFrames # 1
    BY <1>1 DEF IsHeld
  <2>2. held # Nothing => piTail'[iIndexHead] = piTail[iIndexHead]
    BY <1>2, <1>5, <1>8, <1>9, <2>1
  <2> QED
    BY <1>1, <1>2, <1>11, <2>2 DEF IInv, HeldFits
<1> QED
  BY <1>10, <1>15, <1>16, <1>17 DEF IInv

\* and so do the decoder's: it looks at the first frame,
LEMMA GetFrameKeeps ==
    ASSUME IInv, GetFrame
    PROVE  IInv'
<1> DEFINE h == piHead[iIndexHead]
           k == FirstFrameLength
<1>1. /\ piTail' = piTail /\ piHead' = piHead
      /\ iIndexHead' = iIndexHead /\ iIndexTail' = iIndexTail
      /\ bytes' = bytes /\ nIn' = nIn /\ open' = open /\ ~IsEmpty
      /\ held' = [pos |-> h, data |-> Read(bytes, h, k)]
  BY DEF GetFrame, ranges, index
<1>2. /\ iIndexHead \in Frames
      /\ h \in Nat /\ h \in 0 .. Size /\ piTail[iIndexHead] \in 0 .. Size
      /\ k \in Nat /\ k <= piTail[iIndexHead] - h
  BY <1>1, FirstLength, EsAssumption DEF IInv, TypeOK
<1> HIDE DEF h, k
<1>3. \A i \in 1 .. k : h + i - 1 \in Slots
  BY <1>2, EsAssumption DEF Slots
<1>4. Read(bytes, h, k) \in Seq(Int) /\ Len(Read(bytes, h, k)) = k
  <2>1. Read(bytes, h, k) = [i \in 1 .. k |-> bytes[h + i - 1]]
    BY DEF Read
  <2>2. \A i \in 1 .. k : bytes[h + i - 1] \in Int
    BY <1>3 DEF IInv, TypeOK
  <2> DEFINE r == [i \in 1 .. k |-> bytes[h + i - 1]]
  <2>3. r \in [1 .. k -> Int]
    BY <2>2
  <2> HIDE DEF r
  <2>4. r \in Seq(Int) /\ Len(r) = k
    BY <1>2, <2>3
  <2> QED
    BY <2>1, <2>4 DEF r
<1>5. TypeOK'
  BY <1>1, <1>2, <1>4 DEF IInv, TypeOK
<1>6. HeldFits'
  BY <1>1, <1>2, <1>4 DEF HeldFits, IsEmpty, h
<1>7. RangesOK' /\ OrderOK'
  BY <1>1 DEF IInv, RangesOK, OrderOK, Used, Pos, Low, NumFrames
<1> QED
  BY <1>5, <1>6, <1>7 DEF IInv

\* The frames behind the first one, when the ring advances past it.
LEMMA AdvanceKeeps ==
    ASSUME IInv, ~IsEmpty, iIndexHead' = NextFrame(iIndexHead),
           iIndexTail' = iIndexTail, piTail' = piTail,
           \A f \in Frames : f # iIndexHead => piHead'[f] = piHead[f]
    PROVE  RangesOK' /\ OrderOK'
<1> DEFINE h == piHead[iIndexHead]
           s == iIndexHead'
           h2 == piHead[s]
<1>1. /\ s \in Frames /\ iIndexHead \in Frames
      /\ NumFrames' = NumFrames - 1 /\ NumFrames \in Nat
      /\ Pos(s) = 1 /\ Pos(iIndexHead) = 0
      /\ \A f \in Frames : Used(f)' =>
            /\ Used(f) /\ f # iIndexHead /\ Pos(f)' = Pos(f) - 1
      /\ NumFrames >= 2 => Used(s) /\ s # iIndexHead
      /\ \A f \in Frames : Pos(f) \in Nat
      /\ \A f, g \in Frames : Pos(f) = Pos(g) => f = g
  <2>1. NumFrames \in Nat
    BY Ring, EsAssumption DEF IInv
  <2>2. /\ iIndexHead \in Frames /\ Pos(iIndexHead) = 0
        /\ \A f \in Frames : Pos(f) \in Nat
        /\ \A f, g \in Frames : Pos(f) = Pos(g) => f = g
    BY Places, EsAssumption DEF IInv, TypeOK
  <2> QED
    BY <2>1, <2>2, Advance DEF IInv
<1>2. \A f \in Frames : /\ piHead[f] \in Nat /\ piTail[f] \in Nat
  BY EsAssumption DEF IInv, TypeOK
<1>3. /\ h \in Nat /\ h2 \in Nat /\ piTail[s] \in Nat /\ piTail[iIndexHead] \in Nat
  BY <1>1, <1>2
<1>4. CASE NumFrames < 2
  <2>1. \A f \in Frames : Pos(f)' \in Nat
    BY <1>1, EsAssumption DEF Pos, Frames
  <2>2. \A f \in Frames : ~Used(f)'
    <3>1. NumFrames' <= 0 /\ NumFrames' \in Int
      BY <1>1, <1>4
    <3> QED
      BY <2>1, <3>1 DEF Used
  <2> QED
    BY <2>2 DEF RangesOK, OrderOK
<1>5. CASE NumFrames >= 2
  <2>1. Used(s) /\ s # iIndexHead /\ Used(iIndexHead)
    BY <1>1, <1>5 DEF Used
  <2>2. piHead'[s] = h2
    BY <1>1, <2>1
  <2>3. \A f \in Frames : Low(f)' <=> piTail[f] < h2
    BY <2>2 DEF Low
  <2>4. \A f \in Frames : Used(f)' =>
          /\ f # iIndexHead /\ piHead'[f] = piHead[f] /\ Used(f)
          /\ f # s => Pos(s) < Pos(f)
    <3>1. ASSUME NEW f \in Frames, Used(f)', f # s
          PROVE  Pos(s) < Pos(f)
      <4>1. Pos(f) # Pos(s) /\ Pos(f) # Pos(iIndexHead) /\ Pos(f) \in Nat
        BY <1>1, <3>1
      <4> QED
        BY <1>1, <4>1
    <3> QED
      BY <1>1, <3>1
  <2>5. \A f \in Frames : Used(f)' =>
          /\ piHead[f] <= piTail[f]
          /\ piTail[f] >= h => h <= piHead[f]
          /\ piTail[iIndexHead] <= piHead[f] \/ piTail[f] < h
          /\ f # s => /\ piTail[s] < h => piTail[f] < h
                      /\ piTail[s] <= piHead[f] \/ (piTail[s] >= h /\ piTail[f] < h)
    <3>1. ASSUME NEW f \in Frames, Used(f)'
          PROVE  /\ piHead[f] <= piTail[f]
                 /\ piTail[f] >= h => h <= piHead[f]
      BY <1>2, <1>3, <2>4, <3>1 DEF IInv, RangesOK, Low
    <3>2. ASSUME NEW f \in Frames, Used(f)'
          PROVE  piTail[iIndexHead] <= piHead[f] \/ piTail[f] < h
      <4>1. Pos(iIndexHead) < Pos(f) /\ Used(f)
        BY <1>1, <2>4, <3>2
      <4> QED
        BY <1>1, <4>1 DEF IInv, OrderOK, Low
    <3>3. ASSUME NEW f \in Frames, Used(f)', f # s
          PROVE  /\ piTail[s] < h => piTail[f] < h
                 /\ piTail[s] <= piHead[f] \/ (piTail[s] >= h /\ piTail[f] < h)
      BY <1>1, <1>2, <1>3, <2>4, <3>3 DEF IInv, OrderOK, Low
    <3> QED
      BY <3>1, <3>2, <3>3
  <2>6. h2 <= piTail[s] /\ h <= piTail[iIndexHead]
    BY <1>1, <2>1 DEF IInv, RangesOK
  <2>7. /\ piTail[s] >= h => h <= h2
        /\ piTail[iIndexHead] <= h2 \/ piTail[s] < h
    <3>1. Pos(iIndexHead) < Pos(s)
      BY <1>1
    <3> QED
      BY <1>1, <1>3, <2>1, <3>1 DEF IInv, RangesOK, OrderOK, Low
  <2>8. RangesOK'
    <3>1. ASSUME NEW f \in Frames, Used(f)'
          PROVE  /\ piHead[f] <= piTail[f]
                 /\ ~(piTail[f] < h2) => h2 <= piHead[f]
      <4>1. piHead[f] \in Nat /\ piTail[f] \in Nat
        BY <1>2
      <4> HIDE DEF h, h2, s
      <4>2. CASE f = s
        BY <1>3, <2>5, <2>6, <3>1, <4>1, <4>2 DEF h2
      <4>3. CASE f # s
        BY <1>3, <2>5, <2>6, <2>7, <3>1, <4>1, <4>3
      <4> QED
        BY <4>2, <4>3
    <3> QED
      BY <2>2, <2>3, <2>4, <3>1 DEF RangesOK
  <2>9. OrderOK'
    <3>1. ASSUME NEW f \in Frames, NEW g \in Frames, Pos(f)' < Pos(g)', Used(g)'
          PROVE  /\ piTail[f] < h2 => piTail[g] < h2
                 /\ piTail[f] <= piHead'[g] \/ (~(piTail[f] < h2) /\ piTail[g] < h2)
      <4>1. Pos(f)' \in Nat /\ Pos(g)' \in Nat /\ NumFrames' \in Int
        BY <1>1, EsAssumption DEF Pos, Frames
      <4>2. Used(f)'
        BY <3>1, <4>1 DEF Used
      <4>3. Pos(f) < Pos(g) /\ Used(g) /\ Used(f) /\ g # iIndexHead /\ f # g
        BY <1>1, <3>1, <4>1, <4>2
      <4>4. g # s
        BY <1>1, <4>2, <4>3, <2>4
      <4>5. /\ piTail[f] < h => piTail[g] < h
            /\ piTail[f] <= piHead[g] \/ (~(piTail[f] < h) /\ piTail[g] < h)
        BY <3>1, <4>3 DEF IInv, OrderOK, Low
      <4>6. piHead'[g] = piHead[g]
        BY <2>4, <3>1
      <4>7. /\ piHead[f] \in Nat /\ piTail[f] \in Nat
            /\ piHead[g] \in Nat /\ piTail[g] \in Nat
        BY <1>2
      <4>8. /\ piHead[f] <= piTail[f] /\ piHead[g] <= piTail[g]
            /\ piTail[f] >= h => h <= piHead[f]
            /\ piTail[g] >= h => h <= piHead[g]
            /\ piTail[iIndexHead] <= piHead[f] \/ piTail[f] < h
            /\ piTail[iIndexHead] <= piHead[g] \/ piTail[g] < h
            /\ piTail[s] < h => piTail[g] < h
            /\ piTail[s] <= piHead[g] \/ (piTail[s] >= h /\ piTail[g] < h)
            /\ f # s => /\ piTail[s] < h => piTail[f] < h
                        /\ piTail[s] <= piHead[f] \/ (piTail[s] >= h /\ piTail[f] < h)
        BY <2>5, <3>1, <4>2, <4>4
      <4> HIDE DEF h, h2, s
      <4>9. CASE piTail[s] < h
        BY <1>3, <2>6, <2>7, <4>5, <4>6, <4>7, <4>8, <4>9
      <4>10. CASE piTail[s] >= h
        <5>1. CASE f = s
          BY <1>3, <2>6, <2>7, <4>5, <4>6, <4>7, <4>8, <4>10, <5>1
        <5>2. CASE f # s
          BY <1>3, <2>6, <2>7, <4>5, <4>6, <4>7, <4>8, <4>10, <5>2
        <5> QED
          BY <5>1, <5>2
      <4> QED
        BY <1>3, <4>9, <4>10
    <3> QED
      BY <2>3, <3>1 DEF OrderOK
  <2> QED
    BY <2>8, <2>9
<1> QED
  BY <1>1, <1>4, <1>5

\* advances to the next frame,
LEMMA AdvanceFrameKeeps ==
    ASSUME IInv, AdvanceFrame
    PROVE  IInv'
<1>1. /\ ~IsEmpty
      /\ iIndexHead' = NextFrame(iIndexHead) /\ iIndexTail' = iIndexTail
      /\ piTail' = piTail /\ piHead' = piHead
      /\ bytes' = bytes /\ nIn' = nIn /\ open' = open /\ held' = Nothing
  BY DEF AdvanceFrame, ranges
<1>2. iIndexHead' \in Frames
  BY <1>1, Advance DEF IInv
<1>3. Nothing.pos \in 0 .. Size /\ Nothing.data \in Seq(Int)
  BY EsAssumption DEF Nothing
<1>4. TypeOK'
  BY <1>1, <1>2, <1>3 DEF IInv, TypeOK
<1>5. RangesOK' /\ OrderOK'
  BY <1>1, AdvanceKeeps
<1>6. HeldFits'
  BY <1>1 DEF HeldFits
<1> QED
  BY <1>4, <1>5, <1>6 DEF IInv

\* takes bytes off the front of the first one,
LEMMA FirstFrameAdvanceKeeps ==
    ASSUME IInv, NEW n \in Lengths, FirstFrameAdvance(n)
    PROVE  IInv'
<1> DEFINE h == piHead[iIndexHead]
           t == piTail[iIndexHead]
<1>1. /\ held # Nothing /\ n <= Len(held.data)
      /\ piHead' = [piHead EXCEPT ![iIndexHead] = h + n]
      /\ iIndexHead' = (IF piHead'[iIndexHead] = t /\ ~IsEmpty
                        THEN NextFrame(iIndexHead) ELSE iIndexHead)
      /\ piTail' = piTail /\ iIndexTail' = iIndexTail
      /\ bytes' = bytes /\ nIn' = nIn /\ open' = open /\ held' = Nothing
  BY DEF FirstFrameAdvance
<1>2. /\ iIndexHead \in Frames /\ n \in Nat
      /\ h \in 0 .. Size /\ t \in 0 .. Size
      /\ Len(held.data) \in Nat
  BY EsAssumption DEF IInv, TypeOK, Lengths
<1>3. ~IsEmpty /\ Len(held.data) <= t - h
  BY <1>1 DEF IInv, HeldFits
<1>4. h + n \in 0 .. Size /\ h <= h + n /\ h + n <= t /\ h \in Nat /\ t \in Nat
  BY <1>1, <1>2, <1>3, EsAssumption
<1>5. /\ \A f \in Frames : f # iIndexHead => piHead'[f] = piHead[f]
      /\ piHead'[iIndexHead] = h + n
  BY <1>1, <1>2 DEF IInv, TypeOK
<1>6. NextFrame(iIndexHead) \in Frames
  BY <1>2, Ring, EsAssumption DEF IInv, Frames
<1>7. TypeOK'
  <2>1. Nothing.pos \in 0 .. Size /\ Nothing.data \in Seq(Int)
    BY EsAssumption DEF Nothing
  <2>2. iIndexHead' \in Frames
    BY <1>1, <1>2, <1>6
  <2> QED
    BY <1>1, <1>2, <1>4, <2>1, <2>2 DEF IInv, TypeOK
<1>8. HeldFits'
  BY <1>1 DEF HeldFits
<1>9. CASE h + n = t
  <2>1. iIndexHead' = NextFrame(iIndexHead)
    BY <1>1, <1>3, <1>5, <1>9
  <2>2. RangesOK' /\ OrderOK'
    BY <1>1, <1>3, <1>5, <2>1, AdvanceKeeps
  <2> QED
    BY <1>7, <1>8, <2>2 DEF IInv
<1>10. CASE h + n # t
  <2>1. iIndexHead' = iIndexHead
    BY <1>1, <1>5, <1>10
  <2>2. /\ \A f : Pos(f)' = Pos(f)
        /\ \A f \in Frames : Used(f)' <=> Used(f)
    BY <1>1, <2>1 DEF Pos, Used, NumFrames
  <2>3. \A f \in Frames : Low(f)' <=> piTail[f] < h + n
    BY <1>1, <1>5, <2>1 DEF Low
  <2>4. Used(iIndexHead) /\ Pos(iIndexHead) = 0
    BY <1>3, Last, Places DEF IInv
  <2>5. ASSUME NEW f \in Frames, Used(f)
        PROVE  /\ piTail[f] \in Nat /\ piHead[f] \in Nat
               /\ piHead'[f] <= piTail[f]
               /\ piTail[f] < h + n <=> piTail[f] < h
               /\ piTail[f] >= h => h + n <= piHead'[f]
    <3>1. /\ piTail[f] \in Nat /\ piHead[f] \in Nat /\ piHead[f] <= piTail[f]
          /\ piTail[f] >= h => h <= piHead[f]
      BY <1>4, <2>5, EsAssumption DEF IInv, TypeOK, RangesOK, Low
    <3>2. CASE f = iIndexHead
      BY <1>2, <1>4, <1>5, <1>10, <3>1, <3>2
    <3>3. CASE f # iIndexHead
      <4>1. Pos(f) \in Nat /\ Pos(f) # Pos(iIndexHead)
        BY <1>2, <3>3, Places, EsAssumption DEF IInv
      <4>2. t <= piHead[f] \/ piTail[f] < h
        BY <1>2, <2>4, <2>5, <4>1 DEF IInv, OrderOK, Low
      <4>3. piHead'[f] = piHead[f]
        BY <1>5, <3>3
      <4> HIDE DEF h, t
      <4> QED
        BY <1>2, <1>4, <1>10, <3>1, <4>2, <4>3
    <3> QED
      BY <3>2, <3>3
  <2>6. RangesOK'
    BY <1>1, <1>2, <1>4, <1>5, <2>1, <2>2, <2>3, <2>5 DEF RangesOK
  <2>7. OrderOK'
    <3>1. ASSUME NEW f \in Frames, NEW g \in Frames, Pos(f) < Pos(g), Used(g)
          PROVE  /\ piTail[f] < h + n => piTail[g] < h + n
                 /\ piTail[f] <= piHead'[g] \/ (~(piTail[f] < h + n) /\ piTail[g] < h + n)
      <4>1. Used(f) /\ g # iIndexHead
        <5>1. Pos(f) \in Nat /\ Pos(g) \in Nat /\ NumFrames \in Nat
          BY Places, Ring, EsAssumption DEF IInv
        <5> QED
          BY <2>4, <3>1, <5>1 DEF Used
      <4>2. /\ piTail[f] < h => piTail[g] < h
            /\ piTail[f] <= piHead[g] \/ (~(piTail[f] < h) /\ piTail[g] < h)
        BY <3>1 DEF IInv, OrderOK, Low
      <4>3. /\ piTail[f] < h + n <=> piTail[f] < h
            /\ piTail[g] < h + n <=> piTail[g] < h
            /\ piHead'[g] = piHead[g]
        BY <1>5, <2>5, <3>1, <4>1
      <4> QED
        BY <4>2, <4>3
    <3> QED
      BY <1>1, <2>2, <2>3, <3>1 DEF OrderOK
  <2> QED
    BY <1>7, <1>8, <2>6, <2>7 DEF IInv
<1> QED
  BY <1>9, <1>10

\* or starts from nothing.
LEMMA DeInitKeeps ==
    ASSUME IInv, DeInit
    PROVE  IInv'
<1>1. /\ piTail' = piTail /\ piHead' = piHead
      /\ iIndexHead' = 0 /\ iIndexTail' = 0
      /\ bytes' = bytes /\ nIn' = nIn /\ open' = FALSE
      /\ held' = held /\ held = Nothing
  BY DEF DeInit, ranges
<1>2. TypeOK'
  <2>1. 0 \in Frames
    BY EsAssumption DEF Frames
  <2> QED
    BY <1>1, <2>1 DEF IInv, TypeOK
<1>3. NumFrames' = 0
  BY <1>1 DEF NumFrames
<1>4. \A f \in Frames : ~Used(f)'
  BY <1>1, <1>3 DEF Used, Pos, Frames
<1> QED
  BY <1>1, <1>2, <1>4 DEF IInv, RangesOK, OrderOK, HeldFits

LEMMA InitIInv == Init => IInv
<1> SUFFICES ASSUME Init PROVE IInv
  OBVIOUS
<1>1. /\ piHead = [f \in Frames |-> 0] /\ piTail = [f \in Frames |-> 0]
      /\ iIndexHead = 0 /\ iIndexTail = 0
      /\ bytes = [s \in Slots |-> -1]
      /\ nIn = 0 /\ open = FALSE /\ held = Nothing
  BY DEF Init
<1>2. TypeOK
  <2>1. 0 \in Frames /\ 0 \in 0 .. Size /\ 0 \in 0 .. MaxBytes
    BY EsAssumption DEF Frames
  <2>2. Nothing.pos \in 0 .. Size /\ Nothing.data \in Seq(Int)
    BY <2>1 DEF Nothing
  <2>3. piHead \in [Frames -> 0 .. Size] /\ piTail \in [Frames -> 0 .. Size]
    BY <1>1, <2>1
  <2>4. bytes \in [Slots -> Int]
    BY <1>1
  <2>5. open \in BOOLEAN
    BY <1>1
  <2> QED
    BY <1>1, <2>1, <2>2, <2>3, <2>4, <2>5 DEF TypeOK
<1>3. NumFrames = 0
  BY <1>1 DEF NumFrames
<1>4. \A f \in Frames : ~Used(f)
  BY <1>1, <1>3 DEF Used, Pos, Frames
<1> QED
  BY <1>1, <1>2, <1>4 DEF IInv, RangesOK, OrderOK, HeldFits

LEMMA NextIInv == IInv /\ [Next]_vars => IInv'
<1> SUFFICES ASSUME IInv, [Next]_vars PROVE IInv'
  OBVIOUS
<1>1. ASSUME NEW n \in Lengths, StartFrame(n) PROVE IInv'
  BY <1>1, StartFrameKeeps
<1>2. ASSUME NEW n \in Lengths, ContinueFrame(n) PROVE IInv'
  BY <1>2, ContinueFrameKeeps
<1>3. ASSUME NEW n \in Lengths, SplitFrame(n) PROVE IInv'
  BY <1>3, SplitFrameKeeps
<1>4. ASSUME NEW n \in Lengths, LastFrameAdvance(n) PROVE IInv'
  BY <1>4, LastFrameAdvanceKeeps
<1>5. ASSUME NEW n \in Lengths, FirstFrameAdvance(n) PROVE IInv'
  BY <1>5, FirstFrameAdvanceKeeps
<1>6. ASSUME NEW recede \in BOOLEAN, ThrowLastFrame(recede) PROVE IInv'
  BY <1>6, ThrowLastFrameKeeps
<1>7. CASE GetFrame
  BY <1>7, GetFrameKeeps
<1>8. CASE AdvanceFrame
  BY <1>8, AdvanceFrameKeeps
<1>9. CASE DeInit
  BY <1>9, DeInitKeeps
<1>10. CASE UNCHANGED vars
  BY <1>10 DEF vars, ranges, index, IInv, TypeOK, RangesOK, OrderOK, HeldFits,
               Used, Pos, Low, NumFrames, IsEmpty
<1> QED
  BY <1>1, <1>2, <1>3, <1>4, <1>5, <1>6, <1>7, <1>8, <1>9, <1>10 DEF Next

\* Every variable keeps its type: no index leaves the ring, no end of a range
\* the area, however the calls follow one another.
THEOREM SpecTypeOK == Spec => []TypeOK
<1>1. IInv => TypeOK
  BY DEF IInv
<1> QED
  BY <1>1, InitIInv, NextIInv, PTL DEF Spec

LEMMA SpecIInv == Spec => []IInv
  BY InitIInv, NextIInv, PTL DEF Spec

----------------------------------------------------------------------------
\* The descriptors, counted from the first one.
LEMMA FrameAt ==
    ASSUME TypeOK
    PROVE  /\ \A i \in 1 .. MaxFrames :
                /\ Frame(i) \in Frames /\ Pos(Frame(i)) = i - 1
                /\ Used(Frame(i)) <=> i <= NumFrames
           /\ Frame(1) = iIndexHead
           /\ ~IsEmpty => Frame(NumFrames) = LastFrameNo
           /\ Frame(NumFrames + 1) = iIndexTail
<1> USE EsAssumption DEF Frames
<1>1. iIndexHead \in Frames /\ iIndexTail \in Frames /\ NumFrames \in 0 .. MaxFrames - 1
  BY Ring DEF TypeOK
<1>2. ASSUME NEW i \in 1 .. MaxFrames
      PROVE  /\ Frame(i) \in Frames /\ Pos(Frame(i)) = i - 1
             /\ Used(Frame(i)) <=> i <= NumFrames
  <2> DEFINE x == iIndexHead + i - 1
  <2>1. x \in Nat /\ x < 2 * MaxFrames
    BY <1>1
  <2>2. Frame(i) = IF x < MaxFrames THEN x ELSE x - MaxFrames
    <3>1. Frame(i) = x % MaxFrames
      BY DEF Frame
    <3> HIDE DEF x
    <3> QED
      BY <2>1, <3>1, WrapFrame
  <2>3. Frame(i) \in Frames /\ Pos(Frame(i)) = i - 1
    BY <1>1, <2>2 DEF Pos
  <2> QED
    BY <1>1, <2>3 DEF Used
<1>3. /\ \A f, g \in Frames : Pos(f) = Pos(g) => f = g
      /\ Pos(iIndexHead) = 0 /\ LastFrameNo \in Frames
      /\ ~IsEmpty => Pos(LastFrameNo) = NumFrames - 1
      /\ Pos(iIndexTail) = NumFrames
  BY Places
<1>4. 1 \in 1 .. MaxFrames /\ NumFrames + 1 \in 1 .. MaxFrames
  BY <1>1
<1>5. Frame(1) = iIndexHead /\ Frame(NumFrames + 1) = iIndexTail
  BY <1>1, <1>2, <1>3, <1>4
<1>6. ~IsEmpty => Frame(NumFrames) = LastFrameNo
  <2>1. ~IsEmpty => NumFrames \in 1 .. MaxFrames
    BY <1>1, Ring
  <2> QED
    BY <1>2, <1>3, <2>1
<1> QED
  BY <1>2, <1>5, <1>6

\* The frames in use are those of which the invariant speaks.
LEMMA FramesInUse ==
    ASSUME TypeOK
    PROVE  \A f \in InUse : f \in Frames /\ Used(f)
<1>1. \A i \in 1 .. NumFrames : i \in 1 .. MaxFrames /\ i <= NumFrames
  BY Ring, EsAssumption
<1> QED
  BY <1>1, FrameAt DEF InUse

\* It keeps them apart.
LEMMA UsedApart ==
    ASSUME IInv
    PROVE  /\ \A f \in Frames : Used(f) => piHead[f] <= piTail[f] /\ Area(f) \subseteq Slots
           /\ \A f, g \in Frames : Used(f) /\ Used(g) /\ f # g => Area(f) \cap Area(g) = {}
<1>1. \A f \in Frames : /\ piHead[f] \in Nat /\ piTail[f] \in Nat /\ piTail[f] <= Size
                        /\ Pos(f) \in Nat
  BY Places, EsAssumption DEF IInv, TypeOK
<1>2. piHead[iIndexHead] \in Nat
  BY <1>1 DEF IInv, TypeOK
<1>3. ASSUME NEW f \in Frames, Used(f)
      PROVE  piHead[f] <= piTail[f] /\ Area(f) \subseteq Slots
  <2>1. piHead[f] <= piTail[f]
    BY <1>3 DEF IInv, RangesOK
  <2> QED
    BY <1>1, <2>1, EsAssumption DEF Area, Slots
<1>4. ASSUME NEW f \in Frames, NEW g \in Frames, Used(f), Used(g), Pos(f) < Pos(g)
      PROVE  Area(f) \cap Area(g) = {}
  <2>1. piTail[f] <= piHead[g] \/ (piHead[iIndexHead] <= piHead[f] /\ Low(g))
    BY <1>4 DEF IInv, OrderOK, RangesOK
  <2> QED
    BY <1>1, <1>2, <2>1 DEF Area, Low
<1>5. ASSUME NEW f \in Frames, NEW g \in Frames, Used(f), Used(g), f # g
      PROVE  Area(f) \cap Area(g) = {}
  <2>1. Pos(f) # Pos(g)
    BY <1>5, Places DEF IInv
  <2>2. Pos(f) < Pos(g) \/ Pos(g) < Pos(f)
    BY <1>1, <2>1
  <2> QED
    BY <1>4, <1>5, <2>2
<1> QED
  BY <1>3, <1>5

\* The frames lie in the area and apart from one another, whatever was moved,
\* split, thrown away or advanced over.
THEOREM SpecFramesApart == Spec => []FramesApart
<1>1. IInv => FramesApart
  BY FramesInUse, UsedApart DEF FramesApart, IInv
<1> QED
  BY <1>1, SpecIInv, PTL

\* Whatever the frames in front of it are, the last one does not overlap the
\* place at the front of the area it is moved to, as its memcpy requires.
THEOREM SpecMoveIsDisjoint == Spec => []MoveIsDisjoint
<1>1. IInv => MoveIsDisjoint
  <2> SUFFICES ASSUME IInv, NEW n \in Lengths, Moves(n), SpaceAvailable(FALSE) >= n
               PROVE  piHead[LastFrameNo] >= LastFrameLength
    BY DEF MoveIsDisjoint
  <2> DEFINE h == piHead[iIndexHead]
             t == piTail[LastFrameNo]
             k == LastFrameLength
  <2>1. /\ h \in Nat /\ t \in Nat /\ piHead[LastFrameNo] \in Nat /\ n \in Nat
        /\ k \in Int
    BY Places, EsAssumption DEF IInv, TypeOK, Lengths, LastFrameLength
  <2>2. ~IsEmpty /\ t >= h /\ Size - t < n
    BY <2>1, EsAssumption DEF Moves, FitsBehind
  <2>3. k + n < h
    BY <2>2, Room DEF IInv
  <2>4. h <= piHead[LastFrameNo]
    BY <2>1, <2>2, Last DEF IInv, RangesOK, Low
  <2> HIDE DEF h, k
  <2>5. piHead[LastFrameNo] >= k
    BY <2>1, <2>3, <2>4
  <2> QED
    BY <2>5 DEF k
<1> QED
  BY <1>1, SpecIInv, PTL

----------------------------------------------------------------------------
\* The frame the decoder holds is the first one, and the parser works on a
\* later one or on none.
HeldFirst == held # Nothing =>
    /\ held.pos = piHead[iIndexHead]
    /\ NumFrames >= 2 \/ ~open

HInv == IInv /\ HeldFirst /\ HeldFrameIntact

\* What is appended is not written over the first frame, unless that is the
\* frame continued.
LEMMA FirstFrameKept ==
    ASSUME IInv, NEW n \in Lengths, ~IsEmpty,
           StartFrame(n) \/ (ContinueFrame(n) /\ NumFrames >= 2),
           NEW s \in Slots, piHead[iIndexHead] <= s, s < piTail[iIndexHead]
    PROVE  bytes'[s] = bytes[s]
<1> DEFINE h == piHead[iIndexHead]
           last == LastFrameNo
           t == piTail[last]
           k == LastFrameLength
<1>1. /\ iIndexHead \in Frames /\ last \in Frames
      /\ h \in Nat /\ t \in Nat /\ piTail[iIndexHead] \in Nat /\ piHead[last] \in Nat
      /\ n \in Nat /\ s \in Nat
  BY Last, EsAssumption DEF IInv, TypeOK, Lengths, Slots
<1>2. piHead[last] <= t /\ (t >= h => piTail[iIndexHead] <= t)
  <2>1. piHead[last] <= t
    BY Last
  <2>2. CASE last = iIndexHead
    BY <1>1, <2>1, <2>2
  <2>3. CASE last # iIndexHead
    <3>1. piTail[iIndexHead] <= piHead[last] \/ t < h
      BY <1>1, <2>3, Last DEF Low
    <3> QED
      BY <1>1, <2>1, <3>1
  <2> QED
    BY <2>1, <2>2, <2>3
<1>3. CASE StartFrame(n)
  <2>1. SpaceAvailable(TRUE) >= n
    BY <1>3 DEF StartFrame
  <2>2. /\ t < h => t + n < h
        /\ t >= h /\ Size - t < n => n < h
    BY <2>1, Room DEF IInv
  <2> DEFINE pos == IF ~IsEmpty /\ FitsBehind(n) THEN t ELSE 0
  <2>3. bytes' = Store(bytes, pos, n)
    BY <1>3 DEF StartFrame
  <2>4. \/ pos = t /\ t < h /\ t + n < h
        \/ pos = t /\ t >= h
        \/ pos = 0 /\ n < h
    BY <1>1, <2>2, EsAssumption DEF FitsBehind
  <2> HIDE DEF pos
  <2>5. s \notin pos .. pos + n - 1
    BY <1>1, <1>2, <2>4
  <2> QED
    BY <2>3, <2>5 DEF Store
<1>4. CASE ContinueFrame(n) /\ NumFrames >= 2
  <2>1. SpaceAvailable(FALSE) >= n
    BY <1>4 DEF ContinueFrame
  <2>2. /\ t < h => t + n < h
        /\ t >= h /\ Size - t < n => k + n < h
    BY <2>1, Room DEF IInv
  <2>3. Moves(n) <=> t >= h /\ Size - t < n
    BY <1>1, EsAssumption DEF Moves, FitsBehind
  <2>4. k \in Nat
    BY <1>1, <1>2 DEF LastFrameLength
  <2>5. CASE Moves(n)
    <3>1. bytes' = Store(MoveToFront, k, n)
      BY <1>4, <2>5 DEF ContinueFrame, Moves
    <3>2. k + n < h
      BY <2>2, <2>3, <2>5
    <3> HIDE DEF k, h
    <3>3. s \notin k .. k + n - 1 /\ ~(s < k)
      BY <1>1, <2>4, <3>2 DEF h
    <3> QED
      BY <3>1, <3>3 DEF Store, MoveToFront, k
  <2>6. CASE ~Moves(n)
    <3>1. bytes' = Store(bytes, t, n)
      BY <1>4, <2>6 DEF ContinueFrame
    <3>2. s \notin t .. t + n - 1
      BY <1>1, <1>2, <2>2
    <3> QED
      BY <3>1, <3>2 DEF Store
  <2> QED
    BY <2>5, <2>6
<1> QED
  BY <1>3, <1>4

\* Every step keeps it there.
LEMMA NextHInv ==
    ASSUME WaitForNext, HInv, [Next]_vars
    PROVE  HInv'
<1>1. IInv /\ IInv'
  BY NextIInv DEF HInv
<1>2. /\ NumFrames \in Nat /\ iIndexHead \in Frames
      /\ piTail[iIndexHead] \in 0 .. Size /\ piHead[iIndexHead] \in 0 .. Size
      /\ Len(held.data) \in Nat
  <2>1. NumFrames \in Nat /\ TypeOK
    BY <1>1, Ring, EsAssumption DEF IInv
  <2> QED
    BY <2>1 DEF TypeOK
<1>3. ASSUME held' = held, iIndexHead' = iIndexHead,
             held # Nothing => /\ piHead'[iIndexHead] = piHead[iIndexHead]
                               /\ NumFrames' >= 2 \/ ~open',
             \A s \in Slots :
                held # Nothing /\ piHead[iIndexHead] <= s /\ s < piTail[iIndexHead]
                  => bytes'[s] = bytes[s]
      PROVE  HInv'
  <2>1. HeldFirst'
    BY <1>3 DEF HInv, HeldFirst
  <2>2. HeldFrameIntact'
    <3> SUFFICES ASSUME NEW i \in 1 .. Len(held.data)
                 PROVE  bytes'[held.pos + i - 1] = held.data[i]
      BY <1>3 DEF HeldFrameIntact
    <3>1. held # Nothing
      BY <1>2 DEF Nothing
    <3>2. /\ held.pos = piHead[iIndexHead]
          /\ Len(held.data) <= piTail[iIndexHead] - piHead[iIndexHead]
      BY <1>1, <3>1 DEF HInv, HeldFirst, IInv, HeldFits
    <3> DEFINE s == held.pos + i - 1
    <3>3. s \in Slots /\ piHead[iIndexHead] <= s /\ s < piTail[iIndexHead]
      BY <1>2, <3>2, EsAssumption DEF Slots
    <3>4. bytes'[s] = bytes[s]
      BY <1>3, <3>1, <3>3
    <3> QED
      BY <3>4 DEF HInv, HeldFrameIntact
  <2> QED
    BY <1>1, <2>1, <2>2 DEF HInv
<1>4. ASSUME held' = Nothing PROVE HInv'
  BY <1>1, <1>4 DEF HInv, HeldFirst, HeldFrameIntact, Nothing
<1>5. held # Nothing => ~IsEmpty
  BY <1>1 DEF IInv, HeldFits
<1>6. ASSUME ~IsEmpty, NumFrames >= 2
      PROVE  LastFrameNo \in Frames /\ LastFrameNo # iIndexHead
  BY <1>1, <1>2, <1>6, Last
<1>7. iIndexTail \in Frames /\ (~IsEmpty => iIndexTail # iIndexHead)
  BY <1>1 DEF IInv, TypeOK, IsEmpty
<1>8. ASSUME NEW n \in Lengths, StartFrame(n) PROVE HInv'
  <2>1. /\ held' = held /\ iIndexHead' = iIndexHead
        /\ iIndexTail' = NextFrame(iIndexTail) /\ ~IsIndexFull
    BY <1>8 DEF StartFrame
  <2>2. NumFrames' = NumFrames + 1
    BY <1>1, <2>1, Grow DEF IInv
  <2>3. ~IsEmpty => NumFrames' >= 2 /\ piHead'[iIndexHead] = piHead[iIndexHead]
    <3>1. NumFrames = 0 <=> IsEmpty
      BY <1>1, Ring DEF IInv
    <3>2. ~IsEmpty => piHead'[iIndexHead] = piHead[iIndexHead]
      BY <1>1, <1>2, <1>7, <1>8 DEF StartFrame, IInv, TypeOK
    <3> QED
      BY <1>2, <2>2, <3>1, <3>2
  <2> QED
    BY <1>1, <1>3, <1>5, <1>8, <2>1, <2>3, FirstFrameKept
<1>9. ASSUME NEW n \in Lengths, ContinueFrame(n) PROVE HInv'
  <2>1. held' = held /\ index' = index /\ open /\ open' = open
    BY <1>9 DEF ContinueFrame
  <2>2. iIndexHead' = iIndexHead /\ NumFrames' = NumFrames
    BY <2>1 DEF index, NumFrames
  <2>3. held # Nothing => NumFrames >= 2
    BY <2>1 DEF HInv, HeldFirst
  <2>4. held # Nothing => piHead'[iIndexHead] = piHead[iIndexHead]
    BY <1>1, <1>2, <1>5, <1>6, <1>9, <2>3 DEF ContinueFrame, IInv, TypeOK
  <2> QED
    BY <1>1, <1>3, <1>5, <1>9, <2>1, <2>2, <2>3, <2>4, FirstFrameKept
<1>10. ASSUME NEW n \in Lengths, SplitFrame(n) PROVE HInv'
  <2>1. /\ held' = held /\ iIndexHead' = iIndexHead /\ bytes' = bytes
        /\ iIndexTail' = NextFrame(iIndexTail) /\ ~IsIndexFull /\ ~IsEmpty
    BY <1>10 DEF SplitFrame
  <2>2. NumFrames' = NumFrames + 1 /\ NumFrames # 0
    BY <1>1, <2>1, Grow, Ring DEF IInv
  <2>3. piHead'[iIndexHead] = piHead[iIndexHead]
    BY <1>1, <1>2, <1>7, <1>10, <2>1 DEF SplitFrame, IInv, TypeOK
  <2> QED
    BY <1>2, <1>3, <2>1, <2>2, <2>3
<1>11. ASSUME NEW n \in Lengths, LastFrameAdvance(n) PROVE HInv'
  <2>1. /\ held' = held /\ index' = index /\ bytes' = bytes
        /\ open /\ open' = open /\ ~IsHeld
    BY <1>11 DEF LastFrameAdvance
  <2>2. iIndexHead' = iIndexHead /\ NumFrames' = NumFrames
    BY <2>1 DEF index, NumFrames
  <2>3. held # Nothing => NumFrames >= 2
    BY <2>1 DEF HInv, HeldFirst
  <2>4. held # Nothing => piHead'[iIndexHead] = piHead[iIndexHead]
    BY <1>1, <1>2, <1>5, <1>6, <1>11, <2>3 DEF LastFrameAdvance, IInv, TypeOK
  <2> QED
    BY <1>3, <2>1, <2>2, <2>3, <2>4
<1>12. ASSUME NEW recede \in BOOLEAN, ThrowLastFrame(recede) PROVE HInv'
  <2>1. /\ held' = held /\ iIndexHead' = iIndexHead /\ bytes' = bytes
        /\ piHead' = piHead /\ open /\ open' = ~recede
        /\ iIndexTail' = IF recede /\ ~IsEmpty THEN LastFrameNo ELSE iIndexTail
    BY <1>12 DEF ThrowLastFrame
  <2>2. ~recede => NumFrames' = NumFrames
    BY <2>1 DEF NumFrames
  <2>3. held # Nothing => NumFrames >= 2
    BY <2>1 DEF HInv, HeldFirst
  <2> QED
    BY <1>3, <2>1, <2>2, <2>3
<1>13. ASSUME NEW n \in Lengths, FirstFrameAdvance(n) PROVE HInv'
  BY <1>4, <1>13 DEF FirstFrameAdvance
<1>14. CASE GetFrame
  <2> DEFINE h == piHead[iIndexHead]
             k == FirstFrameLength
  <2>1. /\ held' = [pos |-> h, data |-> Read(bytes, h, k)]
        /\ bytes' = bytes /\ piHead' = piHead
        /\ iIndexHead' = iIndexHead /\ iIndexTail' = iIndexTail
        /\ NumFrames >= 2
    BY <1>14 DEF GetFrame, ranges, index
  <2>2. HeldFirst'
    BY <2>1 DEF HeldFirst, NumFrames
  <2>3. k \in Nat
    BY <1>1, FirstLength
  <2> HIDE DEF h, k
  <2>4. Len(Read(bytes, h, k)) = k
    BY <2>3 DEF Read
  <2>5. \A i \in 1 .. k : Read(bytes, h, k)[i] = bytes[h + i - 1]
    BY DEF Read
  <2>6. HeldFrameIntact'
    BY <2>1, <2>4, <2>5 DEF HeldFrameIntact
  <2> QED
    BY <1>1, <2>2, <2>6 DEF HInv
<1>15. CASE AdvanceFrame
  BY <1>4, <1>15 DEF AdvanceFrame
<1>16. CASE DeInit
  BY <1>4, <1>16 DEF DeInit
<1>17. CASE UNCHANGED vars
  BY <1>1, <1>17 DEF vars, ranges, index, HInv, HeldFirst, HeldFrameIntact, NumFrames
<1> QED
  BY <1>8, <1>9, <1>10, <1>11, <1>12, <1>13, <1>14, <1>15, <1>16, <1>17 DEF Next

\* A decoder that leaves the last frame to the parser finds its frame where it
\* was and as it was until it advances, whatever the parser does meanwhile.
THEOREM SpecHeldFrameIntact ==
    ASSUME WaitForNext PROVE Spec => []HeldFrameIntact
<1>1. Init => HInv
  BY InitIInv DEF HInv, Init, HeldFirst, HeldFrameIntact, Nothing
<1>2. HInv /\ [Next]_vars => HInv'
  BY NextHInv
<1>3. HInv => HeldFrameIntact
  BY DEF HInv
<1> QED
  BY <1>1, <1>2, <1>3, PTL DEF Spec

----------------------------------------------------------------------------
(* The buffer implements the queue of frames, if the decoder leaves the    *)
(* last frame to the parser: each operation is one of the queue or leaves  *)
(* it alone.                                                               *)

\* A parser that still works on a frame has one.
OpenHasFrame == open => ~IsEmpty

QInv == HInv /\ OpenHasFrame

\* Changes of a sequence, element by element.
LEMMA Appends ==
    ASSUME NEW S, NEW s \in Seq(S), NEW t \in Seq(S), Len(t) = Len(s) + 1,
           \A i \in 1 .. Len(s) : t[i] = s[i]
    PROVE  t = Append(s, t[Len(s) + 1])
  OBVIOUS

LEMMA IsFront ==
    ASSUME NEW S, NEW s \in Seq(S), NEW t \in Seq(S), Len(t) = Len(s) - 1,
           \A i \in 1 .. Len(t) : t[i] = s[i]
    PROVE  t = SubSeq(s, 1, Len(s) - 1)
  OBVIOUS

LEMMA IsTail ==
    ASSUME NEW S, NEW s \in Seq(S), NEW t \in Seq(S), Len(t) = Len(s) - 1,
           \A i \in 1 .. Len(t) : t[i] = s[i + 1]
    PROVE  t = Tail(s)
  OBVIOUS

LEMMA ChangesLast ==
    ASSUME NEW S, NEW s \in Seq(S), NEW t \in Seq(S), Len(t) = Len(s), s # << >>,
           \A i \in 1 .. Len(s) - 1 : t[i] = s[i]
    PROVE  t = Append(SubSeq(s, 1, Len(s) - 1), t[Len(s)])
<1>1. Len(s) \in Nat /\ Len(s) >= 1
  OBVIOUS
<1> QED
  BY <1>1

LEMMA SplitsLast ==
    ASSUME NEW S, NEW s \in Seq(S), NEW t \in Seq(S), Len(t) = Len(s) + 1, s # << >>,
           \A i \in 1 .. Len(s) - 1 : t[i] = s[i]
    PROVE  t = Append(Append(SubSeq(s, 1, Len(s) - 1), t[Len(s)]), t[Len(s) + 1])
<1>1. Len(s) \in Nat /\ Len(s) >= 1
  OBVIOUS
<1> QED
  BY <1>1

LEMMA ChangesHead ==
    ASSUME NEW S, NEW s \in Seq(S), NEW t \in Seq(S), Len(t) = Len(s), s # << >>,
           \A i \in 2 .. Len(s) : t[i] = s[i]
    PROVE  t = <<t[1]>> \o Tail(s)
<1>1. Len(s) \in Nat /\ Len(s) >= 1
  OBVIOUS
<1>2. t[1] \in S
  BY <1>1
<1> QED
  BY <1>1, <1>2

LEMMA Concatenates ==
    ASSUME NEW S, NEW s \in Seq(S), NEW t \in Seq(S), NEW u \in Seq(S),
           Len(u) = Len(s) + Len(t),
           \A i \in 1 .. Len(s) + Len(t) :
              u[i] = IF i <= Len(s) THEN s[i] ELSE t[i - Len(s)]
    PROVE  u = s \o t
<1> DEFINE v == s \o t
<1>1. /\ v \in Seq(S) /\ Len(v) = Len(s) + Len(t)
      /\ \A i \in 1 .. Len(s) + Len(t) :
            v[i] = IF i <= Len(s) THEN s[i] ELSE t[i - Len(s)]
  OBVIOUS
<1> HIDE DEF v
<1>2. \A i \in 1 .. Len(u) : u[i] = v[i]
  BY <1>1
<1>3. u = v
  BY <1>1, <1>2
<1> QED
  BY <1>3 DEF v

\* The bytes of a frame.
Data(f) == Read(bytes, piHead[f], piTail[f] - piHead[f])

LEMMA DataIs ==
    ASSUME IInv, NEW f \in Frames, Used(f)
    PROVE  /\ Data(f) \in Seq(Int) /\ Len(Data(f)) = piTail[f] - piHead[f]
           /\ piTail[f] - piHead[f] \in Nat /\ piHead[f] \in Nat
           /\ \A i \in 1 .. piTail[f] - piHead[f] :
                 Data(f)[i] = bytes[piHead[f] + i - 1]
<1>1. /\ piHead[f] \in Nat /\ piTail[f] \in Nat
      /\ piHead[f] <= piTail[f] /\ Area(f) \subseteq Slots
  BY UsedApart, EsAssumption DEF IInv, TypeOK
<1> DEFINE n == piTail[f] - piHead[f]
<1>2. \A i \in 1 .. n : piHead[f] + i - 1 \in Slots
  BY <1>1 DEF Area
<1>3. n \in Nat
  BY <1>1
<1>4. Data(f) = [i \in 1 .. n |-> bytes[piHead[f] + i - 1]]
  BY DEF Data, Read
<1>5. \A i \in 1 .. n : bytes[piHead[f] + i - 1] \in Int
  BY <1>2 DEF IInv, TypeOK
<1> HIDE DEF n
<1>6. Data(f) \in Seq(Int) /\ Len(Data(f)) = n
  BY <1>3, <1>4, <1>5
<1> QED
  BY <1>1, <1>3, <1>4, <1>6 DEF n

LEMMA ContentsAre ==
    ASSUME IInv
    PROVE  /\ Contents \in Seq(Seq(Int)) /\ Len(Contents) = NumFrames
           /\ NumFrames \in Nat /\ NumFrames < MaxFrames
           /\ \A i \in 1 .. NumFrames : Contents[i] = Data(Frame(i))
<1>1. NumFrames \in Nat /\ NumFrames < MaxFrames /\ MaxFrames \in Nat
  BY Ring, EsAssumption DEF IInv
<1>2. ASSUME NEW i \in 1 .. NumFrames PROVE Data(Frame(i)) \in Seq(Int)
  <2>1. i \in 1 .. MaxFrames /\ i <= NumFrames
    BY <1>1
  <2>2. Frame(i) \in Frames /\ Used(Frame(i))
    BY <2>1, FrameAt DEF IInv
  <2> QED
    BY <2>2, DataIs
<1>3. Contents = [i \in 1 .. NumFrames |-> Data(Frame(i))]
  BY DEF Contents, Data
<1> QED
  BY <1>1, <1>2, <1>3

\* A frame whose range and bytes stay has the same data.
LEMMA DataStays ==
    ASSUME NEW f, piHead'[f] = piHead[f], piTail'[f] = piTail[f],
           \A s \in Area(f) : bytes'[s] = bytes[s],
           piHead[f] \in Nat, piTail[f] \in Nat
    PROVE  Data(f)' = Data(f)
<1>1. \A i \in 1 .. piTail[f] - piHead[f] : piHead[f] + i - 1 \in Area(f)
  BY DEF Area
<1> QED
  BY <1>1 DEF Data, Read

\* The same after a step.
LEMMA ApartNext ==
    ASSUME IInv'
    PROVE  (/\ \A f \in Frames : Used(f) => piHead[f] <= piTail[f] /\ Area(f) \subseteq Slots
            /\ \A f, g \in Frames : Used(f) /\ Used(g) /\ f # g => Area(f) \cap Area(g) = {})'
  BY UsedApart, PTL

LEMMA EmptyIs ==
    ASSUME IInv
    PROVE  IsEmpty <=> NumFrames = 0
  BY Ring DEF IInv

LEMMA EmptyNext ==
    ASSUME IInv'
    PROVE  (IsEmpty <=> NumFrames = 0)'
  BY EmptyIs, PTL

LEMMA FramesOf ==
    ASSUME IInv
    PROVE  \A i \in 1 .. MaxFrames : /\ Frame(i) \in Frames /\ Pos(Frame(i)) = i - 1
                                     /\ Used(Frame(i)) <=> i <= NumFrames
  BY FrameAt DEF IInv

LEMMA ContentsNext ==
    ASSUME IInv'
    PROVE  (/\ Contents \in Seq(Seq(Int)) /\ Len(Contents) = NumFrames
            /\ NumFrames \in Nat /\ NumFrames < MaxFrames
            /\ \A i \in 1 .. NumFrames : Contents[i] = Data(Frame(i)))'
  BY ContentsAre, PTL

LEMMA DataAll ==
    ASSUME IInv
    PROVE  \A f \in Frames : Used(f) => /\ Data(f) \in Seq(Int)
                                       /\ Len(Data(f)) = piTail[f] - piHead[f]
  BY DataIs

LEMMA DataNext ==
    ASSUME IInv'
    PROVE  (\A f \in Frames : Used(f) => /\ Data(f) \in Seq(Int)
                                        /\ Len(Data(f)) = piTail[f] - piHead[f])'
  BY DataAll, PTL

LEMMA FramesNext ==
    ASSUME IInv'
    PROVE  (\A i \in 1 .. MaxFrames : /\ Frame(i) \in Frames /\ Pos(Frame(i)) = i - 1
                                      /\ Used(Frame(i)) <=> i <= NumFrames)'
  BY FramesOf, PTL

\* What the parser leaves alone: every frame but one keeps its bytes, if only
\* the range of that one is written to.
LEMMA OthersStay ==
    ASSUME IInv, IInv', NEW g \in Frames, Used(g)',
           \A f \in Frames : f # g => piHead'[f] = piHead[f] /\ piTail'[f] = piTail[f],
           \A s \in Slots : s \notin Area(g)' => bytes'[s] = bytes[s]
    PROVE  \A f \in Frames : Used(f) /\ Used(f)' /\ f # g => Data(f)' = Data(f)
<1> SUFFICES ASSUME NEW f \in Frames, Used(f), Used(f)', f # g
             PROVE  Data(f)' = Data(f)
  OBVIOUS
<1>1. piHead'[f] = piHead[f] /\ piTail'[f] = piTail[f]
  OBVIOUS
<1>2. Area(f)' = Area(f) /\ Area(f) \subseteq Slots
  BY <1>1, UsedApart DEF Area
<1>4. Area(f)' \cap Area(g)' = {}
  BY ApartNext
<1>5. \A s \in Area(f) : bytes'[s] = bytes[s]
  BY <1>2, <1>4
<1>6. piHead[f] \in Nat /\ piTail[f] \in Nat
  BY EsAssumption DEF IInv, TypeOK
<1> QED
  BY <1>1, <1>5, <1>6, DataStays

\* The contents before and after a step that leaves the first frame in place.
LEMMA ContentsStep ==
    ASSUME IInv, IInv', iIndexHead' = iIndexHead
    PROVE  /\ Contents \in Seq(Seq(Int)) /\ Len(Contents) = NumFrames
           /\ Contents' \in Seq(Seq(Int)) /\ Len(Contents') = NumFrames'
           /\ NumFrames \in Nat /\ NumFrames' \in Nat
           /\ \A i \in 1 .. NumFrames, f \in Frames : f = Frame(i) => Contents[i] = Data(f)
           /\ \A i \in 1 .. NumFrames', f \in Frames : f = Frame(i) => Contents'[i] = Data(f)'
           /\ \A i \in 1 .. NumFrames : Frame(i) \in Frames /\ Used(Frame(i))
           /\ \A i \in 1 .. NumFrames' : Frame(i) \in Frames
           /\ \A i, j \in 1 .. MaxFrames : Frame(i) = Frame(j) => i = j
<1>1. /\ Contents' \in Seq(Seq(Int)) /\ Len(Contents') = NumFrames'
      /\ NumFrames' \in Nat /\ NumFrames' < MaxFrames
      /\ (\A i \in 1 .. NumFrames : Contents[i] = Data(Frame(i)))'
  BY ContentsNext
<1>2. \A i : Frame(i)' = Frame(i)
  BY DEF Frame
<1>3. ASSUME NEW i \in 1 .. NumFrames', NEW f \in Frames, f = Frame(i)
      PROVE  Contents'[i] = Data(f)'
  <2>1. Contents'[i] = Read(bytes', piHead'[f], piTail'[f] - piHead'[f])
    BY <1>1, <1>2, <1>3 DEF Data
  <2> QED
    BY <2>1 DEF Data
<1>4. MaxFrames \in Nat
  BY EsAssumption
<1>5. \A i \in 1 .. MaxFrames : /\ Frame(i) \in Frames /\ Pos(Frame(i)) = i - 1
                                /\ Used(Frame(i)) <=> i <= NumFrames
  BY FrameAt DEF IInv
<1>6. \A i, j \in 1 .. MaxFrames : Frame(i) = Frame(j) => i = j
  BY <1>4, <1>5
<1> QED
  BY <1>1, <1>3, <1>4, <1>5, <1>6, ContentsAre

\* A new frame is put behind the others.
LEMMA StartMaps ==
    ASSUME IInv, IInv', NEW n \in Lengths, StartFrame(n)
    PROVE  Queue!Start(n)
<1>1. /\ iIndexHead' = iIndexHead /\ ~IsIndexFull
      /\ iIndexTail' = NextFrame(iIndexTail) /\ nIn' = nIn + n
  BY DEF StartFrame, Appended
<1>2. PICK g \in Frames : g = iIndexTail
  BY DEF IInv, TypeOK
<1>3. /\ NumFrames' = NumFrames + 1 /\ NumFrames \in Nat
      /\ \A f \in Frames : Used(f)' <=> Used(f) \/ f = g
      /\ ~Used(g)
  <2>1. NumFrames \in Nat /\ Pos(g) = NumFrames
    BY <1>2, Ring, Places, EsAssumption DEF IInv
  <2> QED
    BY <1>1, <1>2, <2>1, Grow DEF IInv, Used
<1>4. PICK pos : /\ bytes' = Store(bytes, pos, n)
                 /\ piTail' = [piTail EXCEPT ![g] = pos + n]
                 /\ piHead' = [piHead EXCEPT ![g] = pos]
  BY <1>2 DEF StartFrame
<1>5. /\ piHead'[g] = pos /\ piTail'[g] = pos + n
      /\ \A f \in Frames : f # g => piHead'[f] = piHead[f] /\ piTail'[f] = piTail[f]
  BY <1>4 DEF IInv, TypeOK
<1>6. pos \in Nat /\ n \in Nat /\ pos + n <= Size
  <2>1. piHead'[g] \in 0 .. Size /\ piTail'[g] \in 0 .. Size
    BY DEF IInv, TypeOK
  <2> QED
    BY <1>5, <2>1, EsAssumption DEF Lengths
<1>7. Area(g)' = pos .. pos + n - 1
  <2>1. Area(g)' = piHead'[g] .. piTail'[g] - 1
    BY DEF Area
  <2> QED
    BY <1>5, <1>6, <2>1
<1>8. \A f \in Frames : Used(f) => Data(f)' = Data(f)
  <2>1. \A s \in Slots : s \notin Area(g)' => bytes'[s] = bytes[s]
    BY <1>4, <1>7 DEF Store
  <2> QED
    BY <1>3, <1>5, <2>1, OthersStay
<1>9. Data(g)' = Queue!Bytes(n)
  <2>1. Data(g)' = [i \in 1 .. n |-> bytes'[pos + i - 1]]
    <3>1. piTail'[g] - piHead'[g] = n
      BY <1>5, <1>6
    <3> QED
      BY <1>5, <3>1 DEF Data, Read
  <2>2. ASSUME NEW i \in 1 .. n PROVE bytes'[pos + i - 1] = nIn + i - 1
    <3>1. /\ pos + i - 1 \in Slots /\ pos + i - 1 \in pos .. pos + n - 1
          /\ nIn + (pos + i - 1) - pos = nIn + i - 1
      BY <1>6, EsAssumption DEF Slots, IInv, TypeOK
    <3> QED
      BY <1>4, <3>1 DEF Store
  <2> QED
    BY <2>1, <2>2 DEF Queue!Bytes
<1>10. /\ Contents \in Seq(Seq(Int)) /\ Len(Contents) = NumFrames
       /\ Contents' \in Seq(Seq(Int)) /\ Len(Contents') = NumFrames'
       /\ \A i \in 1 .. NumFrames : Contents'[i] = Contents[i]
       /\ Contents'[NumFrames + 1] = Queue!Bytes(n)
  <2>1. \A i \in 1 .. NumFrames : i \in 1 .. NumFrames'
    BY <1>3
  <2>2. NumFrames + 1 \in 1 .. NumFrames' /\ Frame(NumFrames + 1) = g
    BY <1>2, <1>3, FrameAt DEF IInv
  <2> QED
    BY <1>1, <1>8, <1>9, <2>1, <2>2, ContentsStep
<1>11. Contents' = Append(Contents, Queue!Bytes(n))
  BY <1>3, <1>10, Appends
<1>12. Len(Contents) < MaxFrames - 1
  BY <1>1, <1>3, <1>10, Ring, EsAssumption DEF IInv
<1> QED
  BY <1>1, <1>11, <1>12 DEF Queue!Start

\* A step that changes the last frame only.
LEMMA LastStep ==
    ASSUME IInv, IInv', ~IsEmpty, UNCHANGED index,
           NEW g \in Frames, g = LastFrameNo,
           \A f \in Frames : Used(f) /\ f # g => Data(f)' = Data(f)
    PROVE  /\ Contents # << >>
           /\ Queue!Last(Contents) = Data(g)
           /\ Contents' = Queue!WithLast(Data(g)')
<1>1. NumFrames' = NumFrames /\ iIndexHead' = iIndexHead
  BY DEF index, NumFrames
<1>2. NumFrames \in Nat /\ NumFrames >= 1 /\ NumFrames < MaxFrames
  BY Ring, EsAssumption DEF IInv
<1>3. Frame(NumFrames) = g /\ MaxFrames \in Nat
  BY FrameAt, EsAssumption DEF IInv
<1>4. /\ Contents \in Seq(Seq(Int)) /\ Len(Contents) = NumFrames
      /\ Contents' \in Seq(Seq(Int)) /\ Len(Contents') = NumFrames
      /\ Contents[NumFrames] = Data(g) /\ Contents'[NumFrames] = Data(g)'
      /\ \A i \in 1 .. NumFrames - 1 : Contents'[i] = Contents[i]
  <2>1. ASSUME NEW i \in 1 .. NumFrames - 1 PROVE Contents'[i] = Contents[i]
    <3>1. /\ i \in 1 .. NumFrames /\ i \in 1 .. MaxFrames /\ i # NumFrames
          /\ NumFrames \in 1 .. MaxFrames
      BY <1>2, <1>3
    <3>2. PICK f \in Frames : f = Frame(i) /\ Used(f)
      BY <1>1, <3>1, ContentsStep
    <3>3. f # g
      BY <1>1, <1>3, <3>1, <3>2, ContentsStep
    <3> QED
      BY <1>1, <3>1, <3>2, <3>3, ContentsStep
  <2> QED
    BY <1>1, <1>2, <1>3, <2>1, ContentsStep
<1>5. Contents # << >>
  BY <1>2, <1>4
<1>6. Contents' = Append(SubSeq(Contents, 1, NumFrames - 1), Data(g)')
  BY <1>4, <1>5, ChangesLast
<1> QED
  BY <1>4, <1>5, <1>6 DEF Queue!WithLast, Queue!Front, Queue!Last

\* The last frame goes on behind itself, or is moved to the front and goes on
\* there.
LEMMA ContinueMaps ==
    ASSUME QInv, IInv', NEW n \in Lengths, ContinueFrame(n)
    PROVE  Queue!Continue(n)
<1>1. IInv /\ ~IsEmpty /\ UNCHANGED index /\ nIn' = nIn + n
  BY DEF QInv, HInv, OpenHasFrame, ContinueFrame, Appended
<1>2. PICK g \in Frames : g = LastFrameNo /\ Used(g)
  BY <1>1, Last
<1>3. /\ NumFrames' = NumFrames /\ \A f : Pos(f)' = Pos(f)
      /\ \A f \in Frames : Used(f)' <=> Used(f)
  BY <1>1 DEF index, NumFrames, Used, Pos
<1> DEFINE k == LastFrameLength
<1>4. /\ k = piTail[g] - piHead[g] /\ k \in Nat
      /\ piHead[g] \in Nat /\ piTail[g] \in Nat /\ n \in Nat /\ nIn \in Nat
      /\ piTail[g] <= Size /\ Size \in Nat
      /\ Len(Data(g)) = k /\ Data(g) \in Seq(Int)
      /\ \A i \in 1 .. k : Data(g)[i] = bytes[piHead[g] + i - 1]
  <2>1. k = piTail[g] - piHead[g]
    BY <1>1, <1>2 DEF LastFrameLength
  <2> HIDE DEF k
  <2>2. /\ piHead[g] \in Nat /\ piTail[g] \in Nat /\ n \in Nat /\ nIn \in Nat
        /\ piTail[g] <= Size /\ Size \in Nat
    BY <1>1, EsAssumption DEF IInv, TypeOK, Lengths
  <2> QED
    BY <1>1, <1>2, <2>1, <2>2, DataIs
\* Where the frame begins afterwards, and the area with the frame there.
<1> DEFINE Goes(a, b) ==
        /\ piTail' = [piTail EXCEPT ![g] = a + k + n]
        /\ piHead'[g] = a
        /\ \A f \in Frames : f # g => piHead'[f] = piHead[f]
        /\ bytes' = Store(b, a + k, n)
        /\ a \in Nat
        /\ \A i \in 1 .. k : b[a + i - 1] = bytes[piHead[g] + i - 1]
        /\ \A s \in Slots : s >= a + k => b[s] = bytes[s]
        /\ \A s \in Slots : s < a => b[s] = bytes[s]
<1>5. \E a, b : Goes(a, b)
  <2>1. piHead' = IF Moves(n) THEN [piHead EXCEPT ![g] = 0] ELSE piHead
    BY <1>2 DEF ContinueFrame
  <2>2. \A f \in Frames : f # g => piHead'[f] = piHead[f]
    BY <2>1
  <2>3. CASE Moves(n)
    <3>1. bytes' = Store(MoveToFront, k, n) /\ piTail' = [piTail EXCEPT ![g] = k + n]
      BY <1>1, <1>2, <2>3 DEF ContinueFrame
    <3>2. piHead'[g] = 0
      BY <1>1, <2>1, <2>3 DEF IInv, TypeOK
    <3> HIDE DEF k
    <3>3. \A i \in 1 .. k : MoveToFront[0 + i - 1] = bytes[piHead[g] + i - 1]
      <4> SUFFICES ASSUME NEW i \in 1 .. k
                   PROVE  MoveToFront[0 + i - 1] = bytes[piHead[g] + i - 1]
        OBVIOUS
      <4>1. /\ 0 + i - 1 \in Slots /\ 0 + i - 1 < k
            /\ piHead[g] + (0 + i - 1) = piHead[g] + i - 1
        BY <1>4 DEF Slots
      <4> QED
        BY <1>2, <4>1 DEF MoveToFront, k
    <3>4. \A s \in Slots : s >= 0 + k => MoveToFront[s] = bytes[s]
      BY <1>4 DEF MoveToFront, Slots, k
    <3>5. \A s \in Slots : s < 0 => MoveToFront[s] = bytes[s]
      BY <1>4 DEF Slots
    <3>6. bytes' = Store(MoveToFront, 0 + k, n) /\ piTail' = [piTail EXCEPT ![g] = 0 + k + n]
      <4>1. 0 + k = k
        BY <1>4
      <4> QED
        BY <3>1, <4>1
    <3>7. 0 \in Nat
      OBVIOUS
    <3>8. Goes(0, MoveToFront)
      BY <2>2, <3>2, <3>3, <3>4, <3>5, <3>6, <3>7
    <3> HIDE DEF Goes
    <3> QED
      BY <3>8
  <2>4. CASE ~Moves(n)
    <3>1. bytes' = Store(bytes, piTail[g], n) /\ piTail' = [piTail EXCEPT ![g] = piTail[g] + n]
      BY <1>1, <1>2, <2>4 DEF ContinueFrame
    <3>2. piHead'[g] = piHead[g]
      BY <2>1, <2>4
    <3> HIDE DEF k
    <3>3. piHead[g] + k = piTail[g]
      BY <1>4
    <3>4. Goes(piHead[g], bytes)
      BY <1>4, <2>2, <3>1, <3>2, <3>3
    <3> HIDE DEF Goes
    <3> QED
      BY <3>4
  <2> QED
    BY <2>3, <2>4
<1> HIDE DEF k, Goes
<1>p. PICK a, b : Goes(a, b)
  BY <1>5
<1>q. /\ piTail' = [piTail EXCEPT ![g] = a + k + n]
      /\ piHead'[g] = a
      /\ \A f \in Frames : f # g => piHead'[f] = piHead[f]
      /\ bytes' = Store(b, a + k, n)
      /\ a \in Nat
      /\ \A i \in 1 .. k : b[a + i - 1] = bytes[piHead[g] + i - 1]
      /\ \A s \in Slots : s >= a + k => b[s] = bytes[s]
      /\ \A s \in Slots : s < a => b[s] = bytes[s]
  BY <1>p DEF Goes
<1>6. /\ piTail'[g] = a + k + n
      /\ \A f \in Frames : f # g => piHead'[f] = piHead[f] /\ piTail'[f] = piTail[f]
  BY <1>1, <1>q DEF IInv, TypeOK
<1>7. /\ a \in Nat /\ k \in Nat /\ n \in Nat /\ nIn \in Nat
      /\ Size \in Nat /\ a + k + n <= Size
  <2>1. piTail'[g] \in 0 .. Size
    BY DEF IInv, TypeOK
  <2> QED
    BY <1>4, <1>q, <1>6, <2>1
<1>8. \A f \in Frames : Used(f) /\ f # g => Data(f)' = Data(f)
  <2>1. Area(g)' = piHead'[g] .. piTail'[g] - 1
    BY DEF Area
  <2>2. Area(g)' = a .. a + k + n - 1
    BY <1>4, <1>q, <1>6, <2>1
  <2>3. ASSUME NEW s \in Slots, s \notin Area(g)' PROVE bytes'[s] = bytes[s]
    <3>1. s \in Nat /\ (s < a \/ s >= a + k + n)
      BY <1>4, <1>q, <2>2, <2>3 DEF Slots
    <3>2. s \notin a + k .. a + k + n - 1 /\ (s < a \/ s >= a + k)
      BY <1>4, <1>q, <3>1
    <3> QED
      BY <1>q, <3>2 DEF Store
  <2> QED
    BY <1>1, <1>2, <1>3, <1>6, <2>3, OthersStay
<1>9. Data(g)' = Data(g) \o Queue!Bytes(n)
  <2>1. Data(g)' = [i \in 1 .. k + n |-> bytes'[a + i - 1]]
    <3>1. piTail'[g] - piHead'[g] = k + n
      BY <1>4, <1>q, <1>6
    <3> QED
      BY <1>q, <3>1 DEF Data, Read
  <2>2. ASSUME NEW i \in 1 .. k PROVE bytes'[a + i - 1] = Data(g)[i]
    <3>1. a + i - 1 \in Slots /\ a + i - 1 \notin a + k .. a + k + n - 1
      BY <1>7 DEF Slots
    <3>2. bytes'[a + i - 1] = b[a + i - 1]
      BY <1>q, <3>1 DEF Store
    <3> QED
      BY <1>4, <1>q, <3>2
  <2>6. ASSUME NEW i \in k + 1 .. k + n PROVE bytes'[a + i - 1] = nIn + (i - k) - 1
    <3>1. /\ a + i - 1 \in Slots /\ a + i - 1 \in a + k .. a + k + n - 1
          /\ nIn + (a + i - 1) - (a + k) = nIn + (i - k) - 1
      BY <1>7 DEF Slots
    <3> QED
      BY <1>q, <3>1 DEF Store
  <2>3. /\ Queue!Bytes(n) \in Seq(Int) /\ Len(Queue!Bytes(n)) = n
        /\ \A i \in 1 .. n : Queue!Bytes(n)[i] = nIn + i - 1
    BY <1>4 DEF Queue!Bytes
  <2>4. Data(g)' \in Seq(Int) /\ Len(Data(g)') = k + n
    <3>1. Data(g)' \in Seq(Int) /\ Len(Data(g)') = piTail'[g] - piHead'[g]
      BY <1>2, <1>3, DataNext
    <3>2. piTail'[g] - piHead'[g] = k + n
      BY <1>q, <1>6, <1>7
    <3> QED
      BY <3>1, <3>2
  <2>5. \A i \in 1 .. k + n :
           Data(g)'[i] = IF i <= k THEN Data(g)[i] ELSE Queue!Bytes(n)[i - k]
    <3> SUFFICES ASSUME NEW i \in 1 .. k + n
                 PROVE  Data(g)'[i] = IF i <= k THEN Data(g)[i] ELSE Queue!Bytes(n)[i - k]
      OBVIOUS
    <3>1. Data(g)'[i] = bytes'[a + i - 1]
      BY <2>1
    <3>2. CASE i <= k
      BY <1>7, <2>2, <3>1, <3>2
    <3>3. CASE i > k
      <4>1. i - k \in 1 .. n /\ i \in k + 1 .. k + n
        BY <1>7, <3>3
      <4>2. bytes'[a + i - 1] = nIn + (i - k) - 1
        BY <2>6, <4>1
      <4>3. Queue!Bytes(n)[i - k] = nIn + (i - k) - 1
        BY <2>3, <4>1
      <4>4. Data(g)'[i] = Queue!Bytes(n)[i - k]
        BY <3>1, <4>2, <4>3
      <4> QED
        BY <1>7, <3>3, <4>4
    <3> QED
      BY <1>7, <3>2, <3>3
  <2> DEFINE d == Data(g)
             m == Queue!Bytes(n)
  <2>7. PICK e : e = Data(g)'
    OBVIOUS
  <2>8. /\ d \in Seq(Int) /\ m \in Seq(Int) /\ e \in Seq(Int)
        /\ Len(e) = Len(d) + Len(m) /\ Len(d) = k /\ Len(m) = n
    BY <1>4, <2>3, <2>4, <2>7
  <2>9. \A i \in 1 .. k + n : e[i] = IF i <= k THEN d[i] ELSE m[i - k]
    BY <2>5, <2>7
  <2> HIDE DEF d, m
  <2>10. e = d \o m
    BY <2>8, <2>9, Concatenates
  <2> QED
    BY <2>7, <2>10 DEF d, m
<1>10. /\ Contents # << >> /\ Queue!Last(Contents) = Data(g)
       /\ Contents' = Queue!WithLast(Data(g)')
  BY <1>1, <1>2, <1>8, LastStep
<1> QED
  BY <1>1, <1>9, <1>10 DEF Queue!Continue

\* A frame cut in two.
LEMMA Pieces ==
    ASSUME NEW b, NEW p \in Nat, NEW n \in Nat, NEW m \in 0 .. n,
           Read(b, p, n) \in Seq(Int), Len(Read(b, p, n)) = n
    PROVE  /\ Read(b, p, m) = SubSeq(Read(b, p, n), 1, m)
           /\ Read(b, p + m, n - m) = Queue!DropBytes(Read(b, p, n), m)
<1>1. m \in Nat /\ m <= n
  OBVIOUS
<1> DEFINE r == Read(b, p, n)
<1>2. \A i \in 1 .. n : r[i] = b[p + i - 1]
  BY DEF Read
<1>3. Read(b, p, m) = SubSeq(r, 1, m)
  <2>1. Read(b, p, m) = [i \in 1 .. m |-> r[i]]
    BY <1>1, <1>2 DEF Read
  <2> HIDE DEF r
  <2> QED
    BY <1>1, <2>1
<1>4. Read(b, p + m, n - m) = SubSeq(r, m + 1, n)
  <2>1. \A i \in 1 .. n - m : m + i \in 1 .. n /\ (p + m) + i - 1 = p + (m + i) - 1
    BY <1>1
  <2>2. Read(b, p + m, n - m) = [i \in 1 .. n - m |-> r[m + i]]
    BY <1>1, <1>2, <2>1 DEF Read
  <2>3. r \in Seq(Int) /\ Len(r) = n
    OBVIOUS
  <2> HIDE DEF r
  <2> QED
    BY <1>1, <2>2, <2>3
<1> QED
  BY <1>3, <1>4 DEF Queue!DropBytes

LEMMA DataPieces ==
    ASSUME IInv, NEW g \in Frames, Used(g), NEW m \in 0 .. piTail[g] - piHead[g]
    PROVE  /\ Read(bytes, piHead[g], m) = SubSeq(Data(g), 1, m)
           /\ Read(bytes, piHead[g] + m, piTail[g] - (piHead[g] + m))
                = Queue!DropBytes(Data(g), m)
<1>1. PICK p, n : p = piHead[g] /\ n = piTail[g] - piHead[g]
  OBVIOUS
<1>2. /\ p \in Nat /\ n \in Nat /\ m \in 0 .. n
      /\ Data(g) = Read(bytes, p, n)
      /\ Data(g) \in Seq(Int) /\ Len(Data(g)) = n
  BY <1>1, DataIs DEF Data
<1>3. /\ Read(bytes, p, m) = SubSeq(Data(g), 1, m)
      /\ Read(bytes, p + m, n - m) = Queue!DropBytes(Data(g), m)
  <2>1. Read(bytes, p, n) \in Seq(Int) /\ Len(Read(bytes, p, n)) = n
    BY <1>2
  <2>2. p \in Nat /\ n \in Nat /\ m \in 0 .. n
    BY <1>2
  <2>3. /\ Read(bytes, p, m) = SubSeq(Read(bytes, p, n), 1, m)
        /\ Read(bytes, p + m, n - m) = Queue!DropBytes(Read(bytes, p, n), m)
    BY <2>1, <2>2, Pieces
  <2> QED
    BY <1>2, <2>3
<1>4. n - m = piTail[g] - (piHead[g] + m)
  BY <1>1, <1>2, EsAssumption DEF IInv, TypeOK
<1> QED
  BY <1>1, <1>3, <1>4

\* The last frame is cut at its start,
LEMMA CutMaps ==
    ASSUME QInv, IInv', NEW n \in Lengths, LastFrameAdvance(n)
    PROVE  /\ Contents # << >> /\ n \in 0 .. Len(Queue!Last(Contents))
           /\ Queue!CutLast(n)
<1>1. IInv /\ ~IsEmpty /\ UNCHANGED <<index, bytes, nIn, piTail>>
  BY DEF QInv, HInv, OpenHasFrame, LastFrameAdvance
<1>2. PICK g \in Frames : g = LastFrameNo /\ Used(g)
  BY <1>1, Last
<1>3. piHead' = [piHead EXCEPT ![g] = piHead[g] + n] /\ n <= piTail[g] - piHead[g]
  BY <1>1, <1>2 DEF LastFrameAdvance, LastFrameLength
<1>4. /\ piHead'[g] = piHead[g] + n
      /\ \A f \in Frames : f # g => piHead'[f] = piHead[f]
  BY <1>1, <1>3 DEF IInv, TypeOK
<1> DEFINE k == piTail[g] - piHead[g]
<1>5. /\ k \in Nat /\ piHead[g] \in Nat /\ n \in Nat /\ n <= k /\ n \in 0 .. k
      /\ piTail[g] = piHead[g] + k
      /\ Data(g) \in Seq(Int) /\ Len(Data(g)) = k
      /\ Data(g) = Read(bytes, piHead[g], k)
  <2>1. piTail[g] \in Int
    BY <1>1 DEF IInv, TypeOK
  <2> QED
    BY <1>1, <1>2, <1>3, <2>1, DataIs DEF Lengths, Data
<1> HIDE DEF k
<1>6. \A f \in Frames : Used(f) /\ f # g => Data(f)' = Data(f)
  BY <1>1, <1>4 DEF Data, Read
<1>7. Data(g)' = Queue!DropBytes(Data(g), n)
  <2>1. Data(g)' = Read(bytes', piHead'[g], piTail'[g] - piHead'[g])
    BY DEF Data
  <2>2. Data(g)' = Read(bytes, piHead[g] + n, piTail[g] - (piHead[g] + n))
    BY <1>1, <1>4, <2>1
  <2> QED
    BY <1>1, <1>2, <1>5, <2>2, DataPieces DEF k
<1>8. /\ Contents # << >> /\ Queue!Last(Contents) = Data(g)
      /\ Contents' = Queue!WithLast(Data(g)')
  BY <1>1, <1>2, <1>6, LastStep
<1> QED
  BY <1>1, <1>5, <1>7, <1>8 DEF Queue!CutLast

\* emptied,
LEMMA EmptyMaps ==
    ASSUME QInv, IInv', ThrowLastFrame(FALSE)
    PROVE  Contents # << >> /\ Queue!Empty
<1>1. IInv /\ ~IsEmpty /\ UNCHANGED <<index, bytes, nIn, piHead>>
  BY DEF QInv, HInv, OpenHasFrame, ThrowLastFrame, index
<1>2. PICK g \in Frames : g = LastFrameNo /\ Used(g)
  BY <1>1, Last
<1>3. /\ piTail'[g] = piHead[g] /\ piHead[g] \in Int
      /\ \A f \in Frames : f # g => piTail'[f] = piTail[f]
  BY <1>1, <1>2 DEF ThrowLastFrame, IInv, TypeOK
<1>4. \A f \in Frames : Used(f) /\ f # g => Data(f)' = Data(f)
  BY <1>1, <1>3 DEF Data, Read
<1>5. Data(g)' = << >>
  <2>1. piTail'[g] - piHead'[g] = 0
    BY <1>1, <1>3
  <2> QED
    BY <2>1 DEF Data, Read
<1>6. /\ Contents # << >> /\ Contents' = Queue!WithLast(Data(g)')
  BY <1>1, <1>2, <1>4, LastStep
<1> QED
  BY <1>1, <1>5, <1>6 DEF Queue!Empty

\* given up,
LEMMA GiveUpMaps ==
    ASSUME QInv, IInv', ThrowLastFrame(TRUE)
    PROVE  Contents # << >> /\ Queue!GiveUp
<1>1. /\ IInv /\ ~IsEmpty /\ UNCHANGED <<iIndexHead, bytes, nIn, piHead>>
      /\ iIndexTail' = LastFrameNo
  BY DEF QInv, HInv, OpenHasFrame, ThrowLastFrame
<1>2. PICK g \in Frames : g = LastFrameNo /\ Used(g)
  BY <1>1, Last
<1>3. \A f \in Frames : f # g => piTail'[f] = piTail[f]
  BY <1>1, <1>2 DEF ThrowLastFrame
<1>4. \A f \in Frames : f # g => Data(f)' = Data(f)
  BY <1>1, <1>3 DEF Data, Read
<1>5. NumFrames' = NumFrames - 1 /\ NumFrames \in Nat /\ NumFrames >= 1
  BY <1>1, Recede, Ring, EsAssumption DEF IInv
<1>6. /\ Contents \in Seq(Seq(Int)) /\ Len(Contents) = NumFrames
      /\ Contents' \in Seq(Seq(Int)) /\ Len(Contents') = NumFrames - 1
      /\ \A i \in 1 .. NumFrames - 1 : Contents'[i] = Contents[i]
  <2>1. ASSUME NEW i \in 1 .. NumFrames - 1 PROVE Contents'[i] = Contents[i]
    <3>1. i \in 1 .. NumFrames /\ i \in 1 .. NumFrames' /\ i # NumFrames
      BY <1>5
    <3>2. i \in 1 .. MaxFrames /\ NumFrames \in 1 .. MaxFrames
      BY <1>1, <1>5, Ring, EsAssumption DEF IInv
    <3>3. Frame(NumFrames) = g
      BY <1>1, <1>2, FrameAt DEF IInv
    <3>4. PICK f \in Frames : f = Frame(i)
      BY <1>1, <3>1, ContentsStep
    <3>5. f # g
      BY <1>1, <3>1, <3>2, <3>3, <3>4, ContentsStep
    <3> QED
      BY <1>1, <1>4, <3>1, <3>4, <3>5, ContentsStep
  <2> QED
    BY <1>1, <1>5, <2>1, ContentsStep
<1>7. Contents # << >>
  BY <1>5, <1>6
<1>8. Contents' = SubSeq(Contents, 1, Len(Contents) - 1)
  BY <1>6, IsFront
<1> QED
  BY <1>1, <1>7, <1>8 DEF Queue!GiveUp, Queue!Front

\* or split.
LEMMA SplitMaps ==
    ASSUME QInv, IInv', NEW n \in Lengths, SplitFrame(n)
    PROVE  /\ Contents # << >> /\ n \in 0 .. Len(Queue!Last(Contents))
           /\ Queue!Split(n)
<1>1. /\ IInv /\ ~IsEmpty /\ ~IsIndexFull /\ UNCHANGED <<iIndexHead, bytes, nIn>>
      /\ iIndexTail' = NextFrame(iIndexTail)
  BY DEF QInv, HInv, SplitFrame
<1>2. PICK g \in Frames : g = LastFrameNo /\ Used(g)
  BY <1>1, Last
<1>3. PICK e \in Frames : e = iIndexTail
  BY <1>1 DEF IInv, TypeOK
<1>4. /\ NumFrames' = NumFrames + 1 /\ NumFrames \in Nat /\ NumFrames >= 1
      /\ NumFrames < MaxFrames - 1 /\ MaxFrames \in Nat
      /\ Frame(NumFrames) = g /\ Frame(NumFrames + 1) = e
  <2>1. NumFrames' = NumFrames + 1
    BY <1>1, Grow DEF IInv
  <2>2. /\ NumFrames \in Nat /\ NumFrames >= 1
        /\ NumFrames < MaxFrames - 1 /\ MaxFrames \in Nat
    BY <1>1, Ring, EsAssumption DEF IInv
  <2> QED
    BY <1>1, <1>2, <1>3, <2>1, <2>2, FrameAt DEF IInv
<1>5. g # e
  BY <1>1, <1>2, <1>3, <1>4, ContentsStep
<1> DEFINE k == piTail[g] - piHead[g]
<1>6. /\ piTail' = [piTail EXCEPT ![e] = piTail[g], ![g] = piHead[g] + n]
      /\ piHead' = [piHead EXCEPT ![e] = piHead[g] + n]
      /\ n < k
  BY <1>1, <1>2, <1>3 DEF SplitFrame, LastFrameLength
<1>7. /\ piHead'[g] = piHead[g] /\ piTail'[g] = piHead[g] + n
      /\ piHead'[e] = piHead[g] + n /\ piTail'[e] = piTail[g]
      /\ \A f \in Frames : f # g /\ f # e =>
            piHead'[f] = piHead[f] /\ piTail'[f] = piTail[f]
  BY <1>1, <1>5, <1>6 DEF IInv, TypeOK
<1>8. /\ k \in Nat /\ piHead[g] \in Nat /\ n \in Nat /\ n <= k /\ n \in 0 .. k
      /\ piTail[g] = piHead[g] + k
      /\ Data(g) = Read(bytes, piHead[g], k)
      /\ Data(g) \in Seq(Int) /\ Len(Data(g)) = k
  <2>1. piTail[g] \in Int
    BY <1>1 DEF IInv, TypeOK
  <2> QED
    BY <1>1, <1>2, <1>6, <2>1, DataIs DEF Lengths, Data
<1> HIDE DEF k
<1>9. /\ Data(g)' = SubSeq(Data(g), 1, n)
      /\ Data(e)' = Queue!DropBytes(Data(g), n)
  <2>1. Data(g)' = Read(bytes, piHead[g], n)
    <3>1. piTail'[g] - piHead'[g] = n
      BY <1>7, <1>8
    <3>2. Data(g)' = Read(bytes', piHead'[g], piTail'[g] - piHead'[g])
      BY DEF Data
    <3> QED
      BY <1>1, <1>7, <3>1, <3>2
  <2>2. Data(e)' = Read(bytes, piHead[g] + n, piTail[g] - (piHead[g] + n))
    <3>1. Data(e)' = Read(bytes', piHead'[e], piTail'[e] - piHead'[e])
      BY DEF Data
    <3> QED
      BY <1>1, <1>7, <3>1
  <2> QED
    BY <1>1, <1>2, <1>8, <2>1, <2>2, DataPieces DEF k
<1>10. \A f \in Frames : f # g /\ f # e => Data(f)' = Data(f)
  BY <1>1, <1>7 DEF Data, Read
<1>11. /\ Contents \in Seq(Seq(Int)) /\ Len(Contents) = NumFrames
       /\ Contents' \in Seq(Seq(Int)) /\ Len(Contents') = NumFrames + 1
       /\ Contents[NumFrames] = Data(g)
       /\ Contents'[NumFrames] = Data(g)' /\ Contents'[NumFrames + 1] = Data(e)'
       /\ \A i \in 1 .. NumFrames - 1 : Contents'[i] = Contents[i]
  <2>1. ASSUME NEW i \in 1 .. NumFrames - 1 PROVE Contents'[i] = Contents[i]
    <3>1. /\ i \in 1 .. NumFrames /\ i \in 1 .. NumFrames'
          /\ i # NumFrames /\ i # NumFrames + 1
          /\ i \in 1 .. MaxFrames
          /\ NumFrames \in 1 .. MaxFrames /\ NumFrames + 1 \in 1 .. MaxFrames
      BY <1>4
    <3>2. PICK f \in Frames : f = Frame(i)
      BY <1>1, <3>1, ContentsStep
    <3>3. f # g /\ f # e
      BY <1>1, <1>4, <3>1, <3>2, ContentsStep
    <3> QED
      BY <1>1, <1>10, <3>1, <3>2, <3>3, ContentsStep
  <2>2. /\ NumFrames \in 1 .. NumFrames /\ NumFrames \in 1 .. NumFrames'
        /\ NumFrames + 1 \in 1 .. NumFrames'
    BY <1>4
  <2> QED
    BY <1>1, <1>4, <2>1, <2>2, ContentsStep
<1>12. Contents # << >>
  BY <1>4, <1>11
<1>13. Contents' = Append(Append(SubSeq(Contents, 1, NumFrames - 1), Data(g)'), Data(e)')
  BY <1>11, <1>12, SplitsLast
<1> QED
  BY <1>1, <1>4, <1>8, <1>9, <1>11, <1>12, <1>13
     DEF Queue!Split, Queue!WithLast, Queue!Front, Queue!Last

\* The first frame is taken,
LEMMA TakeMaps ==
    ASSUME IInv, IInv', ~IsEmpty, iIndexHead' = NextFrame(iIndexHead),
           UNCHANGED <<iIndexTail, bytes, nIn, piTail>>,
           \A f \in Frames : f # iIndexHead => piHead'[f] = piHead[f]
    PROVE  Contents # << >> /\ Queue!Take
<1>1. /\ NumFrames' = NumFrames - 1 /\ iIndexHead \in Frames
      /\ \A f \in Frames : Used(f)' => f # iIndexHead /\ Pos(f)' = Pos(f) - 1
  BY Advance DEF IInv, TypeOK
<1>2. /\ NumFrames \in Nat /\ NumFrames >= 1 /\ NumFrames < MaxFrames /\ MaxFrames \in Nat
  BY Ring, EsAssumption DEF IInv
<1>3. /\ \A i \in 1 .. MaxFrames : /\ Frame(i) \in Frames /\ Pos(Frame(i)) = i - 1
                                   /\ Used(Frame(i)) <=> i <= NumFrames
      /\ \A f, g \in Frames : Pos(f) = Pos(g) => f = g
  BY FrameAt, Places DEF IInv
<1>4. (\A i \in 1 .. MaxFrames : /\ Frame(i) \in Frames /\ Pos(Frame(i)) = i - 1
                                 /\ Used(Frame(i)) <=> i <= NumFrames)'
  BY FramesNext
<1>5. (/\ Contents \in Seq(Seq(Int)) /\ Len(Contents) = NumFrames
       /\ NumFrames \in Nat /\ NumFrames < MaxFrames
       /\ \A i \in 1 .. NumFrames : Contents[i] = Data(Frame(i)))'
  BY ContentsNext
<1>6. ASSUME NEW i \in 1 .. NumFrames - 1 PROVE Contents'[i] = Contents[i + 1]
  <2>1. /\ i \in 1 .. MaxFrames /\ i + 1 \in 1 .. MaxFrames
        /\ i \in 1 .. NumFrames' /\ i + 1 \in 1 .. NumFrames
        /\ i <= NumFrames' /\ i \in Nat
    BY <1>1, <1>2
  <2>2. PICK f \in Frames : f = Frame(i)' /\ Used(f)' /\ Pos(f)' = i - 1
    BY <1>4, <2>1
  <2>3. f # iIndexHead /\ Pos(f) = i
    <3>1. Pos(f) \in Int /\ Pos(f)' = Pos(f) - 1 /\ f # iIndexHead
      BY <1>1, <2>2, Places DEF IInv
    <3> QED
      BY <2>1, <2>2, <3>1
  <2>4. f = Frame(i + 1)
    BY <1>3, <2>1, <2>3
  <2>5. Data(f)' = Data(f)
    BY <2>3 DEF Data, Read
  <2>6. Contents'[i] = Data(f)'
    <3>1. Contents'[i] = Read(bytes', piHead'[f], piTail'[f] - piHead'[f])
      BY <1>5, <2>1, <2>2 DEF Data
    <3> QED
      BY <3>1 DEF Data
  <2>7. Contents[i + 1] = Data(f)
    BY <2>1, <2>4, ContentsAre
  <2> QED
    BY <2>5, <2>6, <2>7
<1>7. /\ Contents \in Seq(Seq(Int)) /\ Len(Contents) = NumFrames
      /\ Contents' \in Seq(Seq(Int)) /\ Len(Contents') = NumFrames - 1
  BY <1>1, <1>5, ContentsAre
<1>8. Contents # << >>
  BY <1>2, <1>7
<1>9. Contents' = Tail(Contents)
  BY <1>6, <1>7, IsTail
<1> QED
  BY <1>8, <1>9 DEF Queue!Take

\* as a whole, or bytes from its start; when they are all it has, it is taken.
LEMMA TakeBytesMaps ==
    ASSUME IInv, IInv', NEW n \in Lengths, FirstFrameAdvance(n)
    PROVE  /\ Contents # << >>
           /\ \/ Queue!Take
              \/ n \in 0 .. Len(Head(Contents)) /\ Queue!TakeBytes(n)
<1>1. /\ held # Nothing /\ n <= Len(held.data)
      /\ piHead' = [piHead EXCEPT ![iIndexHead] = piHead[iIndexHead] + n]
      /\ iIndexHead' = (IF piHead'[iIndexHead] = piTail[iIndexHead] /\ ~IsEmpty
                        THEN NextFrame(iIndexHead) ELSE iIndexHead)
      /\ UNCHANGED <<iIndexTail, bytes, nIn, piTail>>
  BY DEF FirstFrameAdvance
<1>2. ~IsEmpty /\ Len(held.data) <= piTail[iIndexHead] - piHead[iIndexHead]
  BY <1>1 DEF IInv, HeldFits
<1>3. PICK g \in Frames : g = iIndexHead /\ Used(g)
  BY <1>2, Last
<1>4. /\ piHead'[g] = piHead[g] + n
      /\ \A f \in Frames : f # g => piHead'[f] = piHead[f]
  BY <1>1, <1>3 DEF IInv, TypeOK
<1>5. CASE piHead[g] + n = piTail[g]
  <2>1. iIndexHead' = NextFrame(iIndexHead)
    BY <1>1, <1>2, <1>3, <1>4, <1>5
  <2> QED
    BY <1>1, <1>2, <1>3, <1>4, <2>1, TakeMaps
<1>6. CASE piHead[g] + n # piTail[g]
  <2>1. iIndexHead' = iIndexHead /\ NumFrames' = NumFrames
    BY <1>1, <1>3, <1>4, <1>6 DEF NumFrames
  <2>2. /\ NumFrames \in Nat /\ NumFrames >= 1 /\ NumFrames < MaxFrames
        /\ MaxFrames \in Nat /\ Frame(1) = g
    BY <1>2, <1>3, Ring, FrameAt, EsAssumption DEF IInv
  <2>3. /\ n \in 0 .. piTail[g] - piHead[g] /\ n < piTail[g] - piHead[g]
        /\ Len(Data(g)) = piTail[g] - piHead[g]
    <3>1. /\ piTail[g] - piHead[g] \in Nat /\ piHead[g] \in Nat
          /\ Len(Data(g)) = piTail[g] - piHead[g]
      BY <1>3, DataIs
    <3>2. piTail[g] \in Int /\ n \in Nat
      BY DEF IInv, TypeOK, Lengths
    <3>3. Len(held.data) \in Nat
      <4>1. held.data \in Seq(Int)
        BY DEF IInv, TypeOK
      <4> QED
        BY <4>1
    <3> QED
      BY <1>1, <1>2, <1>3, <1>6, <3>1, <3>2, <3>3
  <2>4. Data(g)' = Queue!DropBytes(Data(g), n)
    <3>1. Data(g)' = Read(bytes', piHead'[g], piTail'[g] - piHead'[g])
      BY DEF Data
    <3>2. Data(g)' = Read(bytes, piHead[g] + n, piTail[g] - (piHead[g] + n))
      BY <1>1, <1>4, <3>1
    <3> QED
      BY <1>3, <2>3, <3>2, DataPieces
  <2>5. \A f \in Frames : f # g => Data(f)' = Data(f)
    BY <1>1, <1>4 DEF Data, Read
  <2>6. /\ Contents \in Seq(Seq(Int)) /\ Len(Contents) = NumFrames
        /\ Contents' \in Seq(Seq(Int)) /\ Len(Contents') = NumFrames
        /\ Contents[1] = Data(g) /\ Contents'[1] = Data(g)'
        /\ \A i \in 2 .. NumFrames : Contents'[i] = Contents[i]
    <3>1. ASSUME NEW i \in 2 .. NumFrames PROVE Contents'[i] = Contents[i]
      <4>1. /\ i \in 1 .. NumFrames /\ i \in 1 .. NumFrames' /\ i # 1
            /\ i \in 1 .. MaxFrames /\ 1 \in 1 .. MaxFrames
        BY <2>1, <2>2
      <4>2. PICK f \in Frames : f = Frame(i)
        BY <2>1, <4>1, ContentsStep
      <4>3. f # g
        BY <2>1, <2>2, <4>1, <4>2, ContentsStep
      <4> QED
        BY <2>1, <2>5, <4>1, <4>2, <4>3, ContentsStep
    <3>2. 1 \in 1 .. NumFrames /\ 1 \in 1 .. NumFrames'
      BY <2>1, <2>2
    <3> QED
      BY <2>1, <2>2, <3>1, <3>2, ContentsStep
  <2>7. Contents # << >> /\ Head(Contents) = Data(g)
    BY <2>2, <2>6
  <2>8. Contents' = <<Data(g)'>> \o Tail(Contents)
    BY <2>6, <2>7, ChangesHead
  <2> QED
    BY <1>1, <2>3, <2>4, <2>7, <2>8 DEF Queue!TakeBytes
<1> QED
  BY <1>5, <1>6

\* A parser that works on a frame keeps it, and the decoder leaves it there.
LEMMA NextOpen ==
    ASSUME WaitForNext, QInv, [Next]_vars
    PROVE  OpenHasFrame'
<1>1. IInv /\ HeldFirst /\ OpenHasFrame
  BY DEF QInv, HInv
<1>2. IInv'
  BY <1>1, NextIInv
<1>3. NumFrames \in Nat /\ (IsEmpty <=> NumFrames = 0)
  BY <1>1, Ring, EsAssumption DEF IInv
<1>4. IsEmpty' <=> NumFrames' = 0
  BY <1>2, EmptyNext
<1>5. ASSUME UNCHANGED index, open' => open PROVE OpenHasFrame'
  BY <1>1, <1>5 DEF OpenHasFrame, IsEmpty, index
<1>6. ASSUME iIndexTail' = NextFrame(iIndexTail), iIndexHead' = iIndexHead, ~IsIndexFull
      PROVE  OpenHasFrame'
  BY <1>1, <1>6, Grow DEF OpenHasFrame, IInv
<1>7. ASSUME iIndexHead' = NextFrame(iIndexHead), iIndexTail' = iIndexTail, ~IsEmpty,
             open' = open, NumFrames >= 2 \/ held # Nothing
      PROVE  OpenHasFrame'
  <2>1. NumFrames' = NumFrames - 1
    BY <1>1, <1>7, Advance DEF IInv
  <2>2. NumFrames >= 2 \/ ~open
    BY <1>1, <1>7 DEF HeldFirst
  <2> QED
    BY <1>3, <1>4, <1>7, <2>1, <2>2 DEF OpenHasFrame
<1>8. ASSUME NEW n \in Lengths, StartFrame(n) \/ SplitFrame(n) PROVE OpenHasFrame'
  BY <1>6, <1>8 DEF StartFrame, SplitFrame
<1>9. ASSUME NEW n \in Lengths, ContinueFrame(n) \/ LastFrameAdvance(n)
      PROVE  OpenHasFrame'
  BY <1>5, <1>9 DEF ContinueFrame, LastFrameAdvance
<1>10. ASSUME NEW recede \in BOOLEAN, ThrowLastFrame(recede) PROVE OpenHasFrame'
  BY <1>5, <1>10 DEF ThrowLastFrame, OpenHasFrame, index
<1>11. ASSUME NEW n \in Lengths, FirstFrameAdvance(n) PROVE OpenHasFrame'
  <2>1. held # Nothing /\ ~IsEmpty /\ open' = open /\ iIndexTail' = iIndexTail
    BY <1>1, <1>11 DEF FirstFrameAdvance, IInv, HeldFits
  <2>2. iIndexHead' = NextFrame(iIndexHead) \/ iIndexHead' = iIndexHead
    BY <1>11 DEF FirstFrameAdvance
  <2> QED
    BY <1>5, <1>7, <2>1, <2>2 DEF index
<1>12. CASE GetFrame
  BY <1>5, <1>12 DEF GetFrame
<1>13. CASE AdvanceFrame
  BY <1>7, <1>13 DEF AdvanceFrame
<1>14. CASE DeInit
  BY <1>14 DEF DeInit, OpenHasFrame
<1>15. CASE UNCHANGED vars
  BY <1>5, <1>15 DEF vars
<1> QED
  BY <1>8, <1>9, <1>10, <1>11, <1>12, <1>13, <1>14, <1>15 DEF Next

\* Every step is one of the queue, or does not show.
LEMMA QueueStep ==
    ASSUME WaitForNext, QInv, [Next]_vars
    PROVE  [Queue!QNext]_(Queue!qvars)
<1>1. IInv
  BY DEF QInv, HInv
<1>2. IInv'
  BY <1>1, NextIInv
<1>3. ASSUME UNCHANGED <<ranges, index, bytes, nIn>> PROVE [Queue!QNext]_(Queue!qvars)
  BY <1>3 DEF ranges, index, Queue!qvars, Contents, Frame, NumFrames, Read
<1>4. ASSUME NEW n \in Lengths, StartFrame(n) PROVE Queue!QNext
  BY <1>1, <1>2, <1>4, StartMaps DEF Queue!QNext, Lengths
<1>5. ASSUME NEW n \in Lengths, ContinueFrame(n) PROVE Queue!QNext
  BY <1>2, <1>5, ContinueMaps DEF Queue!QNext, Lengths
<1>6. ASSUME NEW n \in Lengths, SplitFrame(n) PROVE Queue!QNext
  BY <1>2, <1>6, SplitMaps DEF Queue!QNext
<1>7. ASSUME NEW n \in Lengths, LastFrameAdvance(n) PROVE Queue!QNext
  BY <1>2, <1>7, CutMaps DEF Queue!QNext
<1>8. ASSUME NEW recede \in BOOLEAN, ThrowLastFrame(recede) PROVE Queue!QNext
  <2>1. recede = TRUE \/ recede = FALSE
    OBVIOUS
  <2> QED
    BY <1>2, <1>8, <2>1, EmptyMaps, GiveUpMaps DEF Queue!QNext
<1>9. ASSUME NEW n \in Lengths, FirstFrameAdvance(n) PROVE Queue!QNext
  BY <1>1, <1>2, <1>9, TakeBytesMaps DEF Queue!QNext
<1>10. CASE GetFrame
  BY <1>3, <1>10 DEF GetFrame
<1>11. CASE AdvanceFrame
  <2>1. Contents # << >> /\ Queue!Take
    BY <1>1, <1>2, <1>11, TakeMaps DEF AdvanceFrame, ranges
  <2> QED
    BY <2>1 DEF Queue!QNext
<1>12. CASE DeInit
  <2>1. NumFrames' = 0 /\ nIn' = nIn
    BY <1>12 DEF DeInit, NumFrames
  <2>2. Contents' = << >>
    BY <2>1 DEF Contents
  <2> QED
    BY <2>1, <2>2 DEF Queue!QNext, Queue!Clear, Queue!qvars
<1>13. CASE UNCHANGED vars
  BY <1>3, <1>13 DEF vars
<1> QED
  BY <1>4, <1>5, <1>6, <1>7, <1>8, <1>9, <1>10, <1>11, <1>12, <1>13 DEF Next

\* For a decoder that leaves the last frame to the parser the ring of
\* descriptors and the area, of any size, are a queue of frames, each of them
\* the piece of the stream it should be, however it was moved, split or cut.
THEOREM SpecImplementsQueue ==
    ASSUME WaitForNext PROVE Spec => ImplementsQueue
<1>1. Init => QInv /\ Queue!QInit
  <2> SUFFICES ASSUME Init PROVE QInv /\ Queue!QInit
    OBVIOUS
  <2>1. HInv
    BY InitIInv DEF HInv, Init, HeldFirst, HeldFrameIntact, Nothing
  <2>2. OpenHasFrame /\ NumFrames = 0 /\ nIn = 0
    BY DEF Init, OpenHasFrame, NumFrames
  <2>3. Contents = << >>
    BY <2>2 DEF Contents
  <2> QED
    BY <2>1, <2>2, <2>3 DEF QInv, Queue!QInit
<1>2. QInv /\ [Next]_vars => QInv' /\ [Queue!QNext]_(Queue!qvars)
  BY NextHInv, NextOpen, QueueStep DEF QInv
<1> QED
  BY <1>1, <1>2, PTL DEF Spec, ImplementsQueue, Queue!QSpec
=============================================================================
