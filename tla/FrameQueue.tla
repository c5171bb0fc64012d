---------------------------- MODULE FrameQueue ----------------------------
(* What an elementary-stream buffer promises ("a circular buffer but a     *)
(* decodable packet ... is continuous in the buffer", mbuffer.h:75-76): a      *)
(* queue of frames, the last of which the parser still works on.  A frame  *)
(* is a sequence of bytes of the stream, a byte its number in it.          *)
EXTENDS Naturals, Sequences, SequencesExt

CONSTANTS
    Capacity,   \* how many frames are held at most
    MaxLength   \* how many bytes come in one call at most

VARIABLES
    frames,     \* the frames, the oldest first
    next        \* the number of the next byte of the stream

qvars == <<frames, next>>

QInit == frames = << >> /\ next = 0

Bytes(n) == [i \in 1..n |-> next + i - 1]
DropBytes(frame, n) == SubSeq(frame, n + 1, Len(frame))
WithLast(frame) == Append(Front(frames), frame)

Start(n) ==
    /\ Len(frames) < Capacity
    /\ frames' = Append(frames, Bytes(n))
    /\ next' = next + n

Continue(n) ==
    /\ frames # << >>
    /\ frames' = WithLast(Last(frames) \o Bytes(n))
    /\ next' = next + n

\* The last frame becomes two, or is emptied, given up or cut at its start.
Split(n) ==
    /\ Len(frames) < Capacity
    /\ frames' = Append(WithLast(SubSeq(Last(frames), 1, n)),
                        DropBytes(Last(frames), n))
    /\ UNCHANGED next

Empty == frames' = WithLast(<< >>) /\ UNCHANGED next

GiveUp == frames' = Front(frames) /\ UNCHANGED next

CutLast(n) ==
    /\ frames' = WithLast(DropBytes(Last(frames), n))
    /\ UNCHANGED next

\* The first frame is taken, or bytes from its start.
Take == frames' = Tail(frames) /\ UNCHANGED next

Clear == frames' = << >> /\ UNCHANGED next

TakeBytes(n) ==
    /\ n < Len(Head(frames))
    /\ frames' = <<DropBytes(Head(frames), n)>> \o Tail(frames)
    /\ UNCHANGED next

QNext ==
    \/ \E n \in 1..MaxLength : Start(n) \/ Continue(n)
    \/ /\ frames # << >>
       /\ \/ \E n \in 0..Len(Last(frames)) : Split(n) \/ CutLast(n)
          \/ \E n \in 0..Len(Head(frames)) : TakeBytes(n)
          \/ Empty \/ GiveUp \/ Take \/ Clear

QSpec == QInit /\ [][QNext]_qvars
===========================================================================
