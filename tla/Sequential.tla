----------------------------- MODULE Sequential -----------------------------
(* The sequential parts of the library in one run: each behaviour is about *)
(* one of them, and the others stay as they are.                           *)
EXTENDS TsAdjust, AvcFrame, FileTree, ByteArray, Deadline

VARIABLE subject

seqVars == <<subject, tsVars, avcVars, arrayVars, treeVars, wait>>

\* Frames of up to three units with start codes of three and of four bytes.
NalUnits ==
    [zeros : {2, 3}, header : {103, 104, 6, 101, 65, 5}, payload : {<<2>>, <<0, 2>>}]
    \cup [zeros : {3}, header : {101, 65}, payload : {<< >>}]
Bytes(us) == FlattenSeq([i \in DOMAIN us |-> BytesOf(us[i])])
Laid(us) ==
    [units |-> us, bytes |-> Bytes(us),
     starts |-> [i \in 1 .. Len(us) + 1 |-> Len(Bytes(SubSeq(us, 1, i - 1)))]]
SmallFrames == {Laid(us) : us \in UNION {[1 .. n -> NalUnits] : n \in 1 .. 3}}
OneFrame == {Laid(<<[zeros |-> 3, header |-> 65, payload |-> << >>]>>)}

\* Trees of a file, a directory or something else in the current directory,
\* and the same once more in the directory, where there is one.
Entry == {"a", "b"}
SmallLabels == {"w", "a", "b"}
CurrentDir == <<"w">>
Inside == [Entry -> {"none", "file", "dir", "other"}]
Levels == [Entry -> [at : {"none", "file", "other"}, in : {[e \in Entry |-> "none"]}]
                    \cup [at : {"dir"}, in : Inside]]
SmallTrees ==
    LET Kind(l, p) == CASE Len(p) < 2 -> "dir"
                        [] Len(p) = 2 -> l[p[2]].at
                        [] Len(p) = 3 -> l[p[2]].in[p[3]]
        All == {<<>>, CurrentDir} \cup {<<"w", e>> : e \in Entry}
                    \cup {<<"w", e, f>> : e \in Entry, f \in Entry}
    IN  {[p \in {q \in All : Kind(l, q) # "none"} |-> Kind(l, p)] : l \in Levels}

\* "/a" is <<"", "a">> here, and "a//b" <<"a", "", "b">>.
Written == UNION {[1 .. n -> Entry \cup {""}] : n \in 1 .. 3} \ {<<"">>}
Means(text) ==
    LET names == SelectSeq(text, LAMBDA n : n # "")
    IN  CASE text = <<"">> -> NoPath
          [] text # <<"">> /\ text[1] = "" -> names
          [] OTHER -> CurrentDir \o names
SmallNames ==
    {[i \in DOMAIN text |-> [path |-> Means(SubSeq(text, 1, i)),
                             slash |-> i > 1 /\ text[i] = ""]] : text \in Written}
EmptyTree == {[p \in {<<>>, CurrentDir} |-> "dir"]}

\* Just before, at and after the carries.
Microseconds == {0, 1, 1000, 499999, 500000, 999000, 999999}
Timeouts == {1, 2, 499, 500, 501, 999, 1000, 1500, 59999, 2000000999}

\* What is not the subject has one initial state.
SeqInit ==
    /\ subject \in {"stream", "frame", "files", "array", "deadline"}
    /\ Init /\ (subject # "stream" => reader = "first")
    /\ FrameInit(IF subject = "frame" THEN SmallFrames ELSE OneFrame)
    /\ TreeInit(IF subject = "files" THEN SmallTrees ELSE EmptyTree)
    /\ ArrayInit(IF subject = "array" THEN 0 .. ArraySize ELSE {0})
    /\ IF subject = "deadline" THEN DeadlineInit(Microseconds, Timeouts)
                               ELSE DeadlineInit({0}, {1})

Stream ==
    /\ subject = "stream" /\ TsNext
    /\ UNCHANGED <<subject, avcVars, arrayVars, treeVars, wait>>
Frame ==
    /\ subject = "frame" /\ Peel
    /\ UNCHANGED <<subject, tsVars, arrayVars, treeVars, wait>>
Files ==
    /\ subject = "files" /\ TreeNext
    /\ UNCHANGED <<subject, tsVars, avcVars, arrayVars, wait>>
\* Nothing is said of an array once it is spoilt.
Array ==
    /\ subject = "array" /\ ~spoilt /\ ArrayNext
    /\ UNCHANGED <<subject, tsVars, avcVars, treeVars, wait>>

SeqNext == Stream \/ Frame \/ Files \/ Array
SeqSpec == SeqInit /\ [][SeqNext]_seqVars
=============================================================================
