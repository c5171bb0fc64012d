------------------------------ MODULE FileTree ------------------------------
(* The operations of util/fileutil.c on a tree of files, on Linux, call of *)
(* the system by call of the system.                                       *)
(*                                                                         *)
(* A tree maps the paths that exist to what is there; a path is a sequence *)
(* of names, and the root is <<>>.  A name the program is given is taken   *)
(* apart at its separators: piece i stands for what is in front of the     *)
(* i-th separator, the last for the whole name, and is given by the path   *)
(* it means and whether nothing follows the separator before it.  With the *)
(* current directory w, "a//b" is a, a/ and a//b, which mean w/a, w/a and  *)
(* w/a/b; the first piece of "/a" is the empty name, which means none.     *)
EXTENDS Integers, Sequences, SequencesExt

CONSTANTS
    Labels,     \* the names a file may have in its directory
    Cwd,        \* the path of the current directory
    Names,      \* the names passed to the calls
    Trees,      \* the trees there may be at first
    MaxCalls    \* bound: how many calls are made

Paths == Seq(Labels)

\* What the empty name means.
NoPath == <<"">>
EmptyPiece == [path |-> NoPath, slash |-> FALSE]

\* A piece adds one name to what is in front of it, or a separator only.
Adds(base, piece) ==
    IF piece.slash THEN piece.path = base
    ELSE piece.path # <<>> /\ Front(piece.path) = base
Base(prev) == IF prev = EmptyPiece THEN <<>> ELSE prev.path

ASSUME NamesAssumption ==
    /\ "" \notin Labels /\ Cwd \in Paths /\ MaxCalls \in Nat
    /\ Names \subseteq Seq([path : Paths \cup {NoPath}, slash : BOOLEAN])
    /\ <<>> \notin Names /\ <<EmptyPiece>> \notin Names
    /\ \A d \in Names :
        /\ \/ d[1] = EmptyPiece
           \/ d[1].path \in Paths /\ Adds(Cwd, d[1]) /\ ~d[1].slash
        /\ \A i \in 2 .. Len(d) : d[i].path \in Paths /\ Adds(Base(d[i - 1]), d[i])
        /\ \A i, j \in 1 .. Len(d) :
            i <= j /\ d[i] # EmptyPiece => IsPrefix(d[i].path, d[j].path)

Exists(t, p) == p \in DOMAIN t
IsDir(t, p) == Exists(t, p) /\ t[p] = "dir"
IsFile(t, p) == Exists(t, p) /\ t[p] = "file"
Below(t, p) == {q \in DOMAIN t : IsPrefix(p, q)}
Entries(t, p) == {q \in DOMAIN t : q # <<>> /\ Front(q) = p}
Without(t, ps) == [q \in DOMAIN t \ ps |-> t[q]]
With(t, p, kind) == [q \in DOMAIN t \cup {p} |-> IF q = p THEN kind ELSE t[q]]

\* What is above a path that exists is a directory.
IsTree(t) ==
    /\ DOMAIN t \subseteq Paths
    /\ t \in [DOMAIN t -> {"dir", "file", "other"}]
    /\ IsDir(t, <<>>) /\ IsDir(t, Cwd)
    /\ \A q \in DOMAIN t : \A i \in 0 .. Len(q) - 1 : IsDir(t, SubSeq(q, 1, i))

ASSUME TreesAssumption == \A t \in Trees : IsTree(t)

VARIABLES
    tree,       \* the tree
    calls,      \* how many calls have been made
    pc,         \* where the call is: "idle", "test", "make", "open", "remove", "done"
    op,         \* which call it is: "CTCreateDir", "CTCreateFile", "CTRemove"
    name,       \* its argument
    stray,      \* whether the byte in front of its copy of the name is a separator
    round,      \* the piece its loop has come to
    stack,      \* the directories it has open, with the entries not yet read
    ret,        \* its result
    before,     \* the tree when it was called
    raced       \* another process has made the directory it was about to make

treeVars == <<tree, calls, pc, op, name, stray, round, stack, ret, before, raced>>

\* access, mkdir and rmdir of the system.
Access(t, piece) == Exists(t, piece.path) /\ (piece.slash => IsDir(t, piece.path))
CanMkdir(t, p) == p \notin {NoPath, <<>>} /\ ~Exists(t, p) /\ IsDir(t, Front(p))
Rmdir(t, p) ==
    IF IsDir(t, p) /\ Below(t, p) = {p}
    THEN [tree |-> Without(t, {p}), ret |-> 0]
    ELSE [tree |-> t, ret |-> -1]

\* fopen(name, "wb+") makes an empty file, or empties the one there is.
CanFopen(t, piece) ==
    /\ piece.path # <<>> /\ ~piece.slash
    /\ IsDir(t, Front(piece.path)) /\ ~IsDir(t, piece.path)
Fopen(t, p) == IF Exists(t, p) THEN t ELSE With(t, p, "file")

TreeInit(trees) ==
    /\ tree \in trees /\ before = tree
    /\ calls = 0 /\ pc = "idle" /\ op = "none" /\ name = <<>> /\ stray = FALSE
    /\ round = 0 /\ stack = <<>> /\ ret = 0 /\ raced = FALSE

Path == Last(name).path

Call(which, d) ==
    /\ pc \in {"idle", "done"} /\ calls < MaxCalls
    /\ calls' = calls + 1
    /\ op' = which /\ name' = d /\ before' = tree /\ raced' = FALSE

Return(result) == pc' = "done" /\ ret' = result

----------------------------------------------------------------------------
\* Slip: the last piece is made only if a separator follows it.
Rounds_Proper(d, strayByte) == Len(d) - 1

\* CTCreateDir looks at each piece of the name that ends before a separator;
\* one is put behind the name unless it has one already, for which it looks
\* at the byte in front of an empty name.
Rounds(d, strayByte) ==
    LET ends == IF d = <<EmptyPiece>> THEN strayByte ELSE Last(d).slash
    IN  IF ends THEN Len(d) - 1 ELSE Len(d)

\* CTCreateFile has it make the directory, if the name has one.
LastRound == Rounds(IF op = "CTCreateFile" THEN Front(name) ELSE name, stray)

CTCreateDir(d) ==
    /\ Call("CTCreateDir", d)
    /\ pc' = "test" /\ round' = 1 /\ stray' = FALSE
    /\ UNCHANGED <<tree, stack, ret>>

CTCreateFile(d) ==
    /\ Call("CTCreateFile", d)
    /\ pc' = IF Len(d) = 1 THEN "open" ELSE "test"
    /\ round' = 1 /\ stray' \in BOOLEAN
    /\ UNCHANGED <<tree, stack, ret>>

\* One round of the loop: the piece is tested,
FindPiece ==
    /\ pc = "test" /\ round <= LastRound /\ Access(tree, name[round])
    /\ round' = round + 1
    /\ UNCHANGED <<tree, calls, pc, op, name, stray, stack, ret, before, raced>>

MissPiece ==
    /\ pc = "test" /\ round <= LastRound /\ ~Access(tree, name[round])
    /\ pc' = "make"
    /\ UNCHANGED <<tree, calls, op, name, stray, round, stack, ret, before, raced>>

\* and made if it is not there.
MakePiece ==
    /\ pc = "make" /\ CanMkdir(tree, name[round].path)
    /\ tree' = With(tree, name[round].path, "dir")
    /\ pc' = "test" /\ round' = round + 1
    /\ UNCHANGED <<calls, op, name, stray, stack, ret, before, raced>>

FailPiece ==
    /\ pc = "make" /\ ~CanMkdir(tree, name[round].path)
    /\ Return(-1)
    /\ UNCHANGED <<tree, calls, op, name, stray, round, stack, before, raced>>

EndPieces ==
    /\ pc = "test" /\ round > LastRound
    /\ IF op = "CTCreateFile" THEN pc' = "open" /\ UNCHANGED ret ELSE Return(0)
    /\ UNCHANGED <<tree, calls, op, name, stray, round, stack, before, raced>>

OpenFile ==
    /\ pc = "open"
    /\ IF CanFopen(tree, Last(name))
       THEN tree' = Fopen(tree, Path) /\ Return(0)
       ELSE UNCHANGED tree /\ Return(-1)
    /\ UNCHANGED <<calls, op, name, stray, round, stack, before, raced>>

\* Another process makes a directory of the same name at any moment.
Meanwhile(p) ==
    /\ pc \in {"test", "make", "open"}
    /\ CanMkdir(tree, p)
    /\ tree' = With(tree, p, "dir")
    /\ raced' = (raced \/ (pc = "make" /\ p = name[round].path))
    /\ UNCHANGED <<calls, pc, op, name, stray, round, stack, ret, before>>

----------------------------------------------------------------------------
\* CTRemove: a file, or a directory with all in it.
CTRemove(d) ==
    LET p == Last(d).path
    IN  /\ Call("CTRemove", d)
        /\ \/ /\ ~Access(tree, Last(d)) /\ Return(-1)
              /\ UNCHANGED <<tree, stack>>
           \/ /\ Access(tree, Last(d)) /\ IsFile(tree, p) /\ Return(0)
              /\ tree' = Without(tree, {p}) /\ UNCHANGED stack
           \/ /\ Access(tree, Last(d)) /\ IsDir(tree, p) /\ pc' = "remove"
              /\ stack' = <<[dir |-> p, left |-> Entries(tree, p)]>>
              /\ UNCHANGED <<tree, ret>>
           \/ /\ Access(tree, Last(d)) /\ ~IsDir(tree, p) /\ ~IsFile(tree, p)
              /\ Return(0) /\ UNCHANGED <<tree, stack>>
        /\ UNCHANGED <<stray, round>>

\* CTRemoveDir reads the entries of a directory in any order: a file goes, a
\* directory is dealt with at once, what is neither stays.
ReadEntry ==
    /\ pc = "remove"
    /\ \E q \in Last(stack).left :
        LET rest == Append(Front(stack), [Last(stack) EXCEPT !.left = @ \ {q}])
        IN  /\ tree' = IF IsFile(tree, q) THEN Without(tree, {q}) ELSE tree
            /\ stack' = IF IsDir(tree, q)
                        THEN Append(rest, [dir |-> q, left |-> Entries(tree, q)])
                        ELSE rest
    /\ UNCHANGED <<calls, pc, op, name, stray, round, ret, before, raced>>

\* Slip: the result of the last rmdir is not looked at.
Finish_Always(t, p) == [tree |-> Rmdir(t, p).tree, ret |-> 0]

\* The end of CTRemoveDir, when all entries have been dealt with.
Finish(t, p) == Rmdir(t, p)

\* The first directory that cannot be removed ends the whole call.
CloseDir ==
    /\ pc = "remove" /\ Last(stack).left = {}
    /\ LET end == Finish(tree, Last(stack).dir)
       IN  /\ tree' = end.tree
           /\ stack' = IF end.ret = 0 THEN Front(stack) ELSE <<>>
           /\ IF stack' = <<>> THEN Return(end.ret) ELSE UNCHANGED <<pc, ret>>
    /\ UNCHANGED <<calls, op, name, stray, round, before, raced>>

----------------------------------------------------------------------------
\* A directory the current one is in is not removed.
Removable == {d \in Names : ~IsPrefix(Last(d).path, Cwd)}

TreeNext ==
    \/ \E d \in Names : CTCreateDir(d) \/ CTCreateFile(d)
    \/ FindPiece \/ MissPiece \/ MakePiece \/ FailPiece \/ EndPieces \/ OpenFile
    \/ \E i \in DOMAIN name : Meanwhile(name[i].path)
    \/ \E d \in Removable : CTRemove(d)
    \/ ReadEntry \/ CloseDir

TreeSpec == TreeInit(Trees) /\ [][TreeNext]_treeVars

----------------------------------------------------------------------------
Prefixes0(p) == {SubSeq(p, 1, i) : i \in 0 .. Len(p)}
Added == DOMAIN tree \ DOMAIN before
Kept == \A q \in DOMAIN before : Exists(tree, q) /\ tree[q] = before[q]
Blocked(p) == \E q \in Prefixes0(p) \ {p} : Exists(before, q) /\ ~IsDir(before, q)

\* What has the name already is no directory.  access finds it (line 33), and
\* CTCreateDir returns 0 with no directory made, of which "0 on success; -1 on
\* failure" (fileutil.h:30) says nothing.
NotADirectory == Exists(before, Path) /\ ~IsDir(before, Path)

\* When CTCreateDir and CTCreateFile (lines 9-71) return 0, there is the
\* directory or the file the name says, but for NotADirectory; they add no more
\* than the directories on the way to it, and take nothing away at any moment.
\* They fail only for a reason: the name is absolute
\* (line 33: its first piece is the empty name, so that none but a file in
\* the root can be made), another process has made one of the directories
\* after the test for it, or something else is in the way.
CreatesWhatIsNamed ==
    op \in {"CTCreateDir", "CTCreateFile"} =>
        /\ Kept
        /\ Added \subseteq Prefixes0(Path)
        /\ pc = "done" /\ ret = 0 =>
            /\ op = "CTCreateDir" => IsDir(tree, Path) \/ NotADirectory
            /\ op = "CTCreateFile" => Exists(tree, Path) /\ ~IsDir(tree, Path)
            /\ \A q \in Added : tree[q] # "dir" => op = "CTCreateFile" /\ q = Path
        /\ pc = "done" /\ name[1] = EmptyPiece =>
            ret = -1 \/ (op = "CTCreateFile" /\ Len(name) = 2)
        /\ pc = "done" /\ ret # 0 =>
            \/ name[1] = EmptyPiece \/ raced
            \/ Blocked(Path)
            \/ (Last(name).slash /\ ~IsDir(before, Path))
            \/ (op = "CTCreateFile" /\ IsDir(tree, Path))

\* CTRemove (lines 124-153) returns 0 only when the file or directory is gone
\* with all below it, or the name is neither, and fails only if there is
\* nothing of that name or something below it that is neither; at no moment
\* has anything beside the name been touched, or what is neither removed.
RemovesOnlyWhatIsNamed ==
    op = "CTRemove" =>
        LET under == Below(before, Path)
            other == {q \in under : before[q] = "other"}
        IN  /\ Without(tree, Below(tree, Path)) = Without(before, under)
            /\ Below(tree, Path) \subseteq under
            /\ other \subseteq Below(tree, Path)
            /\ pc = "done" =>
                /\ ret = 0 <=> (Access(before, Last(name)) /\ (other = {} \/ Path \in other))
                /\ ret = 0 /\ Path \notin other => Below(tree, Path) = {}
=============================================================================
