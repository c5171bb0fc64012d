--------------------------- MODULE FileTreeProofs ---------------------------
(* Proofs about FileTree, for every tree, every name and any number of     *)
(* calls: a creation adds what the name says and nothing else, a removal   *)
(* takes what the name says and nothing else.                              *)
EXTENDS FileTree, SequenceTheorems, TLAPS

(***************************************************************************)
(* The inductive invariant.                                                *)
(***************************************************************************)
Creations == {"CTCreateDir", "CTCreateFile"}
Places == {"idle", "test", "make", "open", "remove", "done"}
Absolute == name[1] = EmptyPiece

\* The type invariant: both trees are trees, and a call has a name.
TypeOK ==
    /\ IsTree(tree) /\ IsTree(before)
    /\ pc \in Places /\ op \in Creations \cup {"none", "CTRemove"}
    /\ pc = "idle" <=> op = "none"
    /\ op # "none" => name \in Names
    /\ stray \in BOOLEAN /\ raced \in BOOLEAN
    /\ round \in Nat /\ ret \in {0, -1}

\* What a creation has done, wherever it is.
OnlyAdds ==
    /\ Kept
    /\ Added \subseteq Prefixes0(Path)
    /\ pc # "done" => \A q \in Added : tree[q] = "dir"

\* Where the loop is, the pieces it has passed exist.
Rounding ==
    pc \in {"test", "make"} =>
        /\ op = "CTCreateFile" => Len(name) > 1
        /\ round \in 1 .. LastRound + 1
        /\ Absolute => round = 1
        /\ \A j \in 1 .. round - 1 : Exists(tree, name[j].path)

Making == pc = "make" => round <= LastRound /\ (~raced => ~Access(tree, name[round]))

Opening ==
    pc = "open" =>
        /\ op = "CTCreateFile"
        /\ Absolute => Len(name) = 2
        /\ ~Absolute => \A j \in 1 .. Len(name) - 1 : Exists(tree, name[j].path)

CreateInv ==
    op \in Creations =>
        pc # "remove" /\ OnlyAdds /\ Rounding /\ Making /\ Opening /\ CreatesWhatIsNamed

\* What a removal leaves alone, wherever it is.
OnlyRemoves ==
    /\ \A q \in DOMAIN tree : Exists(before, q) /\ tree[q] = before[q]
    /\ \A q \in DOMAIN before :
        ~Exists(tree, q) => IsPrefix(Path, q) /\ before[q] # "other"

\* The open directories lead from the name down.
Descends ==
    /\ stack[1].dir = Path
    /\ \A k \in 1 .. Len(stack) :
        /\ IsDir(tree, stack[k].dir) /\ IsPrefix(Path, stack[k].dir)
        /\ Len(stack[k].dir) = Len(Path) + k - 1
        /\ \A q \in stack[k].left : q # <<>> /\ Front(q) = stack[k].dir

\* What is left in an open directory is not read yet, is no file and no
\* directory, or is open itself.
Covers ==
    \A k \in 1 .. Len(stack) : \A q \in Entries(tree, stack[k].dir) :
        \/ q \in stack[k].left
        \/ tree[q] = "other"
        \/ k < Len(stack) /\ q = stack[k + 1].dir

Opened == [dir : Paths, left : SUBSET Paths]

Removing ==
    pc = "remove" =>
        /\ Access(before, Last(name)) /\ IsDir(before, Path)
        /\ stack \in Seq(Opened) /\ stack # <<>>
        /\ Descends /\ Covers

RemoveInv ==
    op = "CTRemove" =>
        /\ pc \in {"remove", "done"} /\ name \in Removable
        /\ OnlyRemoves /\ Removing /\ RemovesOnlyWhatIsNamed

IInv == TypeOK /\ CreateInv /\ RemoveInv

(***************************************************************************)
(* Paths.                                                                  *)
(***************************************************************************)
\* A path is in front of another when they agree as far as it goes.
LEMMA PrefixMeans ==
    ASSUME NEW s \in Paths, NEW t \in Paths
    PROVE  IsPrefix(s, t) <=> Len(s) <= Len(t) /\ \A i \in 1 .. Len(s) : s[i] = t[i]
  BY DEF IsPrefix, Paths

LEMMA PrefixOrder ==
    ASSUME NEW s \in Paths, NEW t \in Paths, NEW u \in Paths
    PROVE  /\ IsPrefix(s, s) /\ IsPrefix(<<>>, s)
           /\ IsPrefix(s, t) /\ IsPrefix(t, u) => IsPrefix(s, u)
           /\ IsPrefix(s, t) /\ Len(t) <= Len(s) => s = t
  <1>1. <<>> \in Paths /\ Len(s) \in Nat /\ Len(t) \in Nat /\ Len(u) \in Nat
    BY DEF Paths
  <1>2. IsPrefix(s, s) /\ IsPrefix(<<>>, s)  BY <1>1, PrefixMeans
  <1>3. ASSUME IsPrefix(s, t), IsPrefix(t, u)  PROVE IsPrefix(s, u)
    <2>1. Len(s) <= Len(t) /\ \A i \in 1 .. Len(s) : s[i] = t[i]  BY <1>3, PrefixMeans
    <2>2. Len(t) <= Len(u) /\ \A i \in 1 .. Len(t) : t[i] = u[i]  BY <1>3, PrefixMeans
    <2>3. \A i \in 1 .. Len(s) : s[i] = u[i]  BY <1>1, <2>1, <2>2
    <2>4. QED  BY <1>1, <2>1, <2>2, <2>3, PrefixMeans
  <1>4. ASSUME IsPrefix(s, t), Len(t) <= Len(s)  PROVE s = t
    <2>1. Len(s) = Len(t) /\ \A i \in 1 .. Len(s) : s[i] = t[i]
      BY <1>1, <1>4, PrefixMeans
    <2>2. QED  BY <2>1, SeqEqual DEF Paths
  <1>5. QED  BY <1>2, <1>3, <1>4

LEMMA SubSeqProps ==
    ASSUME NEW p \in Paths, NEW i \in 0 .. Len(p)
    PROVE  /\ SubSeq(p, 1, i) \in Paths /\ Len(SubSeq(p, 1, i)) = i
           /\ IsPrefix(SubSeq(p, 1, i), p)
           /\ \A j \in 1 .. i : SubSeq(p, 1, i)[j] = p[j]
  <1>1. Len(p) \in Nat /\ \A j \in 1 .. i : p[j] \in Labels  BY DEF Paths
  <1>2. /\ SubSeq(p, 1, i) \in Paths /\ Len(SubSeq(p, 1, i)) = i
        /\ \A j \in 1 .. i : SubSeq(p, 1, i)[j] = p[j]
    BY <1>1, SubSeqProperties DEF Paths
  <1>3. IsPrefix(SubSeq(p, 1, i), p)
    <2> DEFINE s == SubSeq(p, 1, i)
    <2>1. s \in Paths /\ Len(s) = i /\ \A j \in 1 .. i : s[j] = p[j]  BY <1>2
    <2>2. i <= Len(p)  BY <1>1
    <2> HIDE DEF s
    <2>3. IsPrefix(s, p)  BY <2>1, <2>2, PrefixMeans
    <2>4. QED  BY <2>3 DEF s
  <1>4. QED  BY <1>2, <1>3

\* What stands in front of the last name.
LEMMA FrontProps ==
    ASSUME NEW p \in Paths, p # <<>>
    PROVE  /\ Front(p) \in Paths /\ Len(Front(p)) = Len(p) - 1
           /\ IsPrefix(Front(p), p)
           /\ \A i \in 1 .. Len(p) - 1 : Front(p)[i] = p[i]
           /\ Last(p) = p[Len(p)] /\ Len(p) \in Nat \ {0}
  <1>1. Len(p) \in Nat \ {0}  BY DEF Paths
  <1>2. Len(p) - 1 \in 0 .. Len(p)  BY <1>1
  <1>3. /\ Front(p) \in Paths /\ Len(Front(p)) = Len(p) - 1
        /\ \A i \in 1 .. Len(p) - 1 : Front(p)[i] = p[i]
        /\ IsPrefix(Front(p), p)
    BY <1>2, SubSeqProps DEF Front
  <1>4. QED  BY <1>1, <1>3 DEF Last

LEMMA PrefixOfFront ==
    ASSUME NEW s \in Paths, NEW p \in Paths, IsPrefix(s, p), s # p
    PROVE  p # <<>> /\ IsPrefix(s, Front(p))
  BY PrefixMeans, PrefixOrder, FrontProps, SeqEqual DEF Paths

LEMMA PrefixIsSubSeq ==
    ASSUME NEW s \in Paths, NEW p \in Paths, IsPrefix(s, p)
    PROVE  Len(s) \in 0 .. Len(p) /\ s = SubSeq(p, 1, Len(s))
  BY PrefixMeans, SubSeqProps, SeqEqual DEF Paths

LEMMA SubSeqOfFront ==
    ASSUME NEW p \in Paths, NEW i \in 0 .. Len(p) - 1
    PROVE  p # <<>> /\ SubSeq(p, 1, i) = SubSeq(Front(p), 1, i)
  <1>1. p # <<>> /\ i \in 0 .. Len(Front(p)) /\ Front(p) \in Paths
    BY FrontProps DEF Paths
  <1>2. QED  BY <1>1, FrontProps, SubSeqProps, SeqEqual DEF Paths

(***************************************************************************)
(* Trees.                                                                  *)
(***************************************************************************)
LEMMA TreeFacts ==
    ASSUME NEW t, IsTree(t), NEW q \in DOMAIN t
    PROVE  /\ q \in Paths
           /\ t[q] \in {"dir", "file", "other"}
  BY DEF IsTree, Paths

\* Above a path that exists there are directories.
LEMMA AboveIsDir ==
    ASSUME NEW t, IsTree(t), NEW q \in DOMAIN t, NEW s \in Paths, IsPrefix(s, q), s # q
    PROVE  IsDir(t, s)
  <1>1. q \in Paths  BY TreeFacts
  <1>2. Len(s) \in 0 .. Len(q) /\ s = SubSeq(q, 1, Len(s))  BY <1>1, PrefixIsSubSeq
  <1>3. Len(s) # Len(q)  BY <1>1, PrefixOrder DEF Paths
  <1>4. Len(s) \in 0 .. Len(q) - 1  BY <1>1, <1>2, <1>3 DEF Paths
  <1>5. QED  BY <1>2, <1>4 DEF IsTree

\* A file or directory put into a directory.
LEMMA TreeWith ==
    ASSUME NEW t, IsTree(t), NEW p \in Paths, p # <<>>,
           ~Exists(t, p), IsDir(t, Front(p)), NEW kind \in {"dir", "file"}
    PROVE  IsTree(With(t, p, kind))
  <1> DEFINE u == With(t, p, kind)
  <1>1. DOMAIN u = DOMAIN t \cup {p} /\ \A q \in DOMAIN t : u[q] = t[q]
    BY DEF With, Exists
  <1>2. DOMAIN u \subseteq Paths  BY <1>1, TreeFacts DEF Paths
  <1>3. u \in [DOMAIN u -> {"dir", "file", "other"}]  BY TreeFacts DEF With
  <1>4. \A q : IsDir(t, q) => IsDir(u, q)  BY <1>1 DEF IsDir, Exists
  <1>5. ASSUME NEW q \in DOMAIN u, NEW i \in 0 .. Len(q) - 1
        PROVE  IsDir(u, SubSeq(q, 1, i))
    <2>1. CASE q \in DOMAIN t  BY <1>4, <2>1, <1>5 DEF IsTree
    <2>2. CASE q = p
      <3>1. p # <<>> /\ SubSeq(p, 1, i) = SubSeq(Front(p), 1, i)
        BY <1>5, <2>2, SubSeqOfFront
      <3>2. Front(p) \in DOMAIN t /\ Front(p) \in Paths /\ Len(Front(p)) = Len(p) - 1
        BY <3>1, FrontProps DEF IsDir, Exists
      <3>3. i \in 0 .. Len(Front(p))  BY <3>2, <2>2, <1>5
      <3>4. SubSeq(Front(p), 1, i) \in Paths /\ IsPrefix(SubSeq(Front(p), 1, i), Front(p))
        BY <3>2, <3>3, SubSeqProps
      <3>5. IsDir(t, SubSeq(Front(p), 1, i))  BY <3>2, <3>4, AboveIsDir
      <3>6. QED  BY <3>1, <3>5, <1>4, <2>2
    <2>3. QED  BY <1>1, <2>1, <2>2
  <1> HIDE DEF u
  <1>6. QED  BY <1>2, <1>3, <1>4, <1>5 DEF IsTree, u

\* A file or an empty directory taken out, unless the current directory is
\* in it.
LEMMA TreeWithout ==
    ASSUME NEW t, IsTree(t), NEW p \in DOMAIN t, Below(t, p) = {p}, ~IsPrefix(p, Cwd)
    PROVE  IsTree(Without(t, {p}))
  <1> DEFINE u == Without(t, {p})
  <1>1. DOMAIN u = DOMAIN t \ {p} /\ \A q \in DOMAIN u : u[q] = t[q]  BY DEF Without
  <1>2. \A q : IsDir(t, q) /\ q # p => IsDir(u, q)  BY <1>1 DEF IsDir, Exists
  <1>3. p \in Paths /\ Cwd \in Paths /\ <<>> \in Paths
    <2>1. p \in Paths  BY TreeFacts
    <2>2. Cwd \in Paths  BY NamesAssumption
    <2>3. <<>> \in Paths  BY DEF Paths
    <2>4. QED  BY <2>1, <2>2, <2>3
  <1>4. p # Cwd /\ p # <<>>  BY <1>3, PrefixOrder
  <1>5. ASSUME NEW q \in DOMAIN u, NEW i \in 0 .. Len(q) - 1
        PROVE  IsDir(u, SubSeq(q, 1, i))
    <2>1. q \in DOMAIN t /\ q # p /\ q \in Paths  BY <1>1, TreeFacts
    <2>2. SubSeq(q, 1, i) \in Paths /\ IsPrefix(SubSeq(q, 1, i), q)
      BY <2>1, SubSeqProps DEF Paths
    <2>3. SubSeq(q, 1, i) # p
      <3>1. SUFFICES ASSUME SubSeq(q, 1, i) = p  PROVE FALSE  OBVIOUS
      <3>2. IsPrefix(p, q)  BY <2>2, <3>1
      <3>3. q \in Below(t, p)  BY <2>1, <3>2 DEF Below
      <3>4. QED  BY <2>1, <3>3
    <2>4. QED  BY <1>2, <2>1, <2>3 DEF IsTree
  <1>6. u \in [DOMAIN u -> {"dir", "file", "other"}]  BY TreeFacts DEF Without
  <1>7. DOMAIN u \subseteq Paths  BY <1>1, TreeFacts DEF Paths
  <1> HIDE DEF u
  <1>8. QED  BY <1>2, <1>4, <1>5, <1>6, <1>7 DEF IsTree, u

\* Nothing is below a file.
LEMMA FileIsAlone ==
    ASSUME NEW t, IsTree(t), NEW p, Exists(t, p), ~IsDir(t, p)
    PROVE  Below(t, p) = {p}
  <1>1. p \in DOMAIN t /\ p \in Paths  BY TreeFacts DEF Exists
  <1>2. QED  BY <1>1, AboveIsDir, PrefixOrder, TreeFacts DEF Below

(***************************************************************************)
(* Names.                                                                  *)
(***************************************************************************)
LEMMA NameFacts ==
    ASSUME NEW d \in Names
    PROVE  /\ Len(d) \in Nat \ {0} /\ DOMAIN d = 1 .. Len(d) /\ Cwd \in Paths
           /\ \A i \in 1 .. Len(d) : d[i].slash \in BOOLEAN
           /\ Last(d) = d[Len(d)]
           /\ d[1] = EmptyPiece => Len(d) > 1
           /\ \A i \in 2 .. Len(d) : d[i].path \in Paths /\ Adds(Base(d[i - 1]), d[i])
  <1> DEFINE P == [path : Paths \cup {NoPath}, slash : BOOLEAN]
  <1>1. d \in Seq(P) /\ d # <<>> /\ d # <<EmptyPiece>>  BY NamesAssumption
  <1>2. EmptyPiece \in P  BY DEF EmptyPiece
  <1>3. \A x \in P : x.slash \in BOOLEAN  OBVIOUS
  <1> HIDE DEF P
  <1>4. /\ Len(d) \in Nat \ {0} /\ DOMAIN d = 1 .. Len(d)
        /\ \A i \in 1 .. Len(d) : d[i] \in P
    BY <1>1
  <1>5. ASSUME d[1] = EmptyPiece, Len(d) = 1  PROVE FALSE
    <2>1. /\ <<EmptyPiece>> \in Seq(P) /\ Len(<<EmptyPiece>>) = 1
          /\ <<EmptyPiece>>[1] = EmptyPiece
      BY <1>2
    <2>2. d = <<EmptyPiece>>  BY <1>1, <1>5, <2>1, SeqEqual
    <2>3. QED  BY <1>1, <2>2
  <1>6. Len(d) # 1 => Len(d) > 1
    <2>1. PICK n \in Nat \ {0} : n = Len(d)  BY <1>4
    <2>2. n # 1 => n > 1  OBVIOUS
    <2>3. QED  BY <2>1, <2>2
  <1>7. /\ Cwd \in Paths
        /\ \A i \in 2 .. Len(d) : d[i].path \in Paths /\ Adds(Base(d[i - 1]), d[i])
    BY NamesAssumption
  <1>8. QED  BY <1>3, <1>4, <1>5, <1>6, <1>7 DEF Last

\* The first piece of a relative name is in the current directory.
LEMMA FirstPiece ==
    ASSUME NEW d \in Names, d[1] # EmptyPiece
    PROVE  /\ ~d[1].slash /\ d[1].path # <<>> /\ Front(d[1].path) = Cwd
           /\ d[1].path \in Paths
  <1>1. d[1].path \in Paths /\ Adds(Cwd, d[1]) /\ ~d[1].slash  BY NamesAssumption
  <1>2. QED  BY <1>1 DEF Adds

LEMMA NoPathIsNone == NoPath \notin Paths
  <1>1. SUFFICES ASSUME NoPath \in Paths  PROVE FALSE  OBVIOUS
  <1>2. Len(NoPath) = 1 /\ NoPath[1] = ""  BY DEF NoPath
  <1>3. \A s \in Paths : Len(s) = 1 => s[1] \in Labels  BY DEF Paths
  <1>4. NoPath[1] \in Labels  BY <1>1, <1>2, <1>3
  <1>5. "" \notin Labels  BY NamesAssumption
  <1>6. QED  BY <1>2, <1>4, <1>5

\* Each piece leads on to the whole name.
LEMMA PieceFacts ==
    ASSUME NEW d \in Names, NEW i \in 1 .. Len(d), d[i] # EmptyPiece
    PROVE  /\ d[i].path \in Paths /\ Last(d).path \in Paths
           /\ IsPrefix(d[i].path, Last(d).path)
           /\ d[i].path \in Prefixes0(Last(d).path)
  <1>1. Len(d) \in Nat \ {0} /\ Last(d) = d[Len(d)]  BY NameFacts
  <1>2. \A j \in 1 .. Len(d) : d[j] # EmptyPiece => d[j].path \in Paths
    BY NameFacts, FirstPiece
  <1>3. d[Len(d)] # EmptyPiece
    <2>1. CASE Len(d) = 1  BY <2>1, NameFacts
    <2>2. CASE Len(d) # 1
      <3>1. Len(d) \in 2 .. Len(d)  BY <1>1, <2>2
      <3>2. d[Len(d)].path \in Paths  BY <3>1, NameFacts
      <3>3. QED  BY <3>2, NoPathIsNone DEF EmptyPiece
    <2>3. QED  BY <2>1, <2>2
  <1>4. Len(d) \in 1 .. Len(d) /\ i <= Len(d)  BY <1>1
  <1>5. d[i].path \in Paths /\ d[Len(d)].path \in Paths  BY <1>2, <1>3, <1>4
  <1>6. IsPrefix(d[i].path, d[Len(d)].path)  BY <1>4, NamesAssumption
  <1>7. d[i].path \in Prefixes0(d[Len(d)].path)
    BY <1>5, <1>6, PrefixIsSubSeq DEF Prefixes0
  <1>8. QED  BY <1>1, <1>5, <1>6, <1>7

LEMMA LastPiece ==
    ASSUME NEW d \in Names
    PROVE  Last(d) # EmptyPiece /\ Last(d).path \in Paths
  <1>1. Len(d) \in Nat \ {0} /\ Last(d) = d[Len(d)]  BY NameFacts
  <1>2. CASE Len(d) = 1  BY <1>1, <1>2, NameFacts, FirstPiece
  <1>3. CASE Len(d) # 1
    <2>1. Len(d) \in 2 .. Len(d)
      <3>1. PICK n \in Nat \ {0} : n = Len(d)  BY <1>1
      <3>2. n # 1 => n \in 2 .. n  OBVIOUS
      <3>3. QED  BY <3>1, <3>2, <1>3
    <2>2. d[Len(d)].path \in Paths  BY <2>1, NameFacts
    <2>3. QED  BY <1>1, <2>2, NoPathIsNone DEF EmptyPiece
  <1>4. QED  BY <1>2, <1>3

\* In a relative name a piece adds to a path that is none the less a piece's.
LEMMA RelativePiece ==
    ASSUME NEW d \in Names, d[1] # EmptyPiece, NEW i \in 1 .. Len(d)
    PROVE  /\ d[i] # EmptyPiece /\ d[i].path # <<>>
           /\ d[i].slash => i > 1 /\ d[i].path = d[i - 1].path
           /\ ~d[i].slash =>
                Front(d[i].path) = IF i = 1 THEN Cwd ELSE d[i - 1].path
  <1>1. Len(d) \in Nat \ {0}  BY NameFacts
  <1>2. \A j \in 1 .. Len(d) : d[j] # EmptyPiece
    <2>1. SUFFICES ASSUME NEW j \in 1 .. Len(d)  PROVE d[j] # EmptyPiece  OBVIOUS
    <2>2. CASE j = 1  BY <2>2
    <2>3. CASE j # 1
      <3>1. j \in 2 .. Len(d)  BY <1>1, <2>3
      <3>2. d[j].path \in Paths  BY <3>1, NameFacts
      <3>3. QED  BY <3>2, NoPathIsNone DEF EmptyPiece
    <2>4. QED  BY <2>2, <2>3
  <1>3. d[i].path # <<>>
    <2>1. 1 \in 1 .. Len(d) /\ 1 <= i  BY <1>1
    <2>2. IsPrefix(d[1].path, d[i].path)  BY <1>2, <2>1, NamesAssumption
    <2>3. Len(d[1].path) <= Len(d[i].path)  BY <2>2 DEF IsPrefix
    <2>4. d[1].path # <<>> /\ d[1].path \in Paths  BY FirstPiece
    <2>5. Len(d[1].path) > 0  BY <2>4 DEF Paths
    <2>6. Len(<<>>) = 0  OBVIOUS
    <2>7. QED  BY <2>3, <2>5, <2>6
  <1>4. CASE i = 1  BY <1>2, <1>3, <1>4, FirstPiece
  <1>5. CASE i # 1
    <2>1. i \in 2 .. Len(d) /\ i - 1 \in 1 .. Len(d)  BY <1>1, <1>5
    <2>2. Adds(Base(d[i - 1]), d[i])  BY <2>1, NameFacts
    <2>3. Base(d[i - 1]) = d[i - 1].path  BY <1>2, <2>1 DEF Base
    <2>4. i > 1  BY <2>1
    <2>5. QED  BY <1>2, <1>3, <1>5, <2>2, <2>3, <2>4 DEF Adds
  <1>6. QED  BY <1>4, <1>5

\* What comes to the same path as the whole name is followed by a separator.
LEMMA SamePath ==
    ASSUME NEW d \in Names, d[1] # EmptyPiece, NEW i \in 1 .. Len(d) - 1,
           d[i].path = Last(d).path
    PROVE  Last(d).slash
  <1>1. /\ Len(d) \in Nat \ {0} /\ Last(d) = d[Len(d)] /\ d[Len(d)].slash \in BOOLEAN
        /\ Len(d) \in 1 .. Len(d) /\ Len(d) - 1 \in 1 .. Len(d) /\ Len(d) # 1
        /\ i \in 1 .. Len(d) /\ i <= Len(d) - 1
    BY NameFacts
  <1>2. SUFFICES ASSUME ~d[Len(d)].slash  PROVE FALSE  BY <1>1
  <1>3. d[Len(d)].path # <<>> /\ Front(d[Len(d)].path) = d[Len(d) - 1].path
    BY <1>1, <1>2, RelativePiece
  <1>4. IsPrefix(d[i].path, d[Len(d) - 1].path)
    BY <1>1, NamesAssumption, RelativePiece
  <1>5. Len(d[i].path) <= Len(d[Len(d) - 1].path)  BY <1>4 DEF IsPrefix
  <1>6. d[Len(d)].path \in Paths  BY <1>1, LastPiece
  <1>7. /\ Len(d[Len(d) - 1].path) = Len(d[Len(d)].path) - 1
        /\ Len(d[Len(d)].path) \in Nat \ {0}
    BY <1>3, <1>6, FrontProps
  <1>8. QED  BY <1>1, <1>5, <1>7

(***************************************************************************)
(* The rounds of the loop.                                                 *)
(***************************************************************************)
LEMMA FrontOfName ==
    ASSUME NEW d \in Names, Len(d) > 1
    PROVE  /\ Len(Front(d)) = Len(d) - 1 /\ Front(d)[1] = d[1]
           /\ Last(Front(d)) = d[Len(d) - 1]
           /\ Front(d) = <<EmptyPiece>> => Len(d) = 2 /\ d[1] = EmptyPiece
  <1> DEFINE P == [path : Paths \cup {NoPath}, slash : BOOLEAN]
  <1>1. d \in Seq(P)  BY NamesAssumption
  <1> HIDE DEF P
  <1>2. Len(d) \in Nat /\ \A j \in 1 .. Len(d) - 1 : d[j] \in P  BY <1>1
  <1>3. /\ Len(Front(d)) = Len(d) - 1
        /\ \A j \in 1 .. Len(d) - 1 : Front(d)[j] = d[j]
    BY <1>1, <1>2, SubSeqProperties DEF Front
  <1>4. 1 \in 1 .. Len(d) - 1 /\ Len(d) - 1 \in 1 .. Len(d) - 1  BY <1>2
  <1>5. Front(d)[1] = d[1] /\ Last(Front(d)) = d[Len(d) - 1]  BY <1>3, <1>4 DEF Last
  <1>6. ASSUME Front(d) = <<EmptyPiece>>  PROVE Len(d) = 2 /\ d[1] = EmptyPiece
    <2>1. Len(Front(d)) = 1 /\ Front(d)[1] = EmptyPiece  BY <1>6
    <2>2. Len(d) - 1 = 1  BY <1>3, <2>1
    <2>3. Len(d) = 2  BY <1>2, <2>2
    <2>4. QED  BY <1>5, <2>1, <2>3
  <1>7. QED  BY <1>3, <1>5, <1>6

\* The loop stays in the name; it comes to a first piece that is empty,
\* unless the file is in the root; and when it is at its end, it has come to
\* the whole name, or to all but the last piece of it.
LEMMA LastRoundFacts ==
    ASSUME NEW d \in Names, NEW which \in Creations, NEW s, NEW last,
           which = "CTCreateFile" => Len(d) > 1,
           last = Rounds(IF which = "CTCreateFile" THEN Front(d) ELSE d, s)
    PROVE  /\ last \in 0 .. Len(d)
           /\ which = "CTCreateFile" => last <= Len(d) - 1
           /\ d[1] = EmptyPiece => last > 0 \/ (which = "CTCreateFile" /\ Len(d) = 2)
  <1> DEFINE n == Len(d)
  <1>1. n \in Nat \ {0} /\ Last(d) = d[n] /\ (d[1] = EmptyPiece => n > 1)
    BY NameFacts
  <1>2. CASE which = "CTCreateDir"
    <2>1. last = Rounds(d, s)  BY <1>2
    <2>2. d # <<EmptyPiece>>  BY NamesAssumption
    <2>3. last = IF d[n].slash THEN n - 1 ELSE n  BY <1>1, <2>1, <2>2 DEF Rounds
    <2> HIDE DEF n
    <2>4. last \in 0 .. n /\ (n > 1 => last > 0)  BY <1>1, <2>3
    <2>5. QED  BY <1>1, <1>2, <2>4 DEF n
  <1>3. CASE which = "CTCreateFile"
    <2>1. last = Rounds(Front(d), s)  BY <1>3
    <2>2. /\ Len(Front(d)) = n - 1 /\ n > 1
          /\ Front(d) = <<EmptyPiece>> => n = 2
      BY <1>3, FrontOfName
    <2>3. last = n - 1 - 1 \/ last = n - 1  BY <2>1, <2>2 DEF Rounds
    <2>4. /\ last \in 0 .. n /\ last <= n - 1
          /\ n # 2 => last > 0
      <3> HIDE DEF n
      <3>1. QED  BY <1>1, <2>2, <2>3
    <2>5. QED  BY <1>3, <2>4
  <1>4. QED  BY <1>2, <1>3 DEF Creations

LEMMA AllRounds ==
    ASSUME name \in Names, op \in Creations, op = "CTCreateFile" => Len(name) > 1,
           ~Absolute, NEW t,
           \A j \in 1 .. LastRound : Exists(t, name[j].path)
    PROVE  /\ op = "CTCreateDir" => Exists(t, Path)
           /\ op = "CTCreateFile" => \A j \in 1 .. Len(name) - 1 : Exists(t, name[j].path)
  <1> DEFINE n == Len(name)
  <1>1. n \in Nat \ {0} /\ Last(name) = name[n]  BY NameFacts
  <1>2. CASE op = "CTCreateDir"
    <2>1. LastRound = Rounds(name, stray)  BY <1>2 DEF LastRound
    <2>2. name # <<EmptyPiece>>  BY NamesAssumption
    <2>3. LastRound = IF name[n].slash THEN n - 1 ELSE n  BY <1>1, <2>1, <2>2 DEF Rounds
    <2>4. CASE name[n].slash
      <3>1. n \in 1 .. Len(name)  BY <1>1
      <3>2. n > 1 /\ name[n].path = name[n - 1].path
        BY <2>4, <3>1, RelativePiece DEF Absolute
      <3>3. n - 1 \in 1 .. LastRound  BY <1>1, <2>3, <2>4, <3>2
      <3>4. QED  BY <1>1, <1>2, <3>2, <3>3 DEF Path
    <2>5. CASE ~name[n].slash
      <3>1. n \in 1 .. LastRound  BY <1>1, <2>3, <2>5
      <3>2. QED  BY <1>1, <1>2, <3>1 DEF Path
    <2>6. QED  BY <2>4, <2>5
  <1>3. CASE op = "CTCreateFile"
    <2>1. LastRound = Rounds(Front(name), stray)  BY <1>3 DEF LastRound
    <2>2. /\ Len(Front(name)) = n - 1 /\ n > 1 /\ Last(Front(name)) = name[n - 1]
          /\ Front(name) # <<EmptyPiece>>
      BY <1>3, FrontOfName DEF Absolute
    <2>3. LastRound = IF name[n - 1].slash THEN n - 1 - 1 ELSE n - 1
      BY <2>1, <2>2 DEF Rounds
    <2>4. SUFFICES ASSUME NEW j \in 1 .. n - 1  PROVE Exists(t, name[j].path)  BY <1>3
    <2>5. CASE j \in 1 .. LastRound  BY <2>5
    <2>6. CASE j \notin 1 .. LastRound
      <3>1. name[n - 1].slash /\ j = n - 1
        <4> HIDE DEF n
        <4>1. QED  BY <1>1, <2>2, <2>3, <2>4, <2>6
      <3>2. n - 1 \in 1 .. Len(name)  BY <1>1, <2>2
      <3>3. n - 1 > 1 /\ name[n - 1].path = name[n - 1 - 1].path
        BY <3>1, <3>2, RelativePiece DEF Absolute
      <3>4. n - 1 - 1 \in 1 .. LastRound
        <4>1. LastRound = n - 1 - 1  BY <2>3, <3>1
        <4> HIDE DEF n
        <4>2. QED  BY <1>1, <3>3, <4>1
      <3>5. QED  BY <3>1, <3>3, <3>4
    <2>7. QED  BY <2>5, <2>6
  <1>4. QED  BY <1>2, <1>3 DEF Creations

(***************************************************************************)
(* The steps of a creation.                                                *)
(***************************************************************************)
LEMMA InCreation ==
    ASSUME IInv, pc \in {"test", "make", "open"}
    PROVE  /\ op \in Creations /\ name \in Names
           /\ OnlyAdds /\ Rounding /\ Making /\ Opening
           /\ IsTree(tree) /\ IsTree(before)
  BY DEF IInv, TypeOK, CreateInv, RemoveInv, Creations

\* A creation that has not returned and has only added is as it should be.
LEMMA StillCreating ==
    ASSUME TypeOK', op' \in Creations, pc' \notin {"done", "remove"},
           OnlyAdds', Rounding', Making', Opening'
    PROVE  IInv'
  <1>1. CreatesWhatIsNamed'  BY DEF CreatesWhatIsNamed, OnlyAdds
  <1>2. op' # "CTRemove"  BY DEF Creations
  <1>3. QED  BY <1>1, <1>2 DEF IInv, CreateInv, RemoveInv

\* One that has returned has to answer for it.
LEMMA HasCreated ==
    ASSUME TypeOK', op' \in Creations, pc' = "done", CreatesWhatIsNamed'
    PROVE  IInv'
  <1>1. op' # "CTRemove"  BY DEF Creations
  <1>2. OnlyAdds' /\ Rounding' /\ Making' /\ Opening'
    BY DEF OnlyAdds, Rounding, Making, Opening, CreatesWhatIsNamed, Creations
  <1>3. QED  BY <1>1, <1>2 DEF IInv, CreateInv, RemoveInv

\* A directory on the way to the name is made, by the call or by another.
LEMMA DirMade ==
    ASSUME IInv, pc \in {"test", "make", "open"}, NEW i \in 1 .. Len(name),
           CanMkdir(tree, name[i].path),
           tree' = With(tree, name[i].path, "dir"), UNCHANGED <<name, before>>
    PROVE  /\ IsTree(tree') /\ OnlyAdds'
           /\ name[i] # EmptyPiece /\ Exists(tree', name[i].path)
           /\ \A q : Exists(tree, q) => Exists(tree', q) /\ tree'[q] = tree[q]
  <1> DEFINE p == name[i].path
  <1>1. /\ name \in Names /\ OnlyAdds /\ IsTree(tree) /\ pc # "done"
    BY InCreation
  <1>2. name[i] # EmptyPiece  BY DEF CanMkdir, EmptyPiece
  <1>3. p \in Paths /\ p \in Prefixes0(Path)  BY <1>1, <1>2, PieceFacts DEF Path
  <1>4. p # <<>> /\ ~Exists(tree, p) /\ IsDir(tree, Front(p))  BY DEF CanMkdir
  <1>5. IsTree(tree')  BY <1>1, <1>3, <1>4, TreeWith
  <1>6. /\ DOMAIN tree' = DOMAIN tree \cup {p} /\ tree'[p] = "dir"
        /\ \A q \in DOMAIN tree : tree'[q] = tree[q]
    BY <1>4 DEF With, Exists
  <1>7. Path' = Path /\ before' = before  BY DEF Path
  <1> HIDE DEF p
  <1>8. Kept'  BY <1>1, <1>6, <1>7 DEF OnlyAdds, Kept, Exists
  <1>9. Added' \subseteq Added \cup {p}  BY <1>6, <1>7 DEF Added
  <1>10. Added' \subseteq Prefixes0(Path)'
    BY <1>1, <1>3, <1>7, <1>9 DEF OnlyAdds, Prefixes0
  <1>11. \A q \in Added' : tree'[q] = "dir"
    BY <1>1, <1>6, <1>7 DEF OnlyAdds, Added
  <1>12. OnlyAdds'  BY <1>8, <1>10, <1>11 DEF OnlyAdds
  <1>13. QED  BY <1>2, <1>5, <1>6, <1>12 DEF p, Exists

LEMMA BeginCreation ==
    ASSUME IInv, NEW d \in Names, CTCreateDir(d) \/ CTCreateFile(d)
    PROVE  IInv'
  <1>1. /\ name' = d /\ before' = tree /\ tree' = tree /\ raced' = FALSE
        /\ round' = 1 /\ ret' = ret /\ stray' \in BOOLEAN /\ op' \in Creations
        /\ pc' = IF op' = "CTCreateFile" /\ Len(d) = 1 THEN "open" ELSE "test"
    BY DEF CTCreateDir, CTCreateFile, Call, Creations
  <1>2. pc' \in {"test", "open"}  BY <1>1
  <1>3. IsTree(tree)  BY DEF IInv, TypeOK
  <1>4. TypeOK'
    BY <1>1, <1>2, <1>3 DEF IInv, TypeOK, Places, Creations
  <1>5. OnlyAdds'
    BY <1>1, <1>2 DEF OnlyAdds, Kept, Added, Exists
  <1>6. Rounding'
    <2>1. SUFFICES ASSUME pc' = "test"  PROVE Rounding'  BY <1>2 DEF Rounding
    <2>2. Len(d) \in Nat \ {0}  BY NameFacts
    <2>3. op' = "CTCreateFile" => Len(d) > 1
      <3>1. PICK n \in Nat \ {0} : n = Len(d)  BY <2>2
      <3>2. n # 1 => n > 1  OBVIOUS
      <3>3. QED  BY <1>1, <2>1, <3>1, <3>2
    <2>4. LastRound' \in 0 .. Len(d)  BY <1>1, <2>3, LastRoundFacts DEF LastRound
    <2>5. PICK n : n = LastRound'  OBVIOUS
    <2>6. n \in Nat  BY <2>2, <2>4, <2>5
    <2>7. 1 \in 1 .. n + 1 /\ 1 .. 1 - 1 = {}  BY <2>6
    <2>8. QED  BY <1>1, <2>3, <2>5, <2>7 DEF Rounding
  <1>7. Making' BY <1>2 DEF Making
  <1>8. Opening'
    <2>1. SUFFICES ASSUME pc' = "open"  PROVE Opening'  BY <1>2 DEF Opening
    <2>2. op' = "CTCreateFile" /\ Len(d) = 1  BY <1>1, <2>1
    <2>3. d[1] # EmptyPiece  BY <2>2, NameFacts
    <2>4. 1 .. Len(d) - 1 = {}  BY <2>2
    <2>5. QED  BY <1>1, <2>2, <2>3, <2>4 DEF Opening, Absolute
  <1>9. QED  BY <1>1, <1>2, <1>4, <1>5, <1>6, <1>7, <1>8, StillCreating

\* What the loop's bound is, while it runs.
LEMMA LoopBound ==
    ASSUME IInv, pc \in {"test", "make"}
    PROVE  /\ LastRound \in 0 .. Len(name) /\ Len(name) \in Nat \ {0}
           /\ op = "CTCreateFile" => LastRound <= Len(name) - 1
           /\ Absolute => round = 1 /\ (LastRound > 0 \/ (op = "CTCreateFile" /\ Len(name) = 2))
           /\ round \in 1 .. LastRound + 1
           /\ op = "CTCreateFile" => Len(name) > 1
  <1>1. op \in Creations /\ name \in Names /\ Rounding  BY InCreation
  <1>2. /\ op = "CTCreateFile" => Len(name) > 1
        /\ Absolute => round = 1
        /\ round \in 1 .. LastRound + 1
    BY <1>1 DEF Rounding
  <1>3. /\ LastRound \in 0 .. Len(name)
        /\ op = "CTCreateFile" => LastRound <= Len(name) - 1
        /\ Absolute => LastRound > 0 \/ (op = "CTCreateFile" /\ Len(name) = 2)
    BY <1>1, <1>2, LastRoundFacts DEF LastRound, Absolute
  <1>4. QED  BY <1>1, <1>2, <1>3, NameFacts

\* The piece tested or made is one of the name.
LEMMA PieceInLoop ==
    ASSUME IInv, pc \in {"test", "make"}, round <= LastRound
    PROVE  /\ round \in 1 .. Len(name) /\ round + 1 \in 1 .. LastRound + 1
           /\ \A j \in 1 .. round + 1 - 1 : j \in 1 .. round - 1 \/ j = round
  <1>1. PICK k, n : k = LastRound /\ n = Len(name)  OBVIOUS
  <1>2. k \in 0 .. n /\ n \in Nat \ {0} /\ round \in 1 .. k + 1 /\ round <= k
    BY <1>1, LoopBound
  <1>3. QED  BY <1>1, <1>2

LEMMA FindPieceStep ==
    ASSUME IInv, FindPiece  PROVE IInv'
  <1>1. /\ pc = "test" /\ round <= LastRound /\ Access(tree, name[round])
        /\ round' = round + 1
        /\ UNCHANGED <<tree, calls, pc, op, name, stray, stack, ret, before, raced>>
    BY DEF FindPiece
  <1>2. op \in Creations /\ name \in Names /\ OnlyAdds /\ Rounding /\ IsTree(tree)
    BY <1>1, InCreation
  <1>3. LastRound' = LastRound /\ Path' = Path /\ (Absolute <=> Absolute')
    BY <1>1 DEF LastRound, Path, Absolute
  <1>4. round \in Nat  BY DEF IInv, TypeOK
  <1>5. TypeOK'  BY <1>1, <1>4 DEF IInv, TypeOK
  <1>6. OnlyAdds'  BY <1>1, <1>2, <1>3 DEF OnlyAdds, Kept, Added
  <1>7. ~Absolute
    <2>1. SUFFICES ASSUME Absolute  PROVE FALSE  OBVIOUS
    <2>2. round = 1  BY <1>1, <2>1, LoopBound
    <2>3. Exists(tree, NoPath)  BY <1>1, <2>1, <2>2 DEF Access, Absolute, EmptyPiece
    <2>4. QED  BY <1>2, <2>3, NoPathIsNone DEF Exists, IsTree
  <1>8. \A j \in 1 .. round' - 1 : Exists(tree, name[j].path)
    <2>1. Exists(tree, name[round].path)  BY <1>1 DEF Access
    <2>2. \A j \in 1 .. round - 1 : Exists(tree, name[j].path)
      BY <1>1, <1>2 DEF Rounding
    <2>3. QED  BY <1>1, <2>1, <2>2, PieceInLoop
  <1>9. round' \in 1 .. LastRound + 1  BY <1>1, PieceInLoop
  <1>10. op = "CTCreateFile" => Len(name) > 1  BY <1>1, LoopBound
  <1>11. Rounding'  BY <1>1, <1>3, <1>7, <1>8, <1>9, <1>10 DEF Rounding
  <1>12. Making' /\ Opening'  BY <1>1 DEF Making, Opening
  <1>13. QED  BY <1>1, <1>2, <1>5, <1>6, <1>11, <1>12, StillCreating

LEMMA MissPieceStep ==
    ASSUME IInv, MissPiece  PROVE IInv'
  <1>1. /\ pc = "test" /\ round <= LastRound /\ ~Access(tree, name[round])
        /\ pc' = "make"
        /\ UNCHANGED <<tree, calls, op, name, stray, round, stack, ret, before, raced>>
    BY DEF MissPiece
  <1>2. op \in Creations /\ name \in Names /\ OnlyAdds /\ Rounding
    BY <1>1, InCreation
  <1>3. LastRound' = LastRound /\ Path' = Path /\ (Absolute <=> Absolute')
    BY <1>1 DEF LastRound, Path, Absolute
  <1>4. TypeOK'
    <2>1. op # "none"  BY <1>2 DEF Creations
    <2>2. QED  BY <1>1, <2>1 DEF IInv, TypeOK, Places
  <1>5. OnlyAdds'  BY <1>1, <1>2, <1>3 DEF OnlyAdds, Kept, Added
  <1>6. Rounding'  BY <1>1, <1>2, <1>3 DEF Rounding
  <1>7. Making' /\ Opening'  BY <1>1, <1>3 DEF Making, Opening
  <1>8. QED  BY <1>1, <1>2, <1>4, <1>5, <1>6, <1>7, StillCreating

LEMMA MakePieceStep ==
    ASSUME IInv, MakePiece  PROVE IInv'
  <1>1. /\ pc = "make" /\ CanMkdir(tree, name[round].path)
        /\ tree' = With(tree, name[round].path, "dir")
        /\ pc' = "test" /\ round' = round + 1
        /\ UNCHANGED <<calls, op, name, stray, stack, ret, before, raced>>
    BY DEF MakePiece
  <1>2. op \in Creations /\ name \in Names /\ Rounding /\ Making
    BY <1>1, InCreation
  <1>3. round <= LastRound  BY <1>1, <1>2 DEF Making
  <1>4. round \in 1 .. Len(name)  BY <1>1, <1>3, PieceInLoop
  <1>5. /\ IsTree(tree') /\ OnlyAdds'
        /\ name[round] # EmptyPiece /\ Exists(tree', name[round].path)
        /\ \A q : Exists(tree, q) => Exists(tree', q)
    BY <1>1, <1>4, DirMade
  <1>6. LastRound' = LastRound /\ (Absolute <=> Absolute')
    BY <1>1 DEF LastRound, Absolute
  <1>7. TypeOK'
    <2>1. op # "none" /\ round' \in Nat  BY <1>1, <1>2 DEF Creations, IInv, TypeOK
    <2>2. QED  BY <1>1, <1>5, <2>1 DEF IInv, TypeOK, Places
  <1>8. ~Absolute  BY <1>1, <1>5, LoopBound DEF Absolute
  <1>9. \A j \in 1 .. round' - 1 : Exists(tree', name[j].path)
    <2>1. \A j \in 1 .. round - 1 : Exists(tree, name[j].path)
      BY <1>1, <1>2 DEF Rounding
    <2>2. QED  BY <1>1, <1>3, <1>5, <2>1, PieceInLoop
  <1>10. round' \in 1 .. LastRound + 1  BY <1>1, <1>3, PieceInLoop
  <1>11. op = "CTCreateFile" => Len(name) > 1  BY <1>1, LoopBound
  <1>12. Rounding'  BY <1>1, <1>6, <1>8, <1>9, <1>10, <1>11 DEF Rounding
  <1>13. Making' /\ Opening'  BY <1>1 DEF Making, Opening
  <1>14. QED  BY <1>1, <1>2, <1>5, <1>7, <1>12, <1>13, StillCreating

LEMMA MeanwhileStep ==
    ASSUME IInv, NEW i \in DOMAIN name, Meanwhile(name[i].path)  PROVE IInv'
  <1> DEFINE p == name[i].path
  <1>1. /\ pc \in {"test", "make", "open"} /\ CanMkdir(tree, p)
        /\ tree' = With(tree, p, "dir")
        /\ raced' = (raced \/ (pc = "make" /\ p = name[round].path))
        /\ UNCHANGED <<calls, pc, op, name, stray, round, stack, ret, before>>
    BY DEF Meanwhile
  <1>2. op \in Creations /\ name \in Names /\ Rounding /\ Making /\ Opening
    BY <1>1, InCreation
  <1>3. i \in 1 .. Len(name)  BY <1>2, NameFacts
  <1>4. /\ IsTree(tree') /\ OnlyAdds'
        /\ \A q : Exists(tree, q) => Exists(tree', q) /\ tree'[q] = tree[q]
    BY <1>1, <1>3, DirMade
  <1>5. LastRound' = LastRound /\ (Absolute <=> Absolute')
    BY <1>1 DEF LastRound, Absolute
  <1>6. raced' \in BOOLEAN /\ (raced' = FALSE => ~raced)
    BY <1>1 DEF IInv, TypeOK
  <1>7. TypeOK'  BY <1>1, <1>4, <1>6 DEF IInv, TypeOK
  <1>8. Rounding'  BY <1>1, <1>2, <1>4, <1>5 DEF Rounding
  <1>9. Making'
    <2>1. SUFFICES ASSUME pc = "make"
          PROVE  round <= LastRound /\ (~raced' => ~Access(tree', name[round]))
      BY <1>1, <1>5 DEF Making
    <2>2. SUFFICES ASSUME ~raced'  PROVE ~Access(tree', name[round])
      BY <1>2, <2>1 DEF Making
    <2>3. ~raced /\ p # name[round].path  BY <1>1, <2>1, <2>2
    <2>4. ~Access(tree, name[round])  BY <1>2, <2>1, <2>3 DEF Making
    <2>5. \A q : q # p /\ Exists(tree', q) => Exists(tree, q) /\ tree'[q] = tree[q]
      BY <1>1 DEF With, Exists
    <2>6. QED  BY <2>3, <2>4, <2>5 DEF Access, IsDir
  <1>10. Opening'  BY <1>1, <1>2, <1>4, <1>5 DEF Opening
  <1>11. QED  BY <1>1, <1>2, <1>4, <1>7, <1>8, <1>9, <1>10, StillCreating

\* A file or something else in the way of a creation was there before.
LEMMA WasThere ==
    ASSUME OnlyAdds, pc # "done", NEW p, Exists(tree, p), ~IsDir(tree, p)
    PROVE  Exists(before, p) /\ ~IsDir(before, p)
  BY DEF OnlyAdds, Kept, Added, Exists, IsDir

\* In front of the whole name, it is a reason to fail.
LEMMA InTheWay ==
    ASSUME OnlyAdds, pc # "done", NEW p, Exists(tree, p), ~IsDir(tree, p),
           p \in Prefixes0(Path), p # Path
    PROVE  Blocked(Path)
  BY WasThere DEF Blocked

\* Why the test fails and the directory cannot be made.
LEMMA WhyNot ==
    ASSUME IInv, pc = "make", ~CanMkdir(tree, name[round].path), ~Absolute, ~raced
    PROVE  Blocked(Path) \/ (Last(name).slash /\ ~IsDir(before, Path))
  <1> DEFINE p == name[round].path
  <1>1. /\ name \in Names /\ OnlyAdds /\ Rounding /\ Making /\ pc # "done"
        /\ IsTree(tree)
    BY InCreation
  <1>2. round <= LastRound /\ ~Access(tree, name[round])  BY <1>1 DEF Making
  <1>3. round \in 1 .. Len(name) /\ name[1] # EmptyPiece
    BY <1>2, PieceInLoop DEF Absolute
  <1>4. /\ name[round] # EmptyPiece /\ p # <<>>
        /\ name[round].slash => round > 1 /\ p = name[round - 1].path
        /\ ~name[round].slash =>
             Front(p) = IF round = 1 THEN Cwd ELSE name[round - 1].path
    BY <1>1, <1>3, RelativePiece
  <1>5. p \in Paths /\ p \in Prefixes0(Path) /\ Path \in Paths /\ IsPrefix(p, Path)
    BY <1>1, <1>3, <1>4, PieceFacts DEF Path
  <1>6. round > 1 => /\ round - 1 \in 1 .. Len(name) /\ round - 1 \in 1 .. Len(name) - 1
                     /\ round - 1 \in 1 .. round - 1
    <2>1. PICK n : n = Len(name)  OBVIOUS
    <2>2. n \in Nat \ {0} /\ round \in 1 .. n  BY <1>1, <1>3, <2>1, NameFacts
    <2>3. QED  BY <2>1, <2>2
  <1>7. round > 1 => Exists(tree, name[round - 1].path)  BY <1>1, <1>6 DEF Rounding
  <1>8. CASE Exists(tree, p)
    <2>1. name[round].slash /\ ~IsDir(tree, p)  BY <1>2, <1>8 DEF Access
    <2>2. CASE p = Path
      <3>1. Last(name).slash
        BY <1>1, <1>3, <1>4, <1>6, <2>1, <2>2, SamePath DEF Path
      <3>2. QED  BY <1>1, <1>8, <2>1, <2>2, <3>1, WasThere
    <2>3. CASE p # Path  BY <1>1, <1>5, <1>8, <2>1, <2>3, InTheWay
    <2>4. QED  BY <2>2, <2>3
  <1>9. CASE ~Exists(tree, p)
    <2>1. ~name[round].slash  BY <1>4, <1>7, <1>9
    <2>2. p # NoPath  BY <1>5, NoPathIsNone
    <2>3. ~IsDir(tree, Front(p))  BY <1>4, <1>9, <2>2 DEF CanMkdir
    <2>4. round # 1  BY <1>1, <1>4, <2>1, <2>3 DEF IsTree
    <2>5. round > 1 /\ Front(p) = name[round - 1].path  BY <1>3, <1>4, <2>1, <2>4
    <2>6. Exists(tree, Front(p))  BY <1>7, <2>5
    <2>7. Front(p) \in Prefixes0(Path) /\ IsPrefix(Front(p), Path)
      BY <1>1, <1>3, <1>6, <2>5, PieceFacts, RelativePiece DEF Path
    <2>8. Front(p) # Path
      <3>1. Len(Front(p)) = Len(p) - 1 /\ Len(p) \in Nat \ {0}
        BY <1>4, <1>5, FrontProps
      <3>2. Len(p) <= Len(Path)  BY <1>5 DEF IsPrefix
      <3>3. Len(Front(p)) # Len(Path)
        <4>1. PICK a, b, c : a = Len(Front(p)) /\ b = Len(p) /\ c = Len(Path)  OBVIOUS
        <4>2. c \in Nat  BY <1>5, <4>1 DEF Paths
        <4>3. QED  BY <3>1, <3>2, <4>1, <4>2
      <3>4. QED  BY <3>3
    <2>9. QED  BY <1>1, <2>3, <2>6, <2>7, <2>8, InTheWay
  <1>10. QED  BY <1>8, <1>9

LEMMA FailPieceStep ==
    ASSUME IInv, FailPiece  PROVE IInv'
  <1>1. /\ pc = "make" /\ ~CanMkdir(tree, name[round].path)
        /\ pc' = "done" /\ ret' = -1
        /\ UNCHANGED <<tree, calls, op, name, stray, round, stack, before, raced>>
    BY DEF FailPiece, Return
  <1>2. op \in Creations /\ name \in Names /\ OnlyAdds  BY <1>1, InCreation
  <1>3. Path' = Path /\ (Absolute <=> Absolute') /\ (Blocked(Path) <=> Blocked(Path)')
    BY <1>1 DEF Path, Absolute, Blocked
  <1>4. TypeOK'
    <2>1. op # "none"  BY <1>2 DEF Creations
    <2>2. QED  BY <1>1, <2>1 DEF IInv, TypeOK, Places
  <1>5. Kept' /\ (Added \subseteq Prefixes0(Path))'
    BY <1>1, <1>2, <1>3 DEF OnlyAdds, Kept, Added, Prefixes0
  <1>6. \/ Absolute' \/ raced' \/ Blocked(Path)'
        \/ (Last(name').slash /\ ~IsDir(before', Path'))
    BY <1>1, <1>3, WhyNot
  <1>7. CreatesWhatIsNamed'
    BY <1>1, <1>5, <1>6 DEF CreatesWhatIsNamed, Absolute
  <1>8. QED  BY <1>1, <1>2, <1>4, <1>7, HasCreated

LEMMA EndPiecesStep ==
    ASSUME IInv, EndPieces  PROVE IInv'
  <1>1. /\ pc = "test" /\ round > LastRound
        /\ op = "CTCreateFile" => pc' = "open" /\ ret' = ret
        /\ op # "CTCreateFile" => pc' = "done" /\ ret' = 0
        /\ UNCHANGED <<tree, calls, op, name, stray, round, stack, before, raced>>
    BY DEF EndPieces, Return
  <1>2. op \in Creations /\ name \in Names /\ OnlyAdds /\ Rounding
    BY <1>1, InCreation
  <1>3. Path' = Path /\ (Absolute <=> Absolute')  BY <1>1 DEF Path, Absolute
  <1>4. TypeOK'
    <2>1. op # "none"  BY <1>2 DEF Creations
    <2>2. QED  BY <1>1, <2>1 DEF IInv, TypeOK, Places
  <1>5. op = "CTCreateFile" => Len(name) > 1  BY <1>1, LoopBound
  <1>6. \A j \in 1 .. LastRound : Exists(tree, name[j].path)
    <2>1. PICK k \in Nat : k = LastRound  BY <1>1, LoopBound
    <2>2. 1 .. k \subseteq 1 .. round - 1
      BY <1>1, <2>1, LoopBound
    <2>3. \A j \in 1 .. round - 1 : Exists(tree, name[j].path)
      BY <1>1, <1>2 DEF Rounding
    <2>4. QED  BY <2>1, <2>2, <2>3
  <1>7. Absolute => op = "CTCreateFile" /\ Len(name) = 2
    <2>1. PICK k \in Nat : k = LastRound  BY <1>1, LoopBound
    <2>2. Absolute => round = 1 /\ (k > 0 \/ (op = "CTCreateFile" /\ Len(name) = 2))
      BY <1>1, <2>1, LoopBound
    <2>3. round > k  BY <1>1, <2>1
    <2>4. QED  BY <2>2, <2>3
  <1>8. ~Absolute =>
            /\ op = "CTCreateDir" => Exists(tree, Path)
            /\ op = "CTCreateFile" => \A j \in 1 .. Len(name) - 1 : Exists(tree, name[j].path)
    BY <1>2, <1>5, <1>6, AllRounds
  <1>9. CASE op = "CTCreateFile"
    <2>1. OnlyAdds'  BY <1>1, <1>2, <1>3, <1>9 DEF OnlyAdds, Kept, Added
    <2>2. Opening'  BY <1>1, <1>3, <1>7, <1>8, <1>9 DEF Opening
    <2>3. Rounding' /\ Making'  BY <1>1, <1>9 DEF Rounding, Making
    <2>4. QED  BY <1>1, <1>2, <1>4, <1>9, <2>1, <2>2, <2>3, StillCreating
  <1>10. CASE op = "CTCreateDir"
    <2>1. ~Absolute /\ Exists(tree, Path)  BY <1>7, <1>8, <1>10
    <2>2. \A q \in Added : tree[q] = "dir"  BY <1>1, <1>2 DEF OnlyAdds
    <2>3. Kept' /\ (Added \subseteq Prefixes0(Path))' /\ Added' = Added
      BY <1>1, <1>2, <1>3 DEF OnlyAdds, Kept, Added, Prefixes0
    <2>4. IsDir(tree, Path) \/ NotADirectory
      BY <1>1, <1>2, <2>1, WasThere DEF NotADirectory
    <2>5. IsDir(tree', Path') \/ NotADirectory'
      BY <1>1, <1>3, <2>4 DEF NotADirectory
    <2>6. CreatesWhatIsNamed'
      BY <1>1, <1>3, <1>10, <2>1, <2>2, <2>3, <2>5 DEF CreatesWhatIsNamed, Absolute
    <2>7. QED  BY <1>1, <1>2, <1>4, <1>10, <2>6, HasCreated
  <1>11. QED  BY <1>2, <1>9, <1>10 DEF Creations

\* Why the file cannot be opened.
LEMMA WhyNoFile ==
    ASSUME IInv, pc = "open", ~CanFopen(tree, Last(name)), ~Absolute
    PROVE  \/ Blocked(Path)
           \/ Last(name).slash /\ ~IsDir(before, Path)
           \/ IsDir(tree, Path)
  <1> DEFINE n == Len(name)
  <1>1. /\ name \in Names /\ OnlyAdds /\ Opening /\ pc # "done" /\ IsTree(tree)
        /\ n \in Nat \ {0} /\ Last(name) = name[n] /\ Path = name[n].path
        /\ n \in 1 .. n /\ name[1] # EmptyPiece
    BY InCreation, NameFacts DEF Path, Absolute
  <1>2. /\ Path # <<>>
        /\ ~name[n].slash => Front(Path) = IF n = 1 THEN Cwd ELSE name[n - 1].path
    BY <1>1, RelativePiece
  <1>3. CASE name[n].slash
    <2>1. IsDir(before, Path) => IsDir(tree, Path)
      BY <1>1 DEF OnlyAdds, Kept, IsDir, Exists
    <2>2. QED  BY <1>1, <1>3, <2>1
  <1>4. CASE ~name[n].slash /\ ~IsDir(tree, Path)
    <2>1. ~IsDir(tree, Front(Path))  BY <1>1, <1>2, <1>4 DEF CanFopen
    <2>2. n # 1 /\ Front(Path) = name[n - 1].path
      BY <1>1, <1>2, <1>4, <2>1 DEF IsTree
    <2>3. n - 1 \in 1 .. n - 1 /\ n - 1 \in 1 .. n
      <3> HIDE DEF n
      <3>1. QED  BY <1>1, <2>2
    <2>4. Exists(tree, Front(Path))  BY <1>1, <2>2, <2>3 DEF Opening, Absolute
    <2>5. Front(Path) \in Prefixes0(Path) /\ Path \in Paths
      BY <1>1, <2>2, <2>3, PieceFacts, RelativePiece
    <2>6. Front(Path) # Path
      <3>1. Len(Front(Path)) = Len(Path) - 1 /\ Len(Path) \in Nat \ {0}
        BY <1>2, <2>5, FrontProps
      <3>2. QED  BY <3>1
    <2>7. QED  BY <1>1, <2>1, <2>4, <2>5, <2>6, InTheWay
  <1>5. QED  BY <1>3, <1>4

LEMMA OpenFileStep ==
    ASSUME IInv, OpenFile  PROVE IInv'
  <1>1. /\ pc = "open" /\ pc' = "done"
        /\ UNCHANGED <<calls, op, name, stray, round, stack, before, raced>>
    BY DEF OpenFile, Return
  <1>2. /\ op \in Creations /\ name \in Names /\ OnlyAdds /\ IsTree(tree) /\ Opening
    BY <1>1, InCreation
  <1>3. Path' = Path /\ (Absolute <=> Absolute') /\ (Blocked(Path) <=> Blocked(Path)')
    BY <1>1 DEF Path, Absolute, Blocked
  <1>4. op = "CTCreateFile" /\ (Absolute => Len(name) = 2)  BY <1>1, <1>2 DEF Opening
  <1>5. Path \in Paths /\ Path \in Prefixes0(Path)
    <2>1. Len(name) \in Nat \ {0} /\ Last(name) = name[Len(name)]  BY <1>2, NameFacts
    <2>2. Len(name) \in 1 .. Len(name)  BY <2>1
    <2>3. QED  BY <1>2, <2>1, <2>2, PieceFacts, LastPiece DEF Path
  <1>6. CASE CanFopen(tree, Last(name))
    <2>1. tree' = Fopen(tree, Path) /\ ret' = 0  BY <1>6 DEF OpenFile, Return
    <2>2. Path # <<>> /\ IsDir(tree, Front(Path)) /\ ~IsDir(tree, Path)
      BY <1>6 DEF CanFopen, Path
    <2>3. IsTree(tree')  BY <1>2, <1>5, <2>1, <2>2, TreeWith DEF Fopen
    <2>4. /\ \A q \in DOMAIN tree : q \in DOMAIN tree' /\ tree'[q] = tree[q]
          /\ Path \in DOMAIN tree' /\ tree'[Path] # "dir"
          /\ DOMAIN tree' \subseteq DOMAIN tree \cup {Path}
      BY <2>1, <2>2 DEF Fopen, With, Exists, IsDir
    <2>5. TypeOK'
      <3>1. op # "none"  BY <1>2 DEF Creations
      <3>2. QED  BY <1>1, <2>1, <2>3, <3>1 DEF IInv, TypeOK, Places
    <2>6. Kept'  BY <1>1, <1>2, <2>4 DEF OnlyAdds, Kept, Exists
    <2>7. Added' \subseteq Added \cup {Path}  BY <1>1, <2>4 DEF Added
    <2>8. (Added \subseteq Prefixes0(Path))'
      BY <1>2, <1>3, <1>5, <2>7 DEF OnlyAdds, Prefixes0
    <2>9. \A q \in Added' : tree'[q] # "dir" => q = Path'
      <3>1. SUFFICES ASSUME NEW q \in Added', q # Path  PROVE tree'[q] = "dir"
        BY <1>3
      <3>2. q \in Added /\ q \in DOMAIN tree  BY <2>7, <3>1 DEF Added
      <3>3. QED  BY <1>1, <1>2, <2>4, <3>2 DEF OnlyAdds
    <2>10. CreatesWhatIsNamed'
      BY <1>1, <1>3, <1>4, <2>1, <2>4, <2>6, <2>8, <2>9
      DEF CreatesWhatIsNamed, Absolute, Exists, IsDir
    <2>11. QED  BY <1>1, <1>2, <2>5, <2>10, HasCreated
  <1>7. CASE ~CanFopen(tree, Last(name))
    <2>1. tree' = tree /\ ret' = -1  BY <1>7 DEF OpenFile, Return
    <2>2. TypeOK'
      <3>1. op # "none"  BY <1>2 DEF Creations
      <3>2. QED  BY <1>1, <2>1, <3>1 DEF IInv, TypeOK, Places
    <2>3. Kept' /\ (Added \subseteq Prefixes0(Path))'
      BY <1>1, <1>2, <1>3, <2>1 DEF OnlyAdds, Kept, Added, Prefixes0
    <2>4. \/ Absolute' \/ Blocked(Path)'
          \/ (Last(name').slash /\ ~IsDir(before', Path'))
          \/ IsDir(tree', Path')
      BY <1>1, <1>3, <1>7, <2>1, WhyNoFile
    <2>5. CreatesWhatIsNamed'
      BY <1>1, <1>4, <2>1, <2>3, <2>4 DEF CreatesWhatIsNamed, Absolute
    <2>6. QED  BY <1>1, <1>2, <2>2, <2>5, HasCreated
  <1>8. QED  BY <1>6, <1>7

(***************************************************************************)
(* The steps of a removal.                                                 *)
(***************************************************************************)
Others == {q \in Below(before, Path) : before[q] = "other"}

\* What is removed is below the name, and what is left is as it was.
LEMMA OnlyBelow ==
    ASSUME NEW t, NEW b, NEW p,
           \A q \in DOMAIN t : Exists(b, q) /\ t[q] = b[q],
           \A q \in DOMAIN b : ~Exists(t, q) => IsPrefix(p, q) /\ b[q] # "other"
    PROVE  /\ Without(t, Below(t, p)) = Without(b, Below(b, p))
           /\ Below(t, p) \subseteq Below(b, p)
           /\ {q \in Below(b, p) : b[q] = "other"} \subseteq Below(t, p)
  <1>1. DOMAIN t \ Below(t, p) = DOMAIN b \ Below(b, p)  BY DEF Below, Exists
  <1>2. Without(t, Below(t, p)) = Without(b, Below(b, p))  BY <1>1 DEF Without, Below
  <1>3. QED  BY <1>2 DEF Below, Exists

LEMMA StillRemoving ==
    ASSUME TypeOK', op' = "CTRemove", pc' = "remove", name' \in Removable,
           OnlyRemoves', Removing'
    PROVE  IInv'
  <1>1. /\ \A q \in DOMAIN tree' : Exists(before', q) /\ tree'[q] = before'[q]
        /\ \A q \in DOMAIN before' :
            ~Exists(tree', q) => IsPrefix(Path', q) /\ before'[q] # "other"
    BY DEF OnlyRemoves, Exists
  <1>2. RemovesOnlyWhatIsNamed'
    BY <1>1, OnlyBelow DEF RemovesOnlyWhatIsNamed
  <1>3. op' \notin Creations  BY DEF Creations
  <1>4. QED  BY <1>2, <1>3 DEF IInv, CreateInv, RemoveInv

LEMMA HasRemoved ==
    ASSUME TypeOK', op' = "CTRemove", pc' = "done", name' \in Removable, OnlyRemoves',
           ret' = 0 <=>
             Access(before', Last(name')) /\ (Others' = {} \/ Path' \in Others'),
           ret' = 0 /\ Path' \notin Others' => Below(tree', Path') = {}
    PROVE  IInv'
  <1>1. /\ \A q \in DOMAIN tree' : Exists(before', q) /\ tree'[q] = before'[q]
        /\ \A q \in DOMAIN before' :
            ~Exists(tree', q) => IsPrefix(Path', q) /\ before'[q] # "other"
    BY DEF OnlyRemoves, Exists
  <1>2. RemovesOnlyWhatIsNamed'
    BY <1>1, OnlyBelow DEF RemovesOnlyWhatIsNamed, Others
  <1>3. op' \notin Creations /\ Removing'  BY DEF Creations, Removing
  <1>4. QED  BY <1>2, <1>3 DEF IInv, CreateInv, RemoveInv

\* The directories that are open.
LEMMA OpenedIs ==
    ASSUME NEW p \in Paths, NEW l \in SUBSET Paths
    PROVE  [dir |-> p, left |-> l] \in Opened
  BY DEF Opened

LEMMA StackFacts ==
    ASSUME NEW s \in Seq(Opened), s # <<>>
    PROVE  /\ Len(s) \in Nat \ {0} /\ Last(s) = s[Len(s)]
           /\ \A k \in 1 .. Len(s) : s[k] \in Opened /\ s[k].dir \in Paths /\ s[k].left \subseteq Paths
           /\ Front(s) \in Seq(Opened) /\ Len(Front(s)) = Len(s) - 1
           /\ \A k \in 1 .. Len(s) - 1 : Front(s)[k] = s[k]
           /\ Front(s) = <<>> <=> Len(s) = 1
  <1>1. \A o \in Opened : o.dir \in Paths /\ o.left \subseteq Paths  BY DEF Opened
  <1>2. Len(s) \in Nat \ {0} /\ \A k \in 1 .. Len(s) : s[k] \in Opened  OBVIOUS
  <1>3. \A k \in 1 .. Len(s) - 1 : s[k] \in Opened  BY <1>2
  <1>4. /\ Front(s) \in Seq(Opened) /\ Len(Front(s)) = Len(s) - 1
        /\ \A k \in 1 .. Len(s) - 1 : Front(s)[k] = s[k]
    <2>1. PICK n \in Int : n = Len(s) - 1  BY <1>2
    <2>2. \A k \in 1 .. n : s[k] \in Opened  BY <1>3, <2>1
    <2>3. SubSeq(s, 1, n) \in Seq(Opened)  BY <2>2, SubSeqProperties
    <2>4. /\ Len(SubSeq(s, 1, n)) = IF 1 <= n THEN n - 1 + 1 ELSE 0
          /\ \A k \in 1 .. n - 1 + 1 : SubSeq(s, 1, n)[k] = s[1 + k - 1]
      BY <2>2, SubSeqProperties
    <2>5. n \in Nat  BY <1>2, <2>1
    <2>6. Len(SubSeq(s, 1, n)) = n /\ \A k \in 1 .. n : SubSeq(s, 1, n)[k] = s[k]
      BY <2>4, <2>5
    <2>7. QED  BY <2>1, <2>3, <2>6 DEF Front
  <1>5. Front(s) = <<>> <=> Len(s) = 1
    <2>1. PICK n, m : n = Len(s) /\ m = Len(Front(s))  OBVIOUS
    <2>2. n \in Nat \ {0} /\ m = n - 1  BY <1>2, <1>4, <2>1
    <2>3. Front(s) = <<>> <=> m = 0  BY <1>4, <2>1
    <2>4. QED  BY <2>1, <2>2, <2>3
  <1>6. QED  BY <1>1, <1>2, <1>4, <1>5 DEF Last

\* What reading an entry does to the directories that are open.
Reading(s, q) == Append(Front(s), [Last(s) EXCEPT !.left = @ \ {q}])

LEMMA RestFacts ==
    ASSUME NEW s \in Seq(Opened), s # <<>>, NEW q, NEW rest, rest = Reading(s, q)
    PROVE  /\ rest \in Seq(Opened) /\ Len(rest) = Len(s) /\ rest # <<>>
           /\ \A k \in 1 .. Len(s) - 1 : rest[k] = s[k]
           /\ rest[Len(s)].dir = s[Len(s)].dir
           /\ rest[Len(s)].left = s[Len(s)].left \ {q}
  <1> DEFINE top == [Last(s) EXCEPT !.left = @ \ {q}]
  <1>1. /\ Len(s) \in Nat \ {0} /\ Last(s) = s[Len(s)] /\ Last(s) \in Opened
        /\ Front(s) \in Seq(Opened) /\ Len(Front(s)) = Len(s) - 1
        /\ \A k \in 1 .. Len(s) - 1 : Front(s)[k] = s[k]
    BY StackFacts
  <1>2. top \in Opened /\ top.dir = Last(s).dir /\ top.left = Last(s).left \ {q}
    BY <1>1 DEF Opened
  <1> HIDE DEF top
  <1>3. rest = Append(Front(s), top)  BY DEF top, Reading
  <1>4. /\ rest \in Seq(Opened) /\ Len(rest) = Len(Front(s)) + 1 /\ rest # <<>>
        /\ \A k \in 1 .. Len(Front(s)) : rest[k] = Front(s)[k]
        /\ rest[Len(Front(s)) + 1] = top
    BY <1>1, <1>2, <1>3, AppendProperties
  <1>5. Len(Front(s)) + 1 = Len(s)  BY <1>1
  <1>6. QED  BY <1>1, <1>2, <1>4, <1>5

\* A removal that has begun.
LEMMA InRemoval ==
    ASSUME IInv, pc = "remove"
    PROVE  /\ op = "CTRemove" /\ name \in Removable /\ name \in Names
           /\ ~IsPrefix(Path, Cwd) /\ Path \in Paths /\ Cwd \in Paths
           /\ OnlyRemoves /\ Descends /\ Covers
           /\ IsDir(before, Path) /\ Access(before, Last(name))
           /\ stack \in Seq(Opened) /\ stack # <<>>
           /\ IsTree(tree) /\ IsTree(before)
  <1>1. op \notin Creations  BY DEF IInv, CreateInv
  <1>2. op = "CTRemove"  BY <1>1 DEF IInv, TypeOK
  <1>3. RemoveInv /\ TypeOK  BY DEF IInv
  <1>4. name \in Removable /\ OnlyRemoves /\ Removing  BY <1>2, <1>3 DEF RemoveInv
  <1>5. name \in Names /\ ~IsPrefix(Path, Cwd)  BY <1>4 DEF Removable, Path
  <1>6. Path \in Paths  BY <1>5, LastPiece DEF Path
  <1>7. Cwd \in Paths  BY NamesAssumption
  <1>8. QED  BY <1>2, <1>3, <1>4, <1>5, <1>6, <1>7 DEF Removing, TypeOK

LEMMA CTRemoveStep ==
    ASSUME IInv, NEW d \in Removable, CTRemove(d)  PROVE IInv'
  <1> DEFINE p == Last(d).path
  <1>1. /\ op' = "CTRemove" /\ name' = d /\ before' = tree /\ raced' = FALSE
        /\ stray' = stray /\ round' = round /\ d \in Names /\ Path' = p
    BY DEF CTRemove, Call, Removable, Path
  <1>2. /\ p \in Paths /\ Cwd \in Paths /\ ~IsPrefix(p, Cwd) /\ IsTree(tree)
    BY <1>1, LastPiece, NamesAssumption DEF Removable, IInv, TypeOK
  <1>3. ASSUME IsTree(tree'), pc' \in {"remove", "done"}, ret' \in {0, -1}  PROVE TypeOK'
    BY <1>1, <1>2, <1>3 DEF IInv, TypeOK, Places
  <1> HIDE DEF p
  <1>4. CASE ~Access(tree, Last(d)) /\ Return(-1) /\ tree' = tree
    <2>1. pc' = "done" /\ ret' = -1  BY <1>4 DEF Return
    <2>2. OnlyRemoves'  BY <1>1, <1>4 DEF OnlyRemoves, Exists
    <2>3. ~Access(before', Last(name'))  BY <1>1, <1>4
    <2>4. QED  BY <1>1, <1>2, <1>3, <1>4, <2>1, <2>2, <2>3, HasRemoved
  <1>5. CASE Access(tree, Last(d)) /\ IsFile(tree, p) /\ Return(0) /\ tree' = Without(tree, {p})
    <2>1. pc' = "done" /\ ret' = 0  BY <1>5 DEF Return
    <2>2. p \in DOMAIN tree /\ tree[p] = "file" /\ Below(tree, p) = {p}
      BY <1>2, <1>5, FileIsAlone DEF IsFile, IsDir, Exists
    <2>3. IsTree(tree')  BY <1>2, <1>5, <2>2, TreeWithout
    <2>4. DOMAIN tree' = DOMAIN tree \ {p} /\ \A q \in DOMAIN tree' : tree'[q] = tree[q]
      BY <1>5 DEF Without
    <2>5. IsPrefix(p, p)  BY <1>2, PrefixOrder
    <2>6. OnlyRemoves'  BY <1>1, <2>2, <2>4, <2>5 DEF OnlyRemoves, Exists
    <2>7. Others' = {}  BY <1>1, <2>2 DEF Others
    <2>8. Below(tree', Path') = {}  BY <1>1, <2>2, <2>4 DEF Below
    <2>9. QED  BY <1>1, <1>3, <1>5, <2>1, <2>3, <2>6, <2>7, <2>8, HasRemoved
  <1>6. CASE /\ Access(tree, Last(d)) /\ IsDir(tree, p) /\ pc' = "remove"
             /\ stack' = <<[dir |-> p, left |-> Entries(tree, p)]>>
             /\ UNCHANGED <<tree, ret>>
    <2> DEFINE o == [dir |-> p, left |-> Entries(tree, p)]
    <2>1. Entries(tree, p) \in SUBSET Paths  BY <1>2, TreeFacts DEF Entries
    <2>2. o \in Opened /\ o.dir = p /\ o.left = Entries(tree, p)
      BY <1>2, <2>1, OpenedIs
    <2> HIDE DEF o
    <2>3. stack' = <<o>>  BY <1>6 DEF o
    <2>4. stack' \in Seq(Opened) /\ stack' # <<>> /\ Len(stack') = 1 /\ stack'[1] = o
      BY <2>2, <2>3
    <2>5. OnlyRemoves'  BY <1>1, <1>6 DEF OnlyRemoves, Exists
    <2>6. IsPrefix(p, p)  BY <1>2, PrefixOrder
    <2>7. \A k \in 1 .. Len(stack') : k = 1  BY <2>4
    <2>8. Len(p) = Len(p) + 1 - 1  BY <1>2 DEF Paths
    <2>9. Descends'
      BY <1>1, <1>6, <2>2, <2>4, <2>6, <2>7, <2>8 DEF Descends, Entries
    <2>10. Covers'  BY <1>1, <1>6, <2>2, <2>4, <2>7 DEF Covers
    <2>11. Access(before', Last(name')) /\ IsDir(before', Path')  BY <1>1, <1>6
    <2>12. Removing'  BY <2>4, <2>9, <2>10, <2>11 DEF Removing
    <2>13. ret' \in {0, -1}  BY <1>6 DEF IInv, TypeOK
    <2>14. QED  BY <1>1, <1>2, <1>3, <1>6, <2>5, <2>12, <2>13, StillRemoving
  <1>7. CASE Access(tree, Last(d)) /\ ~IsDir(tree, p) /\ ~IsFile(tree, p) /\ Return(0) /\ tree' = tree
    <2>1. pc' = "done" /\ ret' = 0  BY <1>7 DEF Return
    <2>2. OnlyRemoves'  BY <1>1, <1>7 DEF OnlyRemoves, Exists
    <2>3. p \in DOMAIN tree /\ tree[p] = "other"
      BY <1>2, <1>7, TreeFacts DEF Access, IsDir, IsFile, Exists, p
    <2>4. IsPrefix(p, p)  BY <1>2, PrefixOrder
    <2>5. Path' \in Others'  BY <1>1, <2>3, <2>4 DEF Others, Below
    <2>6. Access(before', Last(name'))  BY <1>1, <1>7
    <2>7. QED  BY <1>1, <1>2, <1>3, <1>7, <2>1, <2>2, <2>5, <2>6, HasRemoved
  <1>8. QED  BY <1>4, <1>5, <1>6, <1>7 DEF CTRemove, p

\* An entry of an open directory is below the name.
LEMMA EntryIsBelow ==
    ASSUME IInv, pc = "remove", NEW q \in Last(stack).left
    PROVE  /\ q \in Paths /\ q # <<>> /\ Front(q) = stack[Len(stack)].dir
           /\ IsPrefix(Path, q) /\ ~IsPrefix(q, Cwd)
           /\ Len(q) = Len(Path) + Len(stack)
           /\ Len(stack) \in Nat \ {0} /\ Len(stack) \in 1 .. Len(stack)
           /\ q \in stack[Len(stack)].left
  <1>1. /\ stack \in Seq(Opened) /\ stack # <<>> /\ Descends
        /\ Path \in Paths /\ Cwd \in Paths /\ ~IsPrefix(Path, Cwd)
    BY InRemoval
  <1>2. /\ Len(stack) \in Nat \ {0} /\ Last(stack) = stack[Len(stack)]
        /\ Len(stack) \in 1 .. Len(stack)
        /\ \A k \in 1 .. Len(stack) : stack[k].dir \in Paths /\ stack[k].left \subseteq Paths
    BY <1>1, StackFacts
  <1>3. q \in Paths /\ q # <<>> /\ Front(q) = stack[Len(stack)].dir
    BY <1>1, <1>2 DEF Descends
  <1>4. /\ IsPrefix(Path, Front(q)) /\ Front(q) \in Paths
        /\ Len(Front(q)) = Len(Path) + Len(stack) - 1
    BY <1>1, <1>2, <1>3 DEF Descends
  <1>5. IsPrefix(Front(q), q) /\ Len(Front(q)) = Len(q) - 1 /\ Len(q) \in Nat
    BY <1>3, FrontProps
  <1>6. IsPrefix(Path, q)  BY <1>1, <1>3, <1>4, <1>5, PrefixOrder
  <1>7. ~IsPrefix(q, Cwd)  BY <1>1, <1>3, <1>6, PrefixOrder
  <1>8. Len(q) = Len(Path) + Len(stack)
    <2>1. Len(Path) \in Nat  BY <1>1 DEF Paths
    <2>2. PICK a, b, c : a = Len(q) /\ b = Len(Path) /\ c = Len(stack)  OBVIOUS
    <2>3. a - 1 = b + c - 1  BY <1>4, <1>5, <2>2
    <2>4. a = b + c  BY <1>2, <1>5, <2>1, <2>2, <2>3
    <2>5. QED  BY <2>2, <2>4
  <1>9. QED  BY <1>2, <1>3, <1>6, <1>7, <1>8

\* The tree after an entry has been read.
LEMMA ReadTree ==
    ASSUME IInv, pc = "remove", NEW q \in Last(stack).left,
           tree' = IF IsFile(tree, q) THEN Without(tree, {q}) ELSE tree,
           UNCHANGED <<name, before>>
    PROVE  /\ IsTree(tree') /\ OnlyRemoves'
           /\ \A x : Exists(tree', x) => Exists(tree, x) /\ tree'[x] = tree[x]
           /\ \A x : IsDir(tree, x) => IsDir(tree', x)
           /\ IsFile(tree, q) => ~Exists(tree', q)
  <1>1. IsTree(tree) /\ OnlyRemoves /\ Path' = Path
    BY InRemoval DEF Path
  <1>2. CASE ~IsFile(tree, q)
    <2>1. tree' = tree  BY <1>2
    <2>2. OnlyRemoves'  BY <1>1, <2>1 DEF OnlyRemoves, Exists
    <2>3. QED  BY <1>1, <1>2, <2>1, <2>2
  <1>3. CASE IsFile(tree, q)
    <2>1. q \in DOMAIN tree /\ tree[q] = "file" /\ Below(tree, q) = {q}
      BY <1>1, <1>3, FileIsAlone DEF IsFile, IsDir, Exists
    <2>2. IsPrefix(Path, q) /\ ~IsPrefix(q, Cwd)  BY EntryIsBelow
    <2>3. IsTree(tree')  BY <1>1, <1>3, <2>1, <2>2, TreeWithout
    <2>4. DOMAIN tree' = DOMAIN tree \ {q} /\ \A x \in DOMAIN tree' : tree'[x] = tree[x]
      BY <1>3 DEF Without
    <2>5. OnlyRemoves'
      <3>1. \A x \in DOMAIN tree' : Exists(before, x) /\ tree'[x] = before[x]
        BY <1>1, <2>4 DEF OnlyRemoves
      <3>2. \A x \in DOMAIN before :
                ~Exists(tree', x) => IsPrefix(Path, x) /\ before[x] # "other"
        BY <1>1, <2>1, <2>2, <2>4 DEF OnlyRemoves, Exists
      <3>3. QED  BY <1>1, <3>1, <3>2 DEF OnlyRemoves, Exists
    <2>6. QED  BY <2>1, <2>3, <2>4, <2>5 DEF Exists, IsDir
  <1>4. QED  BY <1>2, <1>3

LEMMA ReadEntryStep ==
    ASSUME IInv, ReadEntry  PROVE IInv'
  <1>1. pc = "remove" /\ UNCHANGED <<calls, pc, op, name, stray, round, ret, before, raced>>
    BY DEF ReadEntry
  <1>2. PICK q \in Last(stack).left :
        LET rest == Append(Front(stack), [Last(stack) EXCEPT !.left = @ \ {q}])
        IN  /\ tree' = IF IsFile(tree, q) THEN Without(tree, {q}) ELSE tree
            /\ stack' = IF IsDir(tree, q)
                        THEN Append(rest, [dir |-> q, left |-> Entries(tree, q)])
                        ELSE rest
    BY DEF ReadEntry
  <1>3. PICK rest : rest = Reading(stack, q)  OBVIOUS
  <1>4. /\ tree' = IF IsFile(tree, q) THEN Without(tree, {q}) ELSE tree
        /\ IsDir(tree, q) => stack' = Append(rest, [dir |-> q, left |-> Entries(tree, q)])
        /\ ~IsDir(tree, q) => stack' = rest
    BY <1>2, <1>3 DEF Reading
  <1>5. /\ op = "CTRemove" /\ name \in Removable /\ OnlyRemoves /\ Descends /\ Covers
        /\ IsDir(before, Path) /\ Access(before, Last(name))
        /\ stack \in Seq(Opened) /\ stack # <<>> /\ IsTree(tree) /\ Path' = Path
    BY <1>1, InRemoval DEF Path
  <1>6. PICK n : n = Len(stack)  OBVIOUS
  <1>7. /\ rest \in Seq(Opened) /\ Len(rest) = n /\ rest # <<>>
        /\ \A k \in 1 .. n - 1 : rest[k] = stack[k]
        /\ rest[n].dir = stack[n].dir /\ rest[n].left = stack[n].left \ {q}
    <2>1. /\ rest \in Seq(Opened) /\ Len(rest) = Len(stack) /\ rest # <<>>
          /\ \A k \in 1 .. Len(stack) - 1 : rest[k] = stack[k]
          /\ rest[Len(stack)].dir = stack[Len(stack)].dir
          /\ rest[Len(stack)].left = stack[Len(stack)].left \ {q}
      BY <1>3, <1>5, RestFacts
    <2>2. QED  BY <1>6, <2>1
  <1>8. /\ q \in Paths /\ q # <<>> /\ Front(q) = stack[n].dir
        /\ IsPrefix(Path, q) /\ Len(q) = Len(Path) + n
        /\ n \in Nat \ {0} /\ n \in 1 .. n /\ q \in stack[n].left
    BY <1>1, <1>6, EntryIsBelow
  <1>9. /\ IsTree(tree') /\ OnlyRemoves'
        /\ \A x : Exists(tree', x) => Exists(tree, x) /\ tree'[x] = tree[x]
        /\ \A x : IsDir(tree, x) => IsDir(tree', x)
        /\ IsFile(tree, q) => ~Exists(tree', q)
    BY <1>1, <1>4, ReadTree
  <1>10. TypeOK'  BY <1>1, <1>9 DEF IInv, TypeOK
  <1>11. \A k \in 1 .. n : k = n \/ (k \in 1 .. n - 1 /\ k + 1 \in 1 .. n /\ k < n)
    BY <1>8
  <1>12. \A k \in 1 .. n : rest[k].dir = stack[k].dir /\ rest[k].left \subseteq stack[k].left
    BY <1>7, <1>11
  <1>13. 1 \in 1 .. n  BY <1>8
  <1>14. \A k \in 1 .. n :
            /\ IsDir(tree', rest[k].dir) /\ IsPrefix(Path, rest[k].dir)
            /\ Len(rest[k].dir) = Len(Path) + k - 1
            /\ \A x \in rest[k].left : x # <<>> /\ Front(x) = rest[k].dir
    BY <1>5, <1>6, <1>9, <1>12 DEF Descends
  <1>15. rest[1].dir = Path  BY <1>5, <1>12, <1>13 DEF Descends
  <1>16. \A k \in 1 .. n : \A x \in Entries(tree', rest[k].dir) :
            \/ x \in rest[k].left
            \/ tree'[x] = "other"
            \/ k < n /\ x = rest[k + 1].dir
            \/ k = n /\ x = q /\ IsDir(tree, q)
    <2>1. SUFFICES ASSUME NEW k \in 1 .. n, NEW x \in Entries(tree', rest[k].dir)
          PROVE  \/ x \in rest[k].left
                 \/ tree'[x] = "other"
                 \/ k < n /\ x = rest[k + 1].dir
                 \/ k = n /\ x = q /\ IsDir(tree, q)
      OBVIOUS
    <2>2. /\ Exists(tree', x) /\ Exists(tree, x) /\ tree'[x] = tree[x]
          /\ x \in Entries(tree, stack[k].dir)
      BY <1>9, <1>12, <2>1 DEF Entries, Exists
    <2>3. \/ x \in stack[k].left
          \/ tree[x] = "other"
          \/ k < n /\ x = stack[k + 1].dir
      BY <1>5, <1>6, <2>2 DEF Covers
    <2>4. CASE tree[x] = "other"  BY <2>2, <2>4
    <2>5. CASE k < n /\ x = stack[k + 1].dir  BY <1>11, <1>12, <2>5
    <2>6. CASE x \in stack[k].left /\ k # n  BY <1>7, <1>11, <2>6
    <2>7. CASE x \in stack[k].left /\ k = n
      <3>1. CASE x # q  BY <1>7, <2>7, <3>1
      <3>2. CASE x = q
        <4>1. tree[q] \in {"dir", "file", "other"}
          BY <1>5, <2>2, <3>2, TreeFacts DEF Exists
        <4>2. ~IsFile(tree, q)  BY <1>9, <2>2, <3>2
        <4>3. QED  BY <2>2, <2>7, <3>2, <4>1, <4>2 DEF IsFile, IsDir
      <3>3. QED  BY <3>1, <3>2
    <2>8. QED  BY <2>3, <2>4, <2>5, <2>6, <2>7
  <1>17. CASE ~IsDir(tree, q)
    <2>1. stack' = rest  BY <1>4, <1>17
    <2>2. Descends'  BY <1>5, <1>7, <1>14, <1>15, <2>1 DEF Descends
    <2>3. Covers'  BY <1>7, <1>16, <1>17, <2>1 DEF Covers
    <2>4. Removing'  BY <1>1, <1>5, <1>7, <2>1, <2>2, <2>3 DEF Removing
    <2>5. QED  BY <1>1, <1>5, <1>9, <1>10, <2>4, StillRemoving
  <1>18. CASE IsDir(tree, q)
    <2> DEFINE o == [dir |-> q, left |-> Entries(tree, q)]
    <2>1. Entries(tree, q) \in SUBSET Paths  BY <1>5, TreeFacts DEF Entries
    <2>2. o \in Opened /\ o.dir = q /\ o.left = Entries(tree, q)
      BY <1>8, <2>1, OpenedIs
    <2> HIDE DEF o
    <2>3. stack' = Append(rest, o)  BY <1>4, <1>18 DEF o
    <2>4. /\ stack' \in Seq(Opened) /\ stack' # <<>> /\ Len(stack') = n + 1
          /\ \A k \in 1 .. n : stack'[k] = rest[k]
          /\ stack'[n + 1] = o
      BY <1>7, <2>2, <2>3, AppendProperties
    <2>5. \A k \in 1 .. Len(stack') : k \in 1 .. n \/ k = n + 1
      BY <1>8, <2>4
    <2>6. Len(q) = Len(Path) + (n + 1) - 1
      <3>1. PICK a : a = Len(Path)  OBVIOUS
      <3>2. a \in Nat  BY <3>1, InRemoval, <1>1 DEF Paths
      <3>3. a + n = a + (n + 1) - 1  BY <1>8, <3>2
      <3>4. QED  BY <1>8, <3>1, <3>3
    <2>7. IsDir(tree', q) /\ \A x \in o.left : x # <<>> /\ Front(x) = q
      BY <1>9, <1>18, <2>2 DEF Entries
    <2>8. stack'[1].dir = Path'  BY <1>5, <1>13, <1>15, <2>4
    <2>9. Descends'
      BY <1>5, <1>8, <1>14, <2>2, <2>4, <2>5, <2>6, <2>7, <2>8 DEF Descends
    <2>10. Covers'
      <3>1. SUFFICES ASSUME NEW k \in 1 .. Len(stack'), NEW x \in Entries(tree', stack'[k].dir)
            PROVE  \/ x \in stack'[k].left
                   \/ tree'[x] = "other"
                   \/ k < Len(stack') /\ x = stack'[k + 1].dir
        BY DEF Covers
      <3>2. CASE k \in 1 .. n
        <4>1. stack'[k] = rest[k]  BY <2>4, <3>2
        <4>2. \/ x \in rest[k].left
              \/ tree'[x] = "other"
              \/ k < n /\ x = rest[k + 1].dir
              \/ k = n /\ x = q
          BY <1>16, <3>1, <3>2, <4>1
        <4>3. k < n + 1 /\ (k < n => k + 1 \in 1 .. n)  BY <1>8, <3>2
        <4>4. QED  BY <2>2, <2>4, <4>1, <4>2, <4>3
      <3>3. CASE k = n + 1
        <4>1. x \in Entries(tree', q)  BY <2>2, <2>4, <3>1, <3>3
        <4>2. x \in Entries(tree, q)  BY <1>9, <4>1 DEF Entries, Exists
        <4>3. QED  BY <2>2, <2>4, <3>3, <4>2
      <3>4. QED  BY <2>5, <3>2, <3>3
    <2>11. Removing'  BY <1>1, <1>5, <2>4, <2>9, <2>10 DEF Removing
    <2>12. QED  BY <1>1, <1>5, <1>9, <1>10, <2>11, StillRemoving
  <1>19. QED  BY <1>17, <1>18

\* Something below an open directory of which no entry is left is of neither
\* kind, or has something of neither kind above it.
LEMMA WhyNotEmpty ==
    ASSUME IInv, pc = "remove", Last(stack).left = {},
           NEW x \in Below(tree, Last(stack).dir), x # Last(stack).dir
    PROVE  Others # {}
  <1> DEFINE p == Last(stack).dir
             c == SubSeq(x, 1, Len(p) + 1)
  <1>1. /\ OnlyRemoves /\ Descends /\ Covers /\ IsTree(tree)
        /\ stack \in Seq(Opened) /\ stack # <<>> /\ Path \in Paths
    BY InRemoval
  <1>2. PICK n : n = Len(stack)  OBVIOUS
  <1>3. n \in Nat \ {0} /\ n \in 1 .. n /\ Last(stack) = stack[n] /\ p \in Paths
    BY <1>1, <1>2, StackFacts
  <1>4. x \in DOMAIN tree /\ x \in Paths /\ IsPrefix(p, x)
    BY <1>1, TreeFacts DEF Below
  <1>5. Len(p) \in Nat /\ Len(x) \in Nat /\ Len(p) < Len(x)
    <2>1. Len(p) \in Nat /\ Len(x) \in Nat  BY <1>3, <1>4 DEF Paths
    <2>2. Len(p) <= Len(x)  BY <1>4 DEF IsPrefix
    <2>3. Len(p) # Len(x)
      <3>1. SUFFICES ASSUME Len(p) = Len(x)  PROVE FALSE  OBVIOUS
      <3>2. Len(x) <= Len(p)  BY <2>1, <3>1
      <3>3. QED  BY <1>3, <1>4, <3>2, PrefixOrder
    <2>4. QED  BY <2>1, <2>2, <2>3
  <1>6. Len(p) + 1 \in 0 .. Len(x)  BY <1>5
  <1>7. /\ c \in Paths /\ Len(c) = Len(p) + 1 /\ IsPrefix(c, x)
        /\ \A j \in 1 .. Len(p) + 1 : c[j] = x[j]
    BY <1>4, <1>6, SubSeqProps
  <1>8. c # <<>> /\ Front(c) = p
    <2>4. \A j \in 1 .. Len(p) : p[j] = x[j]  BY <1>3, <1>4, PrefixMeans
    <2> HIDE DEF p, c
    <2>1. c # <<>>  BY <1>5, <1>7
    <2>7. PICK a \in Nat : a = Len(p)  BY <1>5
    <2>8. Len(c) = a + 1 /\ \A j \in 1 .. a : j \in 1 .. a + 1  BY <1>7, <2>7
    <2>9. /\ Front(c) \in Paths /\ Len(Front(c)) = Len(c) - 1
          /\ \A j \in 1 .. Len(c) - 1 : Front(c)[j] = c[j]
      BY <1>7, <2>1, FrontProps
    <2>10. Len(c) - 1 = a  BY <2>8
    <2>2. Front(c) \in Paths /\ Len(Front(c)) = Len(p)
      BY <2>7, <2>9, <2>10
    <2>3. \A j \in 1 .. Len(p) : Front(c)[j] = c[j] /\ c[j] = x[j]
      BY <1>7, <2>7, <2>8, <2>9, <2>10
    <2>5. Front(c) = p  BY <1>3, <2>2, <2>3, <2>4, SeqEqual DEF Paths
    <2>6. QED  BY <2>1, <2>5
  <1>9. c \in DOMAIN tree
    <2>1. CASE c = x  BY <1>4, <2>1
    <2>2. CASE c # x  BY <1>1, <1>4, <1>7, <2>2, AboveIsDir DEF IsDir, Exists
    <2>3. QED  BY <2>1, <2>2
  <1> HIDE DEF c
  <1>10. c \in Entries(tree, stack[n].dir)  BY <1>3, <1>8, <1>9 DEF Entries
  <1>11. tree[c] = "other"  BY <1>1, <1>2, <1>3, <1>10 DEF Covers
  <1>12. c \in DOMAIN before /\ before[c] = "other"
    BY <1>1, <1>9, <1>11 DEF OnlyRemoves, Exists
  <1>13. IsPrefix(Path, c)
    <2>1. IsPrefix(Path, p)  BY <1>1, <1>2, <1>3 DEF Descends
    <2>2. IsPrefix(p, c)  BY <1>7, <1>8, FrontProps
    <2> HIDE DEF p
    <2>3. QED  BY <1>1, <1>3, <1>7, <2>1, <2>2, PrefixOrder
  <1>14. QED  BY <1>12, <1>13 DEF Others, Below

LEMMA CloseDirStep ==
    ASSUME IInv, CloseDir  PROVE IInv'
  <1>1. /\ pc = "remove" /\ Last(stack).left = {}
        /\ UNCHANGED <<calls, op, name, stray, round, before, raced>>
    BY DEF CloseDir
  <1>2. PICK p : p = Last(stack).dir  OBVIOUS
  <1>3. /\ tree' = Finish(tree, p).tree
        /\ stack' = IF Finish(tree, p).ret = 0 THEN Front(stack) ELSE <<>>
        /\ stack' = <<>> => pc' = "done" /\ ret' = Finish(tree, p).ret
        /\ stack' # <<>> => pc' = pc /\ ret' = ret
    BY <1>2 DEF CloseDir, Return
  <1>4. /\ op = "CTRemove" /\ name \in Removable /\ OnlyRemoves /\ Descends /\ Covers
        /\ IsDir(before, Path) /\ Access(before, Last(name))
        /\ stack \in Seq(Opened) /\ stack # <<>> /\ IsTree(tree) /\ Path' = Path
        /\ Path \in Paths /\ Cwd \in Paths /\ ~IsPrefix(Path, Cwd)
    BY <1>1, InRemoval DEF Path
  <1>5. PICK n : n = Len(stack)  OBVIOUS
  <1>6. /\ n \in Nat \ {0} /\ n \in 1 .. n /\ Last(stack) = stack[n] /\ p \in Paths
        /\ Front(stack) \in Seq(Opened) /\ Len(Front(stack)) = n - 1
        /\ \A k \in 1 .. n - 1 : Front(stack)[k] = stack[k]
        /\ Front(stack) = <<>> <=> n = 1
    BY <1>2, <1>4, <1>5, StackFacts
  <1>7. IsDir(tree, p) /\ IsPrefix(Path, p) /\ p = stack[n].dir
    BY <1>2, <1>4, <1>5, <1>6 DEF Descends
  <1>8. p \in Below(tree, p) /\ p \in DOMAIN tree /\ tree[p] = "dir"
    BY <1>6, <1>7, PrefixOrder DEF Below, IsDir, Exists
  <1>9. CASE Below(tree, p) # {p}
    <2>1. Finish(tree, p).tree = tree /\ Finish(tree, p).ret = -1
      BY <1>9 DEF Finish, Rmdir
    <2>2. tree' = tree /\ stack' = <<>> /\ pc' = "done" /\ ret' = -1
      BY <1>3, <2>1
    <2>3. PICK x \in Below(tree, p) : x # p  BY <1>8, <1>9
    <2>4. Others # {}  BY <1>1, <1>2, <2>3, WhyNotEmpty
    <2>5. Others' = Others  BY <1>1, <1>4 DEF Others
    <2>6. Path \notin Others  BY <1>4 DEF Others, IsDir
    <2>7. TypeOK'
      BY <1>1, <1>4, <2>2 DEF IInv, TypeOK, Places
    <2>8. OnlyRemoves'  BY <1>1, <1>4, <2>2 DEF OnlyRemoves, Exists
    <2>9. QED  BY <1>1, <1>4, <2>2, <2>4, <2>5, <2>6, <2>7, <2>8, HasRemoved
  <1>10. CASE Below(tree, p) = {p}
    <2>1. tree' = Without(tree, {p}) /\ Finish(tree, p).ret = 0
      BY <1>3, <1>7, <1>10 DEF Finish, Rmdir
    <2>2. stack' = Front(stack)  BY <1>3, <2>1
    <2>3. ~IsPrefix(p, Cwd)  BY <1>4, <1>6, <1>7, PrefixOrder
    <2>4. IsTree(tree')  BY <1>4, <1>8, <1>10, <2>1, <2>3, TreeWithout
    <2>5. DOMAIN tree' = DOMAIN tree \ {p} /\ \A x \in DOMAIN tree' : tree'[x] = tree[x]
      BY <2>1 DEF Without
    <2>6. OnlyRemoves'
      <3>1. \A x \in DOMAIN tree' : Exists(before, x) /\ tree'[x] = before[x]
        BY <1>4, <2>5 DEF OnlyRemoves
      <3>2. \A x \in DOMAIN before :
                ~Exists(tree', x) => IsPrefix(Path, x) /\ before[x] # "other"
        BY <1>4, <1>7, <1>8, <2>5 DEF OnlyRemoves, Exists
      <3>3. QED  BY <1>1, <1>4, <3>1, <3>2 DEF OnlyRemoves, Exists
    <2>7. CASE n = 1
      <3>1. stack' = <<>> /\ pc' = "done" /\ ret' = 0  BY <1>3, <1>6, <2>1, <2>2, <2>7
      <3>2. p = Path  BY <1>4, <1>7, <2>7 DEF Descends
      <3>3. Below(tree', Path') = {}
        BY <1>4, <1>10, <2>5, <3>2 DEF Below
      <3>4. /\ \A q \in DOMAIN tree' : Exists(before', q) /\ tree'[q] = before'[q]
            /\ \A q \in DOMAIN before' :
                ~Exists(tree', q) => IsPrefix(Path', q) /\ before'[q] # "other"
        BY <2>6 DEF OnlyRemoves, Exists
      <3>5. Others' \subseteq Below(tree', Path')  BY <3>4, OnlyBelow DEF Others
      <3>6. Others' = {}  BY <3>3, <3>5
      <3>7. TypeOK'  BY <1>1, <1>4, <2>4, <3>1 DEF IInv, TypeOK, Places
      <3>8. Access(before', Last(name'))  BY <1>1, <1>4
      <3>9. QED  BY <1>1, <1>4, <2>6, <3>1, <3>3, <3>6, <3>7, <3>8, HasRemoved
    <2>8. CASE n # 1
      <3>1. stack' # <<>> /\ pc' = pc /\ ret' = ret  BY <1>3, <1>6, <2>2, <2>8
      <3>2. TypeOK'  BY <1>1, <2>4, <3>1 DEF IInv, TypeOK
      <3>3. PICK m : m = n - 1  OBVIOUS
      <3>4. /\ m \in Nat \ {0} /\ 1 \in 1 .. m /\ n = m + 1 /\ Len(stack') = m
            /\ \A k \in 1 .. m : k \in 1 .. n /\ k < n /\ (k < m => k + 1 \in 1 .. m)
                                 /\ (k = m \/ k < m)
            /\ \A k \in 1 .. m : stack'[k] = stack[k]
        BY <1>6, <2>2, <2>8, <3>3
      <3>5. \A k \in 1 .. m : stack[k].dir # p
        <4>1. SUFFICES ASSUME NEW k \in 1 .. m  PROVE Len(stack[k].dir) # Len(p)
          OBVIOUS
        <4>2. PICK a : a = Len(Path)  OBVIOUS
        <4>3. a \in Nat  BY <1>4, <4>2 DEF Paths
        <4>4. Len(stack[k].dir) = a + k - 1 /\ Len(p) = a + n - 1
          BY <1>4, <1>5, <1>6, <1>7, <3>4, <4>2 DEF Descends
        <4>5. a + k - 1 # a + n - 1  BY <1>6, <3>4, <4>3
        <4>6. QED  BY <4>4, <4>5
      <3>6. Descends'
        <4>1. \A k \in 1 .. m : IsDir(tree', stack[k].dir)
          BY <1>4, <1>5, <2>5, <3>4, <3>5 DEF Descends, IsDir, Exists
        <4>2. stack'[1].dir = Path'  BY <1>4, <3>4 DEF Descends
        <4>3. \A k \in 1 .. m :
                /\ IsPrefix(Path, stack[k].dir) /\ Len(stack[k].dir) = Len(Path) + k - 1
                /\ \A q \in stack[k].left : q # <<>> /\ Front(q) = stack[k].dir
          BY <1>4, <1>5, <3>4 DEF Descends
        <4>4. \A k \in 1 .. m :
                /\ IsDir(tree', stack'[k].dir) /\ IsPrefix(Path', stack'[k].dir)
                /\ Len(stack'[k].dir) = Len(Path') + k - 1
                /\ \A q \in stack'[k].left : q # <<>> /\ Front(q) = stack'[k].dir
          BY <1>4, <3>4, <4>1, <4>3
        <4>5. QED  BY <3>4, <4>2, <4>4 DEF Descends
      <3>7. Covers'
        <4>1. SUFFICES ASSUME NEW k \in 1 .. m, NEW x \in Entries(tree', stack[k].dir)
              PROVE  \/ x \in stack[k].left
                     \/ tree'[x] = "other"
                     \/ k < m /\ x = stack[k + 1].dir
          BY <3>4 DEF Covers
        <4>2. x \in DOMAIN tree /\ x # p /\ tree'[x] = tree[x] /\ x \in Entries(tree, stack[k].dir)
          BY <2>5, <4>1 DEF Entries
        <4>3. \/ x \in stack[k].left
              \/ tree[x] = "other"
              \/ k < n /\ x = stack[k + 1].dir
          BY <1>4, <1>5, <3>4, <4>2 DEF Covers
        <4>4. k = m => stack[k + 1].dir = p  BY <1>7, <3>4
        <4>5. QED  BY <3>4, <4>2, <4>3, <4>4
      <3>8. Removing'  BY <1>1, <1>4, <1>6, <2>2, <3>1, <3>6, <3>7 DEF Removing
      <3>9. QED  BY <1>1, <1>4, <2>6, <3>1, <3>2, <3>8, StillRemoving
    <2>9. QED  BY <2>7, <2>8
  <1>11. QED  BY <1>9, <1>10

(***************************************************************************)
(* The theorems.                                                           *)
(***************************************************************************)
LEMMA InitIInv == TreeInit(Trees) => IInv
  <1> SUFFICES ASSUME TreeInit(Trees)  PROVE IInv  OBVIOUS
  <1>1. IsTree(tree) /\ IsTree(before)  BY TreesAssumption DEF TreeInit
  <1>2. op = "none" /\ pc = "idle"  BY DEF TreeInit
  <1>3. TypeOK  BY <1>1, <1>2 DEF TreeInit, TypeOK, Places
  <1>4. QED  BY <1>2, <1>3 DEF IInv, CreateInv, RemoveInv, Creations

LEMMA NextIInv == IInv /\ [TreeNext]_treeVars => IInv'
  <1> SUFFICES ASSUME IInv, [TreeNext]_treeVars  PROVE IInv'  OBVIOUS
  <1>1. ASSUME NEW d \in Names, CTCreateDir(d) \/ CTCreateFile(d)  PROVE IInv'
    BY <1>1, BeginCreation
  <1>2. CASE FindPiece  BY <1>2, FindPieceStep
  <1>3. CASE MissPiece  BY <1>3, MissPieceStep
  <1>4. CASE MakePiece  BY <1>4, MakePieceStep
  <1>5. CASE FailPiece  BY <1>5, FailPieceStep
  <1>6. CASE EndPieces  BY <1>6, EndPiecesStep
  <1>7. CASE OpenFile  BY <1>7, OpenFileStep
  <1>8. ASSUME NEW i \in DOMAIN name, Meanwhile(name[i].path)  PROVE IInv'
    BY <1>8, MeanwhileStep
  <1>9. ASSUME NEW d \in Removable, CTRemove(d)  PROVE IInv'
    BY <1>9, CTRemoveStep
  <1>10. CASE ReadEntry  BY <1>10, ReadEntryStep
  <1>11. CASE CloseDir  BY <1>11, CloseDirStep
  <1>12. CASE UNCHANGED treeVars
    <2>1. UNCHANGED <<tree, calls, pc, op, name, stray, round, stack, ret, before, raced>>
      BY <1>12 DEF treeVars
    <2>2. TypeOK'  BY <2>1 DEF IInv, TypeOK
    <2>3. CreateInv'
      BY <2>1 DEF IInv, CreateInv, OnlyAdds, Rounding, Making, Opening, Kept, Added,
                  Path, LastRound, Absolute, CreatesWhatIsNamed, Blocked,
                  NotADirectory
    <2>4. RemoveInv'
      BY <2>1 DEF IInv, RemoveInv, OnlyRemoves, Removing, Descends, Covers, Path,
                  RemovesOnlyWhatIsNamed
    <2>5. QED  BY <2>2, <2>3, <2>4 DEF IInv
  <1>13. QED
    BY <1>1, <1>2, <1>3, <1>4, <1>5, <1>6, <1>7, <1>8, <1>9, <1>10, <1>11, <1>12
    DEF TreeNext

\* Both trees are trees and every call has a name, at any moment.
THEOREM SpecTypeOK == TreeSpec => []TypeOK
  <1>1. IInv => TypeOK  BY DEF IInv
  <1>2. QED  BY InitIInv, NextIInv, <1>1, PTL DEF TreeSpec

\* A creation (fileutil.c lines 9-71) adds no more than the name says, takes
\* nothing away, brings about what it returns, and fails for a reason only.
THEOREM SpecCreatesWhatIsNamed == TreeSpec => []CreatesWhatIsNamed
  <1>1. IInv => CreatesWhatIsNamed
    BY DEF IInv, CreateInv, CreatesWhatIsNamed, Creations
  <1>2. QED  BY InitIInv, NextIInv, <1>1, PTL DEF TreeSpec

\* A removal (lines 75-153) touches nothing beside the name, removes nothing
\* that is neither a file nor a directory, and returns 0 only if all is gone.
THEOREM SpecRemovesOnlyWhatIsNamed == TreeSpec => []RemovesOnlyWhatIsNamed
  <1>1. IInv => RemovesOnlyWhatIsNamed
    BY DEF IInv, RemoveInv, RemovesOnlyWhatIsNamed
  <1>2. QED  BY InitIInv, NextIInv, <1>1, PTL DEF TreeSpec
=============================================================================
