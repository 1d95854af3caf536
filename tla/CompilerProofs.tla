---------------------------- MODULE CompilerProofs ----------------------------
(***************************************************************************)
(* Proofs about Compiler for all texts, lists of directories, environments *)
(* and file systems.                                                       *)
(*                                                                         *)
(* The search of a list of directories is a fold.  FoldFacts makes of it a *)
(* sequence of states, one for each item of the list, and so of the fold   *)
(* that says which directories a list names; what relates the two is       *)
(* carried along both by induction.  The rest is the inductive invariant   *)
(* IInv: TypeOK, the outcome of the run (Outcome), the bounds of the list  *)
(* of files (Listed), its numbers (RefnosRight) and the chain of texts that *)
(* wait (Chained).                                                         *)
(***************************************************************************)
EXTENDS Compiler, SequenceTheorems, FiniteSetTheorems, FoldFacts

(* What a search returns: nothing or a file; and the state of the search of *)
(* a list behind each of its items. *)
Found == {<< >>} \cup {<< f >> : f \in Text \X Text \X Text}
SearchState == [buf : Seq(Text), found : Found]
Move(r, item, name, suffix, fs, slash) ==
  IF r.found # << >> THEN r
  ELSE IF item \in Separator
  THEN [buf |-> << >>, found |-> findFileInDir(r.buf, name, suffix, fs, slash)]
  ELSE [r EXCEPT !.buf = Append(@, item)]
Start == [buf |-> << >>, found |-> << >>]

(* The states of findFileInDirList. *)
SearchSteps(acc, list, name, suffix, fs, slash) ==
  /\ acc \in [0..Len(list) -> SearchState]
  /\ acc[0] = Start
  /\ \A k \in 1..Len(list) : acc[k] = Move(acc[k - 1], list[k], name, suffix, fs, slash)
  /\ acc[Len(list)].found = findFileInDirList(list, name, suffix, fs, slash)

(* A step of the search keeps to its types. *)
LEMMA MoveType ==
  ASSUME NEW r \in SearchState, NEW item \in Text, NEW name \in Text, NEW suffix \in Text,
         NEW fs, NEW slash \in BOOLEAN
  PROVE  Move(r, item, name, suffix, fs, slash) \in SearchState
<1>1. Directory(r.buf, slash) \in Text
  <2>1. r.buf # << >> => r.buf[1] \in Text
    BY EmptySeq, ElementOfSeq DEF SearchState
  <2> QED BY <2>1, TextAssumption DEF Directory
<1>2. findFileInDir(r.buf, name, suffix, fs, slash) \in Found
  <2> DEFINE d == Directory(r.buf, slash)
  <2>1. << d, name, suffix >> \in Text \X Text \X Text /\ << d, name, "" >> \in Text \X Text \X Text
    BY <1>1, TextAssumption
  <2> HIDE DEF d
  <2>2. findFileInDir(r.buf, name, suffix, fs, slash) = First(<< d, name, suffix >>, << d, name, "" >>, fs)
    BY DEF findFileInDir, d
  <2>3. \A a, b \in Text \X Text \X Text : First(a, b, fs) \in Found
    BY DEF First, Found
  <2> QED BY <2>1, <2>2, <2>3
<1> QED BY <1>2 DEF Move, SearchState, Found

(* findFileInDirList goes through such states. *)
LEMMA SearchFold ==
  ASSUME NEW list \in Seq(Text), NEW name \in Text, NEW suffix \in Text, NEW fs,
         NEW slash \in BOOLEAN
  PROVE  \E acc : SearchSteps(acc, list, name, suffix, fs, slash)
<1> DEFINE T == SearchState
           n == Len(list)
           Op(r, item) == Move(r, item, name, suffix, fs, slash)
           F == [p \in T \X (1..n) |-> Op(p[1], list[p[2]])]
           Eq(g) == g = [s \in SUBSET (DOMAIN list) |->
                           IF s = {} THEN Start ELSE Op(g[s \ {Max(s)}], list[Max(s)])]
           h == CHOOSE g : Eq(g)
<1>1. n \in Nat /\ DOMAIN list = 1..n /\ \A i \in 1..n : list[i] \in Text
  OBVIOUS
<1>2. F \in [T \X (1..n) -> T]
  <2>1. \A r \in T, i \in 1..n : Op(r, list[i]) \in T
    BY <1>1, MoveType
  <2> HIDE DEF T, Op
  <2> QED BY <2>1
<1>3. Start \in T
  BY DEF Start, SearchState, Found
<1>4. \E g : Eq(g)
  <2>1. PICK g \in [SUBSET (1..n) -> T] : FoldEquation(g, n, F, Start)
    BY <1>1, <1>2, <1>3, FoldExists
  <2> HIDE DEF T, Op
  <2> QED BY <1>1, <2>1 DEF FoldEquation
<1>5. Eq(h)
  <2> HIDE DEF Eq
  <2> QED BY <1>4
<1>6. findFileInDirList(list, name, suffix, fs, slash) = h[DOMAIN list].found
  BY DEF findFileInDirList, FoldLeft, MapThenFoldSet, Move, Start
<1>7. Solves(h, DOMAIN list, T, n, F, Start)
  <2> HIDE DEF h, T, Op
  <2> QED BY <1>1, <1>5 DEF Solves
<1>8. PICK acc : Steps(acc, T, n, F, Start, h[DOMAIN list])
  <2>1. n \in Nat
    BY <1>1
  <2> HIDE DEF h, F, T, n
  <2> QED BY <1>2, <1>3, <1>7, <2>1, FoldSteps
<1>9. \A k \in 1..n : acc[k] = Op(acc[k - 1], list[k])
  <2>1. \A k \in 1..n : k - 1 \in 0..n
    BY <1>1
  <2> HIDE DEF T, n, Op
  <2> QED BY <1>8, <2>1 DEF Steps
<1> HIDE DEF h
<1> QED BY <1>6, <1>8, <1>9 DEF Steps, SearchSteps

-----------------------------------------------------------------------------

(* In a directory there is no file of the name, or the one InDir finds. *)
Neither(dir, name, suffix, fs) == << dir, name, suffix >> \notin fs /\ << dir, name, "" >> \notin fs
InDir(dir, name, suffix, fs) == First(<< dir, name, suffix >>, << dir, name, "" >>, fs)

(* What is found is in the first of the directories that has a file of the  *)
(* name. *)
FirstIn(found, dirs, name, suffix, fs) ==
  \/ found = << >> /\ \A i \in 1..Len(dirs) : Neither(dirs[i], name, suffix, fs)
  \/ \E i \in 1..Len(dirs) :
       /\ ~Neither(dirs[i], name, suffix, fs)
       /\ found = InDir(dirs[i], name, suffix, fs)
       /\ \A j \in 1..(i - 1) : Neither(dirs[j], name, suffix, fs)

(* In a directory nothing is found if there is nothing to be found. *)
LEMMA InDirEmpty ==
  ASSUME NEW dir, NEW name, NEW suffix, NEW fs
  PROVE  InDir(dir, name, suffix, fs) = << >> <=> Neither(dir, name, suffix, fs)
<1> DEFINE a == << dir, name, suffix >>
           b == << dir, name, "" >>
<1>1. First(a, b, fs) = << >> <=> a \notin fs /\ b \notin fs
  <2> HIDE DEF a, b
  <2> QED BY DEF First
<1> QED BY <1>1 DEF InDir, Neither

(* The search of one directory. *)
LEMMA InOneDir ==
  ASSUME NEW dir \in Text, NEW name, NEW suffix, NEW fs
  PROVE  FirstIn(InDir(dir, name, suffix, fs), << dir >>, name, suffix, fs)
<1>1. Len(<< dir >>) = 1 /\ << dir >>[1] = dir
  OBVIOUS
<1>2. CASE Neither(dir, name, suffix, fs)
  BY <1>1, <1>2, InDirEmpty DEF FirstIn
<1>3. CASE ~Neither(dir, name, suffix, fs)
  BY <1>1, <1>3 DEF FirstIn
<1> QED BY <1>2, <1>3

(* A search that goes on in more directories if it has found nothing. *)
LEMMA Joined ==
  ASSUME NEW d \in Seq(Text), NEW e \in Seq(Text), NEW name, NEW suffix, NEW fs, NEW f, NEW g,
         FirstIn(f, d, name, suffix, fs), FirstIn(g, e, name, suffix, fs)
  PROVE  FirstIn(IF f # << >> THEN f ELSE g, d \o e, name, suffix, fs)
<1> DEFINE N(dir) == Neither(dir, name, suffix, fs)
           I(dir) == InDir(dir, name, suffix, fs)
<1>1. /\ Len(d) \in Nat /\ Len(e) \in Nat /\ Len(d \o e) = Len(d) + Len(e)
      /\ \A i \in 1..Len(d) : (d \o e)[i] = d[i]
      /\ \A i \in 1..Len(e) : (d \o e)[i + Len(d)] = e[i]
  BY ConcatProperties
<1>2. \A dir : I(dir) = << >> <=> N(dir)
  BY InDirEmpty
<1> HIDE DEF N, I
<1>3. CASE f # << >>
  <2>1. PICK i \in 1..Len(d) : ~N(d[i]) /\ f = I(d[i]) /\ \A j \in 1..(i - 1) : N(d[j])
    BY <1>3 DEF FirstIn, N, I
  <2>2. i \in 1..Len(d \o e) /\ (d \o e)[i] = d[i] /\ \A j \in 1..(i - 1) : (d \o e)[j] = d[j]
    BY <1>1
  <2> QED BY <1>3, <2>1, <2>2 DEF FirstIn, N, I
<1>4. CASE f = << >>
  <2>1. \A i \in 1..Len(d) : N(d[i])
    BY <1>2, <1>4 DEF FirstIn, N, I
  <2>2. CASE g = << >> /\ \A i \in 1..Len(e) : N(e[i])
    <3>1. ASSUME NEW k \in 1..Len(d \o e) PROVE N((d \o e)[k])
      <4>1. CASE k <= Len(d)
        BY <1>1, <2>1, <4>1
      <4>2. CASE k > Len(d)
        <5>1. k - Len(d) \in 1..Len(e) /\ (k - Len(d)) + Len(d) = k
          BY <1>1, <4>2
        <5> QED BY <1>1, <2>2, <5>1
      <4> QED BY <1>1, <4>1, <4>2
    <3> QED BY <1>4, <2>2, <3>1 DEF FirstIn, N
  <2>3. ASSUME NEW i \in 1..Len(e), ~N(e[i]), g = I(e[i]), \A j \in 1..(i - 1) : N(e[j])
        PROVE  FirstIn(g, d \o e, name, suffix, fs)
    <3> DEFINE m == i + Len(d)
    <3>1. m \in 1..Len(d \o e) /\ (d \o e)[m] = e[i]
      BY <1>1
    <3>2. ASSUME NEW k \in 1..(m - 1) PROVE N((d \o e)[k])
      <4>1. CASE k <= Len(d)
        BY <1>1, <2>1, <4>1
      <4>2. CASE k > Len(d)
        <5>1. k - Len(d) \in 1..Len(e) /\ k - Len(d) \in 1..(i - 1) /\ (k - Len(d)) + Len(d) = k
          BY <1>1, <4>2
        <5> QED BY <1>1, <2>3, <5>1
      <4> QED BY <1>1, <4>1, <4>2
    <3> HIDE DEF m
    <3> QED BY <2>3, <3>1, <3>2 DEF FirstIn, N, I
  <2> QED BY <1>4, <2>2, <2>3 DEF FirstIn, N, I
<1> QED BY <1>3, <1>4

-----------------------------------------------------------------------------

(* The states of Directories. *)
DirState == [done : Seq(Seq(Text)), buf : Seq(Text)]
Split(r, item) ==
  IF item \in Separator THEN [done |-> Append(r.done, r.buf), buf |-> << >>]
  ELSE [r EXCEPT !.buf = << item >>]
NoDirs == [done |-> << >>, buf |-> << >>]

SplitSteps(acc, list) ==
  /\ acc \in [0..Len(list) -> DirState]
  /\ acc[0] = NoDirs
  /\ \A k \in 1..Len(list) : acc[k] = Split(acc[k - 1], list[k])
  /\ acc[Len(list)].done = Directories(list).closed

(* Directories goes through such states. *)
LEMMA SplitFold ==
  ASSUME NEW list \in Seq(Text)
  PROVE  \E acc : SplitSteps(acc, list)
<1> DEFINE T == DirState
           n == Len(list)
           Op(r, item) == Split(r, item)
           F == [p \in T \X (1..n) |-> Op(p[1], list[p[2]])]
           Eq(g) == g = [s \in SUBSET (DOMAIN list) |->
                           IF s = {} THEN NoDirs ELSE Op(g[s \ {Max(s)}], list[Max(s)])]
           h == CHOOSE g : Eq(g)
<1>1. n \in Nat /\ DOMAIN list = 1..n /\ \A i \in 1..n : list[i] \in Text
  OBVIOUS
<1>2. F \in [T \X (1..n) -> T]
  <2>1. ASSUME NEW r \in DirState, NEW item \in Text PROVE Split(r, item) \in DirState
    <3>1. << item >> \in Seq(Text) /\ << >> \in Seq(Text) /\ Append(r.done, r.buf) \in Seq(Seq(Text))
      BY DEF DirState
    <3> QED BY <3>1 DEF Split, DirState
  <2>2. \A r \in T, i \in 1..n : Op(r, list[i]) \in T
    BY <1>1, <2>1
  <2> HIDE DEF T, Op
  <2> QED BY <2>2
<1>3. NoDirs \in T
  <2>1. << >> \in Seq(Seq(Text)) /\ << >> \in Seq(Text)
    BY EmptySeq
  <2> QED BY <2>1 DEF NoDirs, DirState
<1>4. \E g : Eq(g)
  <2>1. PICK g \in [SUBSET (1..n) -> T] : FoldEquation(g, n, F, NoDirs)
    BY <1>1, <1>2, <1>3, FoldExists
  <2> HIDE DEF T, Op
  <2> QED BY <1>1, <2>1 DEF FoldEquation
<1>5. Eq(h)
  <2> HIDE DEF Eq
  <2> QED BY <1>4
<1>6. Directories(list).closed = h[DOMAIN list].done
  BY DEF Directories, FoldLeft, MapThenFoldSet, Split, NoDirs
<1>7. Solves(h, DOMAIN list, T, n, F, NoDirs)
  <2> HIDE DEF h, T, Op
  <2> QED BY <1>1, <1>5 DEF Solves
<1>8. PICK acc : Steps(acc, T, n, F, NoDirs, h[DOMAIN list])
  <2>1. n \in Nat
    BY <1>1
  <2> HIDE DEF h, F, T, n
  <2> QED BY <1>2, <1>3, <1>7, <2>1, FoldSteps
<1>9. \A k \in 1..n : acc[k] = Op(acc[k - 1], list[k])
  <2>1. \A k \in 1..n : k - 1 \in 0..n
    BY <1>1
  <2> HIDE DEF T, n, Op
  <2> QED BY <1>8, <2>1 DEF Steps
<1> HIDE DEF h
<1> QED BY <1>6, <1>8, <1>9 DEF Steps, SplitSteps

(* The directories as findFileInDir names them. *)
Names(dirs, slash) == [k \in DOMAIN dirs |-> Directory(dirs[k], slash)]

(* The name of a directory is a text. *)
LEMMA DirectoryType ==
  ASSUME NEW dir \in Seq(Text), NEW slash \in BOOLEAN
  PROVE  Directory(dir, slash) \in Text
<1>1. dir # << >> => dir[1] \in Text
  BY EmptySeq, ElementOfSeq
<1> QED BY <1>1, TextAssumption DEF Directory

(* One more directory is one more name. *)
LEMMA NamesAppend ==
  ASSUME NEW dirs \in Seq(Seq(Text)), NEW dir \in Seq(Text), NEW slash \in BOOLEAN
  PROVE  /\ Names(dirs, slash) \in Seq(Text)
         /\ Names(Append(dirs, dir), slash) = Names(dirs, slash) \o << Directory(dir, slash) >>
<1> DEFINE a == Append(dirs, dir)
           m == Names(dirs, slash)
           r == m \o << Directory(dir, slash) >>
<1>1. \A s \in Seq(Seq(Text)) : Names(s, slash) \in Seq(Text) /\ Len(Names(s, slash)) = Len(s)
                                /\ \A i \in 1..Len(s) : Names(s, slash)[i] = Directory(s[i], slash)
  <2> TAKE s \in Seq(Seq(Text))
  <2>1. Len(s) \in Nat /\ DOMAIN s = 1..Len(s) /\ \A i \in 1..Len(s) : Directory(s[i], slash) \in Text
    BY LenProperties, ElementOfSeq, DirectoryType
  <2>2. Names(s, slash) \in Seq(Text)
    BY <2>1 DEF Names
  <2> QED BY <2>1, <2>2 DEF Names
<1>2. a \in Seq(Seq(Text)) /\ Len(a) = Len(dirs) + 1 /\ a[Len(dirs) + 1] = dir
      /\ \A i \in 1..Len(dirs) : a[i] = dirs[i]
  BY AppendProperties
<1>3. m \in Seq(Text) /\ Len(m) = Len(dirs) /\ Len(dirs) \in Nat
  BY <1>1, LenProperties
<1>4. r \in Seq(Text) /\ Len(r) = Len(dirs) + 1 /\ r[Len(dirs) + 1] = Directory(dir, slash)
      /\ \A i \in 1..Len(dirs) : r[i] = m[i]
  <2>1. << Directory(dir, slash) >> \in Seq(Text) /\ Len(<< Directory(dir, slash) >>) = 1
    BY DirectoryType
  <2> HIDE DEF m
  <2> QED BY <1>3, <2>1, ConcatProperties
<1>5. Names(a, slash) = r
  <2>1. Names(a, slash) \in Seq(Text) /\ Len(Names(a, slash)) = Len(r)
    BY <1>1, <1>2, <1>4
  <2>2. ASSUME NEW i \in 1..Len(Names(a, slash)) PROVE Names(a, slash)[i] = r[i]
    <3>1. i \in 1..Len(a)
      BY <1>1, <1>2
    <3>2. Names(a, slash)[i] = Directory(a[i], slash)
      BY <1>1, <1>2, <3>1
    <3>3. CASE i = Len(dirs) + 1
      BY <1>2, <1>4, <3>2, <3>3
    <3>4. CASE i \in 1..Len(dirs)
      BY <1>1, <1>2, <1>4, <3>2, <3>4
    <3> QED BY <1>2, <1>3, <3>1, <3>3, <3>4
  <2> HIDE DEF a, r
  <2> QED BY <1>4, <2>1, <2>2, SeqEqual
<1> QED BY <1>3, <1>5

-----------------------------------------------------------------------------

(* The two folds behind the same item: the search has found what is in the   *)
(* directories met so far, or has the same directory before it.             *)
Together(a, d, list, k, name, suffix, fs, slash) ==
  /\ FirstIn(a.found, Names(d.done, slash), name, suffix, fs)
  /\ a.found = << >> => a.buf = d.buf /\ (a.buf # << >> => k > 0 /\ list[k] \notin Separator)

(* One more item of the list. *)
LEMMA TogetherStep ==
  ASSUME NEW list, PathList(list), NEW k \in Nat, k + 1 <= Len(list), NEW name \in Text,
         NEW suffix \in Text, NEW fs, NEW slash \in BOOLEAN, NEW a \in SearchState, NEW d \in DirState,
         Together(a, d, list, k, name, suffix, fs, slash)
  PROVE  Together(Move(a, list[k + 1], name, suffix, fs, slash), Split(d, list[k + 1]), list, k + 1,
                  name, suffix, fs, slash)
<1> DEFINE item == list[k + 1]
           b == Move(a, item, name, suffix, fs, slash)
           e == Split(d, item)
           dir == Directory(d.buf, slash)
           here == InDir(dir, name, suffix, fs)
<1> SUFFICES Together(b, e, list, k + 1, name, suffix, fs, slash)
  OBVIOUS
<1>1. list \in Seq(Text) /\ item \in Text /\ d.buf \in Seq(Text) /\ d.done \in Seq(Seq(Text)) /\ dir \in Text
  BY DirectoryType, ElementOfSeq DEF PathList, DirState
<1>2. CASE item \in Separator
  <2>1. e = [done |-> Append(d.done, d.buf), buf |-> << >>]
    BY <1>2 DEF Split
  <2>2. Names(e.done, slash) = Names(d.done, slash) \o << dir >> /\ Names(d.done, slash) \in Seq(Text)
    <3>1. Names(Append(d.done, d.buf), slash) = Names(d.done, slash) \o << Directory(d.buf, slash) >>
          /\ Names(d.done, slash) \in Seq(Text)
      BY <1>1, NamesAppend
    <3>2. e.done = Append(d.done, d.buf)
      BY <2>1
    <3> HIDE DEF e
    <3> QED BY <3>1, <3>2
  <2>3. FirstIn(here, << dir >>, name, suffix, fs) /\ << dir >> \in Seq(Text)
    BY <1>1, InOneDir
  <2>4. FirstIn(IF a.found # << >> THEN a.found ELSE here, Names(e.done, slash), name, suffix, fs)
    <3> HIDE DEF dir, here, e
    <3> QED BY <2>2, <2>3, Joined DEF Together
  <2>5. CASE a.found # << >>
    <3>1. b = a
      BY <2>5 DEF Move
    <3> HIDE DEF b, e
    <3> QED BY <2>4, <2>5, <3>1 DEF Together
  <2>6. CASE a.found = << >>
    <3>1. a.buf = d.buf
      BY <2>6 DEF Together
    <3>2. b = [buf |-> << >>, found |-> here]
      BY <1>2, <2>6, <3>1 DEF Move, findFileInDir, InDir
    <3>3. b.found = here /\ b.buf = << >> /\ e.buf = << >>
      BY <2>1, <3>2
    <3> HIDE DEF b, e, here
    <3> QED BY <2>4, <2>6, <3>3 DEF Together
  <2> QED BY <2>5, <2>6
<1>3. CASE item \notin Separator
  <2>1. e.done = d.done /\ e.buf = << item >>
    BY <1>3 DEF Split, DirState
  <2>2. CASE a.found # << >>
    <3>1. b = a
      BY <2>2 DEF Move
    <3> HIDE DEF b, e
    <3> QED BY <2>1, <2>2, <3>1 DEF Together
  <2>3. CASE a.found = << >>
    <3>1. a.buf = << >>
      <4>1. ASSUME a.buf # << >> PROVE FALSE
        <5>1. k > 0 /\ list[k] \notin Separator
          BY <2>3, <4>1 DEF Together
        <5>2. k \in 1..(Len(list) - 1)
          BY <1>1, <5>1
        <5> QED BY <1>3, <5>1, <5>2 DEF PathList
      <4> QED BY <4>1
    <3>2. b.found = a.found /\ b.buf = Append(a.buf, item)
      BY <1>3, <2>3 DEF Move, SearchState
    <3>3. b.buf = << item >>
      BY <3>1, <3>2
    <3>4. k + 1 > 0 /\ list[k + 1] \notin Separator
      BY <1>3
    <3> HIDE DEF b, e
    <3> QED BY <2>1, <3>2, <3>3, <3>4 DEF Together
  <2> QED BY <2>2, <2>3
<1> QED BY <1>2, <1>3

(* The search of a list finds the first file in the directories of the list *)
(* that have a separator behind them. *)
LEMMA ListSearched ==
  ASSUME NEW list, PathList(list), NEW name \in Text, NEW suffix \in Text, NEW fs, NEW slash \in BOOLEAN
  PROVE  /\ FirstIn(findFileInDirList(list, name, suffix, fs, slash),
                    Names(Directories(list).closed, slash), name, suffix, fs)
         /\ Names(Directories(list).closed, slash) \in Seq(Text)
<1>1. list \in Seq(Text) /\ Len(list) \in Nat
  BY LenProperties DEF PathList
<1>2. PICK a : SearchSteps(a, list, name, suffix, fs, slash)
  BY <1>1, SearchFold
<1>3. PICK d : SplitSteps(d, list)
  BY <1>1, SplitFold
<1> DEFINE P(k) == Together(a[k], d[k], list, k, name, suffix, fs, slash)
           S == {k \in Nat : k <= Len(list) => P(k)}
<1>4. \A k \in 0..Len(list) : a[k] \in SearchState /\ d[k] \in DirState
  BY <1>2, <1>3 DEF SearchSteps, SplitSteps
<1>5. P(0)
  <2>1. a[0] = Start /\ d[0] = NoDirs
    BY <1>2, <1>3 DEF SearchSteps, SplitSteps
  <2>2. Names(<< >>, slash) = << >>
    BY DEF Names
  <2>3. FirstIn(<< >>, << >>, name, suffix, fs)
    BY DEF FirstIn
  <2>4. a[0].found = << >> /\ a[0].buf = << >> /\ d[0].buf = << >> /\ d[0].done = << >>
    BY <2>1 DEF Start, NoDirs
  <2> QED BY <2>2, <2>3, <2>4 DEF Together
<1>6. ASSUME NEW k \in Nat, k \in S PROVE k + 1 \in S
  <2> SUFFICES ASSUME k + 1 <= Len(list) PROVE P(k + 1)
    <3> HIDE DEF P
    <3> QED OBVIOUS
  <2>1. k \in 0..Len(list) /\ k + 1 \in 1..Len(list) /\ (k + 1) - 1 = k
    BY <1>1
  <2>2. P(k)
    <3> HIDE DEF P
    <3> QED BY <1>6, <2>1
  <2>3. a[k + 1] = Move(a[k], list[k + 1], name, suffix, fs, slash)
    BY <1>2, <2>1 DEF SearchSteps
  <2>4. d[k + 1] = Split(d[k], list[k + 1])
    BY <1>3, <2>1 DEF SplitSteps
  <2>5. a[k] \in SearchState /\ d[k] \in DirState
    BY <1>4, <2>1
  <2> QED BY <2>2, <2>3, <2>4, <2>5, TogetherStep
<1>7. P(Len(list))
  <2>1. 0 \in S
    <3> HIDE DEF P
    <3> QED BY <1>5
  <2>2. Nat \subseteq S
    <3> HIDE DEF S
    <3> QED BY <1>6, <2>1, NatSetInduction
  <2> HIDE DEF P
  <2> QED BY <1>1, <2>2
<1>8. a[Len(list)].found = findFileInDirList(list, name, suffix, fs, slash)
      /\ d[Len(list)].done = Directories(list).closed
  BY <1>2, <1>3 DEF SearchSteps, SplitSteps
<1>9. Directories(list).closed \in Seq(Seq(Text))
  <2>1. d[Len(list)] \in DirState
    BY <1>1, <1>4
  <2> QED BY <1>8, <2>1 DEF DirState
<1>10. Names(Directories(list).closed, slash) \in Seq(Text)
  <2>1. << >> \in Seq(Text)
    BY EmptySeq
  <2> QED BY <1>9, <2>1, NamesAppend
<1> QED BY <1>7, <1>8, <1>10 DEF Together

(* The default and no list are lists. *)
LEMMA DefaultPath == PathList(defaultSearchDirs) /\ PathList(<< >>)
<1>1. << "./", ":", "./include" >> \in Seq(Text) /\ << >> \in Seq(Text)
  <2>1. "./" \in Text /\ ":" \in Text /\ "./include" \in Text
    BY TextAssumption
  <2> QED BY <2>1
<1>2. Len(<< "./", ":", "./include" >>) = 3 /\ << "./", ":", "./include" >>[2] = ":"
  OBVIOUS
<1>3. \A i \in 1..2 : i = 1 \/ i = 2
  OBVIOUS
<1>4. PathList(defaultSearchDirs)
  <2>1. \A i \in 1..(3 - 1) : i = 2 \/ i + 1 = 2
    OBVIOUS
  <2>2. ":" \in Separator
    BY DEF Separator
  <2> QED BY <1>1, <1>2, <2>1, <2>2 DEF PathList, defaultSearchDirs
<1>5. PathList(<< >>)
  BY <1>1 DEF PathList
<1> QED BY <1>4, <1>5

-----------------------------------------------------------------------------

(* The first in the order of the directories, with the suffix before the     *)
(* name without, is the first as SearchRight means it. *)
LEMMA FirstIsFirst ==
  ASSUME NEW dirs \in Seq(Text), NEW name, NEW suffix, NEW found,
         FirstIn(found, dirs, name, suffix, files)
  PROVE  IsFirst(found, dirs, name, suffix)
<1> DEFINE Candidate(k, s) == << dirs[k], name, s >>
           place == (DOMAIN dirs) \X {suffix, ""}
           Before(p, q) == p[1] < q[1] \/ (p[1] = q[1] /\ p[2] # "" /\ q[2] = "")
           N(i) == Neither(dirs[i], name, suffix, files)
           Hit(p) == /\ found = << Candidate(p[1], p[2]) >>
                     /\ found[1] \in files
                     /\ \A q \in place : Before(q, p) => Candidate(q[1], q[2]) \notin files
<1> SUFFICES \/ found = << >> /\ \A p \in place : Candidate(p[1], p[2]) \notin files
             \/ \E p \in place : Hit(p)
  BY DEF IsFirst
<1>1. Len(dirs) \in Nat /\ DOMAIN dirs = 1..Len(dirs)
  BY LenProperties
<1>2. \A q \in place : q[1] \in 1..Len(dirs) /\ (q[2] = suffix \/ q[2] = "")
  BY <1>1
<1>3. \A i, s : N(i) /\ (s = suffix \/ s = "") => Candidate(i, s) \notin files
  BY DEF Neither
<1>4. CASE found = << >> /\ \A i \in 1..Len(dirs) : N(i)
  <2>1. \A p \in place : Candidate(p[1], p[2]) \notin files
    <3> HIDE DEF N, Candidate, place
    <3> QED BY <1>2, <1>3, <1>4
  <2> QED BY <1>4, <2>1
<1>5. ASSUME NEW i \in 1..Len(dirs), ~N(i), found = InDir(dirs[i], name, suffix, files),
             \A j \in 1..(i - 1) : N(j)
      PROVE  \E p \in place : Hit(p)
  <2>1. \A q \in place : q[1] < i => Candidate(q[1], q[2]) \notin files
    <3>1. \A q \in place : q[1] < i => q[1] \in 1..(i - 1)
      <4>1. \A x \in 1..Len(dirs) : x < i => x \in 1..(i - 1)
        BY <1>1
      <4> HIDE DEF place
      <4> QED BY <1>2, <4>1
    <3> HIDE DEF N, Candidate, place
    <3> QED BY <1>2, <1>3, <1>5, <3>1
  <2>2. \A f, g : First(f, g, files) = IF f \in files THEN << f >> ELSE IF g \in files THEN << g >> ELSE << >>
    BY DEF First
  <2>3. found = First(Candidate(i, suffix), Candidate(i, ""), files)
    BY <1>5 DEF InDir
  <2>4. Candidate(i, suffix) \in files \/ Candidate(i, "") \in files
    BY <1>5 DEF Neither
  <2>5. \A f : << f >>[1] = f
    OBVIOUS
  <2>6. CASE Candidate(i, suffix) \in files
    <3> DEFINE p == << i, suffix >>
    <3>1. p \in place /\ p[1] = i /\ p[2] = suffix
      BY <1>1
    <3>2. found = << Candidate(i, suffix) >>
      <4> HIDE DEF Candidate
      <4> QED BY <2>2, <2>3, <2>6
    <3>3. ASSUME NEW q \in place, Before(q, p) PROVE Candidate(q[1], q[2]) \notin files
      <4>1. q[1] < i \/ (q[1] = i /\ q[2] # "" /\ suffix = "")
        BY <3>1, <3>3
      <4>2. q[1] < i
        BY <1>2, <4>1
      <4> HIDE DEF Candidate, place
      <4> QED BY <2>1, <4>2
    <3>4. found[1] \in files
      <4> HIDE DEF Candidate
      <4> QED BY <2>5, <2>6, <3>2
    <3>5. Hit(p)
      <4> HIDE DEF Candidate, place, p, Before
      <4> QED BY <3>1, <3>2, <3>3, <3>4
    <3> HIDE DEF Hit
    <3> QED BY <3>1, <3>5
  <2>7. CASE Candidate(i, suffix) \notin files
    <3> DEFINE p == << i, "" >>
    <3>1. p \in place /\ p[1] = i /\ p[2] = ""
      BY <1>1
    <3>2. found = << Candidate(i, "") >>
      <4> HIDE DEF Candidate
      <4> QED BY <2>2, <2>3, <2>4, <2>7
    <3>3. ASSUME NEW q \in place, Before(q, p) PROVE Candidate(q[1], q[2]) \notin files
      <4>1. q[1] < i \/ (q[1] = i /\ q[2] # "")
        BY <3>1, <3>3
      <4>2. q[1] < i \/ (q[1] = i /\ q[2] = suffix)
        BY <1>2, <4>1
      <4> HIDE DEF Candidate, place
      <4> QED BY <2>1, <2>7, <4>2
    <3>4. found[1] \in files
      <4> HIDE DEF Candidate
      <4> QED BY <2>4, <2>5, <2>7, <3>2
    <3>5. Hit(p)
      <4> HIDE DEF Candidate, place, p, Before
      <4> QED BY <3>1, <3>2, <3>3, <3>4
    <3> HIDE DEF Hit
    <3> QED BY <3>1, <3>5
  <2> QED BY <2>6, <2>7
<1> HIDE DEF Hit, place
<1> QED BY <1>4, <1>5 DEF FirstIn

(* findFile goes through the three lists. *)
LEMMA FileFound ==
  ASSUME NEW path, PathList(path), NEW e, "PL1SYSLIB" \in DOMAIN e => PathList(e["PL1SYSLIB"]),
         NEW name \in Text, NEW suffix \in Text, NEW fs, NEW slash \in BOOLEAN
  PROVE  LET syslib == IF "PL1SYSLIB" \in DOMAIN e THEN e["PL1SYSLIB"] ELSE << >>
             In(list) == Names(Directories(list).closed, slash)
             dirs == In(path) \o In(defaultSearchDirs) \o In(syslib)
         IN  dirs \in Seq(Text) /\ FirstIn(findFile(name, path, suffix, e, fs, slash), dirs, name, suffix, fs)
<1> DEFINE syslib == IF "PL1SYSLIB" \in DOMAIN e THEN e["PL1SYSLIB"] ELSE << >>
           In(list) == Names(Directories(list).closed, slash)
           Find(list) == findFileInDirList(list, name, suffix, fs, slash)
           both == IF Find(path) # << >> THEN Find(path) ELSE Find(defaultSearchDirs)
           dirs == In(path) \o In(defaultSearchDirs)
<1>1. PathList(syslib)
  BY DefaultPath
<1>2. \A list : PathList(list) => In(list) \in Seq(Text) /\ FirstIn(Find(list), In(list), name, suffix, fs)
  BY ListSearched
<1> HIDE DEF In, Find, syslib
<1>3. FirstIn(both, dirs, name, suffix, fs) /\ dirs \in Seq(Text)
  BY <1>2, DefaultPath, Joined, ConcatProperties
<1>4. In(syslib) \in Seq(Text) /\ FirstIn(Find(syslib), In(syslib), name, suffix, fs)
  BY <1>1, <1>2
<1>5. /\ FirstIn(IF both # << >> THEN both ELSE Find(syslib), dirs \o In(syslib), name, suffix, fs)
      /\ dirs \o In(syslib) \in Seq(Text)
  <2> HIDE DEF both, dirs
  <2> QED BY <1>3, <1>4, Joined, ConcatProperties
<1>6. findFile(name, path, suffix, e, fs, slash) = IF both # << >> THEN both ELSE Find(syslib)
  <2>1. findFile(name, path, suffix, e, fs, slash) =
          IF Find(path) # << >> THEN Find(path)
          ELSE IF Find(defaultSearchDirs) # << >> THEN Find(defaultSearchDirs) ELSE Find(syslib)
    BY DEF findFile, Find, syslib
  <2> QED BY <2>1
<1> HIDE DEF both
<1> QED BY <1>5, <1>6 DEF In, syslib

(* SearchRight depends on the types of the options and of the environment    *)
(* only. *)
LEMMA SearchIsRight == TypeOK => SearchRight
<1> SUFFICES ASSUME TypeOK, NEW name \in Name, NEW slash \in PreviousByte
             PROVE  IsFirst(findFile(name, parms.includePath, parms.includeSuffix, env, files, slash),
                            Searched(slash), name, parms.includeSuffix)
  BY DEF SearchRight
<1> DEFINE path == parms.includePath
           suffix == parms.includeSuffix
           found == findFile(name, path, suffix, env, files, slash)
<1>1. /\ PathList(path) /\ suffix \in Text /\ name \in Text /\ slash \in BOOLEAN
      /\ "PL1SYSLIB" \in DOMAIN env => PathList(env["PL1SYSLIB"])
  <2>1. path \in PathLists \cup {<< >>} /\ suffix \in SuffixList \cup {""} /\ env \in Environments
    BY DEF TypeOK
  <2> QED BY <2>1, DefaultPath, NameAssumption, PathAssumption, EnvironmentAssumption, TextAssumption,
             PreviousByteAssumption
<1>2. Searched(slash) \in Seq(Text) /\ FirstIn(found, Searched(slash), name, suffix, files)
  <2> DEFINE syslib == IF "PL1SYSLIB" \in DOMAIN env THEN env["PL1SYSLIB"] ELSE << >>
             In(list) == Names(Directories(list).closed, slash)
  <2>1. Searched(slash) = In(path) \o In(defaultSearchDirs) \o In(syslib)
    BY DEF Searched, Lists, Names
  <2> HIDE DEF path, suffix
  <2> QED BY <1>1, <2>1, FileFound
<1> HIDE DEF suffix, found
<1>3. IsFirst(found, Searched(slash), name, suffix)
  BY <1>2, FirstIsFirst
<1> QED BY <1>3 DEF suffix, found

-----------------------------------------------------------------------------

(* The result codes are set at the end, and there are errors among the      *)
(* messages if and only if something was wrong. *)
Outcome ==
  /\ phase = "options" => scanner = "none"
  /\ phase # "done" => rc = 0 /\ errorcount = 0
  /\ wrong <=> messages.errors > 0
  /\ scanner \in {"error", "unfinished"} => wrong
  /\ FailsForErrors

(* The list and its two numbers stay within their bound. *)
Listed == Len(includefilelist) <= MaxIncludes /\ count["FILE"] + count["PPVAR"] = Len(includefilelist)

(* The chain is in order from the start to the first error of the scanner. *)
Chained == scanner \in {"none", "ready"} => ChainRight

IInv == TypeOK /\ Outcome /\ Listed /\ Chained /\ RefnosRight

(* After an error message there is one. *)
LEMMA ErrorsCounted ==
  ASSUME TypeOK, NEW n, Errors(n)
  PROVE  messages' \in [MessageKind -> 0..MaxMessages] /\ messages'.errors > 0
<1> DEFINE M == [MessageKind -> 0..MaxMessages]
<1>1. \A m \in M : addMessage(m, "errors") \in M /\ addMessage(m, "errors").errors > 0
  BY BoundAssumption DEF addMessage, MessageKind
<1>2. messages \in M
  BY DEF TypeOK
<1> HIDE DEF M
<1> QED BY <1>1, <1>2 DEF Errors, M

(* What a new element is told of the text it is in. *)
FromCurrent == IF currentIncludeFile = NULL THEN << >>
               ELSE << [name  |-> includefilelist[currentIncludeFile].name,
                        refno |-> includefilelist[currentIncludeFile].refno] >>

(* addIncludeFile: the new element, and that the numbers stay right. *)
LEMMA Added ==
  ASSUME TypeOK, Listed, RefnosRight, NEW type \in Type, NEW name \in Text \X Text \X Text,
         Len(includefilelist) < MaxIncludes, addIncludeFile(type, name)
  PROVE  /\ includefilelist' \in Seq(Entry)
         /\ Len(includefilelist') = Len(includefilelist) + 1
         /\ \A i \in 1..Len(includefilelist) : includefilelist'[i] = includefilelist[i]
         /\ includefilelist'[Len(includefilelist) + 1].includedFrom = FromCurrent
         /\ count' \in [Type -> 0..MaxIncludes]
         /\ currentIncludeFile' = Len(includefilelist) + 1
         /\ Listed' /\ RefnosRight'
<1> DEFINE list == includefilelist
           n == Len(list)
           new == [type |-> type, name |-> name, refno |-> Numbered(type).refno, includedFrom |-> FromCurrent]
           Of(l, t) == {i \in DOMAIN l : l[i].type = t}
           Upto(l, i) == {j \in 1..i : l[j].type = l[i].type}
<1>1. /\ list' = Append(list, new) /\ count' = Numbered(type).counts /\ currentIncludeFile' = n + 1
  BY DEF addIncludeFile, FromCurrent
<1>2. /\ list \in Seq(Entry) /\ n \in Nat /\ DOMAIN list = 1..n /\ currentIncludeFile \in 0..n
      /\ \A i \in 1..n : list[i] \in Entry
      /\ count["FILE"] \in Nat /\ count["PPVAR"] \in Nat /\ count["FILE"] + count["PPVAR"] = n
      /\ count \in [Type -> 0..MaxIncludes]
  <2>1. list \in Seq(Entry) /\ currentIncludeFile \in 0..n /\ count \in [Type -> 0..MaxIncludes]
    BY DEF TypeOK
  <2>2. n \in Nat /\ DOMAIN list = 1..n /\ \A i \in 1..n : list[i] \in Entry
    BY <2>1, LenProperties, ElementOfSeq
  <2>3. count["FILE"] \in Nat /\ count["PPVAR"] \in Nat
    BY <2>1, BoundAssumption DEF Type
  <2> QED BY <2>1, <2>2, <2>3 DEF Listed
<1>3. /\ Numbered(type).counts = [count EXCEPT ![type] = @ + 1]
      /\ Numbered(type).refno = count[type] + 1
  <2>1. CASE list = << >>
    <3>1. n = 0
      BY <2>1, EmptySeq
    <3>2. count[type] = 0
      BY <1>2, <3>1 DEF Type
    <3> QED BY <1>2, <2>1, <3>2 DEF Numbered
  <2>2. CASE list # << >>
    BY <1>2, <2>2 DEF Numbered
  <2> QED BY <2>1, <2>2
<1>4. new \in Entry /\ new.type = type /\ new.refno = count[type] + 1 /\ new.includedFrom = FromCurrent
  <2>1. count[type] + 1 \in Nat
    BY <1>2 DEF Type
  <2>2. FromCurrent \in Seq([name : Text \X Text \X Text, refno : Nat])
    <3>1. CASE currentIncludeFile = NULL
      BY <3>1 DEF FromCurrent
    <3>2. CASE currentIncludeFile # NULL
      <4>1. list[currentIncludeFile] \in Entry
        BY <1>2, <3>2 DEF NULL
      <4>2. list[currentIncludeFile].name \in Text \X Text \X Text /\ list[currentIncludeFile].refno \in Nat
        BY <4>1 DEF Entry
      <4> QED BY <3>2, <4>2 DEF FromCurrent
    <3> QED BY <3>1, <3>2
  <2> QED BY <1>3, <2>1, <2>2 DEF Entry
<1> HIDE DEF new
<1>5. /\ list' \in Seq(Entry) /\ Len(list') = n + 1 /\ DOMAIN list' = 1..(n + 1)
      /\ \A i \in 1..n : list'[i] = list[i]
      /\ list'[n + 1] = new
  <2>1. list' \in Seq(Entry) /\ Len(list') = n + 1 /\ \A i \in 1..n : list'[i] = list[i]
    BY <1>1, <1>2, <1>4, AppendProperties
  <2>2. list'[n + 1] = new
    BY <1>1, <1>2, <1>4, AppendProperties
  <2> QED BY <2>1, <2>2, LenProperties
<1>6. count' = [count EXCEPT ![type] = @ + 1]
  BY <1>1, <1>3
<1>7. count' \in [Type -> 0..MaxIncludes] /\ Listed'
  <2>1. /\ count[type] + 1 <= n + 1 /\ n + 1 <= MaxIncludes
        /\ count'["FILE"] + count'["PPVAR"] = n + 1
    BY <1>2, <1>6, BoundAssumption DEF Type
  <2> QED BY <1>2, <1>5, <1>6, <2>1, BoundAssumption DEF Listed, Type
<1>8. \A t \in Type : IsFiniteSet(Of(list, t)) /\ n + 1 \notin Of(list, t) /\ count[t] = Cardinality(Of(list, t))
  <2> TAKE t \in Type
  <2>1. Of(list, t) \in SUBSET (1..n)
    BY <1>2
  <2>2. IsFiniteSet(Of(list, t))
    <3>1. IsFiniteSet(1..n)
      BY <1>2, FS_Interval
    <3> HIDE DEF Of
    <3> QED BY <2>1, <3>1, FS_Subset
  <2>3. n + 1 \notin 1..n
    BY <1>2
  <2> QED BY <2>1, <2>2, <2>3 DEF RefnosRight
<1>9. \A t \in Type : Of(list', t) = IF t = type THEN Of(list, t) \cup {n + 1} ELSE Of(list, t)
  <2> TAKE t \in Type
  <2>1. \A i : i \in 1..(n + 1) <=> i \in 1..n \/ i = n + 1
    BY <1>2
  <2>2. \A i : i \in Of(list', t) <=> i \in Of(list, t) \/ (i = n + 1 /\ t = type)
    BY <1>2, <1>4, <1>5, <2>1
  <2> QED BY <2>2
<1>10. \A t \in Type : count'[t] = Cardinality(Of(list', t))
  <2> TAKE t \in Type
  <2>1. CASE t = type
    <3>1. Cardinality(Of(list, t) \cup {n + 1}) = Cardinality(Of(list, t)) + 1
      <4> HIDE DEF Of
      <4> QED BY <1>8, FS_AddElement
    <3> HIDE DEF Of
    <3> QED BY <1>2, <1>6, <1>8, <1>9, <2>1, <3>1
  <2>2. CASE t # type
    <3> HIDE DEF Of
    <3> QED BY <1>2, <1>6, <1>8, <1>9, <2>2
  <2> QED BY <2>1, <2>2
<1>11. ASSUME NEW i \in DOMAIN list' PROVE list'[i].refno = Cardinality(Upto(list', i))
  <2>1. CASE i \in 1..n
    <3>1. list'[i] = list[i] /\ \A j \in 1..i : list'[j] = list[j]
      BY <1>2, <1>5, <2>1
    <3>2. Upto(list', i) = Upto(list, i)
      BY <3>1
    <3>3. list[i].refno = Cardinality(Upto(list, i))
      BY <1>2, <2>1 DEF RefnosRight
    <3> HIDE DEF Upto
    <3> QED BY <3>1, <3>2, <3>3
  <2>2. CASE i = n + 1
    <3>1. Upto(list', i) = Of(list', type)
      BY <1>4, <1>5, <2>2
    <3>2. list'[i].refno = count'[type]
      BY <1>2, <1>4, <1>5, <1>6, <2>2
    <3> HIDE DEF Upto, Of
    <3> QED BY <1>10, <3>1, <3>2
  <2> QED BY <1>2, <1>5, <2>1, <2>2
<1>12. RefnosRight'
  BY <1>10, <1>11 DEF RefnosRight
<1> QED BY <1>1, <1>4, <1>5, <1>7, <1>12

-----------------------------------------------------------------------------

(* A search returns nothing or a file. *)
LEMMA FoundType ==
  ASSUME NEW list, PathList(list), NEW name \in Text, NEW suffix \in Text, NEW fs, NEW slash \in BOOLEAN
  PROVE  findFileInDirList(list, name, suffix, fs, slash) \in Found
<1>1. PICK acc : SearchSteps(acc, list, name, suffix, fs, slash)
  BY SearchFold DEF PathList
<1>2. acc[Len(list)] \in SearchState
  <2>1. Len(list) \in 0..Len(list)
    BY LenProperties DEF PathList
  <2> QED BY <1>1, <2>1 DEF SearchSteps
<1> QED BY <1>1, <1>2 DEF SearchSteps, SearchState

(* A new text goes on top of the chain. *)
LEMMA Stacked ==
  ASSUME TypeOK, Listed, RefnosRight, NEW type \in Type, NEW name \in Text \X Text \X Text,
         Len(includefilelist) < MaxIncludes, addIncludeFile(type, name), stackCurrentBuffer, ChainRight
  PROVE  buffers' \in Seq(0..Len(includefilelist')) /\ ChainRight'
<1> DEFINE n == Len(includefilelist)
           old == Append(buffers, currentIncludeFile)
           new == Append(buffers', currentIncludeFile')
           m == Len(old)
<1>1. /\ n \in Nat /\ currentIncludeFile \in 0..n /\ buffers \in Seq(0..n)
      /\ currentIncludeFile' = n + 1 /\ buffers' = old /\ Len(includefilelist') = n + 1
      /\ \A i \in 1..n : includefilelist'[i] = includefilelist[i]
      /\ includefilelist'[n + 1].includedFrom = FromCurrent
  BY Added, LenProperties DEF TypeOK, stackCurrentBuffer
<1>2. /\ m = Len(buffers) + 1 /\ m \in Nat \ {0} /\ old \in Seq(0..n) /\ old[m] = currentIncludeFile
      /\ \A i \in 1..m : old[i] \in 0..n
  <2>1. old \in Seq(0..n) /\ m = Len(buffers) + 1 /\ old[Len(buffers) + 1] = currentIncludeFile
    BY <1>1, AppendProperties
  <2>2. Len(buffers) \in Nat
    BY <1>1, LenProperties
  <2> HIDE DEF old
  <2>3. \A i \in 1..m : old[i] \in 0..n
    BY <2>1, ElementOfSeq
  <2> QED BY <2>1, <2>2, <2>3
<1>3. old \in Seq(0..(n + 1))
  <2>1. 0..n \subseteq 0..(n + 1)
    BY <1>1
  <2> QED BY <1>2, <2>1, SeqMonotonic
<1>4. Len(new) = m + 1 /\ new[m + 1] = n + 1 /\ \A i \in 1..m : new[i] = old[i]
  <2> HIDE DEF old
  <2>1. n + 1 \in 0..(n + 1)
    BY <1>1
  <2> QED BY <1>1, <1>3, <2>1, AppendProperties
<1>5. old[1] = NULL /\ \A i \in 2..m :
         /\ old[i] # NULL
         /\ includefilelist[old[i]].includedFrom =
              IF old[i - 1] = NULL THEN << >>
              ELSE << [name  |-> includefilelist[old[i - 1]].name,
                       refno |-> includefilelist[old[i - 1]].refno] >>
  BY DEF ChainRight
<1> HIDE DEF old, new, m
<1>6. ASSUME NEW i \in 2..(m + 1)
      PROVE  /\ new[i] # NULL
             /\ includefilelist'[new[i]].includedFrom =
                  IF new[i - 1] = NULL THEN << >>
                  ELSE << [name  |-> includefilelist'[new[i - 1]].name,
                           refno |-> includefilelist'[new[i - 1]].refno] >>
  <2>1. i - 1 \in 1..m /\ new[i - 1] = old[i - 1] /\ old[i - 1] \in 0..n
    BY <1>2, <1>4
  <2>2. old[i - 1] # NULL => includefilelist'[old[i - 1]] = includefilelist[old[i - 1]]
    BY <1>1, <2>1 DEF NULL
  <2>3. CASE i \in 2..m
    <3>1. new[i] = old[i] /\ old[i] \in 0..n /\ old[i] # NULL
      <4>1. i \in 1..m
        BY <1>2, <2>3
      <4>2. old[i] # NULL
        BY <1>5, <2>3
      <4> QED BY <1>2, <1>4, <4>1, <4>2
    <3>2. includefilelist'[old[i]] = includefilelist[old[i]]
      BY <1>1, <3>1 DEF NULL
    <3> QED BY <1>5, <2>1, <2>2, <2>3, <3>1, <3>2
  <2>4. CASE i = m + 1
    <3>1. new[i] = n + 1 /\ n + 1 # NULL /\ old[i - 1] = currentIncludeFile
      BY <1>1, <1>2, <1>4, <2>4 DEF NULL
    <3> QED BY <1>1, <2>1, <2>2, <3>1 DEF FromCurrent
  <2> QED BY <1>2, <2>3, <2>4
<1>7. new[1] = NULL
  BY <1>2, <1>4, <1>5
<1>8. ChainRight'
  <2>1. \A i \in 2..Len(new) : i \in 2..(m + 1)
    BY <1>4
  <2> QED BY <1>6, <1>7, <2>1 DEF ChainRight, new
<1> QED BY <1>1, <1>3, <1>8

(* At the end of a text the chain is the texts that waited. *)
LEMMA EndOfBufferTypes ==
  ASSUME TypeOK, buffers # << >>, switchToPreviousBuffer, UNCHANGED includefilelist
  PROVE  /\ buffers' \in Seq(0..Len(includefilelist')) /\ currentIncludeFile' \in 0..Len(includefilelist')
         /\ Append(buffers', currentIncludeFile') = buffers
         /\ Len(buffers) \in Nat \ {0} /\ currentIncludeFile \in 0..Len(includefilelist)
         /\ buffers \in Seq(0..Len(includefilelist))
<1> DEFINE n == Len(includefilelist)
           m == Len(buffers)
<1>1. /\ n \in Nat /\ currentIncludeFile \in 0..n /\ buffers \in Seq(0..n) /\ m \in Nat \ {0}
      /\ buffers' = SubSeq(buffers, 1, m - 1) /\ currentIncludeFile' = buffers[m]
      /\ \A i \in 1..m : buffers[i] \in 0..n
  BY EmptySeq, LenProperties, ElementOfSeq DEF TypeOK, switchToPreviousBuffer, Front, Last
<1>2. buffers' \in Seq(0..n) /\ Len(buffers') = m - 1 /\ buffers[m] \in 0..n
  <2>1. \A i \in 1..(m - 1) : buffers[i] \in 0..n
    BY <1>1
  <2>2. m - 1 \in Int /\ (1 <= m - 1 => m - 1 - 1 + 1 = m - 1) /\ (~(1 <= m - 1) => m - 1 = 0) /\ m \in 1..m
    <3>1. \A x \in Nat \ {0} : x - 1 \in Int /\ (1 <= x - 1 => x - 1 - 1 + 1 = x - 1)
                               /\ (~(1 <= x - 1) => x - 1 = 0) /\ x \in 1..x
      OBVIOUS
    <3> HIDE DEF m
    <3> QED BY <1>1, <3>1
  <2>3. SubSeq(buffers, 1, m - 1) \in Seq(0..n) /\ Len(SubSeq(buffers, 1, m - 1)) = m - 1
    <3> DEFINE k == m - 1
    <3> HIDE DEF k
    <3>1. k \in Int /\ \A i \in 1..k : buffers[i] \in 0..n
      BY <2>1, <2>2 DEF k
    <3>2. SubSeq(buffers, 1, k) \in Seq(0..n) /\ Len(SubSeq(buffers, 1, k)) = IF 1 <= k THEN k - 1 + 1 ELSE 0
      BY <3>1, SubSeqProperties
    <3> QED BY <2>2, <3>2 DEF k
  <2> QED BY <1>1, <2>2, <2>3
<1>3. Append(buffers', currentIncludeFile') = buffers
  <2>1. /\ Append(buffers', currentIncludeFile') \in Seq(0..n)
        /\ Len(Append(buffers', currentIncludeFile')) = m
        /\ Append(buffers', currentIncludeFile')[m] = buffers[m]
        /\ \A i \in 1..(m - 1) : Append(buffers', currentIncludeFile')[i] = buffers[i]
    BY <1>1, <1>2, AppendProperties
  <2>2. \A i \in 1..m : i \in 1..(m - 1) \/ i = m
    BY <1>1
  <2> QED BY <1>1, <2>1, <2>2, SeqEqual
<1> QED BY <1>1, <1>2, <1>3

(* Without its top the chain is still in order. *)
LEMMA Unstacked ==
  ASSUME TypeOK, buffers # << >>, switchToPreviousBuffer, UNCHANGED includefilelist, ChainRight
  PROVE  ChainRight'
<1> DEFINE n == Len(includefilelist)
           old == Append(buffers, currentIncludeFile)
           m == Len(buffers)
<1>1. /\ currentIncludeFile \in 0..n /\ buffers \in Seq(0..n) /\ m \in Nat \ {0}
      /\ Append(buffers', currentIncludeFile') = buffers
  BY EndOfBufferTypes
<1>4. Len(old) = m + 1 /\ \A i \in 1..m : old[i] = buffers[i]
  BY <1>1, AppendProperties
<1>5. old[1] = NULL /\ \A i \in 2..(m + 1) :
         /\ old[i] # NULL
         /\ includefilelist[old[i]].includedFrom =
              IF old[i - 1] = NULL THEN << >>
              ELSE << [name  |-> includefilelist[old[i - 1]].name,
                       refno |-> includefilelist[old[i - 1]].refno] >>
  BY <1>4 DEF ChainRight
<1> HIDE DEF old
<1>6. buffers[1] = NULL
  BY <1>1, <1>4, <1>5
<1>7. \A i \in 2..m :
         /\ buffers[i] # NULL
         /\ includefilelist[buffers[i]].includedFrom =
              IF buffers[i - 1] = NULL THEN << >>
              ELSE << [name  |-> includefilelist[buffers[i - 1]].name,
                       refno |-> includefilelist[buffers[i - 1]].refno] >>
  <2> TAKE i \in 2..m
  <2>1. \A x \in Nat \ {0} : \A k \in 2..x : k \in 2..(x + 1) /\ k \in 1..x /\ k - 1 \in 1..x
    OBVIOUS
  <2> HIDE DEF m
  <2>2. i \in 2..(m + 1) /\ i \in 1..m /\ i - 1 \in 1..m
    BY <1>1, <2>1
  <2>3. old[i] = buffers[i] /\ old[i - 1] = buffers[i - 1]
    BY <1>4, <2>2
  <2> QED BY <1>5, <2>2, <2>3
<1>8. ChainRight'
  BY <1>1, <1>6, <1>7 DEF ChainRight
<1> QED BY <1>8

-----------------------------------------------------------------------------

(* The invariant holds at the start. *)
LEMMA InitIInv == Init => IInv
<1> SUFFICES ASSUME Init PROVE IInv
  OBVIOUS
<1>1. /\ includefilelist = << >> /\ buffers = << >> /\ currentIncludeFile = 0
      /\ count \in [Type -> {0}] /\ messages \in [MessageKind -> {0}]
  BY DEF Init, NULL
<1>2. Len(includefilelist) = 0 /\ includefilelist \in Seq(Entry) /\ buffers \in Seq(0..0) /\ DOMAIN includefilelist = {}
  BY <1>1
<1>3. TypeOK
  <2>1. parms \in [includePath : PathLists \cup {<< >>}, includeSuffix : SuffixList \cup {""}, preprocessOnly : BOOLEAN]
    BY DEF Init
  <2>2. messages \in [MessageKind -> 0..MaxMessages] /\ count \in [Type -> 0..MaxIncludes]
    BY <1>1, BoundAssumption
  <2>3. currentIncludeFile \in 0..Len(includefilelist) /\ buffers \in Seq(0..Len(includefilelist))
    BY <1>1, <1>2
  <2>4. /\ phase = "options" /\ env \in Environments /\ files \in FileSystems
        /\ scanner = "none" /\ rc = 0 /\ errorcount = 0 /\ wrong = FALSE
    BY DEF Init
  <2> QED BY <1>2, <2>1, <2>2, <2>3, <2>4 DEF TypeOK
<1>4. Outcome
  <2>1. messages.errors = 0
    BY <1>1 DEF MessageKind
  <2>2. phase = "options" /\ scanner = "none" /\ rc = 0 /\ errorcount = 0 /\ wrong = FALSE
    BY DEF Init
  <2> QED BY <2>1, <2>2 DEF Outcome, FailsForErrors
<1>5. Listed
  BY <1>1, <1>2, BoundAssumption DEF Listed, Type
<1>6. Chained
  <2>1. Append(buffers, currentIncludeFile) = << 0 >>
    BY <1>1
  <2>2. << 0 >>[1] = 0 /\ Len(<< 0 >>) = 1 /\ 2..1 = {}
    OBVIOUS
  <2> QED BY <2>1, <2>2 DEF Chained, ChainRight, NULL
<1>7. RefnosRight
  <2>1. \A t \in Type : {i \in DOMAIN includefilelist : includefilelist[i].type = t} = {}
    BY <1>2
  <2>2. \A t \in Type : count[t] = 0
    BY <1>1
  <2> QED BY <1>2, <2>1, <2>2, FS_EmptySet DEF RefnosRight
<1> QED BY <1>3, <1>4, <1>5, <1>6, <1>7 DEF IInv

(* Steps that leave the lists alone leave what is said of them alone. *)
LEMMA ListsKept ==
  ASSUME IInv, UNCHANGED << input, lists >>, scanner' \in {"none", "ready"} => scanner \in {"none", "ready"}
  PROVE  Listed' /\ Chained' /\ RefnosRight'
<1>1. Listed'
  BY DEF IInv, Listed, lists
<1>2. ChainRight' <=> ChainRight
  BY DEF ChainRight, lists
<1>3. RefnosRight' <=> RefnosRight
  BY DEF RefnosRight, lists
<1> QED BY <1>1, <1>2, <1>3 DEF IInv, Chained

(* What evaluatePreprocessor does with the result of a search. *)
LEMMA IncludedStep ==
  ASSUME IInv, phase = "parsing", scanner = "ready", NEW found \in Found, NEW opens \in BOOLEAN,
         Included(found, opens)
  PROVE  IInv'
<1>1. CASE found = << >>
  <2>1. Errors(2) /\ scanner' = "error" /\ wrong' = TRUE /\ UNCHANGED << phase, input, lists, rc, errorcount >>
    BY <1>1 DEF Included, IInv, TypeOK
  <2>2. messages' \in [MessageKind -> 0..MaxMessages] /\ messages'.errors > 0
    BY <2>1, ErrorsCounted DEF IInv
  <2>3. TypeOK'
    BY <2>1, <2>2 DEF IInv, TypeOK, input, lists
  <2>4. Outcome'
    BY <2>1, <2>2 DEF IInv, Outcome, FailsForErrors
  <2> QED BY <2>1, <2>3, <2>4, ListsKept DEF IInv
<1>2. CASE found # << >>
  <2>1. found[1] \in Text \X Text \X Text /\ "FILE" \in Type
    BY <1>2 DEF Found, Type
  <2>2. addIncludeFile("FILE", found[1]) /\ UNCHANGED << phase, input, rc, errorcount >>
        /\ Len(includefilelist) < MaxIncludes
    BY <1>2 DEF Included
  <2>3. /\ includefilelist' \in Seq(Entry) /\ Len(includefilelist') = Len(includefilelist) + 1
        /\ count' \in [Type -> 0..MaxIncludes] /\ currentIncludeFile' = Len(includefilelist) + 1
        /\ Listed' /\ RefnosRight' /\ Len(includefilelist) \in Nat
    BY <2>1, <2>2, Added, LenProperties DEF IInv, TypeOK
  <2>4. CASE opens
    <3>1. stackCurrentBuffer /\ UNCHANGED << messages, scanner >> /\ wrong' = wrong
      BY <1>2, <2>4 DEF Included, IInv, TypeOK
    <3>2. buffers' \in Seq(0..Len(includefilelist')) /\ ChainRight'
      BY <2>1, <2>2, <3>1, Stacked DEF IInv, Chained
    <3>3. TypeOK'
      <4>1. currentIncludeFile' \in 0..Len(includefilelist')
        BY <2>3
      <4> QED BY <2>2, <2>3, <3>1, <3>2, <4>1 DEF IInv, TypeOK, input
    <3>4. Outcome'
      BY <2>2, <3>1 DEF IInv, Outcome, FailsForErrors
    <3> QED BY <2>3, <3>2, <3>3, <3>4 DEF IInv, Chained
  <2>5. CASE ~opens
    <3>1. Errors(1) /\ scanner' = "error" /\ UNCHANGED buffers /\ wrong' = TRUE
      BY <1>2, <2>5 DEF Included, IInv, TypeOK
    <3>2. messages' \in [MessageKind -> 0..MaxMessages] /\ messages'.errors > 0
      BY <3>1, ErrorsCounted DEF IInv
    <3>3. buffers' \in Seq(0..Len(includefilelist'))
      <4>1. 0..Len(includefilelist) \subseteq 0..Len(includefilelist')
        BY <2>3
      <4>2. buffers \in Seq(0..Len(includefilelist))
        BY DEF IInv, TypeOK
      <4> QED BY <3>1, <4>1, <4>2, SeqMonotonic
    <3>4. TypeOK'
      <4>1. currentIncludeFile' \in 0..Len(includefilelist')
        BY <2>3
      <4> QED BY <2>2, <2>3, <3>1, <3>2, <3>3, <4>1 DEF IInv, TypeOK, input
    <3>5. Outcome'
      BY <2>2, <3>1, <3>2 DEF IInv, Outcome, FailsForErrors
    <3> QED BY <2>3, <3>1, <3>4, <3>5 DEF IInv, Chained
  <2> QED BY <2>4, <2>5
<1> QED BY <1>1, <1>2

(* The searches of %INCLUDE return nothing or a file. *)
LEMMA SearchType ==
  ASSUME TypeOK, NEW name \in Name, NEW slash \in PreviousByte
  PROVE  /\ findFile(name, parms.includePath, parms.includeSuffix, env, files, slash) \in Found
         /\ \A v \in DOMAIN env : findEnvFile(v, name, parms.includeSuffix, env, files, slash) \in Found
<1>1. /\ parms.includePath \in PathLists \cup {<< >>} /\ parms.includeSuffix \in SuffixList \cup {""}
      /\ env \in Environments
  BY DEF TypeOK
<1>2. /\ PathList(parms.includePath) /\ parms.includeSuffix \in Text /\ name \in Text /\ slash \in BOOLEAN
      /\ \A v \in DOMAIN env : PathList(env[v])
  BY <1>1, DefaultPath, NameAssumption, PathAssumption, EnvironmentAssumption, TextAssumption,
     PreviousByteAssumption
<1> DEFINE In(list) == findFileInDirList(list, name, parms.includeSuffix, files, slash)
           syslib == IF "PL1SYSLIB" \in DOMAIN env THEN env["PL1SYSLIB"] ELSE << >>
<1>3. \A list : PathList(list) => In(list) \in Found
  BY <1>2, FoundType
<1>4. PathList(syslib)
  BY <1>2, DefaultPath
<1>5. findFile(name, parms.includePath, parms.includeSuffix, env, files, slash) =
        IF In(parms.includePath) # << >> THEN In(parms.includePath)
        ELSE IF In(defaultSearchDirs) # << >> THEN In(defaultSearchDirs) ELSE In(syslib)
  BY DEF findFile
<1>6. \A v \in DOMAIN env : findEnvFile(v, name, parms.includeSuffix, env, files, slash) = In(env[v])
  BY DEF findEnvFile
<1> HIDE DEF In, syslib
<1> QED BY <1>2, <1>3, <1>4, <1>5, <1>6, DefaultPath

(* The end of the parse, with the messages and wrong as they are then. *)
LEMMA Finished ==
  ASSUME IInv, phase = "parsing", NEW result \in {0, 1}, Finish(result),
         messages' \in [MessageKind -> 0..MaxMessages], wrong' \in BOOLEAN,
         wrong' <=> messages'.errors > 0, result = 1 => wrong', wrong => wrong'
  PROVE  IInv'
<1>1. /\ phase' = "done" /\ rc' = (IF messages'.errors > 0 THEN 1 ELSE result)
      /\ errorcount' = (IF rc' # 0 THEN errorcount + 1 ELSE errorcount)
      /\ UNCHANGED << input, lists >>
      /\ (scanner' = scanner \/ scanner' = "destroyed")
  BY DEF Finish, Result
<1>2. rc = 0 /\ errorcount = 0 /\ messages'.errors \in Nat
  <2>1. rc = 0 /\ errorcount = 0
    BY DEF IInv, Outcome
  <2>2. messages'.errors \in 0..MaxMessages
    BY DEF MessageKind
  <2> QED BY <2>1, <2>2, BoundAssumption
<1>3. rc' \in {0, 1} /\ errorcount' \in {0, 1} /\ (errorcount' > 0 <=> wrong')
  BY <1>1, <1>2
<1>4. TypeOK'
  BY <1>1, <1>3 DEF IInv, TypeOK, input, lists
<1>5. Outcome'
  BY <1>1, <1>3 DEF IInv, Outcome, FailsForErrors
<1>6. Listed' /\ Chained' /\ RefnosRight'
  BY <1>1, ListsKept
<1> QED BY <1>4, <1>5, <1>6 DEF IInv

(* Every step keeps the invariant. *)
LEMMA NextIInv == IInv /\ [Next]_vars => IInv'
<1> SUFFICES ASSUME IInv, [Next]_vars PROVE IInv'
  OBVIOUS
<1>1. CASE pl1_handle_option
  <2>1. UNCHANGED << phase, env, files, messages, lists, scanner, rc, errorcount, wrong >>
    BY <1>1 DEF pl1_handle_option
  <2>2. parms' \in [includePath : PathLists \cup {<< >>}, includeSuffix : SuffixList \cup {""}, preprocessOnly : BOOLEAN]
    <3> DEFINE P == [includePath : PathLists \cup {<< >>}, includeSuffix : SuffixList \cup {""}, preprocessOnly : BOOLEAN]
    <3>1. parms \in P
      BY DEF IInv, TypeOK
    <3>2. CASE \E list \in PathLists : parms' = [parms EXCEPT !.includePath = list]
      BY <3>1, <3>2
    <3>3. CASE \E s \in SuffixList : parms' = [parms EXCEPT !.includeSuffix = s]
      BY <3>1, <3>3
    <3>4. CASE parms' = [parms EXCEPT !.preprocessOnly = TRUE]
      BY <3>1, <3>4
    <3> HIDE DEF P
    <3> QED BY <1>1, <3>2, <3>3, <3>4 DEF pl1_handle_option
  <2>3. TypeOK'
    BY <2>1, <2>2 DEF IInv, TypeOK, lists
  <2>4. Outcome'
    BY <2>1 DEF IInv, Outcome, FailsForErrors
  <2>5. Listed' /\ (ChainRight' <=> ChainRight) /\ (RefnosRight' <=> RefnosRight)
    BY <2>1 DEF IInv, Listed, ChainRight, RefnosRight, lists
  <2> QED BY <2>1, <2>3, <2>4, <2>5 DEF IInv, Chained
<1>2. ASSUME NEW opens \in BOOLEAN, pl1_init(opens) PROVE IInv'
  <2>1. /\ phase = "options" /\ phase' \in {"parsing", "exit"} /\ scanner' \in {"ready", "none"}
        /\ UNCHANGED << input, messages, lists, rc, errorcount, wrong >>
    BY <1>2 DEF pl1_init
  <2>2. TypeOK'
    BY <2>1 DEF IInv, TypeOK, input, lists
  <2>3. Outcome'
    BY <2>1 DEF IInv, Outcome, FailsForErrors
  <2>4. Listed' /\ (ChainRight' <=> ChainRight) /\ (RefnosRight' <=> RefnosRight)
    BY <2>1 DEF IInv, Listed, ChainRight, RefnosRight, lists
  <2>5. scanner \in {"none", "ready"}
    BY <2>1 DEF IInv, Outcome
  <2> QED BY <2>2, <2>3, <2>4, <2>5 DEF IInv, Chained
<1>3. ASSUME NEW opens \in BOOLEAN, NEW name \in Name, NEW slash \in PreviousByte, Include(name, slash, opens)
      PROVE  IInv'
  BY <1>3, SearchType, IncludedStep DEF Include, IInv
<1>4. ASSUME NEW opens \in BOOLEAN, NEW name \in Name, NEW slash \in PreviousByte, NEW ddname \in Name,
             IncludeMember(ddname, name, slash, opens)
      PROVE  IInv'
  <2>1. CASE name \in DOMAIN env
    BY <1>4, <2>1, SearchType, IncludedStep DEF IncludeMember, IInv
  <2>2. CASE name \notin DOMAIN env
    <3>1. /\ phase = "parsing" /\ phase' = "crashed"
          /\ UNCHANGED << input, messages, lists, scanner, rc, errorcount, wrong >>
      BY <1>4, <2>2 DEF IncludeMember
    <3>2. TypeOK'
      BY <3>1 DEF IInv, TypeOK, input, lists
    <3>3. Outcome'
      BY <3>1 DEF IInv, Outcome, FailsForErrors
    <3> QED BY <3>1, <3>2, <3>3, ListsKept DEF IInv
  <2> QED BY <2>1, <2>2
<1>5. ASSUME NEW kind \in MessageKind, Report(kind) PROVE IInv'
  <2>1. /\ phase = "parsing" /\ scanner = "ready"
        /\ messages' = addMessage(messages, kind) /\ wrong' = (wrong \/ kind = "errors")
        /\ UNCHANGED << phase, input, lists, scanner, rc, errorcount >>
    BY <1>5 DEF Report
  <2>2. messages \in [MessageKind -> 0..MaxMessages]
    BY DEF IInv, TypeOK
  <2>3. messages' \in [MessageKind -> 0..MaxMessages]
    BY <2>1, <2>2, BoundAssumption DEF addMessage
  <2>4. kind = "errors" => messages'.errors > 0
    BY <2>1, <2>2, BoundAssumption DEF addMessage, MessageKind
  <2>5. kind # "errors" => messages'.errors = messages.errors
    BY <2>1, <2>2 DEF addMessage, MessageKind
  <2>6. TypeOK'
    BY <2>1, <2>3 DEF IInv, TypeOK, input, lists
  <2>7. Outcome'
    BY <2>1, <2>4, <2>5 DEF IInv, TypeOK, Outcome, FailsForErrors
  <2> QED BY <2>1, <2>6, <2>7, ListsKept DEF IInv
<1>6. CASE ExpandVariable
  <2>1. /\ phase = "parsing" /\ scanner = "ready" /\ Len(includefilelist) < MaxIncludes
        /\ addIncludeFile("PPVAR", << "", "variable", "" >>) /\ stackCurrentBuffer
        /\ UNCHANGED << phase, input, messages, scanner, rc, errorcount, wrong >>
    BY <1>6 DEF ExpandVariable
  <2>2. << "", "variable", "" >> \in Text \X Text \X Text /\ "PPVAR" \in Type
    <3>1. "" \in Text /\ "variable" \in Text
      BY TextAssumption
    <3> QED BY <3>1 DEF Type
  <2>3. /\ includefilelist' \in Seq(Entry) /\ Len(includefilelist') = Len(includefilelist) + 1
        /\ count' \in [Type -> 0..MaxIncludes] /\ currentIncludeFile' = Len(includefilelist) + 1
        /\ Listed' /\ RefnosRight' /\ Len(includefilelist) \in Nat
    BY <2>1, <2>2, Added, LenProperties DEF IInv, TypeOK
  <2>4. buffers' \in Seq(0..Len(includefilelist')) /\ ChainRight'
    BY <2>1, <2>2, Stacked DEF IInv, Chained
  <2>5. TypeOK'
    <3>1. currentIncludeFile' \in 0..Len(includefilelist')
      BY <2>3
    <3> QED BY <2>1, <2>3, <2>4, <3>1 DEF IInv, TypeOK, input
  <2>6. Outcome'
    BY <2>1 DEF IInv, Outcome, FailsForErrors
  <2> QED BY <2>3, <2>4, <2>5, <2>6 DEF IInv, Chained
<1>7. CASE EndOfBuffer
  <2>1. /\ phase = "parsing" /\ scanner \in {"ready", "error"} /\ buffers # << >> /\ switchToPreviousBuffer
        /\ UNCHANGED << phase, input, messages, includefilelist, count, scanner, rc, errorcount, wrong >>
    BY <1>7 DEF EndOfBuffer
  <2>2. buffers' \in Seq(0..Len(includefilelist')) /\ currentIncludeFile' \in 0..Len(includefilelist')
    BY <2>1, EndOfBufferTypes DEF IInv
  <2>3. TypeOK'
    BY <2>1, <2>2 DEF IInv, TypeOK, input
  <2>4. Outcome'
    BY <2>1 DEF IInv, Outcome, FailsForErrors
  <2>5. Chained'
    <3>1. CASE scanner = "ready"
      BY <2>1, <3>1, Unstacked DEF IInv, Chained
    <3>2. CASE scanner = "error"
      BY <2>1, <3>2 DEF Chained
    <3> QED BY <2>1, <3>1, <3>2
  <2>6. Listed' /\ RefnosRight'
    BY <2>1 DEF IInv, Listed, RefnosRight
  <2> QED BY <2>3, <2>4, <2>5, <2>6 DEF IInv
<1>8. CASE EndOfText
  <2>1. phase = "parsing" /\ UNCHANGED << messages, wrong >> /\ Finish(0)
    BY <1>8 DEF EndOfText
  <2>2. messages \in [MessageKind -> 0..MaxMessages] /\ wrong \in BOOLEAN /\ (wrong <=> messages.errors > 0)
    BY DEF IInv, TypeOK, Outcome
  <2>3. messages' \in [MessageKind -> 0..MaxMessages] /\ wrong' \in BOOLEAN /\ (wrong' <=> messages'.errors > 0)
        /\ wrong' = wrong
    BY <2>1, <2>2
  <2> QED BY <2>1, <2>3, Finished
<1>9. CASE SyntaxError
  <2>1. phase = "parsing" /\ Errors(1) /\ wrong' = TRUE /\ Finish(1)
    BY <1>9 DEF SyntaxError
  <2>2. messages' \in [MessageKind -> 0..MaxMessages] /\ messages'.errors > 0
    BY <2>1, ErrorsCounted DEF IInv
  <2> QED BY <2>1, <2>2, Finished
<1>10. CASE UnfinishedStatement
  <2>1. /\ phase = "parsing" /\ Errors(1) /\ scanner' = "unfinished" /\ wrong' = TRUE
        /\ UNCHANGED << phase, input, lists, rc, errorcount >>
    BY <1>10 DEF UnfinishedStatement
  <2>2. messages' \in [MessageKind -> 0..MaxMessages] /\ messages'.errors > 0
    BY <2>1, ErrorsCounted DEF IInv
  <2>3. TypeOK'
    BY <2>1, <2>2 DEF IInv, TypeOK, input, lists
  <2>4. Outcome'
    BY <2>1, <2>2 DEF IInv, Outcome, FailsForErrors
  <2> QED BY <2>1, <2>3, <2>4, ListsKept DEF IInv
<1>11. CASE NextTokenAfterError
  <2>1. phase = "parsing" /\ UNCHANGED wrong /\ scanner \in {"error", "unfinished"}
    BY <1>11 DEF NextTokenAfterError
  <2>2. wrong = TRUE
    BY <2>1 DEF IInv, TypeOK, Outcome
  <2>3. CASE Errors(1) /\ Finish(0)
    <3>1. messages' \in [MessageKind -> 0..MaxMessages] /\ messages'.errors > 0
      BY <2>3, ErrorsCounted DEF IInv
    <3> QED BY <2>1, <2>2, <2>3, <3>1, Finished
  <2>4. CASE UNCHANGED messages /\ Finish(0)
    BY <2>1, <2>4, Finished DEF IInv, TypeOK, Outcome
  <2>5. CASE Errors(1) /\ UNCHANGED << phase, input, lists, scanner, rc, errorcount >>
    <3>1. messages' \in [MessageKind -> 0..MaxMessages] /\ messages'.errors > 0
      BY <2>5, ErrorsCounted DEF IInv
    <3>2. TypeOK'
      BY <2>1, <2>5, <3>1 DEF IInv, TypeOK, input, lists
    <3>3. Outcome'
      BY <2>1, <2>2, <2>5, <3>1 DEF IInv, Outcome, FailsForErrors
    <3> QED BY <2>1, <2>5, <3>2, <3>3, ListsKept DEF IInv
  <2> QED BY <1>11, <2>3, <2>4, <2>5 DEF NextTokenAfterError
<1>12. CASE UNCHANGED vars
  <2>1. TypeOK' /\ Outcome'
    BY <1>12 DEF IInv, TypeOK, Outcome, FailsForErrors, vars, lists, input
  <2>2. UNCHANGED << input, lists >> /\ UNCHANGED scanner
    BY <1>12 DEF vars, input, lists
  <2> QED BY <2>1, <2>2, ListsKept DEF IInv
<1> QED BY <1>1, <1>2, <1>3, <1>4, <1>5, <1>6, <1>7, <1>8, <1>9, <1>10, <1>11, <1>12 DEF Next

(* The invariant holds in every run of the compiler. *)
LEMMA IInvHolds == Spec => []IInv
BY InitIInv, NextIInv, PTL DEF Spec

(* The state keeps to its types: the list of files and the stack of texts    *)
(* stay within each other's bounds, and the codes are 0 or 1.               *)
THEOREM TypeOKHolds == Spec => []TypeOK
BY IInvHolds, PTL DEF IInv

(* GCC counts an error for the compilation if and only if something was      *)
(* wrong in the text (Result, pl1_parse_file).                              *)
THEOREM FailsForErrorsHolds == Spec => []FailsForErrors
<1>1. IInv => FailsForErrors
  BY DEF IInv, Outcome
<1> QED BY <1>1, IInvHolds, PTL

(* The elements of the list are numbered for each type without a gap        *)
(* (addIncludeFile). *)
THEOREM RefnosRightHolds == Spec => []RefnosRight
BY IInvHolds, PTL DEF IInv

(* While the scanner goes on, the texts that wait are those the elements of  *)
(* the list lead to (stackCurrentBuffer, switchToPreviousBuffer).           *)
THEOREM IncludedFromHolds == Spec => []IncludedFromRight
<1>1. IInv => IncludedFromRight
  BY DEF IInv, Chained, IncludedFromRight
<1> QED BY <1>1, IInvHolds, PTL

(* findFile finds the first file there is, for all lists of directories and  *)
(* all files. *)
THEOREM SearchRightHolds == Spec => []SearchRight
BY TypeOKHolds, SearchIsRight, PTL

=============================================================================
