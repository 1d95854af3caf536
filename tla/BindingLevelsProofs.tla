-------------------------- MODULE BindingLevelsProofs --------------------------
(***************************************************************************)
(* Proofs about the binding levels of pl1tree.c: the types, the balance of  *)
(* the levels with the IFs that are open, and the functions declarations    *)
(* belong to, for any number of functions, calls and names.                 *)
(*                                                                         *)
(* The blocks of a function are a tree of any depth.  AllOwned says that    *)
(* all declarations in a tree belong to a function; it is what has to be    *)
(* known of a block when poplevel moves it to the level around.             *)
(*                                                                         *)
(* MeanWith relates the open levels to the calls so far.  P[1], ..., P[r]   *)
(* are the positions where the open blocks begin, I[d] is the IF that is    *)
(* open in P[d], and B and S have the block and the statements of each      *)
(* branch that is closed.  What a branch means depends on the ELSE of each  *)
(* IF in it, which may be still to come: the levels are said to be right    *)
(* for every list of calls that goes on from those so far (LevelsRead).     *)
(* When only the body of a function is open, B and S solve the recursive    *)
(* equations of TreeMeaning, which have one solution.                       *)
(***************************************************************************)
EXTENDS BindingMeaning, SequenceTheorems, FiniteSetTheorems, FoldFacts, TLAPS

(* The blocks that stand in blocks. *)
Inner(S) == UNION {ToSet(b.blocks) : b \in S}

(* The first values of Within. *)
Approx(W, block, k) ==
  W = [n \in 0..k |-> IF n = 0 THEN {block} ELSE W[n - 1] \cup Inner(W[n - 1])]

(* Within is defined by recursion; its first values exist for any length. *)
LEMMA ApproxExists ==
  ASSUME NEW block, NEW m \in Nat
  PROVE  \E W : Approx(W, block, m)
<1> DEFINE P(k) == \E W : Approx(W, block, k)
           S == {k \in Nat : k <= m => P(k)}
<1>1. 0 \in S
  <2> DEFINE W == [n \in 0..0 |-> {block}]
  <2>1. W = [n \in 0..0 |-> IF n = 0 THEN {block} ELSE W[n - 1] \cup Inner(W[n - 1])]
    <3>1. \A n \in 0..0 : n = 0
      OBVIOUS
    <3> QED BY <3>1
  <2>2. P(0)
    BY <2>1 DEF Approx
  <2> QED BY <2>2
<1>2. ASSUME NEW k \in Nat, k \in S PROVE k + 1 \in S
  <2> SUFFICES ASSUME k + 1 <= m PROVE P(k + 1)
    <3> HIDE DEF P
    <3> QED OBVIOUS
  <2>1. PICK W : Approx(W, block, k)
    BY <1>2
  <2> DEFINE V == [n \in 0..(k + 1) |-> IF n <= k THEN W[n] ELSE W[k] \cup Inner(W[k])]
             R(n) == IF n = 0 THEN {block} ELSE V[n - 1] \cup Inner(V[n - 1])
  <2>2. \A n \in 0..k : V[n] = W[n]
    OBVIOUS
  <2>3. V[k + 1] = W[k] \cup Inner(W[k])
    OBVIOUS
  <2>4. DOMAIN V = 0..(k + 1) /\ V = [n \in 0..(k + 1) |-> V[n]]
    OBVIOUS
  <2>a. \A n \in 0..k : W[n] = IF n = 0 THEN {block} ELSE W[n - 1] \cup Inner(W[n - 1])
    BY <2>1 DEF Approx
  <2> HIDE DEF V
  <2>5. ASSUME NEW n \in 0..(k + 1) PROVE V[n] = R(n)
    <3>1. CASE n = 0
      <4>1. n \in 0..k
        BY <3>1
      <4>2. V[n] = {block}
        BY <3>1, <4>1, <2>2, <2>a
      <4> QED BY <3>1, <4>2
    <3>2. CASE n \in 1..k
      <4>1. n \in 0..k /\ n - 1 \in 0..k /\ n # 0
        BY <3>2
      <4> QED BY <4>1, <2>2, <2>a
    <3>3. CASE n = k + 1
      <4>1. n - 1 = k /\ k \in 0..k /\ n # 0
        BY <3>3
      <4> QED BY <3>3, <4>1, <2>2, <2>3
    <3> QED BY <3>1, <3>2, <3>3
  <2>6. V = [n \in 0..(k + 1) |-> R(n)]
    BY <2>4, <2>5
  <2> QED BY <2>6 DEF Approx
<1>3. m \in S
  <2> HIDE DEF S
  <2> QED BY <1>1, <1>2, NatSetInduction
<1> QED BY <1>3

(* Two such beginnings agree where both are defined. *)
LEMMA ApproxUnique ==
  ASSUME NEW block, NEW k \in Nat, NEW m \in Nat, NEW W, NEW V,
         Approx(W, block, k), Approx(V, block, m), NEW n \in Nat, n <= k, n <= m
  PROVE  W[n] = V[n]
<1> DEFINE S == {i \in Nat : i <= n => W[i] = V[i]}
<1>1. \A i \in 0..k : W[i] = IF i = 0 THEN {block} ELSE W[i - 1] \cup Inner(W[i - 1])
  BY DEF Approx
<1>2. \A i \in 0..m : V[i] = IF i = 0 THEN {block} ELSE V[i - 1] \cup Inner(V[i - 1])
  BY DEF Approx
<1>3. 0 \in S
  <2>1. 0 \in 0..k /\ 0 \in 0..m
    OBVIOUS
  <2>2. W[0] = {block} /\ V[0] = {block}
    BY <1>1, <1>2, <2>1
  <2> QED BY <2>2
<1>4. ASSUME NEW i \in Nat, i \in S PROVE i + 1 \in S
  <2> SUFFICES ASSUME i + 1 <= n PROVE W[i + 1] = V[i + 1]
    OBVIOUS
  <2>1. W[i] = V[i]
    BY <1>4
  <2>2. i + 1 \in 0..k /\ i + 1 \in 0..m /\ i + 1 # 0 /\ (i + 1) - 1 = i
    OBVIOUS
  <2>3. W[i + 1] = W[i] \cup Inner(W[i])
    BY <1>1, <2>2
  <2>4. V[i + 1] = V[i] \cup Inner(V[i])
    BY <1>2, <2>2
  <2> QED BY <2>1, <2>3, <2>4
<1>5. n \in S
  <2> HIDE DEF S
  <2> QED BY <1>3, <1>4, NatSetInduction
<1> QED BY <1>5

(* The definition of Within has a solution, so that it is one. *)
LEMMA WithinIs ==
  ASSUME NEW block
  PROVE  /\ Within(block)[0] = {block}
         /\ \A n \in Nat : Within(block)[n + 1] = Within(block)[n] \cup Inner(Within(block)[n])
<1> DEFINE A(n) == CHOOSE W : Approx(W, block, n)
           U == [n \in Nat |-> A(n)[n]]
           Q(W) == W = [n \in Nat |-> IF n = 0 THEN {block}
                                      ELSE LET w == W[n - 1] IN w \cup UNION {ToSet(b.blocks) : b \in w}]
<1>1. \A n \in Nat : Approx(A(n), block, n)
  BY ApproxExists
<1> HIDE DEF A
<1>2. U[0] = {block}
  <2>1. Approx(A(0), block, 0)
    BY <1>1
  <2>2. A(0)[0] = {block}
    BY <2>1 DEF Approx
  <2> QED BY <2>2
<1>3. ASSUME NEW n \in Nat PROVE U[n + 1] = U[n] \cup Inner(U[n])
  <2>1. Approx(A(n + 1), block, n + 1) /\ Approx(A(n), block, n) /\ n + 1 \in Nat
    BY <1>1
  <2>2. A(n + 1)[n + 1] = A(n + 1)[n] \cup Inner(A(n + 1)[n])
    <3>1. n + 1 \in 0..(n + 1) /\ n + 1 # 0 /\ (n + 1) - 1 = n
      OBVIOUS
    <3> DEFINE W == A(n + 1)
    <3>2. \A i \in 0..(n + 1) : W[i] = IF i = 0 THEN {block} ELSE W[i - 1] \cup Inner(W[i - 1])
      <4>1. Approx(W, block, n + 1)
        BY <2>1
      <4> HIDE DEF W
      <4> QED BY <4>1 DEF Approx
    <3> HIDE DEF W
    <3> QED BY <3>1, <3>2 DEF W
  <2>3. A(n + 1)[n] = A(n)[n]
    <3>1. n <= n + 1 /\ n <= n
      OBVIOUS
    <3> QED BY <2>1, <3>1, ApproxUnique
  <2>4. U[n + 1] = A(n + 1)[n + 1] /\ U[n] = A(n)[n]
    BY <2>1
  <2> HIDE DEF U
  <2> QED BY <2>2, <2>3, <2>4
<1>4. Q(U)
  <2>1. ASSUME NEW n \in Nat
        PROVE  U[n] = IF n = 0 THEN {block} ELSE U[n - 1] \cup Inner(U[n - 1])
    <3>1. CASE n = 0
      BY <1>2, <3>1
    <3>2. CASE n # 0
      <4>1. n - 1 \in Nat /\ (n - 1) + 1 = n
        BY <3>2
      <4>2. U[(n - 1) + 1] = U[n - 1] \cup Inner(U[n - 1])
        <5> HIDE DEF U
        <5> QED BY <4>1, <1>3
      <4> HIDE DEF U
      <4> QED BY <3>2, <4>1, <4>2
    <3> QED BY <3>1, <3>2
  <2>2. U = [n \in Nat |-> U[n]]
    OBVIOUS
  <2> HIDE DEF U
  <2>3. U = [n \in Nat |-> IF n = 0 THEN {block} ELSE U[n - 1] \cup Inner(U[n - 1])]
    BY <2>1, <2>2
  <2> QED BY <2>3 DEF Inner
<1> HIDE DEF U
<1>5. Within(block) = CHOOSE W : Q(W)
  BY DEF Within
<1>6. Q(Within(block))
  <2>1. \E W : Q(W)
    BY <1>4
  <2> HIDE DEF Q
  <2> QED BY <1>5, <2>1
<1>7. \A n \in Nat : Within(block)[n] =
        IF n = 0 THEN {block} ELSE Within(block)[n - 1] \cup Inner(Within(block)[n - 1])
  <2> DEFINE W == Within(block)
  <2>1. Q(W)
    BY <1>6
  <2> HIDE DEF W
  <2>2. \A n \in Nat : W[n] = IF n = 0 THEN {block} ELSE W[n - 1] \cup UNION {ToSet(b.blocks) : b \in W[n - 1]}
    BY <2>1
  <2> QED BY <2>2 DEF W, Inner
<1>8. ASSUME NEW n \in Nat
      PROVE  Within(block)[n + 1] = Within(block)[n] \cup Inner(Within(block)[n])
  <2>1. n + 1 \in Nat /\ n + 1 # 0 /\ (n + 1) - 1 = n
    OBVIOUS
  <2> QED BY <1>7, <2>1
<1>9. Within(block)[0] = {block}
  BY <1>7
<1> QED BY <1>8, <1>9

(* A block stands in itself, at any depth. *)
LEMMA WithinSelf ==
  ASSUME NEW block, NEW n \in Nat
  PROVE  block \in Within(block)[n]
<1> DEFINE S == {k \in Nat : block \in Within(block)[k]}
<1>1. 0 \in S
  BY WithinIs
<1>2. ASSUME NEW k \in Nat, k \in S PROVE k + 1 \in S
  BY <1>2, WithinIs
<1>3. n \in S
  <2> HIDE DEF S
  <2> QED BY <1>1, <1>2, NatSetInduction
<1> QED BY <1>3

(* What stands in a block is the block and what stands in its blocks. *)
LEMMA WithinParts ==
  ASSUME NEW block, NEW n \in Nat
  PROVE  Within(block)[n + 1] = {block} \cup UNION {Within(c)[n] : c \in ToSet(block.blocks)}
<1> DEFINE B == ToSet(block.blocks)
           P(k) == Within(block)[k + 1] = {block} \cup UNION {Within(c)[k] : c \in B}
           S == {k \in Nat : P(k)}
<1>1. 0 \in S
  <2>1. Within(block)[0 + 1] = {block} \cup Inner({block})
    BY WithinIs
  <2>2. Inner({block}) = B
    BY DEF Inner
  <2> HIDE DEF B
  <2>3. UNION {Within(c)[0] : c \in B} = B
    <3>1. \A c \in B : Within(c)[0] = {c}
      BY WithinIs
    <3> QED BY <3>1
  <2> QED BY <2>1, <2>2, <2>3
<1>2. ASSUME NEW k \in Nat, k \in S PROVE k + 1 \in S
  <2> DEFINE U(i) == UNION {Within(c)[i] : c \in B}
  <2>1. Within(block)[k + 1] = {block} \cup U(k)
    BY <1>2
  <2>2. Within(block)[(k + 1) + 1] = ({block} \cup U(k)) \cup Inner({block} \cup U(k))
    <3>1. k + 1 \in Nat
      OBVIOUS
    <3> DEFINE w == Within(block)
    <3>2. \A i \in Nat : w[i + 1] = w[i] \cup Inner(w[i])
      BY WithinIs
    <3>3. w[(k + 1) + 1] = w[k + 1] \cup Inner(w[k + 1])
      <4> HIDE DEF w
      <4> QED BY <3>1, <3>2
    <3> HIDE DEF U
    <3> QED BY <2>1, <3>3
  <2>3. \A c \in B : Within(c)[k + 1] = Within(c)[k] \cup Inner(Within(c)[k])
    BY WithinIs
  <2>4. \A c \in B : c \in Within(c)[k + 1]
    BY WithinSelf
  <2>5. Inner({block} \cup U(k)) = B \cup Inner(U(k))
    BY DEF Inner
  <2> HIDE DEF B
  <2>6. Inner(U(k)) = UNION {Inner(Within(c)[k]) : c \in B}
    BY DEF Inner
  <2>7. U(k + 1) = (U(k) \cup UNION {Inner(Within(c)[k]) : c \in B}) \cup B
    <3>1. U(k + 1) = UNION {Within(c)[k] \cup Inner(Within(c)[k]) : c \in B}
      BY <2>3
    <3>2. UNION {Within(c)[k] \cup Inner(Within(c)[k]) : c \in B}
            = U(k) \cup UNION {Inner(Within(c)[k]) : c \in B}
      OBVIOUS
    <3>3. B \subseteq U(k + 1)
      BY <2>4
    <3> HIDE DEF U
    <3> QED BY <3>1, <3>2, <3>3
  <2>8. P(k + 1)
    <3>1. Within(block)[(k + 1) + 1] = {block} \cup U(k + 1)
      <4> HIDE DEF U
      <4> QED BY <2>2, <2>5, <2>6, <2>7
    <3> QED BY <3>1
  <2> HIDE DEF P
  <2> QED BY <2>8
<1>3. n \in S
  <2> HIDE DEF S
  <2> QED BY <1>1, <1>2, NatSetInduction
<1> QED BY <1>3

(* All that is declared in a block, at any depth, is the function's. *)
AllOwned(block, f) == \A n \in Nat : \A b \in Within(block)[n] : Owned(ToSet(b.vars), f)

(* AllOwned is a property of the block and of those in it. *)
LEMMA AllOwnedIs ==
  ASSUME NEW block, NEW f
  PROVE  AllOwned(block, f) <=>
           Owned(ToSet(block.vars), f) /\ \A c \in ToSet(block.blocks) : AllOwned(c, f)
<1> DEFINE B == ToSet(block.blocks)
           O(b) == Owned(ToSet(b.vars), f)
<1>1. ASSUME AllOwned(block, f) PROVE O(block) /\ \A c \in B : AllOwned(c, f)
  <2>1. O(block)
    BY <1>1, WithinSelf DEF AllOwned
  <2>2. ASSUME NEW c \in B, NEW n \in Nat, NEW b \in Within(c)[n] PROVE O(b)
    <3>1. b \in Within(block)[n + 1]
      BY <2>2, WithinParts
    <3>2. n + 1 \in Nat
      OBVIOUS
    <3> QED BY <1>1, <3>1, <3>2 DEF AllOwned
  <2> QED BY <2>1, <2>2 DEF AllOwned
<1>2. ASSUME O(block), \A c \in B : AllOwned(c, f) PROVE AllOwned(block, f)
  <2>1. ASSUME NEW n \in Nat, NEW b \in Within(block)[n] PROVE O(b)
    <3>1. CASE n = 0
      BY <1>2, <2>1, <3>1, WithinIs
    <3>2. CASE n # 0
      <4>1. n - 1 \in Nat /\ (n - 1) + 1 = n
        BY <3>2
      <4>2. b \in {block} \cup UNION {Within(c)[n - 1] : c \in B}
        BY <2>1, <4>1, WithinParts
      <4> QED BY <1>2, <4>1, <4>2 DEF AllOwned
    <3> QED BY <3>1, <3>2
  <2> QED BY <2>1 DEF AllOwned
<1> QED BY <1>1, <1>2

(* AllOwned gives what ContextsRight asks of a block. *)
LEMMA AllInOwned ==
  ASSUME NEW block, NEW f, AllOwned(block, f)
  PROVE  Owned(AllIn(block), f)
BY BoundAssumption DEF BoundAssumption, AllIn, AllOwned, Owned

(* A sequence, of whatever elements. *)
IsSeq(s) == \E S : s \in Seq(S)

(* A sequence is a function on 1..Len. *)
LEMMA IsSeqFacts ==
  ASSUME NEW s, IsSeq(s)
  PROVE  Len(s) \in Nat /\ DOMAIN s = 1..Len(s) /\ (s = << >> <=> Len(s) = 0)
BY DEF IsSeq

(* The empty sequence. *)
LEMMA IsSeqEmpty == IsSeq(<< >>) /\ Len(<< >>) = 0
<1>1. << >> \in Seq({})
  OBVIOUS
<1> QED BY <1>1 DEF IsSeq

(* An element behind a sequence. *)
LEMMA IsSeqAppend ==
  ASSUME NEW s, IsSeq(s), NEW x
  PROVE  /\ IsSeq(Append(s, x)) /\ Len(Append(s, x)) = Len(s) + 1
         /\ Append(s, x)[Len(s) + 1] = x /\ \A i \in 1..Len(s) : Append(s, x)[i] = s[i]
<1>1. PICK S : s \in Seq(S)
  BY DEF IsSeq
<1> DEFINE T == S \cup {x}
<1>2. s \in Seq(T) /\ x \in T
  BY <1>1
<1> HIDE DEF T
<1>3. /\ Append(s, x) \in Seq(T) /\ Len(Append(s, x)) = Len(s) + 1
      /\ Append(s, x)[Len(s) + 1] = x /\ \A i \in 1..Len(s) : Append(s, x)[i] = s[i]
  BY <1>2
<1> QED BY <1>3 DEF IsSeq

(* A sequence without its last element. *)
LEMMA IsSeqFront ==
  ASSUME NEW s, IsSeq(s), Len(s) >= 1
  PROVE  /\ IsSeq(Front(s)) /\ Len(Front(s)) = Len(s) - 1
         /\ \A i \in 1..(Len(s) - 1) : Front(s)[i] = s[i]
<1>1. PICK S : s \in Seq(S)
  BY DEF IsSeq
<1>2. Front(s) = SubSeq(s, 1, Len(s) - 1)
  BY DEF Front
<1>3. Len(s) \in Nat /\ Len(s) - 1 \in 0..Len(s)
  BY <1>1
<1> DEFINE n == Len(s) - 1
<1>4. n \in Nat /\ n \in 0..Len(s)
  BY <1>3
<1>5. SubSeq(s, 1, n) \in Seq(S) /\ Len(SubSeq(s, 1, n)) = n
  <2>1. \A i \in 1..n : s[i] \in S
    BY <1>1, <1>4
  <2> HIDE DEF n
  <2> QED BY <1>1, <1>4, <2>1, SubSeqProperties
<1>6. \A i \in 1..n : SubSeq(s, 1, n)[i] = s[i]
  <2> HIDE DEF n
  <2> QED BY <1>1, <1>4, SubSeqProperties
<1> QED BY <1>2, <1>5, <1>6 DEF IsSeq

(* An element of a sequence replaced. *)
SetAt(s, n, x) == [s EXCEPT ![n] = x]

(* Replacing an element keeps the length and the other elements. *)
LEMMA IsSeqExcept ==
  ASSUME NEW s, IsSeq(s), NEW n, NEW x
  PROVE  /\ IsSeq(SetAt(s, n, x)) /\ Len(SetAt(s, n, x)) = Len(s)
         /\ \A i \in 1..Len(s) : SetAt(s, n, x)[i] = IF i = n THEN x ELSE s[i]
<1> DEFINE t == [s EXCEPT ![n] = x]
<1>t. SetAt(s, n, x) = t
  BY DEF SetAt
<1>1. PICK S : s \in Seq(S)
  BY DEF IsSeq
<1> DEFINE T == S \cup {x}
<1>2. s \in Seq(T) /\ x \in T /\ Len(s) \in Nat
  BY <1>1
<1> HIDE DEF T
<1>3. t \in [1..Len(s) -> T]
  <2>1. DOMAIN s = 1..Len(s) /\ \A i \in 1..Len(s) : s[i] \in T
    BY <1>2
  <2>2. t = [i \in 1..Len(s) |-> IF i = n THEN x ELSE s[i]]
    BY <2>1
  <2> HIDE DEF t
  <2> QED BY <1>2, <2>1, <2>2
<1>4. t \in Seq(T) /\ Len(t) = Len(s)
  <2> HIDE DEF t
  <2> QED BY <1>2, <1>3
<1>5. \A i \in 1..Len(s) : t[i] = IF i = n THEN x ELSE s[i]
  BY <1>2
<1> HIDE DEF t
<1> QED BY <1>t, <1>4, <1>5 DEF IsSeq

(* An element in front of a sequence. *)
LEMMA IsSeqCons ==
  ASSUME NEW S, NEW s \in Seq(S), NEW x \in S
  PROVE  /\ << x >> \o s \in Seq(S) /\ Len(<< x >> \o s) = Len(s) + 1
         /\ ToSet(<< x >> \o s) = {x} \cup ToSet(s)
<1> DEFINE t == << x >> \o s
<1>1. << x >> \in Seq(S) /\ Len(<< x >>) = 1 /\ << x >>[1] = x
  OBVIOUS
<1>2. /\ t \in Seq(S) /\ Len(t) = 1 + Len(s) /\ Len(s) \in Nat
      /\ \A i \in 1..Len(t) : t[i] = IF i <= 1 THEN << x >>[i] ELSE s[i - 1]
  BY <1>1, ConcatProperties
<1> HIDE DEF t
<1>3. t[1] = x
  BY <1>1, <1>2
<1>4. \A i \in 1..Len(s) : i + 1 \in 1..Len(t) /\ t[i + 1] = s[i]
  BY <1>2
<1>5. \A i \in 1..Len(t) : i = 1 \/ (i - 1 \in 1..Len(s) /\ t[i] = s[i - 1])
  BY <1>2
<1>6. 1 \in 1..Len(t) /\ DOMAIN t = 1..Len(t) /\ DOMAIN s = 1..Len(s)
  BY <1>2
<1>7. ToSet(t) = {x} \cup ToSet(s)
  <2>1. ASSUME NEW y \in ToSet(t) PROVE y \in {x} \cup ToSet(s)
    <3>1. PICK i \in 1..Len(t) : y = t[i]
      BY <1>6 DEF ToSet
    <3> QED BY <1>3, <1>5, <1>6, <3>1 DEF ToSet
  <2>2. x \in ToSet(t)
    BY <1>3, <1>6 DEF ToSet
  <2>3. ASSUME NEW y \in ToSet(s) PROVE y \in ToSet(t)
    <3>1. PICK i \in 1..Len(s) : y = s[i]
      BY <1>6 DEF ToSet
    <3> QED BY <1>4, <1>6, <3>1 DEF ToSet
  <2> QED BY <2>1, <2>2, <2>3
<1> QED BY <1>2, <1>7 DEF t

-----------------------------------------------------------------------------
(* The fields of a level that the proofs need. *)
LevelFields == {"names", "blocks", "stmts"}

(* A binding level. *)
LevelOK(l) ==
  /\ LevelFields \subseteq DOMAIN l
  /\ l.names \in Seq(Declaration) /\ IsSeq(l.blocks) /\ IsSeq(l.stmts)
  /\ \A j \in 1..Len(l.blocks) : l.blocks[j].vars \in Seq(Declaration)
  /\ \A j \in 1..Len(l.stmts) :
       "op" \in DOMAIN l.stmts[j] /\ l.stmts[j].op \in {"call", "return", "if"}

(* What pushlevel starts with. *)
LEMMA ClearLevel ==
  /\ LevelOK(clear_binding_level)
  /\ clear_binding_level.names = << >> /\ clear_binding_level.blocks = << >>
  /\ clear_binding_level.stmts = << >>
BY IsSeqEmpty DEF LevelOK, LevelFields, clear_binding_level

(* A block has the names and the blocks of its level. *)
LEMMA BlockIs ==
  ASSUME NEW l
  PROVE  BlockOf(l).vars = l.names /\ BlockOf(l).blocks = l.blocks
BY DEF BlockOf

(* What may be done to a level. *)
LEMMA NamesSet ==
  ASSUME NEW l, LevelOK(l), NEW names \in Seq(Declaration)
  PROVE  LET k == [l EXCEPT !.names = names]
         IN  LevelOK(k) /\ k.names = names /\ k.blocks = l.blocks /\ k.stmts = l.stmts
<1> DEFINE k == [l EXCEPT !.names = names]
<1>1. DOMAIN k = DOMAIN l /\ k.names = names /\ k.blocks = l.blocks /\ k.stmts = l.stmts
  BY DEF LevelOK, LevelFields
<1> HIDE DEF k
<1> QED BY <1>1 DEF LevelOK, k

(* poplevel adds a block to a level. *)
LEMMA BlockAdded ==
  ASSUME NEW l, LevelOK(l), NEW b, b.vars \in Seq(Declaration)
  PROVE  LET k == [l EXCEPT !.blocks = Append(@, b)]
         IN  LevelOK(k) /\ k.names = l.names /\ k.blocks = Append(l.blocks, b) /\ k.stmts = l.stmts
<1> DEFINE k == [l EXCEPT !.blocks = Append(@, b)]
           s == l.blocks
<1>1. /\ DOMAIN k = DOMAIN l /\ k.names = l.names /\ k.blocks = Append(s, b) /\ k.stmts = l.stmts
  BY DEF LevelOK, LevelFields
<1>2. IsSeq(s) /\ \A j \in 1..Len(s) : s[j].vars \in Seq(Declaration)
  BY DEF LevelOK
<1> HIDE DEF k, s
<1>3. /\ IsSeq(Append(s, b)) /\ Len(Append(s, b)) = Len(s) + 1 /\ Append(s, b)[Len(s) + 1] = b
      /\ \A j \in 1..Len(s) : Append(s, b)[j] = s[j]
  BY <1>2, IsSeqAppend
<1>4. Len(s) \in Nat
  BY <1>2, IsSeqFacts
<1>5. ASSUME NEW j \in 1..Len(Append(s, b)) PROVE Append(s, b)[j].vars \in Seq(Declaration)
  <2>1. j \in 1..Len(s) \/ j = Len(s) + 1
    BY <1>3, <1>4
  <2> QED BY <1>2, <1>3, <2>1
<1> QED BY <1>1, <1>3, <1>5 DEF LevelOK, k, s

(* append_to_statement_list adds a statement to a level. *)
LEMMA StatementAdded ==
  ASSUME NEW l, LevelOK(l), NEW st, "op" \in DOMAIN st, st.op \in {"call", "return", "if"}
  PROVE  LET k == [l EXCEPT !.stmts = Append(@, st)]
         IN  LevelOK(k) /\ k.names = l.names /\ k.blocks = l.blocks /\ k.stmts = Append(l.stmts, st)
<1> DEFINE k == [l EXCEPT !.stmts = Append(@, st)]
           s == l.stmts
<1>1. /\ DOMAIN k = DOMAIN l /\ k.names = l.names /\ k.blocks = l.blocks /\ k.stmts = Append(s, st)
  BY DEF LevelOK, LevelFields
<1> DEFINE T == {"call", "return", "if"}
<1>2. IsSeq(s) /\ \A j \in 1..Len(s) : "op" \in DOMAIN s[j] /\ s[j].op \in T
  BY DEF LevelOK
<1> HIDE DEF k, s
<1>3. /\ IsSeq(Append(s, st)) /\ Len(Append(s, st)) = Len(s) + 1 /\ Append(s, st)[Len(s) + 1] = st
      /\ \A j \in 1..Len(s) : Append(s, st)[j] = s[j]
  BY <1>2, IsSeqAppend
<1>4. Len(s) \in Nat
  BY <1>2, IsSeqFacts
<1>5. ASSUME NEW j \in 1..Len(Append(s, st))
      PROVE  "op" \in DOMAIN Append(s, st)[j] /\ Append(s, st)[j].op \in T
  <2>1. j \in 1..Len(s) \/ j = Len(s) + 1
    BY <1>3, <1>4
  <2> QED BY <1>2, <1>3, <2>1
<1> QED BY <1>1, <1>3, <1>5 DEF LevelOK, k, s

(* A branch of an IF is set. *)
StatementAt(l, n, w) == [l EXCEPT !.stmts = [l.stmts EXCEPT ![n] = w]]

(* What is set in a branch leaves the kind of the statement alone. *)
LEMMA StatementSet ==
  ASSUME NEW l, LevelOK(l), NEW n, NEW w, n \in 1..Len(l.stmts) => DOMAIN w = DOMAIN l.stmts[n] /\ w.op = l.stmts[n].op
  PROVE  LET k == StatementAt(l, n, w)
         IN  LevelOK(k) /\ k.names = l.names /\ k.blocks = l.blocks
<1> DEFINE k == StatementAt(l, n, w)
           s == l.stmts
           t == SetAt(s, n, w)
<1>1. /\ DOMAIN k = DOMAIN l /\ k.names = l.names /\ k.blocks = l.blocks /\ k.stmts = t
  BY DEF LevelOK, LevelFields, SetAt, StatementAt
<1> DEFINE T == {"call", "return", "if"}
<1>2. IsSeq(s) /\ \A j \in 1..Len(s) : "op" \in DOMAIN s[j] /\ s[j].op \in T
  BY DEF LevelOK
<1>w. n \in 1..Len(s) => DOMAIN w = DOMAIN s[n] /\ w.op = s[n].op
  OBVIOUS
<1> HIDE DEF k, s
<1>3. IsSeq(t) /\ Len(t) = Len(s) /\ \A i \in 1..Len(s) : t[i] = IF i = n THEN w ELSE s[i]
  <2>1. IsSeq(s)
    BY <1>2
  <2> QED BY <2>1, IsSeqExcept
<1> HIDE DEF t
<1>5. \A j \in 1..Len(t) : "op" \in DOMAIN t[j] /\ t[j].op \in T
  BY <1>2, <1>3, <1>w
<1> QED BY <1>1, <1>3, <1>5 DEF LevelOK, k, s

(* The calls of one kind. *)
Calls(c, op) == {k \in 1..Len(c) : c[k].op = op}

(* One more call counts where its kind is counted. *)
LEMMA CallsAdded ==
  ASSUME NEW c, IsSeq(c), NEW r, NEW op
  PROVE  /\ Cardinality(Calls(c, op)) \in Nat
         /\ Cardinality(Calls(Append(c, r), op)) =
              Cardinality(Calls(c, op)) + (IF r.op = op THEN 1 ELSE 0)
<1> DEFINE d == Append(c, r)
           n == Len(c)
           A == Calls(c, op)
<1>1. /\ n \in Nat /\ Len(d) = n + 1 /\ d[n + 1] = r /\ \A i \in 1..n : d[i] = c[i]
  BY IsSeqFacts, IsSeqAppend
<1>2. IsFiniteSet(A) /\ A \subseteq 1..n
  <2>1. IsFiniteSet(1..n)
    <3> HIDE DEF n
    <3>1. 1 \in Int /\ n \in Int
      BY <1>1
    <3> QED BY <3>1, FS_Interval
  <2>2. A \subseteq 1..n
    BY DEF Calls
  <2> QED BY <2>1, <2>2, FS_Subset
<1>3. Calls(d, op) = IF r.op = op THEN A \cup {n + 1} ELSE A
  <2> HIDE DEF d
  <2>1. ASSUME NEW k PROVE k \in 1..(n + 1) <=> (k \in 1..n \/ k = n + 1)
    BY <1>1
  <2> QED BY <1>1, <2>1 DEF Calls
<1>4. n + 1 \notin A
  BY <1>1, <1>2
<1> HIDE DEF A, d, n
<1>5. Cardinality(A) \in Nat /\ Cardinality(A \cup {n + 1}) = Cardinality(A) + 1
  BY <1>2, <1>4, FS_CardinalityType, FS_AddElement
<1> QED BY <1>3, <1>5 DEF A, d

(* The IFs that are open in terms of Calls. *)
LEMMA OpenIfsIs ==
  ASSUME NEW c
  PROVE  OpenIfs(c) = Cardinality(Calls(c, "if")) - Cardinality(Calls(c, "end"))
BY DEF OpenIfs, Calls

(* How a call changes the number of IFs that are open. *)
LEMMA OpenIfsAdded ==
  ASSUME NEW c, IsSeq(c), NEW r
  PROVE  /\ OpenIfs(c) \in Int
         /\ OpenIfs(Append(c, r)) =
              OpenIfs(c) + (IF r.op = "if" THEN 1 ELSE 0) - (IF r.op = "end" THEN 1 ELSE 0)
<1> DEFINE i == Cardinality(Calls(c, "if"))
           e == Cardinality(Calls(c, "end"))
           i2 == Cardinality(Calls(Append(c, r), "if"))
           e2 == Cardinality(Calls(Append(c, r), "end"))
<1>1. i \in Nat /\ i2 = i + (IF r.op = "if" THEN 1 ELSE 0)
  BY CallsAdded
<1>2. e \in Nat /\ e2 = e + (IF r.op = "end" THEN 1 ELSE 0)
  BY CallsAdded
<1>3. OpenIfs(c) = i - e /\ OpenIfs(Append(c, r)) = i2 - e2
  BY OpenIfsIs
<1> HIDE DEF i, e, i2, e2
<1> QED BY <1>1, <1>2, <1>3

(* No IF is open at the start of a body. *)
LEMMA NoCalls == OpenIfs(<< >>) = 0
<1>1. Calls(<< >>, "if") = {} /\ Calls(<< >>, "end") = {}
  BY IsSeqEmpty DEF Calls
<1>2. Cardinality({}) = 0
  BY FS_EmptySet
<1> QED BY <1>1, <1>2, OpenIfsIs

-----------------------------------------------------------------------------
(* All that is declared in a level and in its blocks belongs to f or to      *)
(* none.                                                                     *)
LevelOwned(l, f) == Owned(ToSet(l.names), f) /\ \A c \in ToSet(l.blocks) : AllOwned(c, f)

(* The global level has neither statements nor blocks and no owner. *)
GlobalOK(l) ==
  /\ l.stmts = << >> /\ l.blocks = << >>
  /\ \A i \in 1..Len(l.names) : l.names[i].context = NULL

(* The levels of function f. *)
LevelsOK(levels, f) ==
  /\ IsSeq(levels) /\ Len(levels) >= 1
  /\ \A i \in 1..Len(levels) : LevelOK(levels[i])
  /\ GlobalOK(levels[1])
  /\ \A i \in 2..Len(levels) : LevelOwned(levels[i], f)

(* The global level belongs to no function. *)
LEMMA OnlyGlobal ==
  ASSUME NEW levels, NEW f, NEW g, LevelsOK(levels, f), Len(levels) = 1
  PROVE  LevelsOK(levels, g)
BY DEF LevelsOK

(* The innermost level of a function may be replaced by one that is owned. *)
LEMMA LevelSet ==
  ASSUME NEW levels, NEW f, LevelsOK(levels, f), Len(levels) >= 2,
         NEW l, LevelOK(l), LevelOwned(l, f)
  PROVE  LET k == SetAt(levels, Len(levels), l)
         IN  LevelsOK(k, f) /\ Len(k) = Len(levels) /\ k[1] = levels[1] /\ k[Len(levels)] = l
<1> DEFINE n == Len(levels)
           k == SetAt(levels, n, l)
<1>1. n \in Nat /\ n >= 2 /\ IsSeq(levels)
  BY IsSeqFacts DEF LevelsOK
<1>2. IsSeq(k) /\ Len(k) = n /\ \A i \in 1..n : k[i] = IF i = n THEN l ELSE levels[i]
  BY <1>1, IsSeqExcept
<1>3. 1 \in 1..n /\ n \in 1..n /\ n # 1 /\ n >= 1 /\ 2..n \subseteq 1..n
  <2> HIDE DEF n
  <2> QED BY <1>1
<1> HIDE DEF k
<1>4. \A i \in 1..n : LevelOK(k[i])
  BY <1>2 DEF LevelsOK
<1>5. k[1] = levels[1] /\ k[n] = l
  BY <1>2, <1>3
<1>6. \A i \in 2..n : LevelOwned(k[i], f)
  BY <1>2, <1>3 DEF LevelsOK
<1>7. LevelsOK(k, f)
  BY <1>2, <1>3, <1>4, <1>5, <1>6 DEF LevelsOK
<1> QED BY <1>2, <1>5, <1>7 DEF k

(* pushlevel. *)
LEMMA LevelPushed ==
  ASSUME NEW levels, NEW f, LevelsOK(levels, f)
  PROVE  LET k == pushlevel(levels)
         IN  LevelsOK(k, f) /\ Len(k) = Len(levels) + 1 /\ k[1] = levels[1]
<1> DEFINE n == Len(levels)
           l == clear_binding_level
           k == Append(levels, l)
<1>1. n \in Nat /\ n >= 1 /\ IsSeq(levels)
  BY IsSeqFacts DEF LevelsOK
<1>2. IsSeq(k) /\ Len(k) = n + 1 /\ k[n + 1] = l /\ \A i \in 1..n : k[i] = levels[i]
  BY <1>1, IsSeqAppend
<1>3. 1 \in 1..n /\ n + 1 >= 1
  BY <1>1
<1>4. \A i \in 1..(n + 1) : i \in 1..n \/ i = n + 1
  BY <1>1
<1>5. \A i \in 2..(n + 1) : i \in 2..n \/ i = n + 1
  BY <1>1
<1>6. ToSet(<< >>) = {}
  BY IsSeqFacts, IsSeqEmpty DEF ToSet
<1>7. LevelOK(l) /\ LevelOwned(l, f)
  BY <1>6, ClearLevel DEF LevelOwned, Owned
<1> HIDE DEF k, l
<1>8. \A i \in 1..(n + 1) : LevelOK(k[i])
  BY <1>2, <1>4, <1>7 DEF LevelsOK
<1>9. k[1] = levels[1]
  BY <1>2, <1>3
<1>10. \A i \in 2..(n + 1) : LevelOwned(k[i], f)
  <2>1. 2..n \subseteq 1..n
    BY <1>1
  <2> QED BY <1>2, <1>5, <1>7, <2>1 DEF LevelsOK
<1>11. LevelsOK(k, f)
  BY <1>2, <1>3, <1>8, <1>9, <1>10 DEF LevelsOK
<1> QED BY <1>2, <1>9, <1>11 DEF pushlevel, k, l

(* A level with one more declaration. *)
WithName(l, decl) == [l EXCEPT !.names = << decl >> \o @]

(* What pushdecl does to the level. *)
LEMMA NamePushed ==
  ASSUME NEW l, LevelOK(l), NEW decl \in Declaration
  PROVE  LET k == WithName(l, decl)
         IN  /\ LevelOK(k) /\ k.blocks = l.blocks /\ k.stmts = l.stmts
             /\ k.names = << decl >> \o l.names
             /\ Len(k.names) = Len(l.names) + 1 /\ ToSet(k.names) = {decl} \cup ToSet(l.names)
<1> DEFINE s == l.names
           names == << decl >> \o s
           k == WithName(l, decl)
<1>1. s \in Seq(Declaration)
  BY DEF LevelOK
<1>2. names \in Seq(Declaration) /\ Len(names) = Len(s) + 1 /\ ToSet(names) = {decl} \cup ToSet(s)
  <2> HIDE DEF s
  <2> QED BY <1>1, IsSeqCons
<1>3. DOMAIN k = DOMAIN l /\ k.names = names /\ k.blocks = l.blocks /\ k.stmts = l.stmts
  BY DEF LevelOK, LevelFields, WithName
<1> HIDE DEF names, k
<1>4. LevelOK(k)
  BY <1>2, <1>3 DEF LevelOK
<1> QED BY <1>2, <1>3, <1>4 DEF names, k

(* pushdecl replaces the innermost level. *)
LEMMA PushedIs ==
  ASSUME NEW levels, NEW decl
  PROVE  pushdecl(levels, decl) = SetAt(levels, Len(levels), WithName(levels[Len(levels)], decl))
BY DEF pushdecl, SetAt, WithName

(* pushdecl in a body: the declaration belongs to the function or is         *)
(* external.                                                                 *)
LEMMA PushedInside ==
  ASSUME NEW levels, NEW f, LevelsOK(levels, f), Len(levels) >= 2,
         NEW decl \in Declaration, Owned({decl}, f)
  PROVE  LET k == pushdecl(levels, decl)
         IN  LevelsOK(k, f) /\ Len(k) = Len(levels) /\ k[1] = levels[1]
<1> DEFINE n == Len(levels)
           l == levels[n]
           m == WithName(l, decl)
<1>1. n \in Nat /\ n \in 1..n /\ n \in 2..n
  BY IsSeqFacts DEF LevelsOK
<1>2. LevelOK(l) /\ LevelOwned(l, f)
  BY <1>1 DEF LevelsOK
<1> HIDE DEF l
<1>3. LevelOK(m) /\ m.blocks = l.blocks /\ ToSet(m.names) = {decl} \cup ToSet(l.names)
  BY <1>2, NamePushed
<1> HIDE DEF m
<1>4. LevelOwned(m, f)
  BY <1>2, <1>3 DEF LevelOwned, Owned
<1>5. LET k == SetAt(levels, n, m)
      IN  LevelsOK(k, f) /\ Len(k) = n /\ k[1] = levels[1]
  BY <1>3, <1>4, LevelSet
<1> QED BY <1>5, PushedIs DEF m, l

(* pushdecl outside of any function: the declaration belongs to none. *)
LEMMA PushedOutside ==
  ASSUME NEW levels, NEW f, LevelsOK(levels, f), Len(levels) = 1,
         NEW decl \in Declaration, decl.context = NULL
  PROVE  LET k == pushdecl(levels, decl)
         IN  LevelsOK(k, f) /\ Len(k) = 1 /\ Len(k[1].names) = Len(levels[1].names) + 1
<1> DEFINE l == levels[1]
           m == WithName(l, decl)
           k == SetAt(levels, 1, m)
<1>1. IsSeq(levels) /\ LevelOK(l) /\ GlobalOK(l)
  BY DEF LevelsOK
<1>2. IsSeq(k) /\ Len(k) = 1 /\ k[1] = m
  BY <1>1, IsSeqExcept
<1> HIDE DEF l
<1>3. /\ LevelOK(m) /\ m.blocks = l.blocks /\ m.stmts = l.stmts
      /\ Len(m.names) = Len(l.names) + 1 /\ ToSet(m.names) = {decl} \cup ToSet(l.names)
  BY <1>1, NamePushed
<1>4. \A i \in 1..Len(m.names) : m.names[i].context = NULL
  <2>1. \A d \in ToSet(l.names) : d.context = NULL
    <3>1. l.names \in Seq(Declaration)
      BY <1>1 DEF LevelOK
    <3> QED BY <1>1, <3>1 DEF GlobalOK, ToSet
  <2>2. m.names \in Seq(Declaration)
    BY <1>3 DEF LevelOK
  <2>3. \A i \in 1..Len(m.names) : m.names[i] \in ToSet(m.names)
    BY <2>2 DEF ToSet
  <2> HIDE DEF m
  <2> QED BY <1>3, <2>1, <2>3
<1> HIDE DEF m
<1>5. GlobalOK(m)
  BY <1>1, <1>3, <1>4 DEF GlobalOK
<1> HIDE DEF k
<1>6. LevelsOK(k, f)
  BY <1>2, <1>3, <1>5 DEF LevelsOK
<1> QED BY <1>2, <1>3, <1>6, PushedIs DEF k, m, l

(* A level with one more block. *)
WithBlock(l, b) == [l EXCEPT !.blocks = Append(@, b)]

(* A block that is owned keeps the level owned. *)
LEMMA BlockPut ==
  ASSUME NEW l, LevelOK(l), NEW b, b.vars \in Seq(Declaration), NEW f,
         LevelOwned(l, f), AllOwned(b, f)
  PROVE  LET k == WithBlock(l, b)
         IN  LevelOK(k) /\ LevelOwned(k, f)
<1> DEFINE k == WithBlock(l, b)
           s == l.blocks
<1>1. LevelOK(k) /\ k.names = l.names /\ k.blocks = Append(s, b)
  BY BlockAdded DEF WithBlock
<1>2. IsSeq(s)
  BY DEF LevelOK
<1>3. \A c \in ToSet(s) : AllOwned(c, f)
  BY DEF LevelOwned
<1> HIDE DEF s, k
<1>4. ASSUME NEW c \in ToSet(Append(s, b)) PROVE AllOwned(c, f)
  <2> DEFINE t == Append(s, b)
  <2>1. /\ Len(s) \in Nat /\ IsSeq(t) /\ Len(t) = Len(s) + 1 /\ t[Len(s) + 1] = b
        /\ \A i \in 1..Len(s) : t[i] = s[i]
    BY <1>2, IsSeqFacts, IsSeqAppend
  <2> HIDE DEF t
  <2>2. DOMAIN t = 1..Len(t) /\ DOMAIN s = 1..Len(s)
    BY <1>2, <2>1, IsSeqFacts
  <2>3. PICK i \in 1..Len(t) : c = t[i]
    BY <2>2 DEF ToSet, t
  <2>4. i \in 1..Len(s) \/ i = Len(s) + 1
    BY <2>1
  <2>5. CASE i \in 1..Len(s)
    <3>1. c = s[i] /\ s[i] \in ToSet(s)
      BY <2>1, <2>2, <2>3, <2>5 DEF ToSet
    <3> QED BY <1>3, <3>1
  <2> QED BY <2>1, <2>3, <2>4, <2>5
<1>5. LevelOwned(k, f)
  BY <1>1, <1>4 DEF LevelOwned
<1> QED BY <1>1, <1>5 DEF k

(* The block of a level is owned as the level is. *)
LEMMA BlockOwned ==
  ASSUME NEW l, NEW f
  PROVE  AllOwned(BlockOf(l), f) <=> LevelOwned(l, f)
BY AllOwnedIs, BlockIs DEF LevelOwned

(* The levels without the innermost one. *)
LEMMA OneLess ==
  ASSUME NEW levels, NEW f, LevelsOK(levels, f), Len(levels) >= 2
  PROVE  LET k == Front(levels)
         IN  /\ LevelsOK(k, f) /\ Len(k) = Len(levels) - 1 /\ k[1] = levels[1]
             /\ k[Len(k)] = levels[Len(levels) - 1]
             /\ LevelOK(Last(levels)) /\ LevelOwned(Last(levels), f)
<1> DEFINE n == Len(levels)
           k == Front(levels)
<1>1. n \in Nat /\ n >= 2 /\ n >= 1 /\ IsSeq(levels)
  BY IsSeqFacts DEF LevelsOK
<1>2. IsSeq(k) /\ Len(k) = n - 1 /\ \A i \in 1..(n - 1) : k[i] = levels[i]
  BY <1>1, IsSeqFront
<1>3. Last(levels) = levels[n]
  BY DEF Last
<1>a. \A i \in 1..n : LevelOK(levels[i])
  BY DEF LevelsOK
<1>b. \A i \in 2..n : LevelOwned(levels[i], f)
  BY DEF LevelsOK
<1>c. GlobalOK(levels[1])
  BY DEF LevelsOK
<1> HIDE DEF k, n
<1>4. /\ n \in 1..n /\ n \in 2..n /\ 1..(n - 1) \subseteq 1..n /\ 2..(n - 1) \subseteq 2..n
      /\ 2..(n - 1) \subseteq 1..(n - 1) /\ 1 \in 1..(n - 1) /\ n - 1 \in 1..(n - 1) /\ n - 1 >= 1
  BY <1>1
<1>5. \A i \in 1..(n - 1) : LevelOK(k[i])
  BY <1>2, <1>4, <1>a
<1>6. \A i \in 2..(n - 1) : LevelOwned(k[i], f)
  BY <1>2, <1>4, <1>b
<1>7. k[1] = levels[1] /\ k[n - 1] = levels[n - 1]
  BY <1>2, <1>4
<1>8. LevelsOK(k, f)
  BY <1>2, <1>4, <1>5, <1>6, <1>7, <1>c DEF LevelsOK
<1>9. LevelOK(Last(levels)) /\ LevelOwned(Last(levels), f)
  BY <1>3, <1>4, <1>a, <1>b
<1> QED BY <1>2, <1>7, <1>8, <1>9 DEF k, n

(* poplevel at the end of a branch of an IF. *)
LEMMA Popped ==
  ASSUME NEW levels, NEW f, LevelsOK(levels, f), Len(levels) >= 3
  PROVE  LET k == poplevel(levels, FALSE)
         IN  LevelsOK(k, f) /\ Len(k) = Len(levels) - 1 /\ k[1] = levels[1]
<1> DEFINE outer == Front(levels)
           n == Len(levels)
           b == BlockOf(Last(levels))
           l == outer[Len(outer)]
           k == SetAt(outer, Len(outer), WithBlock(l, b))
<1>0. n \in Nat /\ n >= 3
  BY IsSeqFacts DEF LevelsOK
<1>1. /\ LevelsOK(outer, f) /\ Len(outer) = n - 1 /\ outer[1] = levels[1]
      /\ LevelOK(Last(levels)) /\ LevelOwned(Last(levels), f)
  BY <1>0, OneLess
<1>2. AllOwned(b, f) /\ b.vars \in Seq(Declaration)
  BY <1>1, BlockOwned, BlockIs DEF LevelOK
<1>3. poplevel(levels, FALSE) = k
  BY DEF poplevel, SetAt, WithBlock
<1> HIDE DEF outer, b
<1>4. LevelOK(l) /\ LevelOwned(l, f)
  <2>1. Len(outer) \in 1..Len(outer) /\ Len(outer) \in 2..Len(outer)
    <3> HIDE DEF n
    <3> QED BY <1>0, <1>1
  <2> QED BY <1>1, <2>1 DEF LevelsOK
<1> DEFINE m == WithBlock(l, b)
<1>5. LevelOK(m) /\ LevelOwned(m, f)
  <2> HIDE DEF l
  <2> QED BY <1>2, <1>4, BlockPut
<1>6. Len(outer) >= 2
  <2> HIDE DEF n
  <2> QED BY <1>0, <1>1
<1> HIDE DEF m
<1>7. LET q == SetAt(outer, Len(outer), m)
      IN  LevelsOK(q, f) /\ Len(q) = Len(outer) /\ q[1] = outer[1]
  BY <1>1, <1>5, <1>6, LevelSet
<1> QED BY <1>1, <1>3, <1>7 DEF m, n

(* A level with one more statement. *)
WithStatement(l, st) == [l EXCEPT !.stmts = Append(@, st)]

(* append_to_statement_list in a body. *)
LEMMA StatementPut ==
  ASSUME NEW levels, NEW f, LevelsOK(levels, f), Len(levels) >= 2,
         NEW st, "op" \in DOMAIN st, st.op \in {"call", "return", "if"}
  PROVE  LET k == append_to_statement_list(levels, st)
         IN  LevelsOK(k, f) /\ Len(k) = Len(levels) /\ k[1] = levels[1]
<1> DEFINE n == Len(levels)
           l == levels[n]
           m == WithStatement(l, st)
<1>1. n \in Nat /\ n \in 1..n /\ n \in 2..n
  BY IsSeqFacts DEF LevelsOK
<1>2. LevelOK(l) /\ LevelOwned(l, f)
  BY <1>1 DEF LevelsOK
<1>a. append_to_statement_list(levels, st) = SetAt(levels, n, m)
  BY DEF append_to_statement_list, SetAt, WithStatement
<1> HIDE DEF l
<1>3. LevelOK(m) /\ m.blocks = l.blocks /\ m.names = l.names
  BY <1>2, StatementAdded DEF WithStatement
<1> HIDE DEF m
<1>4. LevelOwned(m, f)
  BY <1>2, <1>3 DEF LevelOwned
<1>5. LET k == SetAt(levels, n, m)
      IN  LevelsOK(k, f) /\ Len(k) = n /\ k[1] = levels[1]
  BY <1>3, <1>4, LevelSet
<1> QED BY <1>5, <1>a DEF m, l

(* The branch behind THEN is set. *)
WithThen(l, n, w) == [l EXCEPT !.stmts = [l.stmts EXCEPT ![n] = [l.stmts[n] EXCEPT !.then = w]]]
(* The branch behind ELSE is set. *)
WithElse(l, n, w) == [l EXCEPT !.stmts = [l.stmts EXCEPT ![n] = [l.stmts[n] EXCEPT !.else = w]]]

(* Setting a branch leaves the declarations and the blocks alone. *)
LEMMA BranchOK ==
  ASSUME NEW l, LevelOK(l), NEW n, NEW w
  PROVE  /\ LevelOK(WithThen(l, n, w)) /\ WithThen(l, n, w).names = l.names
         /\ WithThen(l, n, w).blocks = l.blocks
         /\ LevelOK(WithElse(l, n, w)) /\ WithElse(l, n, w).names = l.names
         /\ WithElse(l, n, w).blocks = l.blocks
<1> DEFINE st == l.stmts[n]
           t == [st EXCEPT !.then = w]
           e == [st EXCEPT !.else = w]
<1>1. n \in 1..Len(l.stmts) => "op" \in DOMAIN st
  BY DEF LevelOK
<1>2. DOMAIN t = DOMAIN st /\ ("op" \in DOMAIN st => t.op = st.op)
  OBVIOUS
<1>3. DOMAIN e = DOMAIN st /\ ("op" \in DOMAIN st => e.op = st.op)
  OBVIOUS
<1>5. WithThen(l, n, w) = StatementAt(l, n, t)
  BY DEF WithThen, StatementAt
<1>6. WithElse(l, n, w) = StatementAt(l, n, e)
  BY DEF WithElse, StatementAt
<1> HIDE DEF t, e
<1>7. LET k == StatementAt(l, n, t)
      IN  LevelOK(k) /\ k.names = l.names /\ k.blocks = l.blocks
  BY <1>1, <1>2, StatementSet
<1>8. LET k == StatementAt(l, n, e)
      IN  LevelOK(k) /\ k.names = l.names /\ k.blocks = l.blocks
  BY <1>1, <1>3, StatementSet
<1> QED BY <1>5, <1>6, <1>7, <1>8

(* What tree_code_if_else does to the levels that are left by poplevel. *)
ThenSet(levels, w) ==
  LET n == Len(levels) IN [levels EXCEPT ![n].stmts[Len(levels[n].stmts)].then = w]
(* What tree_code_if_end does to them. *)
ElseSet(levels, w) ==
  LET n == Len(levels) IN [levels EXCEPT ![n].stmts[Len(levels[n].stmts)].else = w]

(* Both keep the levels as they are but for the statement. *)
LEMMA BranchPut ==
  ASSUME NEW levels, NEW f, LevelsOK(levels, f), Len(levels) >= 2, NEW w
  PROVE  /\ LevelsOK(ThenSet(levels, w), f) /\ Len(ThenSet(levels, w)) = Len(levels)
         /\ ThenSet(levels, w)[1] = levels[1]
         /\ LevelsOK(ElseSet(levels, w), f) /\ Len(ElseSet(levels, w)) = Len(levels)
         /\ ElseSet(levels, w)[1] = levels[1]
<1> DEFINE n == Len(levels)
           l == levels[n]
           i == Len(l.stmts)
           t == WithThen(l, i, w)
           e == WithElse(l, i, w)
<1>1. n \in Nat /\ n \in 1..n /\ n \in 2..n
  BY IsSeqFacts DEF LevelsOK
<1>2. LevelOK(l) /\ LevelOwned(l, f)
  BY <1>1 DEF LevelsOK
<1>3. ThenSet(levels, w) = SetAt(levels, n, t)
  <2>1. ThenSet(levels, w) = [levels EXCEPT ![n] = [levels[n] EXCEPT !.stmts =
              [levels[n].stmts EXCEPT ![i] = [levels[n].stmts[i] EXCEPT !.then = w]]]]
    BY DEF ThenSet
  <2> QED BY <2>1 DEF SetAt, WithThen
<1>4. ElseSet(levels, w) = SetAt(levels, n, e)
  <2>1. ElseSet(levels, w) = [levels EXCEPT ![n] = [levels[n] EXCEPT !.stmts =
              [levels[n].stmts EXCEPT ![i] = [levels[n].stmts[i] EXCEPT !.else = w]]]]
    BY DEF ElseSet
  <2> QED BY <2>1 DEF SetAt, WithElse
<1> HIDE DEF l, i
<1>5. /\ LevelOK(t) /\ t.names = l.names /\ t.blocks = l.blocks
      /\ LevelOK(e) /\ e.names = l.names /\ e.blocks = l.blocks
  BY <1>2, BranchOK
<1> HIDE DEF t, e
<1>6. LevelOwned(t, f) /\ LevelOwned(e, f)
  BY <1>2, <1>5 DEF LevelOwned
<1>7. LET k == SetAt(levels, n, t)
      IN  LevelsOK(k, f) /\ Len(k) = n /\ k[1] = levels[1]
  BY <1>5, <1>6, LevelSet
<1>8. LET k == SetAt(levels, n, e)
      IN  LevelsOK(k, f) /\ Len(k) = n /\ k[1] = levels[1]
  BY <1>5, <1>6, LevelSet
<1> QED BY <1>3, <1>4, <1>7, <1>8

(* The fields of a function that the proofs need. *)
FunctionFields == {"parms", "initial", "saved"}

(* A function; when it is closed, all in its block belongs to it. *)
FunctionOK(g, f) ==
  /\ FunctionFields \subseteq DOMAIN g
  /\ g.parms \in ParameterLists /\ Len(g.saved) <= 1
  /\ g.initial # << >> => AllOwned(g.initial[1], f)

(* The first part of LevelsBalanced, and that a body has a level. *)
CountsOK ==
  /\ Len(level) = IF current_function_decl = NULL THEN 1
                  ELSE 2 + OpenIfs(calls[current_function_decl])
  /\ current_function_decl # NULL => Len(level) >= 2

(* The inductive invariant. *)
BInv ==
  /\ LevelsOK(level, current_function_decl) /\ CountsOK
  /\ IsSeq(function) /\ \A f \in 1..Len(function) : FunctionOK(function[f], f)
  /\ IsSeq(calls) /\ Len(calls) = Len(function) /\ \A f \in 1..Len(calls) : IsSeq(calls[f])
  /\ current_function_decl \in 0..Len(function)
  /\ Len(function) + Len(Predefined) <= Len(level[1].names)
  /\ Len(level[1].names) <= Len(Predefined) + MaxGlobals

(* The predefined types are global. *)
LEMMA InitInv == Init => BInv
<1> SUFFICES ASSUME Init PROVE BInv
  OBVIOUS
<1> DEFINE n == Len(Predefined)
           d == [i \in DOMAIN Predefined |-> [name |-> Predefined[i], context |-> NULL]]
           names == Reverse(d)
           l == [clear_binding_level EXCEPT !.names = names]
<1>1. n \in Nat /\ DOMAIN Predefined = 1..n /\ \A i \in 1..n : Predefined[i] \in ToSet(Predefined)
  BY ListAssumption DEF ListAssumption, ToSet
<1>2. 0 \in 0..MaxGlobals
  BY BoundAssumption DEF BoundAssumption
<1>3. \A i \in 1..n : d[i] \in Declaration /\ d[i].context = NULL
  BY <1>1, <1>2 DEF Declaration, NULL
<1>4. d \in Seq(Declaration) /\ Len(d) = n
  <2>1. d = [i \in 1..n |-> d[i]]
    BY <1>1
  <2>2. d \in [1..n -> Declaration]
    <3> HIDE DEF d
    <3> QED BY <1>3, <2>1
  <2> HIDE DEF d, n
  <2> QED BY <1>1, <2>2
<1>5. names \in Seq(Declaration) /\ Len(names) = n /\ \A i \in 1..n : names[i].context = NULL
  <2> HIDE DEF d, n
  <2>1. names = [i \in 1..n |-> d[(n - i) + 1]]
    BY <1>4 DEF Reverse
  <2>2. \A i \in 1..n : (n - i) + 1 \in 1..n
    BY <1>1
  <2>3. \A i \in 1..n : names[i] = d[(n - i) + 1]
    BY <2>1
  <2>4. names \in [1..n -> Declaration]
    BY <1>3, <2>1, <2>2
  <2> HIDE DEF names
  <2>5. names \in Seq(Declaration) /\ Len(names) = n
    BY <1>1, <2>4
  <2> QED BY <1>3, <2>2, <2>3, <2>5
<1> HIDE DEF names, d
<1>6. LevelOK(l) /\ l.names = names /\ l.blocks = << >> /\ l.stmts = << >>
  BY <1>5, ClearLevel, NamesSet
<1>7. level = << l >> /\ current_function_decl = NULL /\ function = << >> /\ calls = << >>
  BY DEF Init, names, d
<1> HIDE DEF l
<1>8. Len(<< l >>) = 1 /\ << l >>[1] = l /\ << l >> \in Seq({l})
  OBVIOUS
<1>9. GlobalOK(l)
  BY <1>5, <1>6 DEF GlobalOK
<1>10. LevelsOK(<< l >>, NULL)
  <2>1. IsSeq(<< l >>)
    BY <1>8 DEF IsSeq
  <2>2. (2..1) = {} /\ \A i \in 1..1 : i = 1
    OBVIOUS
  <2> QED BY <1>6, <1>8, <1>9, <2>1, <2>2 DEF LevelsOK
<1>11. CountsOK
  BY <1>7, <1>8 DEF CountsOK
<1>12. Len(<< >>) + n <= Len(l.names) /\ Len(l.names) <= n + MaxGlobals
  <2> HIDE DEF n
  <2> QED BY <1>1, <1>5, <1>6, IsSeqEmpty, BoundAssumption DEF BoundAssumption
<1> QED BY <1>7, <1>8, <1>10, <1>11, <1>12, IsSeqEmpty DEF BInv, NULL

(* A call inside of a body that leaves the functions alone. *)
LEMMA BodyKeeps ==
  ASSUME BInv, current_function_decl # NULL, NEW op, NEW what, Called(op, what),
         LevelsOK(level', current_function_decl), level'[1] = level[1],
         Len(level') = Len(level) + (IF op = "if" THEN 1 ELSE 0) - (IF op = "end" THEN 1 ELSE 0),
         Len(level') >= 2,
         UNCHANGED << current_function_decl, function >>
  PROVE  BInv'
<1> DEFINE f == current_function_decl
           c == calls[f]
           r == [op |-> op, what |-> what]
           d == Append(c, r)
<1>1. /\ IsSeq(calls) /\ f \in 0..Len(function) /\ f # 0 /\ Len(calls) = Len(function)
      /\ Len(calls) \in Nat /\ Len(level) = 2 + OpenIfs(c)
  BY IsSeqFacts DEF BInv, CountsOK, NULL
<1>2. f \in 1..Len(calls)
  BY <1>1
<1>3. IsSeq(c)
  BY <1>2 DEF BInv
<1>4. calls' = SetAt(calls, f, d)
  BY DEF Called, SetAt
<1>5. r.op = op
  OBVIOUS
<1> HIDE DEF c, r
<1>6. /\ OpenIfs(c) \in Int
      /\ OpenIfs(d) = OpenIfs(c) + (IF op = "if" THEN 1 ELSE 0) - (IF op = "end" THEN 1 ELSE 0)
  BY <1>3, <1>5, OpenIfsAdded
<1>7. IsSeq(d)
  BY <1>3, IsSeqAppend
<1> HIDE DEF d
<1>8. IsSeq(calls') /\ Len(calls') = Len(calls) /\ \A i \in 1..Len(calls) : calls'[i] = IF i = f THEN d ELSE calls[i]
  BY <1>1, <1>4, IsSeqExcept
<1>9. \A i \in 1..Len(calls') : IsSeq(calls'[i])
  <2>1. \A i \in 1..Len(calls) : IsSeq(calls[i])
    BY DEF BInv
  <2> QED BY <1>7, <1>8, <2>1
<1>10. Len(level') = 2 + OpenIfs(d)
  <2> HIDE DEF f
  <2> QED BY <1>1, <1>6
<1>11. CountsOK'
  <2>1. f' = f /\ calls'[f] = d
    BY <1>2, <1>8
  <2> QED BY <1>1, <1>10, <2>1 DEF CountsOK, NULL
<1>12. function' = function /\ current_function_decl' = current_function_decl
  OBVIOUS
<1> QED BY <1>8, <1>9, <1>11, <1>12 DEF BInv

(* What the guard InBody gives. *)
LEMMA InBodyFacts ==
  ASSUME BInv, InBody
  PROVE  /\ current_function_decl # NULL /\ Len(level) \in Nat /\ Len(level) >= 2
         /\ LevelsOK(level, current_function_decl)
BY IsSeqFacts DEF BInv, InBody, CountsOK, LevelsOK

(* Expression statements and RETURN. *)
LEMMA StatementKeeps ==
  ASSUME BInv, NEW op \in {"call", "return"}, NEW what, NEW tree,
         tree_code_output_statement(op, what, tree)
  PROVE  BInv'
<1> DEFINE st == [op |-> op, what |-> tree]
<1>1. InBody /\ Called(op, what) /\ UNCHANGED << current_function_decl, function >>
      /\ level' = append_to_statement_list(level, st)
  BY DEF tree_code_output_statement
<1>2. "op" \in DOMAIN st /\ st.op \in {"call", "return", "if"}
  OBVIOUS
<1> HIDE DEF st
<1>3. LevelsOK(level', current_function_decl) /\ level'[1] = level[1] /\ Len(level') = Len(level)
  BY <1>1, <1>2, InBodyFacts, StatementPut
<1>4. Len(level') = Len(level) + (IF op = "if" THEN 1 ELSE 0) - (IF op = "end" THEN 1 ELSE 0)
  BY <1>1, <1>3, InBodyFacts
<1> QED BY <1>1, <1>3, <1>4, InBodyFacts, BodyKeeps

(* tree_code_if_start. *)
LEMMA IfStartKeeps ==
  ASSUME BInv, tree_code_if_start
  PROVE  BInv'
<1> DEFINE st == [op |-> "if", what |-> << >>, then |-> << >>, else |-> << >>]
           k == append_to_statement_list(level, st)
           op == "if"
           what == << >>
<1>1. InBody /\ Called(op, what) /\ UNCHANGED << current_function_decl, function >>
      /\ level' = pushlevel(k)
  BY DEF tree_code_if_start
<1>2. "op" \in DOMAIN st /\ st.op \in {"call", "return", "if"}
  OBVIOUS
<1> HIDE DEF st
<1>3. LevelsOK(k, current_function_decl) /\ k[1] = level[1] /\ Len(k) = Len(level)
  BY <1>1, <1>2, InBodyFacts, StatementPut
<1> HIDE DEF k
<1>4. LevelsOK(level', current_function_decl) /\ level'[1] = level[1] /\ Len(level') = Len(level) + 1
  BY <1>1, <1>3, LevelPushed
<1>5. /\ Len(level') = Len(level) + (IF op = "if" THEN 1 ELSE 0) - (IF op = "end" THEN 1 ELSE 0)
      /\ Len(level') >= 2
  BY <1>1, <1>4, InBodyFacts
<1> HIDE DEF op, what
<1> QED BY <1>1, <1>4, <1>5, InBodyFacts, BodyKeeps

(* tree_code_if_else. *)
LEMMA IfElseKeeps ==
  ASSUME BInv, tree_code_if_else
  PROVE  BInv'
<1> DEFINE popped == poplevel(level, FALSE)
           w == << Bind(Last(level)) >>
           k == ThenSet(popped, w)
           op == "else"
           what == << >>
<1>1. InBody /\ Called(op, what) /\ UNCHANGED << current_function_decl, function >>
      /\ level' = pushlevel(k) /\ Len(level) > 2
  BY DEF tree_code_if_else, ThenSet
<1>2. Len(level) \in Nat /\ Len(level) >= 3 /\ LevelsOK(level, current_function_decl)
  BY <1>1, InBodyFacts
<1>3. LevelsOK(popped, current_function_decl) /\ Len(popped) = Len(level) - 1 /\ popped[1] = level[1]
  BY <1>2, Popped
<1> HIDE DEF popped, w
<1>4. Len(popped) >= 2
  BY <1>2, <1>3
<1>5. LevelsOK(k, current_function_decl) /\ k[1] = popped[1] /\ Len(k) = Len(popped)
  BY <1>3, <1>4, BranchPut
<1> HIDE DEF k
<1>6. LevelsOK(level', current_function_decl) /\ level'[1] = level[1] /\ Len(level') = Len(k) + 1
  BY <1>1, <1>3, <1>5, LevelPushed
<1>7. Len(level') = Len(level) /\ Len(level') >= 2
  BY <1>2, <1>3, <1>5, <1>6
<1>8. Len(level') = Len(level) + (IF op = "if" THEN 1 ELSE 0) - (IF op = "end" THEN 1 ELSE 0)
  BY <1>2, <1>7
<1> HIDE DEF op, what
<1> QED BY <1>1, <1>6, <1>7, <1>8, InBodyFacts, BodyKeeps

(* tree_code_if_end. *)
LEMMA IfEndKeeps ==
  ASSUME BInv, tree_code_if_end
  PROVE  BInv'
<1> DEFINE popped == poplevel(level, FALSE)
           w == << Bind(Last(level)) >>
           op == "end"
           what == << >>
<1>1. InBody /\ Called(op, what) /\ UNCHANGED << current_function_decl, function >>
      /\ level' = ElseSet(popped, w) /\ Len(level) > 2
  BY DEF tree_code_if_end, ElseSet
<1>2. Len(level) \in Nat /\ Len(level) >= 3 /\ LevelsOK(level, current_function_decl)
  BY <1>1, InBodyFacts
<1>3. LevelsOK(popped, current_function_decl) /\ Len(popped) = Len(level) - 1 /\ popped[1] = level[1]
  BY <1>2, Popped
<1> HIDE DEF popped, w
<1>4. Len(popped) >= 2
  BY <1>2, <1>3
<1>5. LevelsOK(level', current_function_decl) /\ level'[1] = level[1] /\ Len(level') = Len(popped)
  BY <1>1, <1>3, <1>4, BranchPut
<1>6. /\ Len(level') = Len(level) + (IF op = "if" THEN 1 ELSE 0) - (IF op = "end" THEN 1 ELSE 0)
      /\ Len(level') >= 2
  BY <1>2, <1>3, <1>4, <1>5
<1> HIDE DEF op, what
<1> QED BY <1>1, <1>5, <1>6, InBodyFacts, BodyKeeps

(* tree_code_create_variable, in a body and outside. *)
LEMMA VariableKeeps ==
  ASSUME BInv, NEW name \in Variable, NEW storage,
         storage = "external" <=> name \in Externals,
         tree_code_create_variable(name, storage)
  PROVE  BInv'
<1> DEFINE cur == current_function_decl
           decl == [name |-> name, context |-> Context(storage)]
           op == "var"
<1>1. level' = pushdecl(level, decl) /\ UNCHANGED << current_function_decl, function >>
  BY DEF tree_code_create_variable
<1>2. /\ cur \in 0..Len(function) /\ Len(function) \in Nat
      /\ Len(function) + Len(Predefined) <= Len(level[1].names)
      /\ Len(level[1].names) <= Len(Predefined) + MaxGlobals
      /\ LevelsOK(level, cur)
  BY IsSeqFacts DEF BInv
<1>3. Len(level[1].names) \in Nat /\ Len(Predefined) \in Nat /\ MaxGlobals \in Nat
  <2>1. 1 \in 1..Len(level)
    BY <1>2, IsSeqFacts DEF LevelsOK
  <2>2. level[1].names \in Seq(Declaration)
    BY <1>2, <2>1 DEF LevelsOK, LevelOK
  <2> QED BY <2>2, BoundAssumption, ListAssumption DEF BoundAssumption, ListAssumption
<1>4. cur \in 0..MaxGlobals /\ 0 \in 0..MaxGlobals
  <2> DEFINE g == Len(level[1].names)
             p == Len(Predefined)
             n == Len(function)
  <2>1. /\ n \in Nat /\ n + p <= g /\ g <= p + MaxGlobals /\ g \in Nat /\ p \in Nat /\ MaxGlobals \in Nat
        /\ cur \in 0..n
    BY <1>2, <1>3
  <2> HIDE DEF g, p, n, cur
  <2> QED BY <2>1
<1>5. decl \in Declaration /\ decl.name = name /\ decl.context = Context(storage)
  BY <1>4 DEF Declaration, Context, NULL
<1> HIDE DEF decl
<1>6. CASE InBody /\ Called(op, decl)
  <2>1. cur # NULL /\ Len(level) \in Nat /\ Len(level) >= 2
    BY <1>6, InBodyFacts
  <2>2. Owned({decl}, cur)
    BY <1>5, <2>1 DEF Owned, Context
  <2>3. LevelsOK(level', cur) /\ Len(level') = Len(level) /\ level'[1] = level[1]
    BY <1>1, <1>2, <1>5, <2>1, <2>2, PushedInside
  <2>4. Len(level') = Len(level) + (IF op = "if" THEN 1 ELSE 0) - (IF op = "end" THEN 1 ELSE 0)
    BY <2>1, <2>3
  <2> HIDE DEF op
  <2> QED BY <1>1, <1>6, <2>1, <2>3, <2>4, BodyKeeps
<1>7. CASE OutsideBody /\ UNCHANGED calls
  <2>1. cur = NULL /\ Len(level) = 1 /\ Len(level[1].names) < Len(Predefined) + MaxGlobals
    BY <1>7 DEF OutsideBody, BInv, CountsOK
  <2>2. decl.context = NULL
    BY <1>5, <2>1 DEF Context
  <2>3. LevelsOK(level', cur) /\ Len(level') = 1 /\ Len(level'[1].names) = Len(level[1].names) + 1
    BY <1>1, <1>2, <1>5, <2>1, <2>2, PushedOutside
  <2>4. CountsOK'
    BY <1>1, <2>1, <2>3 DEF CountsOK, NULL
  <2>5. /\ Len(function) + Len(Predefined) <= Len(level'[1].names)
        /\ Len(level'[1].names) <= Len(Predefined) + MaxGlobals
    <3> DEFINE g == Len(level[1].names)
               p == Len(Predefined)
               n == Len(function)
    <3>1. n \in Nat /\ n + p <= g /\ g < p + MaxGlobals /\ g \in Nat /\ p \in Nat /\ MaxGlobals \in Nat
      BY <1>2, <1>3, <2>1
    <3> HIDE DEF g, p, n
    <3>2. n + p <= g + 1 /\ g + 1 <= p + MaxGlobals
      BY <3>1
    <3> QED BY <2>3, <3>2 DEF g, p, n
  <2>6. calls' = calls /\ function' = function /\ current_function_decl' = current_function_decl
    BY <1>1, <1>7
  <2> QED BY <2>3, <2>4, <2>5, <2>6 DEF BInv
<1> QED BY <1>6, <1>7 DEF tree_code_create_variable, decl

(* tree_code_create_function_initial. *)
LEMMA FunctionKeeps ==
  ASSUME BInv, NEW parms \in ParameterLists, tree_code_create_function_initial(parms)
  PROVE  BInv'
<1> DEFINE fn == Len(function) + 1
           decl == [name |-> "function", context |-> NULL]
           k == pushdecl(level, decl)
           g == [parms |-> parms, arguments |-> Chained(parms),
                 types |-> tree_code_create_function_prototype(parms),
                 initial |-> << >>, saved |-> << >>]
           p == Len(Predefined)
           n == Len(function)
           a == Len(level[1].names)
<1>1. /\ OutsideBody /\ level' = pushlevel(k) /\ current_function_decl' = fn
      /\ function' = Append(function, g) /\ calls' = Append(calls, << >>)
  BY DEF tree_code_create_function_initial
<1>2. /\ LevelsOK(level, NULL) /\ Len(level) = 1 /\ n \in Nat /\ n + p <= a /\ a < p + MaxGlobals
      /\ IsSeq(function) /\ IsSeq(calls) /\ Len(calls) = n
      /\ \A f \in 1..n : FunctionOK(function[f], f)
      /\ \A f \in 1..n : IsSeq(calls[f])
  BY <1>1, IsSeqFacts DEF OutsideBody, BInv, CountsOK
<1>3. a \in Nat /\ p \in Nat /\ MaxGlobals \in Nat
  <2>1. 1 \in 1..Len(level)
    BY <1>2
  <2>2. level[1].names \in Seq(Declaration)
    BY <1>2, <2>1 DEF LevelsOK, LevelOK
  <2> QED BY <2>2, BoundAssumption, ListAssumption DEF BoundAssumption, ListAssumption
<1>4. decl \in Declaration /\ decl.context = NULL
  <2>1. 0 \in 0..MaxGlobals
    BY <1>3
  <2> QED BY <2>1 DEF Declaration, NULL
<1>5. FunctionOK(g, fn)
  <2>1. Len(g.saved) = 0 /\ g.initial = << >> /\ g.parms = parms /\ FunctionFields \subseteq DOMAIN g
    BY DEF FunctionFields
  <2> HIDE DEF g
  <2> QED BY <2>1 DEF FunctionOK
<1> HIDE DEF decl, g
<1>6. LevelsOK(k, NULL) /\ Len(k) = 1 /\ Len(k[1].names) = a + 1
  BY <1>2, <1>4, PushedOutside
<1> HIDE DEF k
<1>7. LevelsOK(k, fn)
  BY <1>6, OnlyGlobal
<1> HIDE DEF fn
<1>8. LevelsOK(level', fn) /\ Len(level') = 2 /\ level'[1] = k[1]
  <2>1. LET q == pushlevel(k) IN LevelsOK(q, fn) /\ Len(q) = Len(k) + 1 /\ q[1] = k[1]
    BY <1>7, LevelPushed
  <2> QED BY <1>1, <1>6, <2>1
<1>9. /\ IsSeq(function') /\ Len(function') = n + 1 /\ function'[n + 1] = g
      /\ \A f \in 1..n : function'[f] = function[f]
  BY <1>1, <1>2, IsSeqAppend
<1>10. /\ IsSeq(calls') /\ Len(calls') = n + 1 /\ calls'[n + 1] = << >>
       /\ \A f \in 1..n : calls'[f] = calls[f]
  BY <1>1, <1>2, IsSeqAppend
<1>11. fn = n + 1
  BY DEF fn
<1>12. \A f \in 1..(n + 1) : f \in 1..n \/ f = n + 1
  BY <1>2
<1>13. \A f \in 1..Len(function') : FunctionOK(function'[f], f)
  BY <1>2, <1>5, <1>9, <1>11, <1>12
<1>14. \A f \in 1..Len(calls') : IsSeq(calls'[f])
  BY <1>2, <1>10, <1>12, IsSeqEmpty
<1> HIDE DEF n, a, p
<1>15. fn # NULL /\ fn \in 0..(n + 1)
  BY <1>2, <1>11 DEF NULL
<1>16. CountsOK'
  BY <1>1, <1>8, <1>10, <1>11, <1>15, NoCalls DEF CountsOK, NULL
<1>17. (n + 1) + p <= a + 1 /\ a + 1 <= p + MaxGlobals
  BY <1>2, <1>3
<1>18. Len(function') + Len(Predefined) <= Len(level'[1].names) /\ Len(level'[1].names) <= Len(Predefined) + MaxGlobals
  BY <1>6, <1>8, <1>9, <1>17 DEF p
<1> QED BY <1>1, <1>8, <1>9, <1>10, <1>13, <1>14, <1>15, <1>16, <1>18 DEF BInv

(* A function that is closed. *)
WithBody(g, b, s) == [g EXCEPT !.initial = b, !.saved = s]

(* Its block belongs to it when the level did. *)
LEMMA BodyPut ==
  ASSUME NEW g, NEW f, FunctionOK(g, f), NEW b, AllOwned(b, f), NEW t
  PROVE  FunctionOK(WithBody(g, << b >>, << t >>), f)
<1> DEFINE k == WithBody(g, << b >>, << t >>)
<1>1. DOMAIN k = DOMAIN g /\ k.initial = << b >> /\ k.saved = << t >> /\ k.parms = g.parms
  BY DEF FunctionOK, FunctionFields, WithBody
<1>2. Len(<< t >>) = 1 /\ << b >>[1] = b
  OBVIOUS
<1> HIDE DEF k
<1>3. FunctionOK(k, f)
  BY <1>1, <1>2 DEF FunctionOK
<1> QED BY <1>3 DEF k

(* tree_code_create_function_wrapup. *)
LEMMA WrapupKeeps ==
  ASSUME BInv, tree_code_create_function_wrapup
  PROVE  BInv'
<1> DEFINE f == current_function_decl
           body == Last(level)
           b == BlockOf(body)
           t == [vars |-> body.names, stmts |-> body.stmts, block |-> << BlockOf(body) >>]
           g == WithBody(function[f], << b >>, << t >>)
           n == Len(function)
<1>1. /\ f # NULL /\ Len(level) = 2 /\ level' = Front(level)
      /\ current_function_decl' = NULL /\ calls' = calls
  BY DEF tree_code_create_function_wrapup, poplevel
<1>2. function' = SetAt(function, f, g)
  <2>1. function' = [function EXCEPT ![f].initial = << b >>, ![f].saved = << t >>]
    BY DEF tree_code_create_function_wrapup
  <2>2. f \in DOMAIN function
    BY <1>1, IsSeqFacts DEF BInv, NULL
  <2> QED BY <2>1, <2>2 DEF SetAt, WithBody
<1>3. /\ LevelsOK(level, f) /\ n \in Nat /\ f \in 1..n /\ IsSeq(function)
      /\ \A i \in 1..n : FunctionOK(function[i], i)
  BY <1>1, IsSeqFacts DEF BInv, NULL
<1>4. LevelsOK(level', f) /\ Len(level') = 1 /\ level'[1] = level[1] /\ LevelOwned(body, f)
  <2>1. LET q == Front(level)
        IN  /\ LevelsOK(q, f) /\ Len(q) = Len(level) - 1 /\ q[1] = level[1]
            /\ LevelOwned(Last(level), f)
    <3>1. Len(level) >= 2
      BY <1>1
    <3> HIDE DEF f
    <3> QED BY <1>3, <3>1, OneLess
  <2> QED BY <1>1, <2>1
<1>5. AllOwned(b, f)
  BY <1>4, BlockOwned
<1>6. FunctionOK(g, f)
  BY <1>3, <1>5, BodyPut
<1> HIDE DEF g, f, b, t, body
<1>7. IsSeq(function') /\ Len(function') = n /\ \A i \in 1..n : function'[i] = IF i = f THEN g ELSE function[i]
  BY <1>2, <1>3, IsSeqExcept
<1>8. \A i \in 1..n : FunctionOK(function'[i], i)
  BY <1>3, <1>6, <1>7
<1>9. LevelsOK(level', NULL)
  BY <1>4, OnlyGlobal
<1>10. CountsOK'
  BY <1>1, <1>4 DEF CountsOK, NULL
<1>11. 0 \in 0..n
  <2> HIDE DEF n
  <2> QED BY <1>3
<1> QED BY <1>1, <1>4, <1>7, <1>8, <1>9, <1>10, <1>11 DEF BInv, NULL

(* Each call keeps the invariant. *)
LEMMA NextInv ==
  ASSUME BInv, [Next]_vars
  PROVE  BInv'
<1>1. CASE \E parms \in ParameterLists : tree_code_create_function_initial(parms)
  BY <1>1, FunctionKeeps
<1>2. CASE tree_code_create_function_wrapup
  BY <1>2, WrapupKeeps
<1>3. ASSUME NEW v \in Variable,
             tree_code_create_variable(v, IF v \in Externals THEN "external" ELSE "automatic")
      PROVE  BInv'
  <2> DEFINE storage == IF v \in Externals THEN "external" ELSE "automatic"
  <2>1. storage = "external" <=> v \in Externals
    OBVIOUS
  <2> HIDE DEF storage
  <2> QED BY <1>3, <2>1, VariableKeeps DEF storage
<1>4. CASE tree_code_output_statement("return", << >>, << >>)
  <2> DEFINE op == "return"
             w == << >>
  <2>1. op \in {"call", "return"}
    OBVIOUS
  <2>2. tree_code_output_statement(op, w, w)
    BY <1>4
  <2> HIDE DEF op, w
  <2> QED BY <2>1, <2>2, StatementKeeps
<1>5. ASSUME NEW args \in ArgumentLists, tree_code_output_statement("call", args, Chained(args))
      PROVE  BInv'
  <2> DEFINE op == "call"
             w == Chained(args)
  <2>1. op \in {"call", "return"}
    OBVIOUS
  <2>2. tree_code_output_statement(op, args, w)
    BY <1>5
  <2> HIDE DEF op, w
  <2> QED BY <2>1, <2>2, StatementKeeps
<1>6. CASE tree_code_if_start
  BY <1>6, IfStartKeeps
<1>7. CASE tree_code_if_else
  BY <1>7, IfElseKeeps
<1>8. CASE tree_code_if_end
  BY <1>8, IfEndKeeps
<1>9. CASE UNCHANGED vars
  <2>1. level' = level /\ current_function_decl' = current_function_decl /\ function' = function /\ calls' = calls
    BY <1>9 DEF vars
  <2> QED BY <2>1 DEF BInv, CountsOK
<1> QED BY <1>1, <1>2, <1>3, <1>4, <1>5, <1>6, <1>7, <1>8, <1>9 DEF Next

(* The invariant holds whatever is called. *)
THEOREM BInvHolds == Spec => []BInv
<1>1. Init => BInv
  BY InitInv
<1>2. BInv /\ [Next]_vars => BInv'
  BY NextInv
<1> QED BY <1>1, <1>2, PTL DEF Spec

(* The state of pl1tree.c keeps to its types; the number of functions is     *)
(* bounded by the global names.                                              *)
THEOREM TypeOKHolds == Spec => []TypeOK
<1>1. BInv => TypeOK
  <2> SUFFICES ASSUME BInv PROVE TypeOK
    OBVIOUS
  <2>1. Len(level) >= 1 /\ DOMAIN level = 1..Len(level) /\ \A i \in 1..Len(level) : LevelOK(level[i])
    BY IsSeqFacts DEF BInv, LevelsOK
  <2>2. ASSUME NEW i \in DOMAIN level
        PROVE  /\ level[i].names \in Seq(Declaration)
               /\ \A j \in DOMAIN level[i].blocks : level[i].blocks[j].vars \in Seq(Declaration)
               /\ \A j \in DOMAIN level[i].stmts : level[i].stmts[j].op \in {"call", "return", "if"}
    <3> DEFINE l == level[i]
    <3>1. LevelOK(l)
      BY <2>1
    <3> HIDE DEF l
    <3>2. /\ l.names \in Seq(Declaration)
          /\ \A j \in DOMAIN l.blocks : l.blocks[j].vars \in Seq(Declaration)
          /\ \A j \in DOMAIN l.stmts : l.stmts[j].op \in {"call", "return", "if"}
      BY <3>1, IsSeqFacts DEF LevelOK
    <3> QED BY <3>2 DEF l
  <2>3. Len(function) <= MaxGlobals
    <3> DEFINE g == Len(level[1].names)
               p == Len(Predefined)
               n == Len(function)
    <3>1. g \in Nat /\ p \in Nat /\ n \in Nat
      <4>1. 1 \in DOMAIN level
        BY <2>1, IsSeqFacts DEF BInv, LevelsOK
      <4> QED BY <2>2, <4>1, IsSeqFacts, ListAssumption DEF ListAssumption, BInv
    <3>2. n + p <= g /\ g <= p + MaxGlobals
      BY DEF BInv
    <3> HIDE DEF g, p, n
    <3>3. n <= MaxGlobals
      BY <3>1, <3>2, BoundAssumption DEF BoundAssumption
    <3> QED BY <3>3 DEF n
  <2>4. \A f \in DOMAIN function : function[f].parms \in ParameterLists /\ Len(function[f].saved) <= 1
    BY IsSeqFacts DEF BInv, FunctionOK
  <2> QED BY <2>1, <2>2, <2>3, <2>4 DEF TypeOK, BInv
<1> QED BY <1>1, BInvHolds, PTL

(* Levels are open for the current function and its open IFs only, for any   *)
(* sequence of calls (pushlevel and poplevel in pl1tree.c).                  *)
THEOREM LevelsBalancedHolds == Spec => []LevelsBalanced
<1>1. BInv => LevelsBalanced
  BY DEF BInv, CountsOK, LevelsOK, GlobalOK, LevelsBalanced
<1> QED BY <1>1, BInvHolds, PTL

(* What is declared in a level or a block belongs to the function it stands  *)
(* in, at any depth; external objects and global ones belong to none         *)
(* (pushdecl).                                                               *)
THEOREM ContextsRightHolds == Spec => []ContextsRight
<1>1. BInv => ContextsRight
  <2> SUFFICES ASSUME BInv PROVE ContextsRight
    OBVIOUS
  <2>1. \A i \in DOMAIN level[1].names : level[1].names[i].context = NULL
    <3> DEFINE names == level[1].names
    <3>1. GlobalOK(level[1]) /\ LevelOK(level[1])
      BY IsSeqFacts DEF BInv, LevelsOK
    <3>2. names \in Seq(Declaration) /\ \A i \in 1..Len(names) : names[i].context = NULL
      BY <3>1 DEF GlobalOK, LevelOK
    <3> HIDE DEF names
    <3>3. \A i \in DOMAIN names : names[i].context = NULL
      BY <3>2
    <3> QED BY <3>3 DEF names
  <2>2. \A i \in 2..Len(level) : Owned(AllIn(BlockOf(level[i])), current_function_decl)
    <3>1. \A i \in 2..Len(level) : LevelOwned(level[i], current_function_decl)
      BY DEF BInv, LevelsOK
    <3> QED BY <3>1, BlockOwned, AllInOwned
  <2>3. ASSUME NEW f \in DOMAIN function, function[f].initial # << >>
        PROVE  Owned(AllIn(function[f].initial[1]), f)
    <3>1. FunctionOK(function[f], f)
      BY IsSeqFacts DEF BInv
    <3> QED BY <2>3, <3>1, AllInOwned DEF FunctionOK
  <2> QED BY <2>1, <2>2, <2>3 DEF ContextsRight
<1> QED BY <1>1, BInvHolds, PTL

--------------------------------------------------------------------------------
(* The variables, the blocks and the statements of block k after the first   *)
(* m calls, when B and S are the blocks and the statements of the branches.  *)
VarsUpTo(c, k, m) == Reverse(Map(LAMBDA i : c[i].what, Ascending(Standing(c, k, {"var"}), m)))
BlocksUpTo(c, B, k, m) ==
  FlattenSeq(Map(LAMBDA i : << B[i], B[ElseOf(c, i)] >>, Ascending(Standing(c, k, {"if"}), m)))
Reading(c, B, S, i) ==
  IF c[i].op = "if"
  THEN [op |-> "if", what |-> c[i].what, then |-> Branch(B[i], S[i]),
        else |-> Branch(B[ElseOf(c, i)], S[ElseOf(c, i)])]
  ELSE c[i]
StmtsUpTo(c, B, S, k, m) ==
  Map(LAMBDA i : Reading(c, B, S, i), Ascending(Standing(c, k, {"call", "return", "if"}), m))

(* An IF without its ELSE. *)
OpenStatement(c, i, t) == [op |-> "if", what |-> c[i].what, then |-> t, else |-> << >>]

(* After the first m calls r blocks are open: P[1], ..., P[r]. *)
BlocksOpen(c, m, r, P) ==
  /\ Depth(c, m + 1) = r - 1
  /\ P[1] = 0
  /\ \A d \in 1..r : P[d] \in 0..m /\ LastOpened(c, m + 1, d - 1, P[d])
  /\ \A d, e \in 1..r : d < e => P[d] < P[e]

(* I[d] is the IF that is open in P[d]; P[d + 1] is one of its branches. *)
IfOpen(c, m, p, i, q) ==
  /\ i \in 1..m /\ p < i /\ c[i].op = "if" /\ StandsIn(c, i, p)
  /\ \A j \in (i + 1)..m : ~StandsIn(c, j, p)
  /\ q = i \/ (q \in 1..m /\ IsElseOf(c, i, q))

IfsOpen(c, m, r, P, I) == \A d \in 1..(r - 1) : IfOpen(c, m, P[d], I[d], P[d + 1])

(* Every other IF has an ELSE, and both are closed. *)
IfsClosed(c, m, r, P, I) ==
  \A i \in 1..m : c[i].op = "if" =>
    \/ \E d \in 1..(r - 1) : i = I[d]
    \/ \E j \in 1..m : IsElseOf(c, i, j) /\ \A d \in 1..r : P[d] # i /\ P[d] # j

BlocksClosed(c, m, r, P, B, S) ==
  \A k \in 1..m : Opens(c, k) /\ (\A d \in 1..r : P[d] # k) =>
    /\ B[k] = [vars |-> VarsUpTo(c, k, m), blocks |-> BlocksUpTo(c, B, k, m)]
    /\ S[k] = StmtsUpTo(c, B, S, k, m)

(* The innermost level, and one around an IF. *)
InnerIs(c, m, l, p, B, S) ==
  /\ l.names = VarsUpTo(c, p, m)
  /\ l.blocks = BlocksUpTo(c, B, p, m)
  /\ l.stmts = StmtsUpTo(c, B, S, p, m)

OuterIs(c, m, l, p, i, q, B, S) ==
  /\ l.names = VarsUpTo(c, p, m)
  /\ q = i => /\ l.blocks = BlocksUpTo(c, B, p, i - 1)
              /\ l.stmts = Append(StmtsUpTo(c, B, S, p, i - 1), OpenStatement(c, i, << >>))
  /\ q # i => /\ l.blocks = Append(BlocksUpTo(c, B, p, i - 1), B[i])
              /\ l.stmts = Append(StmtsUpTo(c, B, S, p, i - 1), OpenStatement(c, i, Branch(B[i], S[i])))

LevelsMean(c, m, lev, r, P, I, B, S) ==
  /\ InnerIs(c, m, lev[r + 1], P[r], B, S)
  /\ \A d \in 1..(r - 1) : OuterIs(c, m, lev[d + 1], P[d], I[d], P[d + 1], B, S)

MeanWith(c, m, lev, r, P, I, B, S) ==
  /\ BlocksOpen(c, m, r, P) /\ IfsOpen(c, m, r, P, I) /\ IfsClosed(c, m, r, P, I)
  /\ BlocksClosed(c, m, r, P, B, S) /\ LevelsMean(c, m, lev, r, P, I, B, S)

(* The list of the first k elements, the last one first. *)
Backward(list, k) == [i \in 1..k |-> list[(k - i) + 1]]

(* A list built with chainon is the list backward. *)
LEMMA ChainedFold ==
  ASSUME NEW list \in Seq(STRING)
  PROVE  FoldLeft(tree_code_add_parameter, << >>, list) = Backward(list, Len(list))
<1> DEFINE T == Seq(STRING)
           n == Len(list)
           base == << >>
           F == [p \in T \X (1..n) |-> << list[p[2]] >> \o p[1]]
           Eq(g) == g = [s \in SUBSET (DOMAIN list) |->
                           IF s = {} THEN base ELSE << list[Max(s)] >> \o g[s \ {Max(s)}]]
           h == CHOOSE g : Eq(g)
<1>1. n \in Nat /\ DOMAIN list = 1..n /\ \A i \in 1..n : list[i] \in STRING
  OBVIOUS
<1>2. F \in [T \X (1..n) -> T]
  <2>1. \A r \in T, i \in 1..n : << list[i] >> \o r \in T
    BY <1>1
  <2> HIDE DEF T
  <2> QED BY <2>1
<1>b. base \in T
  OBVIOUS
<1>3. \E g : Eq(g)
  <2>1. PICK g \in [SUBSET (1..n) -> T] : FoldEquation(g, n, F, base)
    <3> HIDE DEF T, F, base
    <3> QED BY <1>1, <1>2, <1>b, FoldExists
  <2> HIDE DEF T, F, base
  <2>2. Eq(g)
    BY <1>1, <2>1 DEF FoldEquation, F, base
  <2> HIDE DEF Eq
  <2> QED BY <2>2
<1>4. Eq(h)
  <2> HIDE DEF Eq
  <2> QED BY <1>3
<1>5. FoldLeft(tree_code_add_parameter, << >>, list) = h[DOMAIN list]
  BY DEF FoldLeft, MapThenFoldSet, tree_code_add_parameter
<1>6. Solves(h, DOMAIN list, T, n, F, base)
  <2> HIDE DEF h, T
  <2> QED BY <1>1, <1>4 DEF Solves
<1>7. PICK acc : Steps(acc, T, n, F, base, h[DOMAIN list])
  <2>1. n \in Nat
    BY <1>1
  <2> HIDE DEF h, F, T, n, base
  <2> QED BY <1>2, <1>6, <1>b, <2>1, FoldSteps
<1>8. \A k \in 1..n : k - 1 \in 0..n /\ acc[k] = << list[k] >> \o acc[k - 1]
  <2>1. \A k \in 1..n : k - 1 \in 0..n
    BY <1>1
  <2> HIDE DEF T, n
  <2> QED BY <1>7, <2>1 DEF Steps
<1>9. acc[0] = << >> /\ acc[n] = h[DOMAIN list] /\ acc \in [0..n -> T]
  <2> HIDE DEF h, F, T, n
  <2> QED BY <1>7 DEF Steps
<1> HIDE DEF h
<1> DEFINE S == {k \in Nat : k <= n => acc[k] = Backward(list, k)}
<1>10. 0 \in S
  BY <1>9 DEF Backward
<1>11. ASSUME NEW k \in Nat, k \in S PROVE k + 1 \in S
  <2> SUFFICES ASSUME k + 1 <= n PROVE acc[k + 1] = Backward(list, k + 1)
    OBVIOUS
  <2>a. k + 1 \in 1..n /\ k \in 0..n /\ k <= n /\ (k + 1) - 1 = k
    BY <1>1
  <2>b. acc[k] = Backward(list, k)
    BY <1>11, <2>a
  <2>c. acc[k] \in T
    <3> HIDE DEF T
    <3> QED BY <1>9, <2>a
  <2>1. acc[k] = Backward(list, k) /\ acc[k] \in T /\ k + 1 \in 1..n /\ (k + 1) - 1 = k /\ list[k + 1] \in STRING
    BY <1>1, <2>a, <2>b, <2>c
  <2> DEFINE s == Backward(list, k)
             x == list[k + 1]
             t == << x >> \o s
  <2>2. acc[k + 1] = t
    BY <1>8, <2>1
  <2>3. s \in Seq(STRING) /\ Len(s) = k /\ \A i \in 1..k : s[i] = list[(k - i) + 1]
    BY <2>1 DEF Backward
  <2>4. /\ t \in Seq(STRING) /\ Len(t) = k + 1
        /\ \A i \in 1..Len(t) : t[i] = IF i <= 1 THEN << x >>[i] ELSE s[i - 1]
    <3> HIDE DEF s, x
    <3>1. << x >> \in Seq(STRING) /\ Len(<< x >>) = 1
      BY <2>1 DEF x
    <3> QED BY <2>3, <3>1, ConcatProperties
  <2> HIDE DEF s, t
  <2>5. \A i \in 1..(k + 1) : t[i] = list[((k + 1) - i) + 1]
    <3>1. t[1] = list[k + 1]
      BY <2>4
    <3>2. ASSUME NEW i \in 2..(k + 1) PROVE t[i] = list[((k + 1) - i) + 1]
      <4>1. t[i] = s[i - 1] /\ i - 1 \in 1..k
        BY <2>4
      <4> QED BY <2>3, <4>1
    <3> QED BY <3>1, <3>2
  <2>6. t = [i \in 1..(k + 1) |-> t[i]]
    BY <2>4
  <2> QED BY <2>2, <2>5, <2>6 DEF Backward
<1>12. n \in S
  <2> HIDE DEF S
  <2> QED BY <1>1, <1>10, <1>11, NatSetInduction
<1> QED BY <1>1, <1>5, <1>9, <1>12

(* nreverse restores the order (Chained in pl1tree.c). *)
LEMMA ChainedIs ==
  ASSUME NEW list \in Seq(STRING)
  PROVE  Chained(list) = list
<1> DEFINE b == Backward(list, Len(list))
<1>1. b \in Seq(STRING) /\ Len(b) = Len(list) /\ \A i \in 1..Len(list) : b[i] = list[(Len(list) - i) + 1]
  BY DEF Backward
<1>2. Chained(list) = Reverse(b)
  BY ChainedFold DEF Chained
<1> HIDE DEF b
<1>3. Reverse(b) = [i \in 1..Len(list) |-> list[i]]
  <2>1. \A i \in 1..Len(list) : b[(Len(list) - i) + 1] = list[i]
    BY <1>1
  <2> QED BY <1>1, <2>1 DEF Reverse
<1> QED BY <1>2, <1>3

(* The types of the parameters and void. *)
LEMMA PrototypeIs ==
  ASSUME NEW list \in Seq(STRING)
  PROVE  tree_code_create_function_prototype(list) = Append(list, "void")
<1> DEFINE n == Len(list)
           b == Backward(list, n)
           x == "void"
           t == << x >> \o b
           a == Append(list, x)
           T == STRING \cup {x}
<1>1. n \in Nat /\ b \in Seq(T) /\ Len(b) = n /\ \A i \in 1..n : b[i] = list[(n - i) + 1]
  BY DEF Backward
<1>2. tree_code_create_function_prototype(list) = Reverse(t)
  BY ChainedFold DEF tree_code_create_function_prototype
<1> HIDE DEF b
<1>3. /\ t \in Seq(T) /\ Len(t) = n + 1
      /\ \A i \in 1..Len(t) : t[i] = IF i <= 1 THEN << x >>[i] ELSE b[i - 1]
  <2>0. x \in T
    OBVIOUS
  <2> HIDE DEF x, n, T
  <2>1. << x >> \in Seq(T) /\ Len(<< x >>) = 1
    BY <2>0
  <2> QED BY <1>1, <2>1, ConcatProperties
<1> HIDE DEF t, x
<1>4. /\ a \in Seq(STRING \cup {x}) /\ Len(a) = n + 1 /\ a[n + 1] = x
      /\ \A i \in 1..n : a[i] = list[i]
  OBVIOUS
<1> HIDE DEF a, n
<1>5. \A i \in 1..(n + 1) : t[((n + 1) - i) + 1] = a[i]
  <2>1. t[1] = x
    BY <1>1, <1>3
  <2>2. ASSUME NEW i \in 1..n PROVE t[((n + 1) - i) + 1] = a[i]
    <3>1. ((n + 1) - i) + 1 \in 2..(n + 1) /\ (((n + 1) - i) + 1) - 1 = (n + 1) - i
      BY <1>1
    <3>2. t[((n + 1) - i) + 1] = b[(n + 1) - i] /\ (n + 1) - i \in 1..n
      BY <1>1, <1>3, <3>1
    <3>3. (n - ((n + 1) - i)) + 1 = i
      BY <1>1
    <3> QED BY <1>1, <1>4, <3>2, <3>3
  <2>3. ((n + 1) - (n + 1)) + 1 = 1
    BY <1>1
  <2> QED BY <1>1, <1>4, <2>1, <2>2, <2>3
<1>6. Reverse(t) = [i \in 1..(n + 1) |-> a[i]]
  BY <1>3, <1>5 DEF Reverse
<1>7. a = [i \in 1..(n + 1) |-> a[i]]
  BY <1>4
<1> QED BY <1>2, <1>6, <1>7 DEF a, x

(* One more position. *)
NextAscending(X, s, i) == IF i \in X THEN Append(s, i) ELSE s

(* The fold of Ascending. *)
LEMMA AscendingFold ==
  ASSUME NEW X, NEW n \in Nat
  PROVE  \E acc \in [0..n -> Seq(Nat)] :
           /\ acc[0] = << >>
           /\ \A k \in 1..n : acc[k] = NextAscending(X, acc[k - 1], k)
           /\ Ascending(X, n) = acc[n]
<1> DEFINE T == Seq(Nat)
           list == [i \in 1..n |-> i]
           base == << >>
           F == [p \in T \X (1..n) |-> NextAscending(X, p[1], p[2])]
           Eq(g) == g = [s \in SUBSET (DOMAIN list) |->
                           IF s = {} THEN base ELSE NextAscending(X, g[s \ {Max(s)}], list[Max(s)])]
           h == CHOOSE g : Eq(g)
<1>1. DOMAIN list = 1..n /\ \A i \in 1..n : list[i] = i
  OBVIOUS
<1>2. F \in [T \X (1..n) -> T]
  <2>1. \A r \in T, i \in 1..n : NextAscending(X, r, i) \in T
    <3>1. \A r \in T, i \in 1..n : Append(r, i) \in T
      OBVIOUS
    <3> QED BY <3>1 DEF NextAscending
  <2> HIDE DEF T
  <2> QED BY <2>1
<1>b. base \in T
  OBVIOUS
<1>5. Ascending(X, n) = h[DOMAIN list]
  BY DEF Ascending, FoldLeft, MapThenFoldSet, NextAscending
<1> HIDE DEF list
<1>3. \E g : Eq(g)
  <2>1. PICK g \in [SUBSET (1..n) -> T] : FoldEquation(g, n, F, base)
    <3> HIDE DEF T, F, base
    <3> QED BY <1>1, <1>2, <1>b, FoldExists
  <2>2. \A s \in SUBSET (1..n) : s # {} =>
          Max(s) \in 1..n /\ g[s \ {Max(s)}] \in T /\ g[s] = NextAscending(X, g[s \ {Max(s)}], list[Max(s)])
    <3>1. ASSUME NEW s \in SUBSET (1..n), s # {}
          PROVE Max(s) \in 1..n /\ g[s \ {Max(s)}] \in T /\ g[s] = NextAscending(X, g[s \ {Max(s)}], list[Max(s)])
      <4>1. Max(s) \in s /\ g[s] = F[<< g[s \ {Max(s)}], Max(s) >>]
        BY <2>1, <3>1 DEF FoldEquation
      <4>2. Max(s) \in 1..n /\ g[s \ {Max(s)}] \in T
        <5> HIDE DEF T
        <5> QED BY <4>1
      <4> HIDE DEF T
      <4> QED BY <1>1, <4>1, <4>2
    <3> QED BY <3>1
  <2>3. g[{}] = base /\ DOMAIN g = SUBSET (1..n)
    BY <2>1 DEF FoldEquation
  <2>4. g = [s \in SUBSET (1..n) |-> g[s]]
    <3> HIDE DEF T
    <3> QED BY <2>1
  <2>5. \A s \in SUBSET (1..n) : g[s] = IF s = {} THEN base ELSE NextAscending(X, g[s \ {Max(s)}], list[Max(s)])
    BY <2>2, <2>3
  <2>6. g = [s \in SUBSET (1..n) |-> IF s = {} THEN base ELSE NextAscending(X, g[s \ {Max(s)}], list[Max(s)])]
    <3> HIDE DEF T, base
    <3> QED BY <2>4, <2>5, Zenon
  <2>7. Eq(g)
    BY <1>1, <2>6
  <2> HIDE DEF Eq
  <2> QED BY <2>7
<1>4. Eq(h)
  <2> HIDE DEF Eq
  <2> QED BY <1>3
<1>6. Solves(h, DOMAIN list, T, n, F, base)
  <2>1. \A s \in SUBSET (1..n) : h[s] = IF s = {} THEN base ELSE NextAscending(X, h[s \ {Max(s)}], list[Max(s)])
    <3> HIDE DEF h, T, base
    <3> QED BY <1>1, <1>4
  <2>2. ASSUME NEW s \in SUBSET (1..n), s # {}, h[s \ {Max(s)}] \in T, Max(s) \in 1..n
        PROVE h[s] = F[<< h[s \ {Max(s)}], Max(s) >>]
    <3> HIDE DEF h, T, base
    <3> QED BY <1>1, <2>1, <2>2
  <2>3. h[{}] = base
    <3> HIDE DEF h, T, base
    <3> QED BY <2>1
  <2> HIDE DEF h, T, F
  <2> QED BY <1>1, <2>2, <2>3 DEF Solves
<1>7. PICK acc : Steps(acc, T, n, F, base, h[DOMAIN list])
  <2> HIDE DEF h, F, T, base
  <2> QED BY <1>2, <1>6, <1>b, FoldSteps
<1>8. \A k \in 1..n : acc[k] = NextAscending(X, acc[k - 1], k)
  <2>1. \A k \in 1..n : k - 1 \in 0..n
    OBVIOUS
  <2> HIDE DEF T
  <2> QED BY <1>7, <2>1 DEF Steps
<1>9. acc[0] = << >> /\ acc[n] = h[DOMAIN list] /\ acc \in [0..n -> T]
  <2> HIDE DEF h, F, T
  <2> QED BY <1>7 DEF Steps
<1> HIDE DEF h
<1> QED BY <1>5, <1>8, <1>9

(* What Ascending does with one more position. *)
LEMMA AscendingStep ==
  ASSUME NEW X
  PROVE  /\ Ascending(X, 0) = << >>
         /\ \A n \in Nat : Ascending(X, n + 1) = NextAscending(X, Ascending(X, n), n + 1)
<1>1. Ascending(X, 0) = << >>
  BY AscendingFold
<1>2. ASSUME NEW n \in Nat PROVE Ascending(X, n + 1) = NextAscending(X, Ascending(X, n), n + 1)
  <2>1. PICK a : /\ a[0] = << >> /\ \A k \in 1..n : a[k] = NextAscending(X, a[k - 1], k)
                 /\ Ascending(X, n) = a[n]
    BY AscendingFold
  <2>2. PICK b : /\ b[0] = << >> /\ \A k \in 1..(n + 1) : b[k] = NextAscending(X, b[k - 1], k)
                 /\ Ascending(X, n + 1) = b[n + 1]
    <3>1. n + 1 \in Nat
      OBVIOUS
    <3> QED BY <3>1, AscendingFold
  <2> DEFINE S == {k \in Nat : k <= n => a[k] = b[k]}
  <2>3. 0 \in S
    BY <2>1, <2>2
  <2>4. ASSUME NEW k \in Nat, k \in S PROVE k + 1 \in S
    <3> SUFFICES ASSUME k + 1 <= n PROVE a[k + 1] = b[k + 1]
      OBVIOUS
    <3>1. a[k] = b[k] /\ k + 1 \in 1..n /\ k + 1 \in 1..(n + 1) /\ (k + 1) - 1 = k
      BY <2>4
    <3> QED BY <2>1, <2>2, <3>1
  <2>5. n \in S
    <3> HIDE DEF S
    <3> QED BY <2>3, <2>4, NatSetInduction
  <2>6. n + 1 \in 1..(n + 1) /\ (n + 1) - 1 = n
    OBVIOUS
  <2> QED BY <2>1, <2>2, <2>5, <2>6
<1> QED BY <1>1, <1>2

(* Ascending gives positions of X. *)
LEMMA AscendingIn ==
  ASSUME NEW X, NEW n \in Nat
  PROVE  /\ Ascending(X, n) \in Seq(Nat)
         /\ \A j \in 1..Len(Ascending(X, n)) : Ascending(X, n)[j] \in X /\ Ascending(X, n)[j] \in 1..n
<1> DEFINE P(k) == LET s == Ascending(X, k)
                   IN  s \in Seq(Nat) /\ \A j \in 1..Len(s) : s[j] \in X /\ s[j] \in 1..k
           S == {k \in Nat : P(k)}
<1>1. 0 \in S
  <2>1. Ascending(X, 0) = << >> /\ << >> \in Seq(Nat) /\ Len(<< >>) = 0
    BY AscendingStep
  <2> DEFINE s == Ascending(X, 0)
  <2>2. s \in Seq(Nat) /\ Len(s) = 0
    BY <2>1
  <2> HIDE DEF s
  <2>3. \A j \in 1..Len(s) : FALSE
    BY <2>2
  <2>4. s \in Seq(Nat) /\ \A j \in 1..Len(s) : s[j] \in X /\ s[j] \in 1..0
    BY <2>2, <2>3
  <2> QED BY <2>4 DEF s
<1>2. ASSUME NEW k \in Nat, k \in S PROVE k + 1 \in S
  <2> DEFINE s == Ascending(X, k)
             t == Ascending(X, k + 1)
             a == Append(s, k + 1)
  <2>1. s \in Seq(Nat) /\ Len(s) \in Nat /\ \A j \in 1..Len(s) : s[j] \in X /\ s[j] \in 1..k
    BY <1>2
  <2>2. t = IF k + 1 \in X THEN a ELSE s
    BY AscendingStep DEF NextAscending
  <2>3. a \in Seq(Nat) /\ Len(a) = Len(s) + 1 /\ a[Len(s) + 1] = k + 1 /\ \A j \in 1..Len(s) : a[j] = s[j]
    <3> HIDE DEF s
    <3> QED BY <2>1
  <2> HIDE DEF s, t, a
  <2>4. \A j \in 1..Len(s) : s[j] \in 1..(k + 1)
    BY <2>1
  <2>5. CASE k + 1 \in X
    <3>1. ASSUME NEW j \in 1..(Len(s) + 1) PROVE a[j] \in X /\ a[j] \in 1..(k + 1)
      <4>1. CASE j \in 1..Len(s)
        <5>1. a[j] = s[j] /\ s[j] \in X /\ s[j] \in 1..(k + 1)
          BY <2>1, <2>3, <2>4, <4>1
        <5> QED BY <5>1
      <4>2. CASE j = Len(s) + 1
        <5>1. a[j] = k + 1 /\ k + 1 \in 1..(k + 1)
          BY <2>3, <4>2
        <5> QED BY <2>5, <5>1
      <4>3. Len(s) \in Nat
        BY <2>1
      <4> QED BY <4>1, <4>2, <4>3
    <3> QED BY <2>2, <2>3, <2>5, <3>1 DEF t
  <2>6. CASE k + 1 \notin X
    BY <2>1, <2>2, <2>4, <2>6 DEF t
  <2> QED BY <2>5, <2>6
<1>3. n \in S
  <2> HIDE DEF S
  <2> QED BY <1>1, <1>2, NatSetInduction
<1> QED BY <1>3

(* Positions that are not in X leave Ascending as it was. *)
LEMMA AscendingIdle ==
  ASSUME NEW X, NEW u \in Nat, NEW n \in Nat, u <= n, \A j \in (u + 1)..n : j \notin X
  PROVE  Ascending(X, n) = Ascending(X, u)
<1> DEFINE S == {k \in Nat : u + k <= n => Ascending(X, u + k) = Ascending(X, u)}
<1>1. 0 \in S
  OBVIOUS
<1>2. ASSUME NEW k \in Nat, k \in S PROVE k + 1 \in S
  <2> SUFFICES ASSUME u + (k + 1) <= n PROVE Ascending(X, u + (k + 1)) = Ascending(X, u)
    OBVIOUS
  <2>1. Ascending(X, u + k) = Ascending(X, u)
    BY <1>2
  <2>2. u + k \in Nat /\ u + (k + 1) = (u + k) + 1 /\ u + (k + 1) \in (u + 1)..n
    OBVIOUS
  <2> QED BY <2>1, <2>2, AscendingStep DEF NextAscending
<1>3. n - u \in S
  <2>1. n - u \in Nat
    OBVIOUS
  <2> HIDE DEF S
  <2> QED BY <1>1, <1>2, <2>1, NatSetInduction
<1>4. u + (n - u) = n
  OBVIOUS
<1> QED BY <1>3, <1>4

(* Two elements behind a sequence. *)
AppendTwo(s, a, b) == Append(Append(s, a), b)

(* They are a sequence put behind it. *)
LEMMA TwoPut ==
  ASSUME NEW s, IsSeq(s), NEW a, NEW b
  PROVE  s \o << a, b >> = AppendTwo(s, a, b) /\ IsSeq(AppendTwo(s, a, b))
<1>1. PICK T : s \in Seq(T)
  BY DEF IsSeq
<1> DEFINE U == T \cup {a, b}
           n == Len(s)
           p == << a, b >>
           l == s \o p
           r == Append(Append(s, a), b)
<1>2. s \in Seq(U) /\ a \in U /\ b \in U /\ n \in Nat
  BY <1>1
<1> HIDE DEF U
<1>3. p \in Seq(U) /\ Len(p) = 2 /\ p[1] = a /\ p[2] = b
  BY <1>2
<1> HIDE DEF p
<1>4. l \in Seq(U) /\ Len(l) = n + 2 /\ \A i \in 1..Len(l) : l[i] = IF i <= n THEN s[i] ELSE p[i - n]
  <2>1. /\ s \o p \in Seq(U) /\ Len(s \o p) = Len(s) + Len(p)
        /\ \A i \in 1..(Len(s) + Len(p)) : (s \o p)[i] = IF i <= Len(s) THEN s[i] ELSE p[i - Len(s)]
    BY <1>2, <1>3, ConcatProperties
  <2> HIDE DEF n
  <2> QED BY <1>3, <2>1 DEF n
<1>5. /\ r \in Seq(U) /\ Len(r) = n + 2 /\ r[n + 1] = a /\ r[n + 2] = b
      /\ \A i \in 1..n : r[i] = s[i]
  BY <1>2
<1> HIDE DEF l, r, n
<1>6. \A i \in 1..(n + 2) : l[i] = r[i]
  <2>1. \A i \in 1..(n + 2) : i \in 1..n \/ i = n + 1 \/ i = n + 2
    BY <1>2
  <2>2. (n + 1) - n = 1 /\ (n + 2) - n = 2 /\ ~(n + 1 <= n) /\ ~(n + 2 <= n)
    BY <1>2
  <2>3. n + 1 \in 1..(n + 2) /\ n + 2 \in 1..(n + 2)
    BY <1>2
  <2>4. l[n + 1] = a /\ l[n + 2] = b
    BY <1>3, <1>4, <2>2, <2>3
  <2>5. \A i \in 1..n : l[i] = s[i]
    BY <1>2, <1>4
  <2> QED BY <1>5, <2>1, <2>4, <2>5
<1>7. l = r
  <2>1. l = [i \in 1..(n + 2) |-> l[i]] /\ r = [i \in 1..(n + 2) |-> r[i]]
    BY <1>4, <1>5
  <2> QED BY <1>6, <2>1
<1> QED BY <1>5, <1>7 DEF l, r, p, AppendTwo, IsSeq

(* A sequence of pairs. *)
Pairs(s) == IsSeq(s) /\ \A i \in 1..Len(s) : \E a, b : s[i] = << a, b >>

(* A pair is a sequence. *)
LEMMA PairIs ==
  ASSUME NEW a, NEW b
  PROVE  IsSeq(<< a, b >>) /\ << a, b >> = AppendTwo(<< >>, a, b)
<1> DEFINE U == {a, b}
<1>1. << a, b >> \in Seq(U)
  OBVIOUS
<1>2. << a, b >> = AppendTwo(<< >>, a, b)
  BY DEF AppendTwo
<1> QED BY <1>1, <1>2 DEF IsSeq

(* One more pair behind the others. *)
LEMMA FlatStep ==
  ASSUME NEW s, Pairs(s), NEW a, NEW b
  PROVE  /\ IsSeq(FlattenSeq(s)) /\ (s = << >> => FlattenSeq(s) = << >>)
         /\ FlattenSeq(Append(s, << a, b >>)) = AppendTwo(FlattenSeq(s), a, b)
<1> DEFINE p == << a, b >>
           t == Append(s, p)
           n == Len(s)
<1>1. n \in Nat /\ IsSeq(s)
  BY IsSeqFacts DEF Pairs
<1>2. Len(t) = n + 1 /\ t[n + 1] = p /\ \A i \in 1..n : t[i] = s[i]
  BY <1>1, IsSeqAppend
<1>3. IsSeq(p) /\ p = AppendTwo(<< >>, a, b)
  BY PairIs
<1>4. CASE n = 0
  <2>1. FlattenSeq(s) = << >> /\ s = << >>
    BY <1>1, <1>4, FlatIs, IsSeqFacts
  <2>2. PICK g : FlatSteps(g, t) /\ FlattenSeq(t) = g[1]
    <3>1. Len(t) \in Nat /\ Len(t) # 0 /\ Len(t) = 1
      BY <1>1, <1>2, <1>4
    <3> HIDE DEF t
    <3> QED BY <3>1, FlatIs
  <2>3. FlattenSeq(t) = p
    <3>1. g[1] = t[1] /\ t[1] = p
      BY <1>2, <1>4, <2>2 DEF FlatSteps
    <3> QED BY <2>2, <3>1
  <2> HIDE DEF p
  <2> QED BY <1>3, <2>1, <2>3, IsSeqEmpty DEF p
<1>5. CASE n # 0
  <2>1. PICK f : FlatSteps(f, s) /\ FlattenSeq(s) = f[n]
    BY <1>1, <1>5, FlatIs
  <2>2. PICK g : FlatSteps(g, t) /\ FlattenSeq(t) = g[n + 1]
    <3>1. Len(t) \in Nat /\ Len(t) # 0 /\ Len(t) = n + 1
      BY <1>1, <1>2
    <3> HIDE DEF t
    <3> QED BY <3>1, FlatIs
  <2> HIDE DEF t, p
  <2>f. f[1] = s[1] /\ \A i \in 1..n : i # 1 => f[i] = f[i - 1] \o s[i]
    BY <2>1 DEF FlatSteps
  <2>g. g[1] = t[1] /\ \A i \in 1..(n + 1) : i # 1 => g[i] = g[i - 1] \o t[i]
    BY <1>2, <2>2 DEF FlatSteps
  <2>s. \A i \in 1..n : \E x, y : s[i] = << x, y >>
    BY DEF Pairs
  <2> HIDE DEF n
  <2> DEFINE S == {k \in Nat : k + 1 <= n => f[k + 1] = g[k + 1] /\ IsSeq(f[k + 1])}
  <2>3. 0 \in S
    <3>1. f[1] = g[1]
      BY <1>1, <1>2, <1>5, <2>f, <2>g
    <3>2. IsSeq(f[1])
      <4>1. PICK x, y : s[1] = << x, y >>
        BY <1>1, <1>5, <2>s
      <4> QED BY <2>f, <4>1, PairIs
    <3> QED BY <3>1, <3>2
  <2>4. ASSUME NEW k \in Nat, k \in S PROVE k + 1 \in S
    <3> SUFFICES ASSUME (k + 1) + 1 <= n PROVE f[(k + 1) + 1] = g[(k + 1) + 1] /\ IsSeq(f[(k + 1) + 1])
      OBVIOUS
    <3> DEFINE i == (k + 1) + 1
    <3>1. i \in 1..n /\ i # 1 /\ i - 1 = k + 1 /\ i \in 1..(n + 1) /\ k + 1 <= n
      BY <1>1
    <3>2. f[i - 1] = g[i - 1] /\ IsSeq(f[i - 1])
      BY <2>4, <3>1
    <3> HIDE DEF i
    <3>3. PICK x, y : s[i] = << x, y >>
      BY <2>s, <3>1
    <3>4. f[i] = f[i - 1] \o << x, y >> /\ g[i] = g[i - 1] \o << x, y >>
      BY <1>2, <2>f, <2>g, <3>1, <3>3
    <3> DEFINE z == f[i - 1]
    <3>5. f[i] = z \o << x, y >> /\ g[i] = z \o << x, y >> /\ IsSeq(z)
      BY <3>2, <3>4
    <3> HIDE DEF z
    <3>6. f[i] = g[i] /\ IsSeq(f[i])
      BY <3>5, TwoPut
    <3> QED BY <3>6 DEF i
  <2>5. n - 1 \in S
    <3>1. n - 1 \in Nat
      BY <1>1, <1>5
    <3> HIDE DEF S
    <3> QED BY <2>3, <2>4, <3>1, NatSetInduction
  <2>6. f[n] = g[n] /\ IsSeq(f[n])
    <3>1. (n - 1) + 1 = n /\ n <= n
      BY <1>1
    <3> QED BY <2>5, <3>1
  <2>7. g[n + 1] = g[n] \o p
    <3>1. n + 1 \in 1..(n + 1) /\ n + 1 # 1 /\ (n + 1) - 1 = n
      BY <1>1, <1>5
    <3> QED BY <1>2, <2>g, <3>1
  <2> DEFINE z == f[n]
  <2>8. FlattenSeq(s) = z /\ FlattenSeq(t) = z \o p /\ IsSeq(z)
    BY <2>1, <2>2, <2>6, <2>7
  <2> HIDE DEF z
  <2>9. FlattenSeq(t) = AppendTwo(z, a, b)
    BY <2>8, TwoPut DEF p
  <2>10. s # << >>
    BY <1>1, <1>5, IsSeqFacts DEF n
  <2> QED BY <2>8, <2>9, <2>10 DEF t, p
<1> QED BY <1>4, <1>5

(* Reverse with one more element. *)
LEMMA ReverseStep ==
  ASSUME NEW s, IsSeq(s), NEW x
  PROVE  /\ Reverse(Append(s, x)) = << x >> \o Reverse(s)
         /\ IsSeq(Reverse(s)) /\ (s = << >> => Reverse(s) = << >>)
<1>1. PICK T : s \in Seq(T)
  BY DEF IsSeq
<1> DEFINE U == T \cup {x}
           n == Len(s)
           t == Append(s, x)
           r == Reverse(s)
           q == Reverse(t)
           w == << x >> \o r
<1>2. s \in Seq(U) /\ x \in U /\ n \in Nat
  BY <1>1
<1> HIDE DEF U
<1>3. t \in Seq(U) /\ Len(t) = n + 1 /\ t[n + 1] = x /\ \A i \in 1..n : t[i] = s[i]
  BY <1>2
<1>4. r \in Seq(U) /\ Len(r) = n /\ \A i \in 1..n : r[i] = s[(n - i) + 1]
  <2>1. r = [i \in 1..n |-> s[(n - i) + 1]]
    BY DEF Reverse
  <2>2. \A i \in 1..n : s[(n - i) + 1] \in U
    BY <1>2
  <2>3. r \in [1..n -> U] /\ \A i \in 1..n : r[i] = s[(n - i) + 1]
    BY <2>1, <2>2
  <2> HIDE DEF r, n
  <2> QED BY <1>2, <2>3
<1>5. q = [i \in 1..(n + 1) |-> t[((n + 1) - i) + 1]]
  BY <1>3 DEF Reverse
<1> HIDE DEF t, r, q
<1>6. w \in Seq(U) /\ Len(w) = 1 + n /\ \A i \in 1..Len(w) : w[i] = IF i <= 1 THEN << x >>[i] ELSE r[i - 1]
  <2>1. << x >> \in Seq(U) /\ Len(<< x >>) = 1
    BY <1>2
  <2> QED BY <1>2, <1>4, <2>1, ConcatProperties
<1> HIDE DEF w, n
<1>7. \A i \in 1..(n + 1) : w[i] = t[((n + 1) - i) + 1]
  <2>1. w[1] = x
    BY <1>2, <1>6
  <2>2. ((n + 1) - 1) + 1 = n + 1
    BY <1>2
  <2>3. ASSUME NEW i \in 2..(n + 1) PROVE w[i] = t[((n + 1) - i) + 1]
    <3>1. w[i] = r[i - 1] /\ i - 1 \in 1..n
      BY <1>2, <1>6
    <3>2. (n - (i - 1)) + 1 = ((n + 1) - i) + 1 /\ ((n + 1) - i) + 1 \in 1..n
      BY <1>2
    <3> QED BY <1>3, <1>4, <3>1, <3>2
  <2> QED BY <1>2, <1>3, <2>1, <2>2, <2>3
<1>8. w = [i \in 1..(n + 1) |-> w[i]]
  BY <1>2, <1>6
<1>9. q = w
  BY <1>5, <1>7, <1>8
<1>10. s = << >> => r = << >>
  BY <1>2, <1>4 DEF n
<1> QED BY <1>4, <1>9, <1>10 DEF q, w, t, r, IsSeq

(* A function applied to the elements of a list of positions. *)
Mapped(F, s) == [i \in 1..Len(s) |-> F[s[i]]]

(* One more position. *)
LEMMA MappedStep ==
  ASSUME NEW F, NEW s \in Seq(Nat), NEW x \in Nat
  PROVE  /\ IsSeq(Mapped(F, s)) /\ (s = << >> => Mapped(F, s) = << >>)
         /\ Len(Mapped(F, s)) = Len(s)
         /\ Mapped(F, Append(s, x)) = Append(Mapped(F, s), F[x])
<1> DEFINE n == Len(s)
           t == Append(s, x)
           a == Mapped(F, s)
           b == Append(a, F[x])
           c == Mapped(F, t)
           T == {F[s[i]] : i \in 1..n}
<1>1. n \in Nat /\ Len(t) = n + 1 /\ t[n + 1] = x /\ \A i \in 1..n : t[i] = s[i]
  OBVIOUS
<1>2. a \in Seq(T) /\ Len(a) = n /\ \A i \in 1..n : a[i] = F[s[i]]
  <2>1. a = [i \in 1..n |-> F[s[i]]]
    BY DEF Mapped
  <2>2. a \in [1..n -> T] /\ \A i \in 1..n : a[i] = F[s[i]]
    BY <2>1
  <2> HIDE DEF a, n, T
  <2> QED BY <1>1, <2>2
<1>3. c = [i \in 1..(n + 1) |-> F[t[i]]]
  BY <1>1 DEF Mapped
<1> HIDE DEF a, n, t, T
<1>4. IsSeq(a)
  BY <1>2 DEF IsSeq
<1>5. IsSeq(b) /\ Len(b) = n + 1 /\ b[n + 1] = F[x] /\ \A i \in 1..n : b[i] = a[i]
  BY <1>2, <1>4, IsSeqAppend
<1> HIDE DEF b, c
<1>6. b = [i \in 1..(n + 1) |-> b[i]]
  <2>1. PICK U : b \in Seq(U)
    BY <1>5 DEF IsSeq
  <2> QED BY <1>5, <2>1
<1>7. \A i \in 1..(n + 1) : b[i] = F[t[i]]
  <2>1. \A i \in 1..(n + 1) : i \in 1..n \/ i = n + 1
    BY <1>1
  <2> QED BY <1>1, <1>2, <1>5, <2>1
<1>8. c = b
  BY <1>3, <1>6, <1>7
<1>9. s = << >> => a = << >>
  <2>1. s = << >> => n = 0
    BY DEF n
  <2> QED BY <1>2, <1>4, <2>1, IsSeqFacts
<1> QED BY <1>2, <1>4, <1>8, <1>9 DEF a, b, c, t, n

(* What stands at the positions s when it is mapped to pairs. *)
LEMMA MappedPairs ==
  ASSUME NEW F, NEW s \in Seq(Nat), \A i \in Nat : \E a, b : F[i] = << a, b >>
  PROVE  Pairs(Mapped(F, s))
<1> DEFINE w == Mapped(F, s)
<1>1. IsSeq(w) /\ Len(w) = Len(s)
  BY MappedStep
<1>2. \A i \in 1..Len(s) : w[i] = F[s[i]] /\ s[i] \in Nat
  BY DEF Mapped
<1> HIDE DEF w
<1>3. \A i \in 1..Len(w) : \E a, b : w[i] = << a, b >>
  BY <1>1, <1>2
<1> QED BY <1>1, <1>3 DEF Pairs, w

(* Map as Mapped, for the three lists of a block. *)
WhatOf(c) == [i \in Nat |-> c[i].what]
PairOf(c, B) == [i \in Nat |-> << B[i], B[ElseOf(c, i)] >>]
ReadingOf(c, B, S) == [i \in Nat |-> Reading(c, B, S, i)]

(* The lists of a block in terms of Mapped. *)
LEMMA MapIs ==
  ASSUME NEW c, NEW B, NEW S, NEW k, NEW m \in Nat
  PROVE  /\ VarsUpTo(c, k, m) = Reverse(Mapped(WhatOf(c), Ascending(Standing(c, k, {"var"}), m)))
         /\ BlocksUpTo(c, B, k, m) = FlattenSeq(Mapped(PairOf(c, B), Ascending(Standing(c, k, {"if"}), m)))
         /\ StmtsUpTo(c, B, S, k, m) =
              Mapped(ReadingOf(c, B, S), Ascending(Standing(c, k, {"call", "return", "if"}), m))
<1> DEFINE v == Ascending(Standing(c, k, {"var"}), m)
           b == Ascending(Standing(c, k, {"if"}), m)
           s == Ascending(Standing(c, k, {"call", "return", "if"}), m)
<1>1. v \in Seq(Nat) /\ b \in Seq(Nat) /\ s \in Seq(Nat)
  BY AscendingIn
<1> HIDE DEF v, b, s
<1>2. DOMAIN v = 1..Len(v) /\ \A i \in 1..Len(v) : v[i] \in Nat
  BY <1>1
<1>3. DOMAIN b = 1..Len(b) /\ \A i \in 1..Len(b) : b[i] \in Nat
  BY <1>1
<1>4. DOMAIN s = 1..Len(s) /\ \A i \in 1..Len(s) : s[i] \in Nat
  BY <1>1
<1>5. VarsUpTo(c, k, m) = Reverse([i \in DOMAIN v |-> c[v[i]].what])
  BY DEF VarsUpTo, Map, v
<1>6. BlocksUpTo(c, B, k, m) = FlattenSeq([i \in DOMAIN b |-> << B[b[i]], B[ElseOf(c, b[i])] >>])
  BY DEF BlocksUpTo, Map, b
<1>7. StmtsUpTo(c, B, S, k, m) = [i \in DOMAIN s |-> Reading(c, B, S, s[i])]
  BY DEF StmtsUpTo, Map, s
<1>8. [i \in DOMAIN v |-> c[v[i]].what] = Mapped(WhatOf(c), v)
  <2>1. \A i \in 1..Len(v) : c[v[i]].what = WhatOf(c)[v[i]]
    BY <1>2 DEF WhatOf
  <2> QED BY <1>2, <2>1 DEF Mapped
<1>9. [i \in DOMAIN b |-> << B[b[i]], B[ElseOf(c, b[i])] >>] = Mapped(PairOf(c, B), b)
  <2>1. \A i \in 1..Len(b) : << B[b[i]], B[ElseOf(c, b[i])] >> = PairOf(c, B)[b[i]]
    BY <1>3 DEF PairOf
  <2> QED BY <1>3, <2>1 DEF Mapped
<1>10. [i \in DOMAIN s |-> Reading(c, B, S, s[i])] = Mapped(ReadingOf(c, B, S), s)
  <2>1. \A i \in 1..Len(s) : Reading(c, B, S, s[i]) = ReadingOf(c, B, S)[s[i]]
    BY <1>4 DEF ReadingOf
  <2> QED BY <1>4, <2>1 DEF Mapped
<1> QED BY <1>5, <1>6, <1>7, <1>8, <1>9, <1>10 DEF v, b, s

(* The lists of a block are empty before the first call. *)
LEMMA ListsStart ==
  ASSUME NEW c, NEW B, NEW S, NEW k
  PROVE  VarsUpTo(c, k, 0) = << >> /\ BlocksUpTo(c, B, k, 0) = << >> /\ StmtsUpTo(c, B, S, k, 0) = << >>
<1> DEFINE F == PairOf(c, B)
           G == WhatOf(c)
           H == ReadingOf(c, B, S)
           e == << >>
<1>1. \A i \in Nat : \E a, b : F[i] = << a, b >>
  BY DEF PairOf
<1>2. /\ VarsUpTo(c, k, 0) = Reverse(Mapped(G, e)) /\ BlocksUpTo(c, B, k, 0) = FlattenSeq(Mapped(F, e))
      /\ StmtsUpTo(c, B, S, k, 0) = Mapped(H, e)
  BY MapIs, AscendingStep
<1>3. e \in Seq(Nat) /\ e = << >>
  OBVIOUS
<1> HIDE DEF e, F, G, H
<1>4. Mapped(F, e) = << >> /\ Mapped(G, e) = << >> /\ Mapped(H, e) = << >>
  BY <1>3, MappedStep
<1>5. Pairs(Mapped(F, e))
  BY <1>1, <1>3, MappedPairs
<1>6. FlattenSeq(Mapped(F, e)) = << >>
  BY <1>4, <1>5, FlatStep
<1>7. Reverse(Mapped(G, e)) = << >>
  BY <1>4, IsSeqEmpty, ReverseStep
<1> QED BY <1>2, <1>4, <1>6, <1>7

(* One more call for the variables. *)
LEMMA VarsStep ==
  ASSUME NEW c, NEW k, NEW m \in Nat
  PROVE  /\ IsSeq(VarsUpTo(c, k, m))
         /\ VarsUpTo(c, k, m + 1) = IF m + 1 \in Standing(c, k, {"var"})
                                    THEN << c[m + 1].what >> \o VarsUpTo(c, k, m)
                                    ELSE VarsUpTo(c, k, m)
<1> DEFINE X == Standing(c, k, {"var"})
           F == WhatOf(c)
           s == Ascending(X, m)
           t == Ascending(X, m + 1)
           w == Mapped(F, s)
           x == F[m + 1]
<1>1. VarsUpTo(c, k, m) = Reverse(w) /\ VarsUpTo(c, k, m + 1) = Reverse(Mapped(F, t))
  <2>1. m + 1 \in Nat
    OBVIOUS
  <2> QED BY <2>1, MapIs
<1>2. s \in Seq(Nat) /\ m + 1 \in Nat /\ t = IF m + 1 \in X THEN Append(s, m + 1) ELSE s
  <2> HIDE DEF X
  <2>1. s \in Seq(Nat) /\ m + 1 \in Nat
    BY AscendingIn
  <2>2. t = NextAscending(X, s, m + 1)
    BY AscendingStep
  <2> QED BY <2>1, <2>2 DEF NextAscending
<1>3. F[m + 1] = c[m + 1].what
  BY DEF WhatOf
<1> HIDE DEF s, t, X, F
<1>4. IsSeq(w) /\ Mapped(F, Append(s, m + 1)) = Append(w, x)
  BY <1>2, MappedStep
<1> HIDE DEF w
<1>5. Reverse(Append(w, x)) = << x >> \o Reverse(w) /\ IsSeq(Reverse(w))
  <2> HIDE DEF x
  <2> QED BY <1>4, ReverseStep
<1>6. CASE m + 1 \in X
  BY <1>1, <1>2, <1>3, <1>4, <1>5, <1>6 DEF X, w
<1>7. CASE m + 1 \notin X
  BY <1>1, <1>2, <1>5, <1>7 DEF X, w
<1> QED BY <1>6, <1>7

(* One more call for the blocks. *)
LEMMA BlocksStep ==
  ASSUME NEW c, NEW B, NEW k, NEW m \in Nat
  PROVE  /\ IsSeq(BlocksUpTo(c, B, k, m))
         /\ BlocksUpTo(c, B, k, m + 1) = IF m + 1 \in Standing(c, k, {"if"})
                                         THEN AppendTwo(BlocksUpTo(c, B, k, m), B[m + 1], B[ElseOf(c, m + 1)])
                                         ELSE BlocksUpTo(c, B, k, m)
<1> DEFINE X == Standing(c, k, {"if"})
           F == PairOf(c, B)
           s == Ascending(X, m)
           t == Ascending(X, m + 1)
           w == Mapped(F, s)
           x == B[m + 1]
           y == B[ElseOf(c, m + 1)]
<1>1. BlocksUpTo(c, B, k, m) = FlattenSeq(w) /\ BlocksUpTo(c, B, k, m + 1) = FlattenSeq(Mapped(F, t))
  <2>1. m + 1 \in Nat
    OBVIOUS
  <2> QED BY <2>1, MapIs
<1>2. s \in Seq(Nat) /\ m + 1 \in Nat /\ t = IF m + 1 \in X THEN Append(s, m + 1) ELSE s
  <2> HIDE DEF X
  <2>1. s \in Seq(Nat) /\ m + 1 \in Nat
    BY AscendingIn
  <2>2. t = NextAscending(X, s, m + 1)
    BY AscendingStep
  <2> QED BY <2>1, <2>2 DEF NextAscending
<1>3. F[m + 1] = << x, y >> /\ \A i \in Nat : \E a, b : F[i] = << a, b >>
  BY DEF PairOf
<1> HIDE DEF s, t, X, F, x, y
<1>4. Pairs(w) /\ Mapped(F, Append(s, m + 1)) = Append(w, << x, y >>)
  <2>1. Pairs(w)
    BY <1>2, <1>3, MappedPairs
  <2>2. Mapped(F, Append(s, m + 1)) = Append(w, F[m + 1])
    BY <1>2, MappedStep
  <2> QED BY <1>3, <2>1, <2>2
<1> HIDE DEF w
<1>5. FlattenSeq(Append(w, << x, y >>)) = AppendTwo(FlattenSeq(w), x, y) /\ IsSeq(FlattenSeq(w))
  BY <1>4, FlatStep
<1>6. CASE m + 1 \in X
  BY <1>1, <1>2, <1>4, <1>5, <1>6 DEF X, x, y, w
<1>7. CASE m + 1 \notin X
  BY <1>1, <1>2, <1>5, <1>7 DEF X, w
<1> QED BY <1>6, <1>7

(* One more call for the statements. *)
LEMMA StmtsStep ==
  ASSUME NEW c, NEW B, NEW S, NEW k, NEW m \in Nat
  PROVE  /\ IsSeq(StmtsUpTo(c, B, S, k, m))
         /\ StmtsUpTo(c, B, S, k, m + 1) = IF m + 1 \in Standing(c, k, {"call", "return", "if"})
                                           THEN Append(StmtsUpTo(c, B, S, k, m), Reading(c, B, S, m + 1))
                                           ELSE StmtsUpTo(c, B, S, k, m)
<1> DEFINE X == Standing(c, k, {"call", "return", "if"})
           F == ReadingOf(c, B, S)
           s == Ascending(X, m)
           t == Ascending(X, m + 1)
<1>1. StmtsUpTo(c, B, S, k, m) = Mapped(F, s) /\ StmtsUpTo(c, B, S, k, m + 1) = Mapped(F, t)
  <2>1. m + 1 \in Nat
    OBVIOUS
  <2> QED BY <2>1, MapIs
<1>2. s \in Seq(Nat) /\ m + 1 \in Nat /\ t = IF m + 1 \in X THEN Append(s, m + 1) ELSE s
  <2> HIDE DEF X
  <2>1. s \in Seq(Nat) /\ m + 1 \in Nat
    BY AscendingIn
  <2>2. t = NextAscending(X, s, m + 1)
    BY AscendingStep
  <2> QED BY <2>1, <2>2 DEF NextAscending
<1>3. F[m + 1] = Reading(c, B, S, m + 1)
  BY DEF ReadingOf
<1> HIDE DEF s, t, X, F
<1>4. IsSeq(Mapped(F, s)) /\ Mapped(F, Append(s, m + 1)) = Append(Mapped(F, s), F[m + 1])
  BY <1>2, MappedStep
<1> QED BY <1>1, <1>2, <1>3, <1>4 DEF X

(* A call that adds nothing to block k. *)
Quiet(c, k, j) == StandsIn(c, j, k) => c[j].op \in {"else", "end"}

(* Such calls leave the lists of the block as they were. *)
LEMMA ListsIdle ==
  ASSUME NEW c, NEW B, NEW S, NEW k, NEW u \in Nat, NEW m \in Nat, u <= m,
         \A j \in (u + 1)..m : Quiet(c, k, j)
  PROVE  /\ VarsUpTo(c, k, m) = VarsUpTo(c, k, u)
         /\ BlocksUpTo(c, B, k, m) = BlocksUpTo(c, B, k, u)
         /\ StmtsUpTo(c, B, S, k, m) = StmtsUpTo(c, B, S, k, u)
<1>1. ASSUME NEW j \in (u + 1)..m
      PROVE  /\ j \notin Standing(c, k, {"var"}) /\ j \notin Standing(c, k, {"if"})
             /\ j \notin Standing(c, k, {"call", "return", "if"})
  BY <1>1 DEF Quiet, Standing
<1>2. /\ Ascending(Standing(c, k, {"var"}), m) = Ascending(Standing(c, k, {"var"}), u)
      /\ Ascending(Standing(c, k, {"if"}), m) = Ascending(Standing(c, k, {"if"}), u)
      /\ Ascending(Standing(c, k, {"call", "return", "if"}), m)
           = Ascending(Standing(c, k, {"call", "return", "if"}), u)
  BY <1>1, AscendingIdle
<1> QED BY <1>2, MapIs

(* Whatever B and S are for other branches. *)
LEMMA ListsSame ==
  ASSUME NEW c, NEW B, NEW S, NEW B2, NEW S2, NEW k, NEW m \in Nat,
         \A i \in 1..m : i \in DOMAIN c /\ c[i].op = "if" /\ StandsIn(c, i, k) =>
           /\ B[i] = B2[i] /\ B[ElseOf(c, i)] = B2[ElseOf(c, i)]
           /\ S[i] = S2[i] /\ S[ElseOf(c, i)] = S2[ElseOf(c, i)]
  PROVE  /\ BlocksUpTo(c, B, k, m) = BlocksUpTo(c, B2, k, m)
         /\ StmtsUpTo(c, B, S, k, m) = StmtsUpTo(c, B2, S2, k, m)
<1> DEFINE X == Standing(c, k, {"if"})
           Y == Standing(c, k, {"call", "return", "if"})
           b == Ascending(X, m)
           s == Ascending(Y, m)
<1>1. \A j \in 1..Len(b) : b[j] \in X /\ b[j] \in 1..m /\ b[j] \in Nat
  BY AscendingIn
<1>2. \A j \in 1..Len(s) : s[j] \in Y /\ s[j] \in 1..m /\ s[j] \in Nat
  BY AscendingIn
<1> HIDE DEF b, s
<1>3. \A j \in 1..Len(b) : PairOf(c, B)[b[j]] = PairOf(c, B2)[b[j]]
  BY <1>1 DEF PairOf, Standing
<1>4. \A j \in 1..Len(s) : ReadingOf(c, B, S)[s[j]] = ReadingOf(c, B2, S2)[s[j]]
  BY <1>2 DEF ReadingOf, Standing, Reading
<1>5. Mapped(PairOf(c, B), b) = Mapped(PairOf(c, B2), b)
  BY <1>3 DEF Mapped
<1>6. Mapped(ReadingOf(c, B, S), s) = Mapped(ReadingOf(c, B2, S2), s)
  BY <1>4 DEF Mapped
<1> QED BY <1>5, <1>6, MapIs DEF b, s

(* The calls of one kind before call i. *)
Earlier(c, i, op) == {k \in 1..(i - 1) : c[k].op = op}

(* One more call. *)
LEMMA EarlierStep ==
  ASSUME NEW c, NEW i \in Nat \ {0}, NEW op
  PROVE  /\ Cardinality(Earlier(c, i, op)) \in Nat
         /\ Cardinality(Earlier(c, i + 1, op)) = Cardinality(Earlier(c, i, op)) + (IF c[i].op = op THEN 1 ELSE 0)
<1> DEFINE A == Earlier(c, i, op)
<1>1. IsFiniteSet(A) /\ i \notin A
  <2>1. IsFiniteSet(1..(i - 1))
    <3>1. 1 \in Int /\ i - 1 \in Int
      OBVIOUS
    <3> QED BY <3>1, FS_Interval
  <2>2. A \subseteq 1..(i - 1)
    BY DEF Earlier
  <2> QED BY <2>1, <2>2, FS_Subset
<1>2. Earlier(c, i + 1, op) = IF c[i].op = op THEN A \cup {i} ELSE A
  <2>1. \A k : k \in 1..((i + 1) - 1) <=> (k \in 1..(i - 1) \/ k = i)
    OBVIOUS
  <2> QED BY <2>1 DEF Earlier
<1> HIDE DEF A
<1>3. Cardinality(A) \in Nat /\ Cardinality(A \cup {i}) = Cardinality(A) + 1
  BY <1>1, FS_CardinalityType, FS_AddElement
<1> QED BY <1>2, <1>3 DEF A

(* How a call changes the number of open blocks. *)
LEMMA DepthStep ==
  ASSUME NEW c, NEW i \in Nat \ {0}
  PROVE  /\ Depth(c, i) \in Int
         /\ Depth(c, i + 1) = Depth(c, i) + (IF c[i].op = "if" THEN 1 ELSE 0) - (IF c[i].op = "end" THEN 1 ELSE 0)
<1> DEFINE a == Cardinality(Earlier(c, i, "if"))
           e == Cardinality(Earlier(c, i, "end"))
           a2 == Cardinality(Earlier(c, i + 1, "if"))
           e2 == Cardinality(Earlier(c, i + 1, "end"))
<1>1. a \in Nat /\ a2 = a + (IF c[i].op = "if" THEN 1 ELSE 0)
  BY EarlierStep
<1>2. e \in Nat /\ e2 = e + (IF c[i].op = "end" THEN 1 ELSE 0)
  BY EarlierStep
<1>3. Depth(c, i) = a - e /\ Depth(c, i + 1) = a2 - e2
  BY DEF Depth, Earlier
<1> HIDE DEF a, e, a2, e2
<1> QED BY <1>1, <1>2, <1>3

(* None is open before the first call. *)
LEMMA DepthStart == ASSUME NEW c PROVE Depth(c, 1) = 0
<1>1. Earlier(c, 1, "if") = {} /\ Earlier(c, 1, "end") = {}
  BY DEF Earlier
<1>2. Depth(c, 1) = Cardinality(Earlier(c, 1, "if")) - Cardinality(Earlier(c, 1, "end"))
  BY DEF Depth, Earlier
<1>3. Cardinality({}) = 0
  BY FS_EmptySet
<1> QED BY <1>1, <1>2, <1>3

(* One block is the last opened. *)
LEMMA LastUnique ==
  ASSUME NEW c, NEW i \in Nat, NEW d, NEW k \in Nat, NEW q \in Nat,
         LastOpened(c, i, d, k), LastOpened(c, i, d, q)
  PROVE  k = q
<1>1. ASSUME NEW x \in Nat, NEW y \in Nat, x < y, LastOpened(c, i, d, x), LastOpened(c, i, d, y)
      PROVE  FALSE
  <2>1. y < i /\ Opens(c, y) /\ Inside(c, y) = d
    BY <1>1 DEF LastOpened
  <2>2. y \in (x + 1)..(i - 1)
    BY <1>1, <2>1
  <2> QED BY <1>1, <2>1, <2>2 DEF LastOpened
<1>2. k < q \/ q < k \/ k = q
  OBVIOUS
<1> QED BY <1>1, <1>2

(* It stays the last one, until another is opened at its depth. *)
LEMMA LastKept ==
  ASSUME NEW c, NEW i \in Nat, NEW d, NEW k \in Nat, LastOpened(c, i, d, k),
         ~(Opens(c, i) /\ Inside(c, i) = d)
  PROVE  LastOpened(c, i + 1, d, k)
<1>1. k < i /\ Opens(c, k) /\ Inside(c, k) = d /\ \A j \in (k + 1)..(i - 1) : ~(Opens(c, j) /\ Inside(c, j) = d)
  BY DEF LastOpened
<1>2. \A j \in (k + 1)..((i + 1) - 1) : j \in (k + 1)..(i - 1) \/ j = i
  OBVIOUS
<1> QED BY <1>1, <1>2 DEF LastOpened

(* A block is the last one when it is opened. *)
LEMMA LastNew ==
  ASSUME NEW c, NEW i \in Nat, Opens(c, i)
  PROVE  LastOpened(c, i + 1, Inside(c, i), i)
<1>1. (i + 1)..((i + 1) - 1) = {} /\ i < i + 1
  OBVIOUS
<1> QED BY <1>1 DEF LastOpened

(* The numbers of BlocksOpen. *)
LEMMA OpenFacts ==
  ASSUME NEW c, NEW m \in Nat, NEW r \in Nat, r >= 1, NEW P, BlocksOpen(c, m, r, P)
  PROVE  /\ \A d \in 1..r : P[d] \in 0..m
         /\ Depth(c, m + 1) = r - 1
         /\ P[1] = 0 /\ r \in 1..r
         /\ \A d \in 1..r : d # r => P[d] < P[r]
         /\ m + 1 \in Nat \ {0}
BY DEF BlocksOpen

(* The next call stands in the innermost block. *)
LEMMA TopStands ==
  ASSUME NEW c, NEW m \in Nat, NEW r \in Nat, r >= 1, NEW P, BlocksOpen(c, m, r, P), NEW k \in Nat
  PROVE  StandsIn(c, m + 1, k) <=> k = P[r]
<1>1. r \in 1..r /\ P[r] \in Nat /\ LastOpened(c, m + 1, r - 1, P[r]) /\ Depth(c, m + 1) = r - 1
  BY DEF BlocksOpen
<1>2. StandsIn(c, m + 1, k) <=> LastOpened(c, m + 1, r - 1, k)
  BY <1>1 DEF StandsIn
<1>3. m + 1 \in Nat
  OBVIOUS
<1> QED BY <1>1, <1>2, <1>3, LastUnique

(* A list of positions with one of them replaced. *)
Put(P, d, x) == [e \in Nat |-> IF e = d THEN x ELSE P[e]]

(* What Put does. *)
LEMMA PutIs ==
  ASSUME NEW P, NEW d, NEW x
  PROVE  \A e \in Nat : Put(P, d, x)[e] = IF e = d THEN x ELSE P[e]
BY DEF Put

(* A call that is no IF leaves the blocks open. *)
LEMMA OpenSame ==
  ASSUME NEW c, NEW m \in Nat, NEW r \in Nat, r >= 1, NEW P, BlocksOpen(c, m, r, P),
         c[m + 1].op \notin {"if", "else", "end"}
  PROVE  BlocksOpen(c, m + 1, r, P)
<1>1. Depth(c, (m + 1) + 1) = r - 1
  BY DepthStep, OpenFacts
<1>2. ~Opens(c, m + 1)
  BY DEF Opens
<1>3. ASSUME NEW d \in 1..r PROVE P[d] \in 0..(m + 1) /\ LastOpened(c, (m + 1) + 1, d - 1, P[d])
  <2>1. P[d] \in 0..m /\ LastOpened(c, m + 1, d - 1, P[d]) /\ m + 1 \in Nat
    BY DEF BlocksOpen
  <2>2. P[d] \in Nat /\ P[d] \in 0..(m + 1)
    BY <2>1
  <2> QED BY <1>2, <2>1, <2>2, LastKept
<1> QED BY <1>1, <1>3 DEF BlocksOpen

(* tree_code_if_start opens one more. *)
LEMMA OpenIfStart ==
  ASSUME NEW c, NEW m \in Nat, NEW r \in Nat, r >= 1, NEW P, BlocksOpen(c, m, r, P),
         c[m + 1].op = "if"
  PROVE  BlocksOpen(c, m + 1, r + 1, Put(P, r + 1, m + 1))
<1> DEFINE Q == Put(P, r + 1, m + 1)
           i == m + 1
<1>0. i \in Nat /\ i # 0 /\ i > 0
  OBVIOUS
<1>1. Depth(c, i) = r - 1 /\ Depth(c, i + 1) = r
  <2>1. i \in Nat \ {0} /\ Depth(c, i) = r - 1 /\ c[i].op = "if"
    BY OpenFacts
  <2> HIDE DEF i
  <2> QED BY <2>1, DepthStep
<1>2. Opens(c, i) /\ Inside(c, i) = r
  <2>1. Opens(c, i)
    BY <1>0 DEF Opens
  <2>2. Inside(c, i) = Depth(c, i) + 1
    BY <1>0 DEF Inside
  <2> QED BY <1>1, <2>1, <2>2
<1>3. \A d \in 1..(r + 1) : Q[d] = IF d = r + 1 THEN i ELSE P[d]
  BY DEF Put
<1>p. /\ P[1] = 0 /\ (\A d \in 1..r : P[d] \in 0..m /\ LastOpened(c, i, d - 1, P[d]))
      /\ \A d, e \in 1..r : d < e => P[d] < P[e]
  BY DEF BlocksOpen
<1> HIDE DEF Q
<1>4. ASSUME NEW d \in 1..(r + 1) PROVE Q[d] \in 0..i /\ LastOpened(c, i + 1, d - 1, Q[d])
  <2>1. CASE d = r + 1
    BY <1>0, <1>2, <1>3, <2>1, LastNew
  <2>2. CASE d \in 1..r
    <3>1. Q[d] = P[d] /\ P[d] \in 0..m /\ LastOpened(c, i, d - 1, P[d])
      BY <1>3, <1>p, <2>2
    <3>2. P[d] \in Nat /\ P[d] \in 0..i /\ d - 1 # r
      BY <2>2, <3>1
    <3>3. LastOpened(c, i + 1, d - 1, P[d])
      BY <1>0, <1>2, <3>1, <3>2, LastKept
    <3> QED BY <3>1, <3>2, <3>3
  <2> QED BY <2>1, <2>2
<1>5. ASSUME NEW d \in 1..(r + 1), NEW e \in 1..(r + 1), d < e PROVE Q[d] < Q[e]
  <2>1. d \in 1..r /\ Q[d] = P[d] /\ P[d] \in 0..m
    BY <1>3, <1>5, <1>p
  <2>2. CASE e = r + 1
    BY <1>3, <2>1, <2>2
  <2>3. CASE e \in 1..r
    BY <1>3, <1>5, <1>p, <2>1, <2>3
  <2> QED BY <2>2, <2>3
<1>6. Q[1] = 0 /\ Depth(c, i + 1) = (r + 1) - 1
  BY <1>1, <1>3, <1>p
<1> HIDE DEF i
<1>7. BlocksOpen(c, i, r + 1, Q)
  BY <1>4, <1>5, <1>6 DEF BlocksOpen
<1> QED BY <1>7 DEF Q, i

(* tree_code_if_else closes one and opens one. *)
LEMMA OpenElse ==
  ASSUME NEW c, NEW m \in Nat, NEW r \in Nat, r >= 2, NEW P, BlocksOpen(c, m, r, P),
         c[m + 1].op = "else"
  PROVE  BlocksOpen(c, m + 1, r, Put(P, r, m + 1))
<1> DEFINE Q == Put(P, r, m + 1)
           i == m + 1
<1>0. i \in Nat /\ i # 0 /\ i > 0
  OBVIOUS
<1>1. Depth(c, i) = r - 1 /\ Depth(c, i + 1) = r - 1
  <2>1. i \in Nat \ {0} /\ Depth(c, i) = r - 1 /\ c[i].op = "else"
    BY OpenFacts
  <2> HIDE DEF i
  <2> QED BY <2>1, DepthStep
<1>2. Opens(c, i) /\ Inside(c, i) = r - 1
  <2>1. Opens(c, i)
    BY <1>0 DEF Opens
  <2>2. Inside(c, i) = Depth(c, i)
    BY <1>0 DEF Inside
  <2> QED BY <1>1, <2>1, <2>2
<1>3. \A d \in 1..r : Q[d] = IF d = r THEN i ELSE P[d]
  BY DEF Put
<1>p. /\ P[1] = 0 /\ (\A d \in 1..r : P[d] \in 0..m /\ LastOpened(c, i, d - 1, P[d]))
      /\ \A d, e \in 1..r : d < e => P[d] < P[e]
  BY DEF BlocksOpen
<1> HIDE DEF Q
<1>4. ASSUME NEW d \in 1..r PROVE Q[d] \in 0..i /\ LastOpened(c, i + 1, d - 1, Q[d])
  <2>1. CASE d = r
    BY <1>0, <1>2, <1>3, <2>1, LastNew
  <2>2. CASE d # r
    <3>1. Q[d] = P[d] /\ P[d] \in 0..m /\ LastOpened(c, i, d - 1, P[d])
      BY <1>3, <1>p, <2>2
    <3>2. P[d] \in Nat /\ P[d] \in 0..i /\ d - 1 # r - 1
      BY <2>2, <3>1
    <3>3. LastOpened(c, i + 1, d - 1, P[d])
      BY <1>0, <1>2, <3>1, <3>2, LastKept
    <3> QED BY <3>1, <3>2, <3>3
  <2> QED BY <2>1, <2>2
<1>5. ASSUME NEW d \in 1..r, NEW e \in 1..r, d < e PROVE Q[d] < Q[e]
  <2>1. d # r /\ Q[d] = P[d] /\ P[d] \in 0..m
    BY <1>3, <1>5, <1>p
  <2>2. CASE e = r
    BY <1>3, <2>1, <2>2
  <2>3. CASE e # r
    BY <1>3, <1>5, <1>p, <2>1, <2>3
  <2> QED BY <2>2, <2>3
<1>6. Q[1] = 0 /\ Depth(c, i + 1) = r - 1
  BY <1>1, <1>3, <1>p
<1> HIDE DEF i
<1>7. BlocksOpen(c, i, r, Q)
  BY <1>4, <1>5, <1>6 DEF BlocksOpen
<1> QED BY <1>7 DEF Q, i

(* tree_code_if_end closes one. *)
LEMMA OpenEnd ==
  ASSUME NEW c, NEW m \in Nat, NEW r \in Nat, r >= 2, NEW P, BlocksOpen(c, m, r, P),
         c[m + 1].op = "end"
  PROVE  BlocksOpen(c, m + 1, r - 1, P)
<1>1. Depth(c, (m + 1) + 1) = (r - 1) - 1
  BY DepthStep, OpenFacts
<1>2. ~Opens(c, m + 1)
  BY DEF Opens
<1>3. ASSUME NEW d \in 1..(r - 1) PROVE P[d] \in 0..(m + 1) /\ LastOpened(c, (m + 1) + 1, d - 1, P[d])
  <2>1. P[d] \in 0..m /\ LastOpened(c, m + 1, d - 1, P[d]) /\ m + 1 \in Nat
    BY DEF BlocksOpen
  <2>2. P[d] \in Nat /\ P[d] \in 0..(m + 1)
    BY <2>1
  <2> QED BY <1>2, <2>1, <2>2, LastKept
<1>4. P[1] = 0 /\ \A d, e \in 1..(r - 1) : d < e => P[d] < P[e]
  BY DEF BlocksOpen
<1> QED BY <1>1, <1>3, <1>4 DEF BlocksOpen

(* The first m calls of the list c. *)
Begins(c, m) == IsSeq(c) /\ m \in Nat /\ m <= Len(c)

(* One ELSE belongs to an IF. *)
LEMMA ElseUnique ==
  ASSUME NEW c, NEW m, Begins(c, m), NEW i \in Nat, NEW j \in 1..m, IsElseOf(c, i, j)
  PROVE  ElseOf(c, i) = j
<1>1. DOMAIN c = 1..Len(c) /\ Len(c) \in Nat /\ m \in Nat /\ m <= Len(c)
  BY IsSeqFacts DEF Begins
<1>2. ASSUME NEW x \in Nat, NEW y \in Nat, x < y, IsElseOf(c, i, x), IsElseOf(c, i, y)
      PROVE  FALSE
  <2>1. x > i /\ c[x].op = "else" /\ Depth(c, x) = Depth(c, i) + 1
    BY <1>2 DEF IsElseOf
  <2>2. x \in (i + 1)..(y - 1)
    BY <1>2, <2>1
  <2> QED BY <1>2, <2>1, <2>2 DEF IsElseOf
<1>3. \A x \in DOMAIN c : IsElseOf(c, i, x) => x = j
  <2> SUFFICES ASSUME NEW x \in DOMAIN c, IsElseOf(c, i, x) PROVE x = j
    OBVIOUS
  <2>1. x \in Nat /\ j \in Nat
    BY <1>1
  <2>2. x < j \/ j < x \/ x = j
    BY <2>1
  <2> QED BY <1>2, <2>1, <2>2
<1>4. j \in DOMAIN c
  BY <1>1
<1> QED BY <1>3, <1>4 DEF ElseOf

(* An IF that is open stays so when the next call does not stand beside it.  *)
LEMMA IfOpenKept ==
  ASSUME NEW c, NEW m \in Nat, NEW p, NEW i, NEW q, IfOpen(c, m, p, i, q), ~StandsIn(c, m + 1, p)
  PROVE  IfOpen(c, m + 1, p, i, q)
<1>1. /\ i \in 1..m /\ p < i /\ c[i].op = "if" /\ StandsIn(c, i, p)
      /\ \A j \in (i + 1)..m : ~StandsIn(c, j, p)
      /\ q = i \/ (q \in 1..m /\ IsElseOf(c, i, q))
  BY DEF IfOpen
<1>2. i \in 1..(m + 1) /\ \A j \in (i + 1)..(m + 1) : j \in (i + 1)..m \/ j = m + 1
  BY <1>1
<1>3. q \in 1..m => q \in 1..(m + 1)
  OBVIOUS
<1> QED BY <1>1, <1>2, <1>3 DEF IfOpen

(* The IFs that are open stay so, if their blocks do. *)
LEMMA IfsKept ==
  ASSUME NEW c, NEW m \in Nat, NEW r \in Nat, r >= 1, NEW P, NEW I,
         BlocksOpen(c, m, r, P), IfsOpen(c, m, r, P, I), NEW d \in 1..(r - 1)
  PROVE  IfOpen(c, m + 1, P[d], I[d], P[d + 1])
<1>1. IfOpen(c, m, P[d], I[d], P[d + 1])
  BY DEF IfsOpen
<1>2. P[d] \in Nat /\ P[d] # P[r]
  <2>1. d \in 1..r /\ d # r
    OBVIOUS
  <2>2. P[d] \in 0..m /\ P[r] \in 0..m /\ P[d] < P[r]
    BY <2>1, OpenFacts
  <2> QED BY <2>2
<1>3. ~StandsIn(c, m + 1, P[d])
  BY <1>2, TopStands
<1> DEFINE p == P[d]
           i == I[d]
           q == P[d + 1]
<1>4. IfOpen(c, m, p, i, q) /\ ~StandsIn(c, m + 1, p)
  BY <1>1, <1>3
<1> HIDE DEF p, i, q
<1>5. IfOpen(c, m + 1, p, i, q)
  BY <1>4, IfOpenKept
<1> QED BY <1>5 DEF p, i, q

(* tree_code_if_start: the IF is open in what was the innermost block. *)
LEMMA IfsStart ==
  ASSUME NEW c, NEW m \in Nat, NEW r \in Nat, r >= 1, NEW P, NEW I,
         BlocksOpen(c, m, r, P), IfsOpen(c, m, r, P, I), c[m + 1].op = "if"
  PROVE  IfsOpen(c, m + 1, r + 1, Put(P, r + 1, m + 1), Put(I, r, m + 1))
<1> DEFINE Q == Put(P, r + 1, m + 1)
           J == Put(I, r, m + 1)
           i == m + 1
<1>1. ASSUME NEW d \in 1..r PROVE IfOpen(c, i, Q[d], J[d], Q[d + 1])
  <2>1. CASE d = r
    <3>1. Q[d] = P[r] /\ J[d] = i /\ Q[d + 1] = i
      <4>1. r \in Nat /\ r + 1 \in Nat /\ r # r + 1
        OBVIOUS
      <4> QED BY <2>1, <4>1, PutIs
    <3>2. P[r] \in 0..m
      BY OpenFacts
    <3>3. StandsIn(c, i, P[r])
      BY <3>2, TopStands
    <3>4. i \in 1..i /\ P[r] < i /\ (i + 1)..i = {}
      BY <3>2
    <3> HIDE DEF Q, J
    <3>5. IfOpen(c, i, P[r], i, i)
      BY <3>3, <3>4 DEF IfOpen
    <3> QED BY <3>1, <3>5
  <2>2. CASE d # r
    <3>1. d \in 1..(r - 1) /\ d \in Nat /\ d + 1 \in Nat /\ d # r + 1 /\ d + 1 # r + 1
      BY <2>2
    <3>2. Q[d] = P[d] /\ J[d] = I[d] /\ Q[d + 1] = P[d + 1]
      BY <2>2, <3>1, PutIs
    <3>3. IfOpen(c, m + 1, P[d], I[d], P[d + 1])
      BY <3>1, IfsKept
    <3> HIDE DEF Q, J
    <3> QED BY <3>2, <3>3
  <2> QED BY <2>1, <2>2
<1> HIDE DEF Q, J, i
<1>2. (r + 1) - 1 = r
  OBVIOUS
<1>3. IfsOpen(c, i, r + 1, Q, J)
  BY <1>1, <1>2 DEF IfsOpen
<1> QED BY <1>3 DEF Q, J, i

(* The depth of an IF that is open. *)
LEMMA IfDepth ==
  ASSUME NEW c, NEW m \in Nat, NEW r \in Nat, r >= 1, NEW P, NEW I,
         BlocksOpen(c, m, r, P), IfsOpen(c, m, r, P, I), NEW d \in 1..(r - 1)
  PROVE  Depth(c, I[d]) = d - 1
<1>1. StandsIn(c, I[d], P[d])
  BY DEF IfsOpen, IfOpen
<1>2. Inside(c, P[d]) = d - 1
  <2>1. d \in 1..r
    OBVIOUS
  <2> QED BY <2>1 DEF BlocksOpen, LastOpened
<1> QED BY <1>1, <1>2 DEF StandsIn, LastOpened

(* tree_code_if_else: the call is the ELSE of the innermost IF. *)
LEMMA ElseFound ==
  ASSUME NEW c, NEW m \in Nat, NEW r \in Nat, r >= 2, NEW P, NEW I,
         BlocksOpen(c, m, r, P), IfsOpen(c, m, r, P, I), c[m + 1].op = "else", P[r] = I[r - 1]
  PROVE  IsElseOf(c, I[r - 1], m + 1)
<1> DEFINE i == I[r - 1]
<1>0. r - 1 \in 1..(r - 1) /\ r \in 1..r
  OBVIOUS
<1>1. i \in 1..m
  BY <1>0 DEF IfsOpen, IfOpen
<1>2. Depth(c, i) = (r - 1) - 1 /\ Depth(c, m + 1) = r - 1
  BY <1>0, IfDepth, OpenFacts
<1>3. LastOpened(c, m + 1, r - 1, i)
  BY <1>0 DEF BlocksOpen
<1> HIDE DEF i
<1>4. ASSUME NEW k \in (i + 1)..((m + 1) - 1), c[k].op = "else", Depth(c, k) = Depth(c, i) + 1
      PROVE  FALSE
  <2>1. k # 0 /\ k > 0
    BY <1>1, <1>4
  <2>2. Opens(c, k) /\ Inside(c, k) = Depth(c, k)
    BY <1>4, <2>1 DEF Opens, Inside
  <2>3. Depth(c, k) = r - 1
    BY <1>2, <1>4
  <2> QED BY <1>3, <2>2, <2>3 DEF LastOpened
<1>5. m + 1 > i /\ Depth(c, m + 1) = Depth(c, i) + 1
  BY <1>1, <1>2
<1> QED BY <1>4, <1>5 DEF IsElseOf, i

(* tree_code_if_else: the IF stays open. *)
LEMMA IfsElse ==
  ASSUME NEW c, NEW m \in Nat, NEW r \in Nat, r >= 2, NEW P, NEW I,
         BlocksOpen(c, m, r, P), IfsOpen(c, m, r, P, I), c[m + 1].op = "else", P[r] = I[r - 1]
  PROVE  IfsOpen(c, m + 1, r, Put(P, r, m + 1), I)
<1> DEFINE Q == Put(P, r, m + 1)
           i == m + 1
<1>1. ASSUME NEW d \in 1..(r - 1) PROVE IfOpen(c, i, Q[d], I[d], Q[d + 1])
  <2>0. r >= 1
    OBVIOUS
  <2>1. IfOpen(c, i, P[d], I[d], P[d + 1])
    BY <2>0, IfsKept
  <2>2. Q[d] = P[d]
    BY PutIs
  <2>3. CASE d + 1 = r
    <3>1. Q[d + 1] = i /\ d = r - 1
      BY <2>3, PutIs
    <3>2. IsElseOf(c, I[d], i)
      BY <3>1, ElseFound
    <3>3. i \in 1..i
      OBVIOUS
    <3> HIDE DEF Q
    <3>4. IfOpen(c, i, P[d], I[d], i)
      BY <2>1, <3>2, <3>3 DEF IfOpen
    <3> QED BY <2>2, <3>1, <3>4
  <2>4. CASE d + 1 # r
    <3>1. Q[d + 1] = P[d + 1]
      BY <2>4, PutIs
    <3> HIDE DEF Q
    <3> QED BY <2>1, <2>2, <3>1
  <2> QED BY <2>3, <2>4
<1> HIDE DEF Q, i
<1>2. IfsOpen(c, i, r, Q, I)
  BY <1>1 DEF IfsOpen
<1> QED BY <1>2 DEF Q, i

(* Calls other than tree_code_if_start leave the IFs closed. *)
LEMMA ClosedSame ==
  ASSUME NEW c, NEW m \in Nat, NEW r \in Nat, NEW P, NEW I, NEW Q,
         IfsClosed(c, m, r, P, I), c[m + 1].op # "if",
         \A d \in 1..r : Q[d] = P[d] \/ Q[d] = m + 1
  PROVE  IfsClosed(c, m + 1, r, Q, I)
<1> SUFFICES ASSUME NEW i \in 1..(m + 1), c[i].op = "if", \A d \in 1..(r - 1) : i # I[d]
             PROVE  \E j \in 1..(m + 1) : IsElseOf(c, i, j) /\ \A d \in 1..r : Q[d] # i /\ Q[d] # j
  BY DEF IfsClosed
<1>1. i \in 1..m
  OBVIOUS
<1>2. PICK j \in 1..m : IsElseOf(c, i, j) /\ \A d \in 1..r : P[d] # i /\ P[d] # j
  BY <1>1 DEF IfsClosed
<1>3. j \in 1..(m + 1) /\ m + 1 # i /\ m + 1 # j
  BY <1>1, <1>2
<1> QED BY <1>2, <1>3

(* tree_code_if_start. *)
LEMMA ClosedStart ==
  ASSUME NEW c, NEW m \in Nat, NEW r \in Nat, r >= 1, NEW P, NEW I, IfsClosed(c, m, r, P, I)
  PROVE  IfsClosed(c, m + 1, r + 1, Put(P, r + 1, m + 1), Put(I, r, m + 1))
<1> DEFINE Q == Put(P, r + 1, m + 1)
           J == Put(I, r, m + 1)
<1>1. \A d \in 1..r : Q[d] = P[d]
  BY PutIs
<1>2. Q[r + 1] = m + 1 /\ J[r] = m + 1 /\ \A d \in 1..(r - 1) : J[d] = I[d]
  <2>1. r + 1 \in Nat /\ \A d \in 1..(r - 1) : d \in Nat /\ d # r
    OBVIOUS
  <2> QED BY <2>1, PutIs
<1> HIDE DEF Q, J
<1>3. ASSUME NEW i \in 1..(m + 1), c[i].op = "if", \A d \in 1..((r + 1) - 1) : i # J[d]
      PROVE  \E j \in 1..(m + 1) : IsElseOf(c, i, j) /\ \A d \in 1..(r + 1) : Q[d] # i /\ Q[d] # j
  <2>0. r \in 1..((r + 1) - 1) /\ \A d \in 1..(r - 1) : d \in 1..((r + 1) - 1)
    OBVIOUS
  <2>1. i # m + 1 /\ \A d \in 1..(r - 1) : i # I[d]
    BY <1>2, <1>3, <2>0
  <2>2. i \in 1..m
    BY <2>1
  <2>3. PICK j \in 1..m : IsElseOf(c, i, j) /\ \A d \in 1..r : P[d] # i /\ P[d] # j
    BY <1>3, <2>1, <2>2 DEF IfsClosed
  <2>4. j \in 1..(m + 1) /\ m + 1 # i /\ m + 1 # j
    BY <2>2, <2>3
  <2>5. \A d \in 1..(r + 1) : d \in 1..r \/ d = r + 1
    OBVIOUS
  <2> QED BY <1>1, <1>2, <2>3, <2>4, <2>5
<1>4. IfsClosed(c, m + 1, r + 1, Q, J)
  BY <1>3 DEF IfsClosed
<1> QED BY <1>4 DEF Q, J

(* tree_code_if_end stands in the branch of an ELSE. *)
LEMMA EndInElse ==
  ASSUME NEW c, NEW m, Begins(c, m + 1), m \in Nat, NEW r \in Nat, r >= 2, NEW P, NEW I,
         BlocksOpen(c, m, r, P), IfsOpen(c, m, r, P, I), c[m + 1].op = "end", EveryIfHasElse(c)
  PROVE  P[r] # I[r - 1] /\ P[r] \in 1..m /\ IsElseOf(c, I[r - 1], P[r])
<1>1. DOMAIN c = 1..Len(c) /\ Len(c) \in Nat /\ m + 1 \in DOMAIN c
  BY IsSeqFacts DEF Begins
<1>2. PICK k \in DOMAIN c : c[k].op = "else" /\ StandsIn(c, m + 1, k)
  BY <1>1 DEF EveryIfHasElse
<1>3. k = P[r]
  <2>1. k \in Nat /\ r >= 1
    BY <1>1
  <2> QED BY <1>2, <2>1, TopStands
<1>4. r - 1 \in 1..(r - 1) /\ (r - 1) + 1 = r
  OBVIOUS
<1>5. IfOpen(c, m, P[r - 1], I[r - 1], P[r])
  BY <1>4 DEF IfsOpen
<1> QED BY <1>2, <1>3, <1>5 DEF IfOpen

(* tree_code_if_end closes the innermost IF and the branch of its ELSE. *)
LEMMA ClosedEnd ==
  ASSUME NEW c, NEW m, Begins(c, m + 1), m \in Nat, NEW r \in Nat, r >= 2, NEW P, NEW I,
         BlocksOpen(c, m, r, P), IfsOpen(c, m, r, P, I), IfsClosed(c, m, r, P, I),
         c[m + 1].op = "end", EveryIfHasElse(c)
  PROVE  IfsClosed(c, m + 1, r - 1, P, I)
<1> SUFFICES ASSUME NEW i \in 1..(m + 1), c[i].op = "if", \A d \in 1..((r - 1) - 1) : i # I[d]
             PROVE  \E j \in 1..(m + 1) : IsElseOf(c, i, j) /\ \A d \in 1..(r - 1) : P[d] # i /\ P[d] # j
  BY DEF IfsClosed
<1>1. i \in 1..m
  OBVIOUS
<1>2. CASE i = I[r - 1]
  <2>1. P[r] # i /\ P[r] \in 1..m /\ IsElseOf(c, i, P[r])
    BY <1>2, EndInElse
  <2>2. r - 1 \in 1..(r - 1) /\ r - 1 \in 1..r /\ \A d \in 1..(r - 1) : d \in 1..r /\ d < r /\ (d < r - 1 \/ d = r - 1)
    OBVIOUS
  <2>3. P[r - 1] < i
    BY <1>2, <2>2 DEF IfsOpen, IfOpen
  <2>4. (\A d \in 1..r : P[d] \in 0..m) /\ \A d, e \in 1..r : d < e => P[d] < P[e]
    BY DEF BlocksOpen
  <2>5. ASSUME NEW d \in 1..(r - 1) PROVE P[d] # i /\ P[d] # P[r]
    <3>1. P[d] < P[r] /\ P[d] \in 0..m /\ P[r] \in 0..m /\ P[r - 1] \in 0..m
      BY <2>2, <2>4
    <3>2. P[d] < P[r - 1] \/ P[d] = P[r - 1]
      BY <2>2, <2>4
    <3> QED BY <2>3, <3>1, <3>2
  <2>6. P[r] \in 1..(m + 1)
    BY <2>1
  <2> QED BY <2>1, <2>5, <2>6
<1>3. CASE i # I[r - 1]
  <2>1. \A d \in 1..(r - 1) : i # I[d]
    <3>1. \A d \in 1..(r - 1) : d \in 1..((r - 1) - 1) \/ d = r - 1
      OBVIOUS
    <3> QED BY <1>3, <3>1
  <2>2. PICK j \in 1..m : IsElseOf(c, i, j) /\ \A d \in 1..r : P[d] # i /\ P[d] # j
    BY <1>1, <2>1 DEF IfsClosed
  <2>3. j \in 1..(m + 1) /\ \A d \in 1..(r - 1) : d \in 1..r
    BY <2>2
  <2> QED BY <2>2, <2>3
<1> QED BY <1>2, <1>3

(* The branches of an IF in a block are closed, unless it is open there. *)
LEMMA ClosedInside ==
  ASSUME NEW c, NEW m, Begins(c, m), NEW r \in Nat, r >= 1, NEW P, NEW I,
         BlocksOpen(c, m, r, P), IfsOpen(c, m, r, P, I), IfsClosed(c, m, r, P, I),
         NEW k \in Nat, NEW i \in 1..m, c[i].op = "if", StandsIn(c, i, k),
         \A d \in 1..(r - 1) : k = P[d] => i # I[d]
  PROVE  /\ ElseOf(c, i) \in 1..m /\ IsElseOf(c, i, ElseOf(c, i))
         /\ \A d \in 1..r : P[d] # i /\ P[d] # ElseOf(c, i)
<1>0. m \in Nat /\ i \in Nat
  BY DEF Begins
<1>1. ASSUME NEW d \in 1..(r - 1) PROVE i # I[d]
  <2> SUFFICES ASSUME i = I[d] PROVE k = P[d]
    OBVIOUS
  <2>1. StandsIn(c, i, P[d])
    BY DEF IfsOpen, IfOpen
  <2>2. P[d] \in Nat
    <3>1. d \in 1..r
      OBVIOUS
    <3>2. P[d] \in 0..m
      BY <3>1 DEF BlocksOpen
    <3> QED BY <1>0, <3>2
  <2> QED BY <1>0, <2>1, <2>2, LastUnique DEF StandsIn
<1>2. PICK j \in 1..m : IsElseOf(c, i, j) /\ \A d \in 1..r : P[d] # i /\ P[d] # j
  BY <1>1 DEF IfsClosed
<1>3. ElseOf(c, i) = j
  BY <1>0, <1>2, ElseUnique
<1> QED BY <1>2, <1>3

(* The next call adds nothing to a block it does not stand in.               *)
LEMMA NextIdle ==
  ASSUME NEW c, NEW m \in Nat, NEW r \in Nat, r >= 1, NEW P, BlocksOpen(c, m, r, P),
         NEW B, NEW S, NEW k \in Nat, k # P[r] \/ c[m + 1].op \in {"else", "end"}
  PROVE  /\ VarsUpTo(c, k, m + 1) = VarsUpTo(c, k, m)
         /\ BlocksUpTo(c, B, k, m + 1) = BlocksUpTo(c, B, k, m)
         /\ StmtsUpTo(c, B, S, k, m + 1) = StmtsUpTo(c, B, S, k, m)
<1>1. Quiet(c, k, m + 1)
  BY TopStands DEF Quiet
<1>2. m + 1 \in Nat /\ m <= m + 1 /\ \A j \in (m + 1)..(m + 1) : j = m + 1
  OBVIOUS
<1> QED BY <1>1, <1>2, ListsIdle

(* It is in the lists of the block it stands in.                             *)
LEMMA NextListed ==
  ASSUME NEW c, NEW m \in Nat, Begins(c, m + 1), NEW r \in Nat, r >= 1, NEW P, BlocksOpen(c, m, r, P), NEW ops
  PROVE  m + 1 \in Standing(c, P[r], ops) <=> c[m + 1].op \in ops
<1>1. P[r] \in Nat
  <2>1. r \in 1..r /\ P[r] \in 0..m
    BY OpenFacts
  <2> QED BY <2>1
<1>2. StandsIn(c, m + 1, P[r])
  BY <1>1, TopStands
<1>3. m + 1 \in DOMAIN c
  <2>1. m + 1 \in 1..Len(c)
    BY IsSeqFacts DEF Begins
  <2> QED BY <2>1, IsSeqFacts DEF Begins
<1> QED BY <1>2, <1>3 DEF Standing

(* Blocks that are closed stay as they are. *)
LEMMA ClosedKept ==
  ASSUME NEW c, NEW m \in Nat, NEW r \in Nat, r >= 1, NEW P, BlocksOpen(c, m, r, P),
         NEW B, NEW S, BlocksClosed(c, m, r, P, B, S),
         NEW k \in 1..m, Opens(c, k), \A d \in 1..r : P[d] # k
  PROVE  /\ B[k] = [vars |-> VarsUpTo(c, k, m + 1), blocks |-> BlocksUpTo(c, B, k, m + 1)]
         /\ S[k] = StmtsUpTo(c, B, S, k, m + 1)
<1>1. /\ B[k] = [vars |-> VarsUpTo(c, k, m), blocks |-> BlocksUpTo(c, B, k, m)]
      /\ S[k] = StmtsUpTo(c, B, S, k, m)
  BY DEF BlocksClosed
<1>2. k \in Nat /\ k # P[r]
  BY OpenFacts
<1> QED BY <1>1, <1>2, NextIdle

(* A level around an IF stays as it is. *)
LEMMA OuterKept ==
  ASSUME NEW c, NEW m \in Nat, NEW r \in Nat, r >= 1, NEW P, BlocksOpen(c, m, r, P),
         NEW l, NEW d \in 1..(r - 1), NEW i, NEW q, NEW B, NEW S, OuterIs(c, m, l, P[d], i, q, B, S)
  PROVE  OuterIs(c, m + 1, l, P[d], i, q, B, S)
<1>1. d \in 1..r /\ d # r
  OBVIOUS
<1>2. P[d] \in 0..m /\ P[r] \in 0..m /\ P[d] < P[r]
  BY <1>1, OpenFacts
<1>3. P[d] \in Nat /\ P[d] # P[r]
  BY <1>2
<1>a. P[d] # P[r] \/ c[m + 1].op \in {"else", "end"}
  BY <1>3
<1> DEFINE k == P[d]
<1>b. k \in Nat /\ (k # P[r] \/ c[m + 1].op \in {"else", "end"})
  BY <1>3, <1>a
<1> HIDE DEF k
<1>c. VarsUpTo(c, k, m + 1) = VarsUpTo(c, k, m)
  BY <1>b, NextIdle
<1>4. VarsUpTo(c, P[d], m + 1) = VarsUpTo(c, P[d], m)
  BY <1>c DEF k
<1> QED BY <1>4 DEF OuterIs

(* The parts of MeanWith that a call that is no IF keeps. *)
LEMMA MeanSame ==
  ASSUME NEW c, NEW m \in Nat, Begins(c, m + 1), NEW lev, NEW r \in Nat, r >= 1,
         NEW P, NEW I, NEW B, NEW S, MeanWith(c, m, lev, r, P, I, B, S),
         c[m + 1].op \notin {"if", "else", "end"},
         NEW new, \A d \in 1..(r - 1) : new[d + 1] = lev[d + 1],
         InnerIs(c, m + 1, new[r + 1], P[r], B, S)
  PROVE  MeanWith(c, m + 1, new, r, P, I, B, S)
<1>1. /\ BlocksOpen(c, m, r, P) /\ IfsOpen(c, m, r, P, I) /\ IfsClosed(c, m, r, P, I)
      /\ BlocksClosed(c, m, r, P, B, S) /\ LevelsMean(c, m, lev, r, P, I, B, S)
  BY DEF MeanWith
<1>2. BlocksOpen(c, m + 1, r, P)
  BY <1>1, OpenSame
<1>3. IfsOpen(c, m + 1, r, P, I)
  BY <1>1, IfsKept DEF IfsOpen
<1>4. IfsClosed(c, m + 1, r, P, I)
  BY <1>1, ClosedSame
<1>5. BlocksClosed(c, m + 1, r, P, B, S)
  <2> SUFFICES ASSUME NEW k \in 1..(m + 1), Opens(c, k), \A d \in 1..r : P[d] # k
               PROVE  /\ B[k] = [vars |-> VarsUpTo(c, k, m + 1), blocks |-> BlocksUpTo(c, B, k, m + 1)]
                      /\ S[k] = StmtsUpTo(c, B, S, k, m + 1)
    BY DEF BlocksClosed
  <2>1. k # m + 1
    BY DEF Opens
  <2>2. k \in 1..m
    BY <2>1
  <2> QED BY <1>1, <2>2, ClosedKept
<1>6. \A d \in 1..(r - 1) : OuterIs(c, m + 1, new[d + 1], P[d], I[d], P[d + 1], B, S)
  <2> SUFFICES ASSUME NEW d \in 1..(r - 1) PROVE OuterIs(c, m + 1, new[d + 1], P[d], I[d], P[d + 1], B, S)
    OBVIOUS
  <2> DEFINE l == lev[d + 1]
             i == I[d]
             q == P[d + 1]
  <2>1. OuterIs(c, m, l, P[d], i, q, B, S) /\ new[d + 1] = l
    BY <1>1 DEF LevelsMean
  <2> HIDE DEF l, i, q
  <2>2. OuterIs(c, m + 1, l, P[d], i, q, B, S)
    BY <1>1, <2>1, OuterKept
  <2> QED BY <2>1, <2>2 DEF l, i, q
<1> QED BY <1>2, <1>3, <1>4, <1>5, <1>6 DEF MeanWith, LevelsMean

(* tree_code_create_variable. *)
LEMMA MeanName ==
  ASSUME NEW c, NEW m \in Nat, Begins(c, m + 1), NEW lev, NEW r \in Nat, r >= 1,
         NEW P, NEW I, NEW B, NEW S, MeanWith(c, m, lev, r, P, I, B, S),
         c[m + 1].op = "var",
         NEW new, \A d \in 1..(r - 1) : new[d + 1] = lev[d + 1],
         new[r + 1].names = << c[m + 1].what >> \o lev[r + 1].names,
         new[r + 1].blocks = lev[r + 1].blocks, new[r + 1].stmts = lev[r + 1].stmts
  PROVE  MeanWith(c, m + 1, new, r, P, I, B, S)
<1> DEFINE p == P[r]
<1>1. BlocksOpen(c, m, r, P) /\ InnerIs(c, m, lev[r + 1], p, B, S)
  BY DEF MeanWith, LevelsMean
<1>o. /\ c[m + 1].op \in {"var"} /\ c[m + 1].op \notin {"if"}
      /\ c[m + 1].op \notin {"call", "return", "if"}
  OBVIOUS
<1>2. m + 1 \in Standing(c, p, {"var"})
  BY <1>1, <1>o, NextListed
<1>5. m + 1 \notin Standing(c, p, {"if"})
  BY <1>1, <1>o, NextListed
<1>6. m + 1 \notin Standing(c, p, {"call", "return", "if"})
  BY <1>1, <1>o, NextListed
<1> HIDE DEF p
<1>3. /\ VarsUpTo(c, p, m + 1) = << c[m + 1].what >> \o VarsUpTo(c, p, m)
      /\ BlocksUpTo(c, B, p, m + 1) = BlocksUpTo(c, B, p, m)
      /\ StmtsUpTo(c, B, S, p, m + 1) = StmtsUpTo(c, B, S, p, m)
  BY <1>2, <1>5, <1>6, VarsStep, BlocksStep, StmtsStep
<1>4. InnerIs(c, m + 1, new[r + 1], p, B, S)
  BY <1>1, <1>3 DEF InnerIs
<1> QED BY <1>4, MeanSame DEF p

(* tree_code_output_statement. *)
LEMMA MeanStatement ==
  ASSUME NEW c, NEW m \in Nat, Begins(c, m + 1), NEW lev, NEW r \in Nat, r >= 1,
         NEW P, NEW I, NEW B, NEW S, MeanWith(c, m, lev, r, P, I, B, S),
         c[m + 1].op \in {"call", "return"},
         NEW new, \A d \in 1..(r - 1) : new[d + 1] = lev[d + 1],
         new[r + 1].names = lev[r + 1].names,
         new[r + 1].blocks = lev[r + 1].blocks, new[r + 1].stmts = Append(lev[r + 1].stmts, c[m + 1])
  PROVE  MeanWith(c, m + 1, new, r, P, I, B, S)
<1> DEFINE p == P[r]
<1>1. BlocksOpen(c, m, r, P) /\ InnerIs(c, m, lev[r + 1], p, B, S)
  BY DEF MeanWith, LevelsMean
<1>o. /\ c[m + 1].op \notin {"var"} /\ c[m + 1].op \notin {"if"}
      /\ c[m + 1].op \in {"call", "return", "if"}
  OBVIOUS
<1>2. m + 1 \notin Standing(c, p, {"var"})
  BY <1>1, <1>o, NextListed
<1>5. m + 1 \notin Standing(c, p, {"if"})
  BY <1>1, <1>o, NextListed
<1>6. m + 1 \in Standing(c, p, {"call", "return", "if"})
  BY <1>1, <1>o, NextListed
<1> HIDE DEF p
<1>r. Reading(c, B, S, m + 1) = c[m + 1]
  BY DEF Reading
<1>3. /\ VarsUpTo(c, p, m + 1) = VarsUpTo(c, p, m)
      /\ BlocksUpTo(c, B, p, m + 1) = BlocksUpTo(c, B, p, m)
      /\ StmtsUpTo(c, B, S, p, m + 1) = Append(StmtsUpTo(c, B, S, p, m), c[m + 1])
  <2>1. VarsUpTo(c, p, m + 1) = VarsUpTo(c, p, m)
    BY <1>2, VarsStep
  <2>2. BlocksUpTo(c, B, p, m + 1) = BlocksUpTo(c, B, p, m)
    BY <1>5, BlocksStep
  <2>3. StmtsUpTo(c, B, S, p, m + 1) = Append(StmtsUpTo(c, B, S, p, m), Reading(c, B, S, m + 1))
    BY <1>6, StmtsStep
  <2> QED BY <1>r, <2>1, <2>2, <2>3
<1>4. InnerIs(c, m + 1, new[r + 1], p, B, S)
  BY <1>1, <1>3 DEF InnerIs
<1> QED BY <1>4, MeanSame DEF p

(* Nothing stands yet in a block that has just been opened. *)
LEMMA NewEmpty ==
  ASSUME NEW c, NEW B, NEW S, NEW m \in Nat
  PROVE  /\ VarsUpTo(c, m, m) = << >> /\ BlocksUpTo(c, B, m, m) = << >>
         /\ StmtsUpTo(c, B, S, m, m) = << >>
<1>1. ASSUME NEW j \in (0 + 1)..m PROVE Quiet(c, m, j)
  BY DEF Quiet, StandsIn, LastOpened
<1>2. 0 \in Nat /\ 0 <= m
  OBVIOUS
<1>3. /\ VarsUpTo(c, m, m) = VarsUpTo(c, m, 0) /\ BlocksUpTo(c, B, m, m) = BlocksUpTo(c, B, m, 0)
      /\ StmtsUpTo(c, B, S, m, m) = StmtsUpTo(c, B, S, m, 0)
  BY <1>1, <1>2, ListsIdle
<1> QED BY <1>3, ListsStart

(* What pushlevel starts with is a block without anything in it. *)
IsEmptyLevel(l) == l.names = << >> /\ l.blocks = << >> /\ l.stmts = << >>

(* tree_code_if_start. *)
LEMMA MeanStart ==
  ASSUME NEW c, NEW m \in Nat, Begins(c, m + 1), NEW lev, NEW r \in Nat, r >= 1,
         NEW P, NEW I, NEW B, NEW S, MeanWith(c, m, lev, r, P, I, B, S),
         c[m + 1].op = "if",
         NEW new, \A d \in 1..(r - 1) : new[d + 1] = lev[d + 1],
         new[r + 1].names = lev[r + 1].names, new[r + 1].blocks = lev[r + 1].blocks,
         new[r + 1].stmts = Append(lev[r + 1].stmts, OpenStatement(c, m + 1, << >>)),
         IsEmptyLevel(new[r + 2])
  PROVE  MeanWith(c, m + 1, new, r + 1, Put(P, r + 1, m + 1), Put(I, r, m + 1), B, S)
<1> DEFINE Q == Put(P, r + 1, m + 1)
           J == Put(I, r, m + 1)
           i == m + 1
<1>1. /\ BlocksOpen(c, m, r, P) /\ IfsOpen(c, m, r, P, I) /\ IfsClosed(c, m, r, P, I)
      /\ BlocksClosed(c, m, r, P, B, S) /\ LevelsMean(c, m, lev, r, P, I, B, S)
  BY DEF MeanWith
<1>2. BlocksOpen(c, i, r + 1, Q)
  BY <1>1, OpenIfStart
<1>3. IfsOpen(c, i, r + 1, Q, J)
  BY <1>1, IfsStart
<1>4. IfsClosed(c, i, r + 1, Q, J)
  BY <1>1, ClosedStart
<1>5. /\ Q[r + 1] = i /\ J[r] = i /\ (\A d \in 1..r : Q[d] = P[d]) /\ \A d \in 1..(r - 1) : J[d] = I[d]
  <2>1. r + 1 \in Nat /\ r # r + 1 /\ (\A d \in 1..r : d \in Nat /\ d # r + 1) /\ \A d \in 1..(r - 1) : d \in Nat /\ d # r
    OBVIOUS
  <2> QED BY <2>1, PutIs
<1>6. P[r] \in 0..m /\ r \in 1..r
  BY <1>1, OpenFacts
<1> HIDE DEF Q, J
<1>7. BlocksClosed(c, i, r + 1, Q, B, S)
  <2> SUFFICES ASSUME NEW k \in 1..i, Opens(c, k), \A d \in 1..(r + 1) : Q[d] # k
               PROVE  /\ B[k] = [vars |-> VarsUpTo(c, k, i), blocks |-> BlocksUpTo(c, B, k, i)]
                      /\ S[k] = StmtsUpTo(c, B, S, k, i)
    BY DEF BlocksClosed
  <2>1. k # i /\ \A d \in 1..r : P[d] # k
    <3>1. r + 1 \in 1..(r + 1) /\ \A d \in 1..r : d \in 1..(r + 1)
      OBVIOUS
    <3> QED BY <1>5, <3>1
  <2>2. k \in 1..m
    BY <2>1
  <2> QED BY <1>1, <2>1, <2>2, ClosedKept
<1>8. InnerIs(c, i, new[(r + 1) + 1], Q[r + 1], B, S)
  <2>1. (r + 1) + 1 = r + 2 /\ i \in Nat
    OBVIOUS
  <2>2. VarsUpTo(c, i, i) = << >> /\ BlocksUpTo(c, B, i, i) = << >> /\ StmtsUpTo(c, B, S, i, i) = << >>
    BY <2>1, NewEmpty
  <2> HIDE DEF i
  <2> QED BY <1>5, <2>1, <2>2 DEF InnerIs, IsEmptyLevel
<1>9. ASSUME NEW d \in 1..((r + 1) - 1) PROVE OuterIs(c, i, new[d + 1], Q[d], J[d], Q[d + 1], B, S)
  <2>1. CASE d = r
    <3> DEFINE p == P[r]
               l == lev[r + 1]
               n == new[r + 1]
    <3>1. InnerIs(c, m, l, p, B, S)
      BY <1>1 DEF LevelsMean
    <3>o. c[m + 1].op \notin {"var"}
      OBVIOUS
    <3>2. m + 1 \notin Standing(c, p, {"var"})
      BY <1>1, <3>o, NextListed
    <3>3. VarsUpTo(c, p, m + 1) = VarsUpTo(c, p, m)
      BY <3>2, VarsStep
    <3>4. /\ n.names = l.names /\ n.blocks = l.blocks /\ n.stmts = Append(l.stmts, OpenStatement(c, i, << >>))
      OBVIOUS
    <3>5. i - 1 = m
      OBVIOUS
    <3> HIDE DEF p, l, n
    <3>6. OuterIs(c, i, n, p, i, i, B, S)
      BY <3>1, <3>3, <3>4, <3>5 DEF OuterIs, InnerIs
    <3>7. Q[d] = p /\ J[d] = i /\ Q[d + 1] = i /\ new[d + 1] = n
      BY <1>5, <1>6, <2>1 DEF p, n
    <3> HIDE DEF i
    <3> QED BY <3>6, <3>7
  <2>2. CASE d # r
    <3>1. d \in 1..(r - 1) /\ d \in 1..r /\ d + 1 \in 1..r
      BY <2>2
    <3> DEFINE l == lev[d + 1]
               j == I[d]
               q == P[d + 1]
    <3>2. OuterIs(c, m, l, P[d], j, q, B, S) /\ new[d + 1] = l
      BY <1>1, <3>1 DEF LevelsMean
    <3>3. Q[d] = P[d] /\ J[d] = j /\ Q[d + 1] = q
      BY <1>5, <3>1
    <3> HIDE DEF l, j, q
    <3>4. OuterIs(c, i, l, P[d], j, q, B, S)
      BY <1>1, <3>1, <3>2, OuterKept
    <3> QED BY <3>2, <3>3, <3>4
  <2> QED BY <2>1, <2>2
<1> HIDE DEF i
<1>10. LevelsMean(c, i, new, r + 1, Q, J, B, S)
  BY <1>8, <1>9 DEF LevelsMean
<1>11. MeanWith(c, i, new, r + 1, Q, J, B, S)
  BY <1>2, <1>3, <1>4, <1>7, <1>10 DEF MeanWith
<1> QED BY <1>11 DEF i, Q, J

(* Position u stands before the IF that is open in block k, if one is. *)
Before(k, u, r, P, I) == \A e \in 1..(r - 1) : k = P[e] => u < I[e]

(* What block k has before position u when block p is b, with statements s.  *)
Redefined(c, B, S, p, b, s, k, u) ==
  /\ BlocksUpTo(c, Put(B, p, b), k, u) = BlocksUpTo(c, B, k, u)
  /\ StmtsUpTo(c, Put(B, p, b), Put(S, p, s), k, u) = StmtsUpTo(c, B, S, k, u)

(* The block and the statements of the innermost branch do not matter for   *)
(* what stands before the IFs that are open.                                 *)
LEMMA RedefineSame ==
  ASSUME NEW c, NEW m, Begins(c, m), NEW r \in Nat, r >= 1, NEW P, NEW I,
         BlocksOpen(c, m, r, P), IfsOpen(c, m, r, P, I), IfsClosed(c, m, r, P, I),
         NEW B, NEW S, NEW b, NEW s, NEW k \in Nat, NEW u \in 0..m,
         Before(k, u, r, P, I)
  PROVE  Redefined(c, B, S, P[r], b, s, k, u)
<1> DEFINE p == P[r]
           B2 == Put(B, p, b)
           S2 == Put(S, p, s)
<1>1. ASSUME NEW i \in 1..u, c[i].op = "if", StandsIn(c, i, k)
      PROVE  /\ B2[i] = B[i] /\ B2[ElseOf(c, i)] = B[ElseOf(c, i)]
             /\ S2[i] = S[i] /\ S2[ElseOf(c, i)] = S[ElseOf(c, i)]
  <2>1. i \in 1..m /\ i \in Nat /\ m \in Nat
    BY DEF Begins
  <2>2. \A d \in 1..(r - 1) : k = P[d] => i # I[d]
    <3>1. \A d \in 1..(r - 1) : I[d] = i => ~(u < I[d])
      OBVIOUS
    <3> QED BY <3>1 DEF Before
  <2>3. ElseOf(c, i) \in 1..m /\ \A d \in 1..r : P[d] # i /\ P[d] # ElseOf(c, i)
    BY <1>1, <2>1, <2>2, ClosedInside
  <2>4. p # i /\ p # ElseOf(c, i) /\ ElseOf(c, i) \in Nat
    BY <2>1, <2>3
  <2> HIDE DEF p
  <2> QED BY <2>1, <2>4, PutIs
<1>2. u \in Nat
  BY DEF Begins
<1> HIDE DEF B2, S2
<1>3. /\ BlocksUpTo(c, B2, k, u) = BlocksUpTo(c, B, k, u)
      /\ StmtsUpTo(c, B2, S2, k, u) = StmtsUpTo(c, B, S, k, u)
  BY <1>1, <1>2, ListsSame
<1> QED BY <1>3 DEF B2, S2, Redefined

(* The lists of block k, for the branches B and S, stay as they are. *)
Idle(c, B, S, k, m) ==
  /\ VarsUpTo(c, k, m + 1) = VarsUpTo(c, k, m)
  /\ BlocksUpTo(c, B, k, m + 1) = BlocksUpTo(c, B, k, m)
  /\ StmtsUpTo(c, B, S, k, m + 1) = StmtsUpTo(c, B, S, k, m)

(* So it is with a call that closes a block, for any branches. *)
LEMMA NextIdleIs ==
  ASSUME NEW c, NEW m \in Nat, NEW r \in Nat, r >= 1, NEW P, BlocksOpen(c, m, r, P),
         NEW B, NEW S, NEW k \in Nat, c[m + 1].op \in {"else", "end"}
  PROVE  Idle(c, B, S, k, m)
BY NextIdle DEF Idle

(* The blocks that are closed after the next call, when it closes one. *)
LEMMA ClosedOne ==
  ASSUME NEW c, NEW m, Begins(c, m), m \in Nat, NEW r \in Nat, r >= 1, NEW P, NEW I, NEW lev,
         NEW B, NEW S, MeanWith(c, m, lev, r, P, I, B, S), c[m + 1].op \in {"else", "end"},
         NEW k \in 1..m, Opens(c, k), k = P[r] \/ \A d \in 1..r : P[d] # k
  PROVE  LET B2 == Put(B, P[r], BlockOf(lev[r + 1]))
             S2 == Put(S, P[r], lev[r + 1].stmts)
         IN  /\ B2[k] = [vars |-> VarsUpTo(c, k, m + 1), blocks |-> BlocksUpTo(c, B2, k, m + 1)]
             /\ S2[k] = StmtsUpTo(c, B2, S2, k, m + 1)
<1> DEFINE b == BlockOf(lev[r + 1])
           s == lev[r + 1].stmts
           B2 == Put(B, P[r], b)
           S2 == Put(S, P[r], s)
<1>1. /\ BlocksOpen(c, m, r, P) /\ IfsOpen(c, m, r, P, I) /\ IfsClosed(c, m, r, P, I)
      /\ BlocksClosed(c, m, r, P, B, S) /\ InnerIs(c, m, lev[r + 1], P[r], B, S)
  BY DEF MeanWith, LevelsMean
<1>2. b = [vars |-> lev[r + 1].names, blocks |-> lev[r + 1].blocks]
  BY DEF BlockOf
<1>3. k \in Nat /\ m \in 0..m
  OBVIOUS
<1>4. \A e \in 1..(r - 1) : k # P[e]
  <2>1. \A e \in 1..(r - 1) : e \in 1..r /\ e # r
    OBVIOUS
  <2>2. \A e \in 1..(r - 1) : P[e] < P[r] /\ P[e] \in 0..m /\ P[r] \in 0..m
    BY <1>1, <2>1, OpenFacts
  <2>3. \A e \in 1..(r - 1) : P[e] # P[r]
    BY <2>2
  <2> QED BY <2>1, <2>3
<1>c. Before(k, m, r, P, I)
  BY <1>4 DEF Before
<1> HIDE DEF b, s
<1>5. BlocksUpTo(c, B2, k, m) = BlocksUpTo(c, B, k, m) /\ StmtsUpTo(c, B2, S2, k, m) = StmtsUpTo(c, B, S, k, m)
  <2>1. Redefined(c, B, S, P[r], b, s, k, m)
    BY <1>1, <1>3, <1>c, RedefineSame, Zenon
  <2> QED BY <2>1 DEF Redefined
<1>b. B2[k] = (IF k = P[r] THEN b ELSE B[k]) /\ S2[k] = (IF k = P[r] THEN s ELSE S[k])
  BY <1>3, PutIs
<1> HIDE DEF B2, S2
<1>6. /\ VarsUpTo(c, k, m + 1) = VarsUpTo(c, k, m)
      /\ BlocksUpTo(c, B2, k, m + 1) = BlocksUpTo(c, B2, k, m)
      /\ StmtsUpTo(c, B2, S2, k, m + 1) = StmtsUpTo(c, B2, S2, k, m)
  <2>1. c[m + 1].op \in {"else", "end"}
    OBVIOUS
  <2>2. k \in Nat /\ r \in Nat /\ r >= 1 /\ m \in Nat /\ BlocksOpen(c, m, r, P)
    BY <1>1, <1>3
  <2>3. Idle(c, B2, S2, k, m)
    BY <2>1, <2>2, NextIdleIs, Zenon
  <2> QED BY <2>3 DEF Idle
<1>7. /\ B2[k] = [vars |-> VarsUpTo(c, k, m), blocks |-> BlocksUpTo(c, B, k, m)]
      /\ S2[k] = StmtsUpTo(c, B, S, k, m)
  <2>1. CASE k = P[r]
    BY <1>1, <1>2, <1>b, <2>1 DEF InnerIs, s
  <2>2. CASE k # P[r]
    BY <1>1, <1>b, <2>2 DEF BlocksClosed
  <2> QED BY <2>1, <2>2
<1>8. /\ B2[k] = [vars |-> VarsUpTo(c, k, m + 1), blocks |-> BlocksUpTo(c, B2, k, m + 1)]
      /\ S2[k] = StmtsUpTo(c, B2, S2, k, m + 1)
  BY <1>5, <1>6, <1>7
<1> QED BY <1>8 DEF B2, S2, b, s

(* A level around the branch that is closed stays as it is, unless that is  *)
(* a branch of its own IF.                                                   *)
LEMMA OuterClosed ==
  ASSUME NEW c, NEW m, Begins(c, m), m \in Nat, NEW r \in Nat, r >= 1, NEW P, NEW I, NEW lev,
         NEW B, NEW S, MeanWith(c, m, lev, r, P, I, B, S), c[m + 1].op \in {"else", "end"},
         NEW d \in 1..(r - 2), NEW b, NEW s
  PROVE  OuterIs(c, m + 1, lev[d + 1], P[d], I[d], P[d + 1], Put(B, P[r], b), Put(S, P[r], s))
<1> DEFINE B2 == Put(B, P[r], b)
           S2 == Put(S, P[r], s)
           p == P[d]
           i == I[d]
           q == P[d + 1]
           l == lev[d + 1]
           u == i - 1
<1>1. /\ BlocksOpen(c, m, r, P) /\ IfsOpen(c, m, r, P, I) /\ IfsClosed(c, m, r, P, I)
      /\ LevelsMean(c, m, lev, r, P, I, B, S)
  BY DEF MeanWith
<1>2. d \in 1..(r - 1) /\ d \in 1..r /\ d + 1 \in 1..r /\ d + 1 # r /\ r \in 1..r /\ r >= 3
  OBVIOUS
<1>3. OuterIs(c, m, l, p, i, q, B, S)
  BY <1>1, <1>2 DEF LevelsMean
<1>4. i \in 1..m /\ (q = i \/ (q \in 1..m /\ IsElseOf(c, i, q)))
  BY <1>1, <1>2 DEF IfsOpen, IfOpen
<1>5. q < P[r] /\ P[r] \in 0..m /\ p \in 0..m
  BY <1>1, <1>2, OpenFacts
<1>6. \A e \in 1..(r - 1) : p = P[e] => e = d
  <2>1. \A e \in 1..(r - 1) : e \in 1..r /\ (e < d \/ d < e \/ e = d)
    OBVIOUS
  <2>2. \A e, f \in 1..r : e < f => P[e] < P[f] /\ P[e] \in 0..m /\ P[f] \in 0..m
    BY <1>1 DEF BlocksOpen
  <2>3. \A e, f \in 1..r : e < f => P[e] # P[f]
    BY <2>2
  <2> QED BY <1>2, <2>1, <2>3
<1>7. Before(p, u, r, P, I)
  <2>1. u < i
    BY <1>4
  <2> QED BY <1>6, <2>1 DEF Before
<1>8. P[r] # i
  <2>1. CASE q = i
    BY <1>4, <1>5, <2>1
  <2>2. CASE q \in 1..m /\ IsElseOf(c, i, q)
    <3>1. q > i
      BY <2>2 DEF IsElseOf
    <3> HIDE DEF i, q
    <3> QED BY <1>4, <1>5, <2>2, <3>1
  <2> QED BY <1>4, <2>1, <2>2
<1>9. p \in Nat /\ i \in Nat /\ u \in 0..m
  BY <1>4, <1>5
<1> HIDE DEF p, i, q, l, u
<1>10. BlocksUpTo(c, B2, p, u) = BlocksUpTo(c, B, p, u) /\ StmtsUpTo(c, B2, S2, p, u) = StmtsUpTo(c, B, S, p, u)
  <2>1. Redefined(c, B, S, P[r], b, s, p, u)
    BY <1>1, <1>7, <1>9, RedefineSame, Zenon
  <2> QED BY <2>1 DEF Redefined
<1>11. B2[i] = B[i] /\ S2[i] = S[i]
  BY <1>8, <1>9, PutIs
<1>12. VarsUpTo(c, p, m + 1) = VarsUpTo(c, p, m)
  <2>1. p # P[r]
    <3>1. d # r
      OBVIOUS
    <3>2. P[d] < P[r]
      BY <1>1, <1>2, <3>1, OpenFacts
    <3> QED BY <1>5, <3>2 DEF p
  <2> QED BY <1>1, <1>9, <2>1, NextIdle
<1> HIDE DEF B2, S2
<1>13. OuterIs(c, m + 1, l, p, i, q, B2, S2)
  BY <1>3, <1>10, <1>11, <1>12 DEF OuterIs, u
<1> QED BY <1>13 DEF B2, S2, p, i, q, l

(* A beginning without its last call is one. *)
LEMMA BeginsLess == ASSUME NEW c, NEW m \in Nat, Begins(c, m + 1) PROVE Begins(c, m) /\ m + 1 \in DOMAIN c
<1>1. Len(c) \in Nat /\ DOMAIN c = 1..Len(c)
  BY IsSeqFacts DEF Begins
<1> QED BY <1>1 DEF Begins

(* The BIND_EXPR of a level is the tree of the branch. *)
LEMMA BindIs == ASSUME NEW l PROVE << Bind(l) >> = Branch(BlockOf(l), l.stmts)
BY DEF Bind, Branch, BlockOf

(* An IF with the tree of its ELSE. *)
WholeStatement(c, i, t, e) == [op |-> "if", what |-> c[i].what, then |-> t, else |-> e]

(* t are the statements s with the tree w put into the IF at i that is last. *)
ThenPut(c, i, s, t, w) ==
  \A x : IsSeq(x) /\ s = Append(x, OpenStatement(c, i, << >>)) => t = Append(x, OpenStatement(c, i, << w >>))
ElsePut(c, i, s, t, w) ==
  \A x, v : IsSeq(x) /\ s = Append(x, OpenStatement(c, i, v)) => t = Append(x, WholeStatement(c, i, v, << w >>))

(* What is known of the innermost IF. *)
LEMMA TopIf ==
  ASSUME NEW c, NEW m \in Nat, NEW lev, NEW r \in Nat, r >= 2,
         NEW P, NEW I, NEW B, NEW S, MeanWith(c, m, lev, r, P, I, B, S)
  PROVE  /\ IfOpen(c, m, P[r - 1], I[r - 1], P[r])
         /\ OuterIs(c, m, lev[r], P[r - 1], I[r - 1], P[r], B, S)
         /\ P[r - 1] \in 0..m /\ P[r] \in 0..m /\ P[r - 1] < P[r]
         /\ I[r - 1] \in 1..m /\ Before(P[r - 1], I[r - 1] - 1, r, P, I)
<1>1. BlocksOpen(c, m, r, P) /\ IfsOpen(c, m, r, P, I) /\ LevelsMean(c, m, lev, r, P, I, B, S)
  BY DEF MeanWith
<1>2. r - 1 \in 1..(r - 1) /\ (r - 1) + 1 = r /\ r \in 1..r /\ r - 1 \in 1..r /\ r - 1 < r /\ r - 1 # r /\ r >= 1
  OBVIOUS
<1>3. IfOpen(c, m, P[r - 1], I[r - 1], P[r])
  BY <1>1, <1>2 DEF IfsOpen
<1>4. OuterIs(c, m, lev[r], P[r - 1], I[r - 1], P[r], B, S)
  <2>1. OuterIs(c, m, lev[(r - 1) + 1], P[r - 1], I[r - 1], P[(r - 1) + 1], B, S)
    BY <1>1, <1>2 DEF LevelsMean
  <2> QED BY <1>2, <2>1
<1>5. P[r - 1] \in 0..m /\ P[r] \in 0..m /\ P[r - 1] < P[r]
  BY <1>1, <1>2, OpenFacts
<1>6. I[r - 1] \in 1..m
  BY <1>3 DEF IfOpen
<1>7. ASSUME NEW e \in 1..(r - 1), P[r - 1] = P[e] PROVE e = r - 1
  <2>1. e \in 1..r /\ (e < r - 1 \/ e = r - 1)
    OBVIOUS
  <2>2. e < r - 1 => P[e] < P[r - 1] /\ P[e] \in 0..m
    BY <1>1, <1>2, <2>1 DEF BlocksOpen
  <2> QED BY <1>5, <1>7, <2>1, <2>2
<1>8. I[r - 1] - 1 < I[r - 1]
  BY <1>6
<1>9. Before(P[r - 1], I[r - 1] - 1, r, P, I)
  BY <1>7, <1>8 DEF Before
<1> QED BY <1>3, <1>4, <1>5, <1>6, <1>9

(* tree_code_if_else. *)
LEMMA MeanElse ==
  ASSUME NEW c, NEW m \in Nat, Begins(c, m + 1), NEW lev, NEW r \in Nat, r >= 2,
         NEW P, NEW I, NEW B, NEW S, MeanWith(c, m, lev, r, P, I, B, S),
         c[m + 1].op = "else", P[r] = I[r - 1],
         NEW new, \A d \in 1..(r - 2) : new[d + 1] = lev[d + 1],
         new[r].names = lev[r].names, new[r].blocks = Append(lev[r].blocks, BlockOf(lev[r + 1])),
         ThenPut(c, I[r - 1], lev[r].stmts, new[r].stmts, Bind(lev[r + 1])),
         IsEmptyLevel(new[r + 1])
  PROVE  MeanWith(c, m + 1, new, r, Put(P, r, m + 1), I,
                  Put(B, P[r], BlockOf(lev[r + 1])), Put(S, P[r], lev[r + 1].stmts))
<1> DEFINE b == BlockOf(lev[r + 1])
           s == lev[r + 1].stmts
           B2 == Put(B, P[r], b)
           S2 == Put(S, P[r], s)
           Q == Put(P, r, m + 1)
           i == I[r - 1]
           p == P[r - 1]
           u == i - 1
           l == lev[r]
           n == new[r]
<1>0. r >= 1 /\ c[m + 1].op \notin {"if", "end"} /\ c[m + 1].op \in {"else", "end"} /\ c[m + 1].op # "if" /\ m + 1 \in Nat
  OBVIOUS
<1>1. /\ BlocksOpen(c, m, r, P) /\ IfsOpen(c, m, r, P, I) /\ IfsClosed(c, m, r, P, I)
      /\ BlocksClosed(c, m, r, P, B, S) /\ LevelsMean(c, m, lev, r, P, I, B, S)
  BY DEF MeanWith
<1>b. Begins(c, m)
  BY BeginsLess
<1>2. BlocksOpen(c, m + 1, r, Q)
  BY <1>1, OpenElse
<1>3. IfsOpen(c, m + 1, r, Q, I)
  BY <1>1, IfsElse
<1>4. Q[r] = m + 1 /\ \A d \in 1..(r - 1) : Q[d] = P[d]
  <2>1. \A d \in 1..(r - 1) : d \in Nat /\ d # r
    OBVIOUS
  <2> QED BY <2>1, PutIs
<1> HIDE DEF Q
<1>5. IfsClosed(c, m + 1, r, Q, I)
  <2>1. \A d \in 1..r : d = r \/ d \in 1..(r - 1)
    OBVIOUS
  <2>2. \A d \in 1..r : Q[d] = P[d] \/ Q[d] = m + 1
    BY <1>4, <2>1
  <2> QED BY <1>0, <1>1, <2>2, ClosedSame
<1>6. BlocksClosed(c, m + 1, r, Q, B2, S2)
  <2> SUFFICES ASSUME NEW k \in 1..(m + 1), Opens(c, k), \A d \in 1..r : Q[d] # k
               PROVE  /\ B2[k] = [vars |-> VarsUpTo(c, k, m + 1), blocks |-> BlocksUpTo(c, B2, k, m + 1)]
                      /\ S2[k] = StmtsUpTo(c, B2, S2, k, m + 1)
    BY DEF BlocksClosed
  <2>1. r \in 1..r /\ \A d \in 1..r : d = r \/ d \in 1..(r - 1)
    OBVIOUS
  <2>2. k # m + 1
    BY <1>4, <2>1
  <2>3. k \in 1..m
    BY <2>2
  <2>4. k = P[r] \/ \A d \in 1..r : P[d] # k
    BY <1>4, <2>1
  <2> QED BY <1>0, <1>b, <2>3, <2>4, ClosedOne
<1>7. InnerIs(c, m + 1, new[r + 1], Q[r], B2, S2)
  <2>1. /\ VarsUpTo(c, m + 1, m + 1) = << >> /\ BlocksUpTo(c, B2, m + 1, m + 1) = << >>
        /\ StmtsUpTo(c, B2, S2, m + 1, m + 1) = << >>
    BY <1>0, NewEmpty
  <2> HIDE DEF B2, S2
  <2> QED BY <1>4, <2>1 DEF InnerIs, IsEmptyLevel
<1>8. /\ IfOpen(c, m, p, i, P[r]) /\ OuterIs(c, m, l, p, i, i, B, S)
      /\ p \in 0..m /\ p # P[r] /\ i \in 1..m /\ Before(p, u, r, P, I)
  <2>1. /\ IfOpen(c, m, p, i, P[r]) /\ OuterIs(c, m, l, p, i, P[r], B, S)
        /\ p \in 0..m /\ P[r] \in 0..m /\ p < P[r] /\ i \in 1..m /\ Before(p, u, r, P, I)
    BY TopIf
  <2> HIDE DEF p, i, u, l
  <2>2. p # P[r]
    BY <2>1
  <2>3. P[r] = i
    BY DEF i
  <2> QED BY <2>1, <2>2, <2>3
<1>9. Redefined(c, B, S, P[r], b, s, p, u)
  <2>1. p \in Nat /\ u \in 0..m
    BY <1>8
  <2> HIDE DEF p, u, i, b, s
  <2> QED BY <1>0, <1>1, <1>b, <1>8, <2>1, RedefineSame, Zenon
<1>10. B2[i] = b /\ S2[i] = s
  <2>1. i \in Nat /\ P[r] = i
    BY <1>8
  <2> HIDE DEF i, b, s
  <2> QED BY <2>1, PutIs
<1>11. OuterIs(c, m + 1, n, p, i, m + 1, B2, S2)
  <2>1. VarsUpTo(c, p, m + 1) = VarsUpTo(c, p, m)
    <3>1. p \in Nat
      BY <1>8
    <3> QED BY <1>0, <1>1, <1>8, <3>1, NextIdle
  <2>2. BlocksUpTo(c, B2, p, u) = BlocksUpTo(c, B, p, u) /\ StmtsUpTo(c, B2, S2, p, u) = StmtsUpTo(c, B, S, p, u)
    BY <1>9 DEF Redefined
  <2>3. l.blocks = BlocksUpTo(c, B, p, u) /\ l.names = VarsUpTo(c, p, m)
        /\ l.stmts = Append(StmtsUpTo(c, B, S, p, u), OpenStatement(c, i, << >>))
    BY <1>8 DEF OuterIs
  <2>4. n.names = l.names /\ n.blocks = Append(l.blocks, b)
    OBVIOUS
  <2>5. n.stmts = Append(StmtsUpTo(c, B, S, p, u), OpenStatement(c, i, << Bind(lev[r + 1]) >>))
    <3> DEFINE x == StmtsUpTo(c, B, S, p, u)
    <3>1. IsSeq(x)
      <4>1. u \in Nat
        BY <1>8
      <4> HIDE DEF u, p
      <4> QED BY <4>1, StmtsStep
    <3>2. ThenPut(c, i, l.stmts, n.stmts, Bind(lev[r + 1]))
      OBVIOUS
    <3> HIDE DEF x, i, l, n, u, p
    <3>3. l.stmts = Append(x, OpenStatement(c, i, << >>))
      BY <2>3 DEF x
    <3>4. n.stmts = Append(x, OpenStatement(c, i, << Bind(lev[r + 1]) >>))
      BY <3>1, <3>2, <3>3 DEF ThenPut
    <3> QED BY <3>4 DEF x
  <2>6. << Bind(lev[r + 1]) >> = Branch(b, s)
    BY BindIs
  <2>7. m + 1 # i
    BY <1>8
  <2> HIDE DEF p, i, u, l, n, b, s, B2, S2
  <2> QED BY <1>10, <2>1, <2>2, <2>3, <2>4, <2>5, <2>6, <2>7 DEF OuterIs, u
<1>12. ASSUME NEW d \in 1..(r - 1) PROVE OuterIs(c, m + 1, new[d + 1], Q[d], I[d], Q[d + 1], B2, S2)
  <2>1. CASE d = r - 1
    <3>1. d + 1 = r /\ d \in 1..(r - 1)
      BY <2>1
    <3> HIDE DEF B2, S2
    <3> QED BY <1>4, <1>11, <2>1, <3>1 DEF n, p, i
  <2>2. CASE d # r - 1
    <3>1. d \in 1..(r - 2) /\ d + 1 \in 1..(r - 1)
      BY <2>2
    <3>2. Q[d] = P[d] /\ Q[d + 1] = P[d + 1] /\ new[d + 1] = lev[d + 1]
      BY <1>4, <3>1
    <3>3. OuterIs(c, m + 1, lev[d + 1], P[d], I[d], P[d + 1], B2, S2)
      BY <1>0, <1>b, <3>1, OuterClosed
    <3> HIDE DEF B2, S2
    <3> QED BY <3>2, <3>3
  <2> QED BY <2>1, <2>2
<1> HIDE DEF B2, S2
<1>13. MeanWith(c, m + 1, new, r, Q, I, B2, S2)
  BY <1>2, <1>3, <1>5, <1>6, <1>7, <1>12 DEF MeanWith, LevelsMean
<1> QED BY <1>13 DEF B2, S2, Q, b, s

(* The lists of block p after the call that closed its IF at i. *)
Ended(c, m, p, i, B, S) ==
  /\ BlocksUpTo(c, B, p, m + 1) = AppendTwo(BlocksUpTo(c, B, p, i - 1), B[i], B[ElseOf(c, i)])
  /\ StmtsUpTo(c, B, S, p, m + 1) = Append(StmtsUpTo(c, B, S, p, i - 1), Reading(c, B, S, i))

(* A block whose IF is closed by tree_code_if_end. *)
LEMMA ListsEnd ==
  ASSUME NEW c, NEW m \in Nat, NEW p \in Nat, NEW i \in 1..m, NEW q, NEW B, NEW S,
         IfOpen(c, m, p, i, q), i \in DOMAIN c, c[m + 1].op = "end"
  PROVE  Ended(c, m, p, i, B, S)
<1> DEFINE u == i - 1
<1>1. /\ c[i].op = "if" /\ StandsIn(c, i, p) /\ \A j \in (i + 1)..m : ~StandsIn(c, j, p)
  BY DEF IfOpen
<1>2. ASSUME NEW j \in (i + 1)..(m + 1) PROVE Quiet(c, p, j)
  <2>1. j \in (i + 1)..m \/ j = m + 1
    OBVIOUS
  <2> QED BY <1>1, <2>1 DEF Quiet
<1>3. i \in Nat /\ m + 1 \in Nat /\ i <= m + 1
  OBVIOUS
<1>4. /\ BlocksUpTo(c, B, p, m + 1) = BlocksUpTo(c, B, p, i)
      /\ StmtsUpTo(c, B, S, p, m + 1) = StmtsUpTo(c, B, S, p, i)
  BY <1>2, <1>3, ListsIdle
<1>5. i \in Standing(c, p, {"if"}) /\ i \in Standing(c, p, {"call", "return", "if"})
  BY <1>1 DEF Standing
<1>6. u \in Nat /\ u + 1 = i
  OBVIOUS
<1> HIDE DEF u
<1>7. BlocksUpTo(c, B, p, u + 1) = AppendTwo(BlocksUpTo(c, B, p, u), B[u + 1], B[ElseOf(c, u + 1)])
  BY <1>5, <1>6, BlocksStep
<1>8. StmtsUpTo(c, B, S, p, u + 1) = Append(StmtsUpTo(c, B, S, p, u), Reading(c, B, S, u + 1))
  BY <1>5, <1>6, StmtsStep
<1> QED BY <1>4, <1>6, <1>7, <1>8 DEF u, Ended

(* tree_code_if_end. *)
LEMMA MeanEnd ==
  ASSUME NEW c, NEW m \in Nat, Begins(c, m + 1), EveryIfHasElse(c), NEW lev, NEW r \in Nat, r >= 2,
         NEW P, NEW I, NEW B, NEW S, MeanWith(c, m, lev, r, P, I, B, S),
         c[m + 1].op = "end",
         NEW new, \A d \in 1..(r - 2) : new[d + 1] = lev[d + 1],
         new[r].names = lev[r].names, new[r].blocks = Append(lev[r].blocks, BlockOf(lev[r + 1])),
         ElsePut(c, I[r - 1], lev[r].stmts, new[r].stmts, Bind(lev[r + 1]))
  PROVE  MeanWith(c, m + 1, new, r - 1, P, I,
                  Put(B, P[r], BlockOf(lev[r + 1])), Put(S, P[r], lev[r + 1].stmts))
<1> DEFINE b == BlockOf(lev[r + 1])
           s == lev[r + 1].stmts
           B2 == Put(B, P[r], b)
           S2 == Put(S, P[r], s)
           i == I[r - 1]
           p == P[r - 1]
           q == P[r]
           u == i - 1
           l == lev[r]
           n == new[r]
<1>0. r >= 1 /\ c[m + 1].op \in {"else", "end"} /\ c[m + 1].op # "if" /\ m + 1 \in Nat /\ r - 1 \in Nat
  OBVIOUS
<1>1. /\ BlocksOpen(c, m, r, P) /\ IfsOpen(c, m, r, P, I) /\ IfsClosed(c, m, r, P, I)
      /\ BlocksClosed(c, m, r, P, B, S) /\ LevelsMean(c, m, lev, r, P, I, B, S)
  BY DEF MeanWith
<1>b. Begins(c, m)
  BY BeginsLess
<1>2. BlocksOpen(c, m + 1, r - 1, P)
  BY <1>1, OpenEnd
<1>3. IfsOpen(c, m + 1, r - 1, P, I)
  <2>1. \A d \in 1..((r - 1) - 1) : d \in 1..(r - 1)
    OBVIOUS
  <2> QED BY <1>0, <1>1, <2>1, IfsKept DEF IfsOpen
<1>4. q # i /\ q \in 1..m /\ IsElseOf(c, i, q)
  BY <1>1, EndInElse
<1>5. IfsClosed(c, m + 1, r - 1, P, I)
  BY <1>1, ClosedEnd
<1>6. BlocksClosed(c, m + 1, r - 1, P, B2, S2)
  <2> SUFFICES ASSUME NEW k \in 1..(m + 1), Opens(c, k), \A d \in 1..(r - 1) : P[d] # k
               PROVE  /\ B2[k] = [vars |-> VarsUpTo(c, k, m + 1), blocks |-> BlocksUpTo(c, B2, k, m + 1)]
                      /\ S2[k] = StmtsUpTo(c, B2, S2, k, m + 1)
    BY DEF BlocksClosed
  <2>1. \A d \in 1..r : d = r \/ d \in 1..(r - 1)
    OBVIOUS
  <2>2. k # m + 1
    BY DEF Opens
  <2>3. k \in 1..m
    BY <2>2
  <2>4. k = P[r] \/ \A d \in 1..r : P[d] # k
    BY <2>1
  <2> QED BY <1>0, <1>b, <2>3, <2>4, ClosedOne
<1>8. /\ IfOpen(c, m, p, i, q) /\ OuterIs(c, m, l, p, i, q, B, S)
      /\ p \in 0..m /\ p # q /\ i \in 1..m /\ Before(p, u, r, P, I)
  <2>1. /\ IfOpen(c, m, p, i, q) /\ OuterIs(c, m, l, p, i, q, B, S)
        /\ p \in 0..m /\ q \in 0..m /\ p < q /\ i \in 1..m /\ Before(p, u, r, P, I)
    BY TopIf
  <2> HIDE DEF p, i, u, l, q
  <2>2. p # q
    BY <2>1
  <2> QED BY <2>1, <2>2
<1>9. Redefined(c, B, S, P[r], b, s, p, u)
  <2>1. p \in Nat /\ u \in 0..m
    BY <1>8
  <2> HIDE DEF p, u, i, b, s
  <2> QED BY <1>0, <1>1, <1>b, <1>8, <2>1, RedefineSame, Zenon
<1>10. B2[q] = b /\ S2[q] = s /\ B2[i] = B[i] /\ S2[i] = S[i]
  <2>1. i \in Nat /\ q \in Nat
    BY <1>4, <1>8
  <2> HIDE DEF i, b, s
  <2> QED BY <1>4, <2>1, PutIs
<1>11. ElseOf(c, i) = q /\ i \in DOMAIN c
  <2>1. i \in Nat
    BY <1>8
  <2>2. DOMAIN c = 1..Len(c) /\ Len(c) \in Nat /\ m <= Len(c)
    BY <1>b, IsSeqFacts DEF Begins
  <2>3. i \in DOMAIN c
    BY <1>8, <2>2
  <2> HIDE DEF i, q
  <2> QED BY <1>4, <1>b, <2>1, <2>3, ElseUnique
<1>12. VarsUpTo(c, p, m + 1) = VarsUpTo(c, p, m)
  <2>1. p \in Nat
    BY <1>8
  <2> QED BY <1>0, <1>1, <1>8, <2>1, NextIdle
<1> HIDE DEF B2, S2, i
<1>13. /\ BlocksUpTo(c, B2, p, m + 1) = AppendTwo(BlocksUpTo(c, B2, p, u), B2[i], B2[q])
       /\ StmtsUpTo(c, B2, S2, p, m + 1) = Append(StmtsUpTo(c, B2, S2, p, u), Reading(c, B2, S2, i))
  <2>1. p \in Nat
    BY <1>8
  <2>2. c[m + 1].op = "end"
    OBVIOUS
  <2> HIDE DEF p, q
  <2>3. Ended(c, m, p, i, B2, S2)
    BY <1>8, <1>11, <2>1, <2>2, ListsEnd, Zenon
  <2> QED BY <1>11, <2>3 DEF Ended
<1>14. Reading(c, B2, S2, i) = WholeStatement(c, i, Branch(B[i], S[i]), << Bind(lev[r + 1]) >>)
  <2>1. << Bind(lev[r + 1]) >> = Branch(b, s)
    BY BindIs
  <2>2. c[i].op = "if"
    BY <1>8 DEF IfOpen
  <2> HIDE DEF b, s, q
  <2> QED BY <1>10, <1>11, <2>1, <2>2 DEF Reading, WholeStatement
<1>15. BlocksUpTo(c, B2, p, u) = BlocksUpTo(c, B, p, u) /\ StmtsUpTo(c, B2, S2, p, u) = StmtsUpTo(c, B, S, p, u)
  <2> HIDE DEF p, u, b, s
  <2> QED BY <1>9 DEF Redefined, B2, S2
<1>16. /\ l.blocks = Append(BlocksUpTo(c, B, p, u), B[i]) /\ l.names = VarsUpTo(c, p, m)
       /\ l.stmts = Append(StmtsUpTo(c, B, S, p, u), OpenStatement(c, i, Branch(B[i], S[i])))
  <2> HIDE DEF p, l, q
  <2> QED BY <1>4, <1>8 DEF OuterIs, u
<1>17. n.names = l.names /\ n.blocks = Append(l.blocks, b)
  OBVIOUS
<1>18. n.stmts = Append(StmtsUpTo(c, B, S, p, u),
                        WholeStatement(c, i, Branch(B[i], S[i]), << Bind(lev[r + 1]) >>))
  <2> DEFINE x == StmtsUpTo(c, B, S, p, u)
             v == Branch(B[i], S[i])
  <2>1. IsSeq(x)
    <3>1. u \in Nat
      BY <1>8
    <3> HIDE DEF u, p
    <3> QED BY <3>1, StmtsStep
  <2>2. ElsePut(c, i, l.stmts, n.stmts, Bind(lev[r + 1]))
    BY DEF i
  <2> HIDE DEF x, l, n, u, p, v
  <2>3. l.stmts = Append(x, OpenStatement(c, i, v))
    BY <1>16 DEF x, v
  <2>4. n.stmts = Append(x, WholeStatement(c, i, v, << Bind(lev[r + 1]) >>))
    BY <2>1, <2>2, <2>3 DEF ElsePut
  <2> QED BY <2>4 DEF x, v
<1>19. InnerIs(c, m + 1, n, p, B2, S2)
  <2> HIDE DEF p, u, l, n, b, s, q
  <2>1. n.names = VarsUpTo(c, p, m + 1)
    BY <1>12, <1>16, <1>17
  <2>2. n.blocks = BlocksUpTo(c, B2, p, m + 1)
    BY <1>10, <1>13, <1>15, <1>16, <1>17 DEF AppendTwo
  <2>3. n.stmts = StmtsUpTo(c, B2, S2, p, m + 1)
    BY <1>13, <1>14, <1>15, <1>18
  <2> QED BY <2>1, <2>2, <2>3 DEF InnerIs
<1>20. ASSUME NEW d \in 1..((r - 1) - 1) PROVE OuterIs(c, m + 1, new[d + 1], P[d], I[d], P[d + 1], B2, S2)
  <2>1. d \in 1..(r - 2)
    OBVIOUS
  <2>2. OuterIs(c, m + 1, lev[d + 1], P[d], I[d], P[d + 1], B2, S2)
    BY <1>0, <1>b, <2>1, OuterClosed DEF B2, S2
  <2>3. new[d + 1] = lev[d + 1]
    BY <2>1
  <2> QED BY <2>2, <2>3
<1>21. LevelsMean(c, m + 1, new, r - 1, P, I, B2, S2)
  <2>1. (r - 1) + 1 = r
    OBVIOUS
  <2>2. InnerIs(c, m + 1, new[(r - 1) + 1], P[r - 1], B2, S2)
    BY <1>19, <2>1
  <2> QED BY <1>20, <2>2 DEF LevelsMean
<1>22. MeanWith(c, m + 1, new, r - 1, P, I, B2, S2)
  BY <1>2, <1>3, <1>5, <1>6, <1>21 DEF MeanWith
<1> QED BY <1>22 DEF B2, S2, b, s

(* F is a solution of the equation of Block, G one of that of Statements. *)
BlockAt(c, F, k) == [vars |-> VarsUpTo(c, k, Len(c)), blocks |-> BlocksUpTo(c, F, k, Len(c))]
SolvesBlock(c, F) == F = [k \in 0..Len(c) |-> BlockAt(c, F, k)]
SolvesStatements(c, F, G) == G = [k \in 0..Len(c) |-> StmtsUpTo(c, F, G, k, Len(c))]

(* The chosen solution is Block. *)
LEMMA BlockIsChoice == ASSUME NEW c PROVE Block(c) = CHOOSE F : SolvesBlock(c, F)
BY DEF Block, SolvesBlock, BlockAt, VarsUpTo, BlocksUpTo, Vars, In

(* And Statements, for the blocks that Block says. *)
LEMMA StatementsIsChoice == ASSUME NEW c PROVE Statements(c) = CHOOSE G : SolvesStatements(c, Block(c), G)
<1> DEFINE B == Block(c)
<1> HIDE DEF B
<1> QED BY DEF Statements, SolvesStatements, StmtsUpTo, In, Reading, Map, B

(* Every IF of the calls c has an ELSE. *)
AllClosed(c) == \A i \in 1..Len(c) : c[i].op = "if" => ElseOf(c, i) \in 1..Len(c) /\ IsElseOf(c, i, ElseOf(c, i))

(* It has one when only the body of the function is open. *)
LEMMA AllClosedIs ==
  ASSUME NEW c, IsSeq(c), NEW P, NEW I, IfsClosed(c, Len(c), 1, P, I)
  PROVE  AllClosed(c)
<1>1. Len(c) \in Nat /\ Begins(c, Len(c))
  BY IsSeqFacts DEF Begins
<1>2. ASSUME NEW i \in 1..Len(c), c[i].op = "if"
      PROVE  ElseOf(c, i) \in 1..Len(c) /\ IsElseOf(c, i, ElseOf(c, i))
  <2>1. PICK j \in 1..Len(c) : IsElseOf(c, i, j)
    <3>1. 1..(1 - 1) = {}
      OBVIOUS
    <3> QED BY <1>2, <3>1 DEF IfsClosed
  <2>2. i \in Nat
    OBVIOUS
  <2>3. ElseOf(c, i) = j
    BY <1>1, <2>1, <2>2, ElseUnique
  <2> QED BY <2>1, <2>3
<1> QED BY <1>2 DEF AllClosed

(* The branches of an IF are blocks behind the one it stands in. *)
LEMMA BranchesAfter ==
  ASSUME NEW c, AllClosed(c), NEW k \in Nat, NEW i \in 1..Len(c), Len(c) \in Nat, c[i].op = "if", StandsIn(c, i, k)
  PROVE  /\ k < i /\ Opens(c, i)
         /\ k < ElseOf(c, i) /\ ElseOf(c, i) \in 1..Len(c) /\ Opens(c, ElseOf(c, i))
<1> DEFINE j == ElseOf(c, i)
<1>1. j \in 1..Len(c) /\ IsElseOf(c, i, j)
  BY DEF AllClosed
<1> HIDE DEF j
<1>2. k < i
  BY DEF StandsIn, LastOpened
<1>3. j > i /\ c[j].op = "else"
  BY <1>1 DEF IsElseOf
<1>4. Opens(c, i) /\ Opens(c, j)
  BY <1>1, <1>3 DEF Opens
<1>5. k < j
  BY <1>1, <1>2, <1>3
<1> QED BY <1>1, <1>2, <1>4, <1>5 DEF j

(* Two pairs of functions that agree on all blocks behind block k agree on   *)
(* what stands in it.                                                        *)
LEMMA SameAfter ==
  ASSUME NEW c, AllClosed(c), Len(c) \in Nat, NEW k \in Nat, NEW F, NEW F2, NEW G, NEW G2,
         \A j \in 1..Len(c) : k < j /\ Opens(c, j) => F[j] = F2[j] /\ G[j] = G2[j]
  PROVE  /\ BlocksUpTo(c, F, k, Len(c)) = BlocksUpTo(c, F2, k, Len(c))
         /\ StmtsUpTo(c, F, G, k, Len(c)) = StmtsUpTo(c, F2, G2, k, Len(c))
<1> DEFINE n == Len(c)
<1>1. ASSUME NEW i \in 1..n, i \in DOMAIN c, c[i].op = "if", StandsIn(c, i, k)
      PROVE  /\ F[i] = F2[i] /\ F[ElseOf(c, i)] = F2[ElseOf(c, i)]
             /\ G[i] = G2[i] /\ G[ElseOf(c, i)] = G2[ElseOf(c, i)]
  <2>1. /\ k < i /\ Opens(c, i)
        /\ k < ElseOf(c, i) /\ ElseOf(c, i) \in 1..Len(c) /\ Opens(c, ElseOf(c, i))
    BY <1>1, BranchesAfter
  <2> QED BY <2>1
<1> HIDE DEF n
<1>2. n \in Nat
  BY DEF n
<1>3. /\ BlocksUpTo(c, F, k, n) = BlocksUpTo(c, F2, k, n)
      /\ StmtsUpTo(c, F, G, k, n) = StmtsUpTo(c, F2, G2, k, n)
  BY <1>1, <1>2, ListsSame
<1> QED BY <1>3 DEF n

(* Nothing stands in a position that opens no block. *)
LEMMA NothingStands ==
  ASSUME NEW c, NEW k \in Nat, ~Opens(c, k), NEW B, NEW S, NEW n \in Nat
  PROVE  VarsUpTo(c, k, n) = << >> /\ BlocksUpTo(c, B, k, n) = << >> /\ StmtsUpTo(c, B, S, k, n) = << >>
<1>1. \A j \in (0 + 1)..n : Quiet(c, k, j)
  BY DEF Quiet, StandsIn, LastOpened
<1>2. 0 \in Nat /\ 0 <= n
  OBVIOUS
<1>3. /\ VarsUpTo(c, k, n) = VarsUpTo(c, k, 0) /\ BlocksUpTo(c, B, k, n) = BlocksUpTo(c, B, k, 0)
      /\ StmtsUpTo(c, B, S, k, n) = StmtsUpTo(c, B, S, k, 0)
  BY <1>1, <1>2, ListsIdle
<1> QED BY <1>3, ListsStart

(* F and G agree at k if they agree behind k. *)
Downward(n, F, G) == \A k \in 0..n : (\A j \in 0..n : k < j => F[j] = G[j]) => F[k] = G[k]

(* An equation whose value at k depends on those behind k has one solution. *)
LEMMA DownwardSame ==
  ASSUME NEW n \in Nat, NEW F, NEW G, Downward(n, F, G)
  PROVE  \A k \in 0..n : F[k] = G[k]
<1> DEFINE T == {i \in Nat : \A k \in 0..n : k + i > n => F[k] = G[k]}
<1>1. 0 \in T
  OBVIOUS
<1>2. ASSUME NEW i \in Nat, i \in T PROVE i + 1 \in T
  <2>1. ASSUME NEW k \in 0..n, k + (i + 1) > n PROVE F[k] = G[k]
    <3>1. \A j \in 0..n : k < j => j + i > n
      BY <2>1
    <3>2. \A j \in 0..n : k < j => F[j] = G[j]
      BY <1>2, <3>1
    <3> QED BY <3>2 DEF Downward
  <2> QED BY <2>1
<1>3. n + 1 \in T
  <2> HIDE DEF T
  <2>1. n + 1 \in Nat
    OBVIOUS
  <2> QED BY <1>1, <1>2, <2>1, NatSetInduction
<1>4. \A k \in 0..n : k + (n + 1) > n
  OBVIOUS
<1> QED BY <1>3, <1>4

(* The equation of Block has one solution. *)
LEMMA BlockUnique ==
  ASSUME NEW c, AllClosed(c), Len(c) \in Nat, NEW F, NEW G, SolvesBlock(c, F), SolvesBlock(c, G)
  PROVE  F = G
<1> DEFINE n == Len(c)
<1>1. ASSUME NEW k \in 0..n, \A j \in 0..n : k < j => F[j] = G[j] PROVE F[k] = G[k]
  <2>1. k \in Nat /\ \A j \in 1..n : j \in 0..n
    OBVIOUS
  <2>2. \A j \in 1..Len(c) : k < j /\ Opens(c, j) => F[j] = G[j] /\ F[j] = F[j]
    BY <1>1, <2>1
  <2>3. BlocksUpTo(c, F, k, Len(c)) = BlocksUpTo(c, G, k, Len(c))
    <3>1. \A j \in 1..Len(c) : k < j /\ Opens(c, j) => F[j] = G[j] /\ F[j] = G[j]
      BY <2>2
    <3> QED BY <2>1, <3>1, SameAfter
  <2>4. F[k] = BlockAt(c, F, k) /\ G[k] = BlockAt(c, G, k)
    BY DEF SolvesBlock
  <2> QED BY <2>3, <2>4 DEF BlockAt
<1>2. \A k \in 0..n : F[k] = G[k]
  <2>1. Downward(n, F, G)
    BY <1>1 DEF Downward
  <2> HIDE DEF n
  <2>2. n \in Nat
    BY DEF n
  <2> QED BY <2>1, <2>2, DownwardSame
<1>3. F = [k \in 0..n |-> F[k]] /\ G = [k \in 0..n |-> G[k]]
  BY DEF SolvesBlock
<1> QED BY <1>2, <1>3

(* So has that of Statements. *)
LEMMA StatementsUnique ==
  ASSUME NEW c, AllClosed(c), Len(c) \in Nat, NEW B, NEW F, NEW G,
         SolvesStatements(c, B, F), SolvesStatements(c, B, G)
  PROVE  F = G
<1> DEFINE n == Len(c)
<1>1. ASSUME NEW k \in 0..n, \A j \in 0..n : k < j => F[j] = G[j] PROVE F[k] = G[k]
  <2>1. k \in Nat /\ \A j \in 1..n : j \in 0..n
    OBVIOUS
  <2>2. \A j \in 1..Len(c) : k < j /\ Opens(c, j) => B[j] = B[j] /\ F[j] = G[j]
    BY <1>1, <2>1
  <2>3. StmtsUpTo(c, B, F, k, Len(c)) = StmtsUpTo(c, B, G, k, Len(c))
    BY <2>1, <2>2, SameAfter
  <2>4. F[k] = StmtsUpTo(c, B, F, k, Len(c)) /\ G[k] = StmtsUpTo(c, B, G, k, Len(c))
    BY DEF SolvesStatements
  <2> QED BY <2>3, <2>4
<1>2. \A k \in 0..n : F[k] = G[k]
  <2>1. Downward(n, F, G)
    BY <1>1 DEF Downward
  <2> HIDE DEF n
  <2>2. n \in Nat
    BY DEF n
  <2> QED BY <2>1, <2>2, DownwardSame
<1>3. F = [k \in 0..n |-> F[k]] /\ G = [k \in 0..n |-> G[k]]
  BY DEF SolvesStatements
<1> QED BY <1>2, <1>3

(* The value at position k, from the level of the body and the branches. *)
Completed(c, F, first, none) ==
  [k \in 0..Len(c) |-> IF k = 0 THEN first ELSE IF Opens(c, k) THEN F[k] ELSE none]

EmptyBlock == [vars |-> << >>, blocks |-> << >>]

(* With the body of the function at position 0 the branches solve the       *)
(* equations, when all IFs are closed.                                       *)
LEMMA Solved ==
  ASSUME NEW c, IsSeq(c), NEW lev, NEW P, NEW I, NEW B, NEW S, MeanWith(c, Len(c), lev, 1, P, I, B, S)
  PROVE  LET F == Completed(c, B, BlockOf(lev[2]), EmptyBlock)
             G == Completed(c, S, lev[2].stmts, << >>)
         IN  SolvesBlock(c, F) /\ SolvesStatements(c, F, G) /\ AllClosed(c)
<1> DEFINE n == Len(c)
           b == BlockOf(lev[2])
           s == lev[2].stmts
           F == Completed(c, B, b, EmptyBlock)
           G == Completed(c, S, s, << >>)
<1>1. /\ BlocksOpen(c, Len(c), 1, P) /\ IfsClosed(c, Len(c), 1, P, I)
      /\ BlocksClosed(c, Len(c), 1, P, B, S) /\ InnerIs(c, Len(c), lev[2], P[1], B, S)
  BY DEF MeanWith, LevelsMean
<1>2. AllClosed(c) /\ Len(c) \in Nat
  BY <1>1, AllClosedIs, IsSeqFacts
<1>3. P[1] = 0 /\ \A d \in 1..1 : P[d] = 0
  BY <1>1 DEF BlocksOpen
<1>4. b = [vars |-> lev[2].names, blocks |-> lev[2].blocks]
  BY DEF BlockOf
<1>5. \A k \in 0..n : /\ F[k] = IF k = 0 THEN b ELSE IF Opens(c, k) THEN B[k] ELSE EmptyBlock
                      /\ G[k] = IF k = 0 THEN s ELSE IF Opens(c, k) THEN S[k] ELSE << >>
  BY DEF Completed
<1>6. F = [k \in 0..n |-> F[k]] /\ G = [k \in 0..n |-> G[k]]
  BY DEF Completed
<1> HIDE DEF F, G, b, s
<1>7. ASSUME NEW k \in 0..n
      PROVE  F[k] = BlockAt(c, F, k) /\ G[k] = StmtsUpTo(c, F, G, k, Len(c))
  <2>1. k \in Nat /\ \A j \in 1..n : j \in 0..n /\ j # 0
    BY <1>2
  <2>2. \A j \in 1..Len(c) : k < j /\ Opens(c, j) => B[j] = F[j] /\ S[j] = G[j]
    BY <1>5, <2>1
  <2>3. /\ BlocksUpTo(c, B, k, Len(c)) = BlocksUpTo(c, F, k, Len(c))
        /\ StmtsUpTo(c, B, S, k, Len(c)) = StmtsUpTo(c, F, G, k, Len(c))
    BY <1>2, <2>1, <2>2, SameAfter
  <2>4. CASE k = 0
    <3>1. F[k] = b /\ G[k] = s
      BY <1>5, <2>4
    <3> QED BY <1>1, <1>3, <1>4, <2>3, <2>4, <3>1 DEF BlockAt, InnerIs, s
  <2>5. CASE k # 0 /\ Opens(c, k)
    <3>1. F[k] = B[k] /\ G[k] = S[k]
      BY <1>5, <2>5
    <3>2. k \in 1..Len(c) /\ \A d \in 1..1 : P[d] # k
      BY <1>2, <1>3, <2>5
    <3>3. /\ B[k] = [vars |-> VarsUpTo(c, k, Len(c)), blocks |-> BlocksUpTo(c, B, k, Len(c))]
          /\ S[k] = StmtsUpTo(c, B, S, k, Len(c))
      BY <1>1, <2>5, <3>2 DEF BlocksClosed
    <3> QED BY <2>3, <3>1, <3>3 DEF BlockAt
  <2>6. CASE k # 0 /\ ~Opens(c, k)
    <3>1. F[k] = EmptyBlock /\ G[k] = << >>
      BY <1>5, <2>6
    <3>2. /\ VarsUpTo(c, k, Len(c)) = << >> /\ BlocksUpTo(c, F, k, Len(c)) = << >>
          /\ StmtsUpTo(c, F, G, k, Len(c)) = << >>
      BY <1>2, <2>1, <2>6, NothingStands
    <3> QED BY <3>1, <3>2 DEF BlockAt, EmptyBlock
  <2> QED BY <2>4, <2>5, <2>6
<1>8. SolvesBlock(c, F)
  BY <1>6, <1>7 DEF SolvesBlock
<1>9. SolvesStatements(c, F, G)
  BY <1>6, <1>7 DEF SolvesStatements
<1> QED BY <1>2, <1>8, <1>9 DEF F, G, b, s

(* The tree of the function, when its level is the only one that is open.   *)
LEMMA TreeIs ==
  ASSUME NEW c, IsSeq(c), NEW lev, NEW P, NEW I, NEW B, NEW S, MeanWith(c, Len(c), lev, 1, P, I, B, S)
  PROVE  FunctionTree(c) = [vars |-> lev[2].names, stmts |-> lev[2].stmts, block |-> << BlockOf(lev[2]) >>]
<1> DEFINE F == Completed(c, B, BlockOf(lev[2]), EmptyBlock)
           G == Completed(c, S, lev[2].stmts, << >>)
<1>1. SolvesBlock(c, F) /\ SolvesStatements(c, F, G) /\ AllClosed(c)
  BY Solved
<1>2. Len(c) \in Nat
  BY IsSeqFacts
<1>3. F[0] = BlockOf(lev[2]) /\ G[0] = lev[2].stmts
  <2>1. 0 \in 0..Len(c)
    BY <1>2
  <2> QED BY <2>1 DEF Completed
<1> HIDE DEF F, G
<1>4. Block(c) = F
  <2>1. SolvesBlock(c, Block(c))
    BY <1>1, BlockIsChoice
  <2> QED BY <1>1, <1>2, <2>1, BlockUnique
<1>5. Statements(c) = G
  <2>1. SolvesStatements(c, F, Statements(c))
    <3>1. Statements(c) = CHOOSE H : SolvesStatements(c, F, H)
      BY <1>4, StatementsIsChoice
    <3> QED BY <1>1, <3>1
  <2> QED BY <1>1, <1>2, <2>1, StatementsUnique
<1>6. Vars(c, 0) = lev[2].names
  <2>1. InnerIs(c, Len(c), lev[2], P[1], B, S) /\ P[1] = 0
    BY DEF MeanWith, LevelsMean, BlocksOpen
  <2> QED BY <2>1 DEF InnerIs, VarsUpTo, Vars, In
<1> QED BY <1>3, <1>4, <1>5, <1>6 DEF FunctionTree

(* The list of calls c begins with s, and each of its IFs has an ELSE. *)
Extends(c, s) ==
  /\ IsSeq(c) /\ EveryIfHasElse(c) /\ Len(s) <= Len(c)
  /\ \A i \in 1..Len(s) : c[i] = s[i]

(* The levels are what the first m calls of c mean. *)
Reads(levels, c, m) ==
  \E r \in Nat : \E P, I, B, S :
    r >= 1 /\ Len(levels) = r + 1 /\ MeanWith(c, m, levels, r, P, I, B, S)

(* The levels are what the calls s mean, however they go on. *)
LevelsRead(levels, s) == \A c : Extends(c, s) => Reads(levels, c, Len(s))

(* One call less. *)
LEMMA ExtendsLess ==
  ASSUME NEW s, IsSeq(s), NEW x, NEW c, Extends(c, Append(s, x))
  PROVE  /\ Extends(c, s) /\ Begins(c, Len(s) + 1) /\ c[Len(s) + 1] = x /\ Len(s) \in Nat
         /\ Len(Append(s, x)) = Len(s) + 1 /\ EveryIfHasElse(c)
<1> DEFINE t == Append(s, x)
           n == Len(s)
<1>1. IsSeq(t) /\ Len(t) = n + 1 /\ t[n + 1] = x /\ \A i \in 1..n : t[i] = s[i]
  BY IsSeqAppend
<1>2. n \in Nat
  BY IsSeqFacts
<1>3. IsSeq(c) /\ EveryIfHasElse(c) /\ Len(t) <= Len(c) /\ \A i \in 1..Len(t) : c[i] = t[i]
  BY DEF Extends
<1>4. Len(c) \in Nat
  BY <1>3, IsSeqFacts
<1> HIDE DEF t, n
<1>5. n + 1 \in 1..Len(t) /\ (\A i \in 1..n : i \in 1..Len(t)) /\ n <= Len(c)
  BY <1>1, <1>2, <1>3, <1>4
<1>6. c[n + 1] = x /\ \A i \in 1..n : c[i] = s[i]
  BY <1>1, <1>3, <1>5
<1>7. Begins(c, n + 1)
  BY <1>1, <1>2, <1>3 DEF Begins
<1>8. Extends(c, s)
  BY <1>3, <1>5, <1>6 DEF Extends, n
<1> QED BY <1>1, <1>2, <1>3, <1>6, <1>7, <1>8 DEF t, n

(* What the operations do to the fields of a level. *)
LEMMA FieldsOf ==
  ASSUME NEW l, LevelOK(l), NEW x, NEW n
  PROVE  /\ WithName(l, x).names = << x >> \o l.names /\ WithName(l, x).blocks = l.blocks
         /\ WithName(l, x).stmts = l.stmts
         /\ WithStatement(l, x).names = l.names /\ WithStatement(l, x).blocks = l.blocks
         /\ WithStatement(l, x).stmts = Append(l.stmts, x)
         /\ WithBlock(l, x).names = l.names /\ WithBlock(l, x).blocks = Append(l.blocks, x)
         /\ WithBlock(l, x).stmts = l.stmts
<1>1. "names" \in DOMAIN l /\ "blocks" \in DOMAIN l /\ "stmts" \in DOMAIN l
  BY DEF LevelOK, LevelFields
<1>2. /\ WithName(l, x).names = << x >> \o l.names /\ WithName(l, x).blocks = l.blocks
      /\ WithName(l, x).stmts = l.stmts
  BY <1>1 DEF WithName
<1>3. /\ WithStatement(l, x).names = l.names /\ WithStatement(l, x).blocks = l.blocks
      /\ WithStatement(l, x).stmts = Append(l.stmts, x)
  BY <1>1 DEF WithStatement
<1>4. /\ WithBlock(l, x).names = l.names /\ WithBlock(l, x).blocks = Append(l.blocks, x)
      /\ WithBlock(l, x).stmts = l.stmts
  BY <1>1 DEF WithBlock
<1> QED BY <1>2, <1>3, <1>4

(* The innermost level is replaced. *)
LEMMA TopSet ==
  ASSUME NEW levels, IsSeq(levels), NEW r \in Nat, Len(levels) = r + 1, NEW l
  PROVE  LET k == SetAt(levels, r + 1, l)
         IN  IsSeq(k) /\ Len(k) = r + 1 /\ k[r + 1] = l /\ \A d \in 0..(r - 1) : k[d + 1] = levels[d + 1]
<1> DEFINE k == SetAt(levels, r + 1, l)
<1>1. IsSeq(k) /\ Len(k) = r + 1 /\ \A i \in 1..(r + 1) : k[i] = IF i = r + 1 THEN l ELSE levels[i]
  BY IsSeqExcept
<1> HIDE DEF k
<1>2. r + 1 \in 1..(r + 1) /\ \A d \in 0..(r - 1) : d + 1 \in 1..(r + 1) /\ d + 1 # r + 1
  OBVIOUS
<1> QED BY <1>1, <1>2 DEF k

(* A declaration in a body. *)
LEMMA ReadName ==
  ASSUME NEW levels, NEW f, LevelsOK(levels, f), NEW s, IsSeq(s), LevelsRead(levels, s), NEW x, x.op = "var"
  PROVE  LevelsRead(pushdecl(levels, x.what), Append(s, x))
<1> SUFFICES ASSUME NEW c, Extends(c, Append(s, x))
             PROVE  Reads(pushdecl(levels, x.what), c, Len(Append(s, x)))
  BY DEF LevelsRead
<1> DEFINE m == Len(s)
<1>1. /\ Extends(c, s) /\ Begins(c, m + 1) /\ c[m + 1] = x /\ m \in Nat /\ Len(Append(s, x)) = m + 1
  BY ExtendsLess
<1>2. Reads(levels, c, m)
  BY <1>1 DEF LevelsRead
<1> HIDE DEF m
<1>p. PICK r \in Nat : \E P, I, B, S :
           r >= 1 /\ Len(levels) = r + 1 /\ MeanWith(c, m, levels, r, P, I, B, S)
  BY <1>2 DEF Reads
<1>3. PICK P, I, B, S : r >= 1 /\ Len(levels) = r + 1 /\ MeanWith(c, m, levels, r, P, I, B, S)
  BY <1>p
<1> DEFINE l == levels[r + 1]
           n == WithName(l, x.what)
           k == SetAt(levels, r + 1, n)
<1>4. LevelOK(l) /\ IsSeq(levels)
  <2>1. r + 1 \in 1..Len(levels)
    BY <1>3
  <2> QED BY <2>1 DEF LevelsOK
<1>5. pushdecl(levels, x.what) = k
  BY <1>3, PushedIs
<1>6. n.names = << x.what >> \o l.names /\ n.blocks = l.blocks /\ n.stmts = l.stmts
  <2> HIDE DEF l
  <2> QED BY <1>4, FieldsOf
<1> HIDE DEF n
<1>7. Len(k) = r + 1 /\ k[r + 1] = n /\ \A d \in 1..(r - 1) : k[d + 1] = levels[d + 1]
  BY <1>3, <1>4, TopSet
<1> HIDE DEF k
<1>8. /\ k[r + 1].names = << c[m + 1].what >> \o levels[r + 1].names
      /\ k[r + 1].blocks = levels[r + 1].blocks /\ k[r + 1].stmts = levels[r + 1].stmts
  BY <1>1, <1>6, <1>7
<1>9. MeanWith(c, m + 1, k, r, P, I, B, S)
  BY <1>1, <1>3, <1>7, <1>8, MeanName
<1> QED BY <1>1, <1>3, <1>5, <1>7, <1>9 DEF Reads

(* A statement. *)
LEMMA ReadStatement ==
  ASSUME NEW levels, NEW f, LevelsOK(levels, f), NEW s, IsSeq(s), LevelsRead(levels, s),
         NEW x, x.op \in {"call", "return"}
  PROVE  LevelsRead(append_to_statement_list(levels, x), Append(s, x))
<1> SUFFICES ASSUME NEW c, Extends(c, Append(s, x))
             PROVE  Reads(append_to_statement_list(levels, x), c, Len(Append(s, x)))
  BY DEF LevelsRead
<1> DEFINE m == Len(s)
<1>1. /\ Extends(c, s) /\ Begins(c, m + 1) /\ c[m + 1] = x /\ m \in Nat /\ Len(Append(s, x)) = m + 1
  BY ExtendsLess
<1>2. Reads(levels, c, m)
  BY <1>1 DEF LevelsRead
<1> HIDE DEF m
<1>p. PICK r \in Nat : \E P, I, B, S :
           r >= 1 /\ Len(levels) = r + 1 /\ MeanWith(c, m, levels, r, P, I, B, S)
  BY <1>2 DEF Reads
<1>3. PICK P, I, B, S : r >= 1 /\ Len(levels) = r + 1 /\ MeanWith(c, m, levels, r, P, I, B, S)
  BY <1>p
<1> DEFINE l == levels[r + 1]
           n == WithStatement(l, x)
           k == SetAt(levels, r + 1, n)
<1>4. LevelOK(l) /\ IsSeq(levels)
  <2>1. r + 1 \in 1..Len(levels)
    BY <1>3
  <2> QED BY <2>1 DEF LevelsOK
<1>5. append_to_statement_list(levels, x) = k
  BY <1>3 DEF append_to_statement_list, SetAt, WithStatement
<1>6. n.names = l.names /\ n.blocks = l.blocks /\ n.stmts = Append(l.stmts, x)
  <2> HIDE DEF l
  <2> QED BY <1>4, FieldsOf
<1> HIDE DEF n
<1>7. Len(k) = r + 1 /\ k[r + 1] = n /\ \A d \in 1..(r - 1) : k[d + 1] = levels[d + 1]
  BY <1>3, <1>4, TopSet
<1> HIDE DEF k
<1>8. /\ k[r + 1].names = levels[r + 1].names
      /\ k[r + 1].blocks = levels[r + 1].blocks /\ k[r + 1].stmts = Append(levels[r + 1].stmts, c[m + 1])
  BY <1>1, <1>6, <1>7
<1>o. c[m + 1].op \in {"call", "return"}
  BY <1>1
<1>9. MeanWith(c, m + 1, k, r, P, I, B, S)
  BY <1>1, <1>3, <1>7, <1>8, <1>o, MeanStatement
<1> QED BY <1>1, <1>3, <1>5, <1>7, <1>9 DEF Reads

(* tree_code_if_start. *)
LEMMA ReadStart ==
  ASSUME NEW levels, NEW f, LevelsOK(levels, f), NEW s, IsSeq(s), LevelsRead(levels, s),
         NEW x, x = [op |-> "if", what |-> << >>],
         NEW st, st = [op |-> "if", what |-> << >>, then |-> << >>, else |-> << >>]
  PROVE  LevelsRead(pushlevel(append_to_statement_list(levels, st)), Append(s, x))
<1> SUFFICES ASSUME NEW c, Extends(c, Append(s, x))
             PROVE  Reads(pushlevel(append_to_statement_list(levels, st)), c, Len(Append(s, x)))
  BY DEF LevelsRead
<1> DEFINE m == Len(s)
<1>1. /\ Extends(c, s) /\ Begins(c, m + 1) /\ c[m + 1] = x /\ m \in Nat /\ Len(Append(s, x)) = m + 1
  BY ExtendsLess
<1>2. Reads(levels, c, m)
  BY <1>1 DEF LevelsRead
<1> HIDE DEF m
<1>p. PICK r \in Nat : \E P, I, B, S :
           r >= 1 /\ Len(levels) = r + 1 /\ MeanWith(c, m, levels, r, P, I, B, S)
  BY <1>2 DEF Reads
<1>3. PICK P, I, B, S : r >= 1 /\ Len(levels) = r + 1 /\ MeanWith(c, m, levels, r, P, I, B, S)
  BY <1>p
<1> DEFINE l == levels[r + 1]
           n == WithStatement(l, st)
           k == SetAt(levels, r + 1, n)
           new == Append(k, clear_binding_level)
<1>4. LevelOK(l) /\ IsSeq(levels)
  <2>1. r + 1 \in 1..Len(levels)
    BY <1>3
  <2> QED BY <2>1 DEF LevelsOK
<1>5. pushlevel(append_to_statement_list(levels, st)) = new
  BY <1>3 DEF append_to_statement_list, SetAt, WithStatement, pushlevel
<1>6. n.names = l.names /\ n.blocks = l.blocks /\ n.stmts = Append(l.stmts, st)
  <2> HIDE DEF l
  <2>1. \A y : /\ WithStatement(l, y).names = l.names /\ WithStatement(l, y).blocks = l.blocks
               /\ WithStatement(l, y).stmts = Append(l.stmts, y)
    BY <1>4, FieldsOf, Zenon
  <2> QED BY <2>1
<1> HIDE DEF n
<1>7. IsSeq(k) /\ Len(k) = r + 1 /\ k[r + 1] = n /\ \A d \in 1..(r - 1) : k[d + 1] = levels[d + 1]
  BY <1>3, <1>4, TopSet
<1> HIDE DEF k
<1>8. Len(new) = (r + 1) + 1 /\ new[(r + 1) + 1] = clear_binding_level /\ \A i \in 1..(r + 1) : new[i] = k[i]
  BY <1>7, IsSeqAppend
<1> HIDE DEF new
<1>10. new[r + 1] = n /\ new[r + 2] = clear_binding_level /\ \A d \in 1..(r - 1) : new[d + 1] = levels[d + 1]
  <2>1. (r + 1) + 1 = r + 2 /\ r + 1 \in 1..(r + 1) /\ \A d \in 1..(r - 1) : d + 1 \in 1..(r + 1)
    BY <1>3
  <2> QED BY <1>7, <1>8, <2>1
<1>11. IsEmptyLevel(new[r + 2])
  BY <1>10, ClearLevel DEF IsEmptyLevel
<1>12. st = OpenStatement(c, m + 1, << >>) /\ c[m + 1].op = "if"
  BY <1>1 DEF OpenStatement
<1>13. /\ new[r + 1].names = levels[r + 1].names /\ new[r + 1].blocks = levels[r + 1].blocks
       /\ new[r + 1].stmts = Append(levels[r + 1].stmts, OpenStatement(c, m + 1, << >>))
  BY <1>6, <1>10, <1>12
<1>14. MeanWith(c, m + 1, new, r + 1, Put(P, r + 1, m + 1), Put(I, r, m + 1), B, S)
  BY <1>1, <1>3, <1>10, <1>11, <1>12, <1>13, MeanStart
<1>15. r + 1 \in Nat /\ r + 1 >= 1
  OBVIOUS
<1> QED BY <1>1, <1>5, <1>8, <1>14, <1>15 DEF Reads

(* Sequences with the same elements. *)
LEMMA SameElements ==
  ASSUME NEW s, IsSeq(s), NEW t, IsSeq(t), Len(s) = Len(t), \A i \in 1..Len(s) : s[i] = t[i]
  PROVE  s = t
<1>1. PICK S : s \in Seq(S)
  BY DEF IsSeq
<1>2. PICK T : t \in Seq(T)
  BY DEF IsSeq
<1> DEFINE U == S \cup T
<1>3. s \in Seq(U) /\ t \in Seq(U)
  BY <1>1, <1>2
<1> HIDE DEF U
<1> QED BY <1>3, SeqEqual

(* The last element replaced. *)
LEMMA LastSet ==
  ASSUME NEW x, IsSeq(x), NEW a, NEW b
  PROVE  SetAt(Append(x, a), Len(Append(x, a)), b) = Append(x, b)
<1> DEFINE n == Len(x)
           s == Append(x, a)
           t == SetAt(s, n + 1, b)
           u == Append(x, b)
<1>1. n \in Nat /\ IsSeq(s) /\ Len(s) = n + 1 /\ \A i \in 1..n : s[i] = x[i]
  BY IsSeqFacts, IsSeqAppend
<1>2. IsSeq(u) /\ Len(u) = n + 1 /\ u[n + 1] = b /\ \A i \in 1..n : u[i] = x[i]
  BY IsSeqAppend
<1> HIDE DEF s, u, n
<1>3. IsSeq(t) /\ Len(t) = n + 1 /\ \A i \in 1..(n + 1) : t[i] = IF i = n + 1 THEN b ELSE s[i]
  BY <1>1, IsSeqExcept
<1> HIDE DEF t
<1>4. \A i \in 1..(n + 1) : t[i] = u[i]
  <2>1. \A i \in 1..(n + 1) : i = n + 1 \/ (i \in 1..n /\ i # n + 1)
    BY <1>1
  <2> QED BY <1>1, <1>2, <1>3, <2>1
<1>5. t = u
  BY <1>2, <1>3, <1>4, SameElements
<1> QED BY <1>1, <1>5 DEF s, t, u

(* The statements with a branch of the last one set. *)
LastThen(l, c, j, x, w) == WithThen(l, Len(l.stmts), w).stmts = Append(x, OpenStatement(c, j, w))
LastElse(l, c, j, x, v, w) == WithElse(l, Len(l.stmts), w).stmts = Append(x, WholeStatement(c, j, v, w))

(* Setting a branch of the last statement. *)
LEMMA ThenIs ==
  ASSUME NEW l, LevelOK(l), NEW c, NEW j, NEW x, IsSeq(x), NEW v, NEW w,
         l.stmts = Append(x, OpenStatement(c, j, v))
  PROVE  LastThen(l, c, j, x, w) /\ LastElse(l, c, j, x, v, w)
<1> DEFINE a == OpenStatement(c, j, v)
           s == l.stmts
           n == Len(s)
<1>1. "stmts" \in DOMAIN l
  BY DEF LevelOK, LevelFields
<1>2. s = Append(x, a) /\ n = Len(x) + 1 /\ s[n] = a
  <2> HIDE DEF a
  <2> QED BY IsSeqAppend DEF a
<1>3. [a EXCEPT !.then = w] = OpenStatement(c, j, w)
  BY DEF OpenStatement
<1>4. [a EXCEPT !.else = w] = WholeStatement(c, j, v, w)
  BY DEF OpenStatement, WholeStatement
<1> HIDE DEF a
<1>5. WithThen(l, n, w).stmts = SetAt(s, n, [s[n] EXCEPT !.then = w])
  BY <1>1 DEF WithThen, SetAt
<1>6. WithElse(l, n, w).stmts = SetAt(s, n, [s[n] EXCEPT !.else = w])
  BY <1>1 DEF WithElse, SetAt
<1> DEFINE p == OpenStatement(c, j, w)
           q == WholeStatement(c, j, v, w)
<1>7. WithThen(l, n, w).stmts = SetAt(s, n, p) /\ WithElse(l, n, w).stmts = SetAt(s, n, q)
  BY <1>2, <1>3, <1>4, <1>5, <1>6
<1> HIDE DEF p, q
<1>8. SetAt(Append(x, a), Len(Append(x, a)), p) = Append(x, p)
  BY LastSet
<1>9. SetAt(Append(x, a), Len(Append(x, a)), q) = Append(x, q)
  BY LastSet
<1> HIDE DEF s
<1> QED BY <1>2, <1>7, <1>8, <1>9 DEF p, q, s, LastThen, LastElse

(* What poplevel leaves at the end of a branch. *)
LEMMA PoppedIs ==
  ASSUME NEW levels, NEW f, LevelsOK(levels, f), NEW r \in Nat, r >= 2, Len(levels) = r + 1
  PROVE  LET k == poplevel(levels, FALSE)
         IN  /\ IsSeq(k) /\ Len(k) = r /\ Last(levels) = levels[r + 1]
             /\ LevelOK(levels[r]) /\ k[r] = WithBlock(levels[r], BlockOf(levels[r + 1])) /\ LevelOK(k[r])
             /\ \A d \in 0..(r - 2) : k[d + 1] = levels[d + 1]
<1> DEFINE outer == Front(levels)
           b == BlockOf(levels[r + 1])
           l == levels[r]
           m == WithBlock(l, b)
           k == SetAt(outer, r, m)
<1>1. IsSeq(levels) /\ Len(levels) >= 1 /\ LevelOK(l) /\ LevelOK(levels[r + 1])
  <2>1. r \in 1..Len(levels) /\ r + 1 \in 1..Len(levels)
    OBVIOUS
  <2> QED BY <2>1 DEF LevelsOK
<1>2. IsSeq(outer) /\ Len(outer) = r /\ \A i \in 1..r : outer[i] = levels[i]
  BY <1>1, IsSeqFront
<1>3. Last(levels) = levels[r + 1]
  BY DEF Last
<1>4. outer[r] = l
  <2>1. r \in 1..r
    OBVIOUS
  <2> QED BY <1>2, <2>1
<1>5. poplevel(levels, FALSE) = k
  BY <1>2, <1>3, <1>4 DEF poplevel, SetAt, WithBlock
<1>6. LevelOK(m)
  <2>1. b.vars \in Seq(Declaration)
    BY <1>1, BlockIs DEF LevelOK
  <2> HIDE DEF b, l
  <2> QED BY <1>1, <2>1, BlockAdded DEF WithBlock
<1> HIDE DEF m, outer
<1>7. IsSeq(k) /\ Len(k) = r /\ \A i \in 1..r : k[i] = IF i = r THEN m ELSE outer[i]
  BY <1>2, IsSeqExcept
<1>8. r \in 1..r /\ \A d \in 0..(r - 2) : d + 1 \in 1..r /\ d + 1 # r
  OBVIOUS
<1> HIDE DEF k
<1>9. k[r] = m /\ \A d \in 0..(r - 2) : k[d + 1] = levels[d + 1]
  BY <1>2, <1>7, <1>8
<1> QED BY <1>1, <1>3, <1>5, <1>6, <1>7, <1>9 DEF m

(* The levels of ThenSet and ElseSet. *)
LEMMA BranchIs ==
  ASSUME NEW k, NEW w
  PROVE  /\ ThenSet(k, w) = SetAt(k, Len(k), WithThen(k[Len(k)], Len(k[Len(k)].stmts), w))
         /\ ElseSet(k, w) = SetAt(k, Len(k), WithElse(k[Len(k)], Len(k[Len(k)].stmts), w))
<1> DEFINE n == Len(k)
           i == Len(k[n].stmts)
<1>1. ThenSet(k, w) = [k EXCEPT ![n] = [k[n] EXCEPT !.stmts =
              [k[n].stmts EXCEPT ![i] = [k[n].stmts[i] EXCEPT !.then = w]]]]
  BY DEF ThenSet
<1>2. ElseSet(k, w) = [k EXCEPT ![n] = [k[n] EXCEPT !.stmts =
              [k[n].stmts EXCEPT ![i] = [k[n].stmts[i] EXCEPT !.else = w]]]]
  BY DEF ElseSet
<1> QED BY <1>1, <1>2 DEF SetAt, WithThen, WithElse

(* The levels after a branch was closed. *)
LEMMA BranchSet ==
  ASSUME NEW levels, NEW f, LevelsOK(levels, f), NEW r \in Nat, r >= 2, Len(levels) = r + 1
  PROVE  LET w == << Bind(Last(levels)) >>
             t == ThenSet(poplevel(levels, FALSE), w)
             e == ElseSet(poplevel(levels, FALSE), w)
         IN  /\ IsSeq(t) /\ Len(t) = r /\ \A d \in 0..(r - 2) : t[d + 1] = levels[d + 1]
             /\ t[r].names = levels[r].names /\ t[r].blocks = Append(levels[r].blocks, BlockOf(levels[r + 1]))
             /\ \A c, i : ThenPut(c, i, levels[r].stmts, t[r].stmts, Bind(levels[r + 1]))
             /\ IsSeq(e) /\ Len(e) = r /\ \A d \in 0..(r - 2) : e[d + 1] = levels[d + 1]
             /\ e[r].names = levels[r].names /\ e[r].blocks = Append(levels[r].blocks, BlockOf(levels[r + 1]))
             /\ \A c, i : ElsePut(c, i, levels[r].stmts, e[r].stmts, Bind(levels[r + 1]))
<1> DEFINE k == poplevel(levels, FALSE)
           b == BlockOf(levels[r + 1])
           bind == Bind(levels[r + 1])
           l == levels[r]
           m == k[r]
           n == Len(m.stmts)
           w == << bind >>
           t == SetAt(k, r, WithThen(m, n, w))
           e == SetAt(k, r, WithElse(m, n, w))
<1>1. /\ IsSeq(k) /\ Len(k) = r /\ Last(levels) = levels[r + 1]
      /\ LevelOK(l) /\ m = WithBlock(l, b) /\ LevelOK(m)
      /\ \A d \in 0..(r - 2) : k[d + 1] = levels[d + 1]
  BY PoppedIs
<1> HIDE DEF k, b, l, bind
<1>2. ThenSet(k, w) = t /\ ElseSet(k, w) = e
  <2> HIDE DEF w
  <2> QED BY <1>1, BranchIs
<1>3. m.names = l.names /\ m.blocks = Append(l.blocks, b) /\ m.stmts = l.stmts
  <2>1. \A y : /\ WithBlock(l, y).names = l.names /\ WithBlock(l, y).blocks = Append(l.blocks, y)
               /\ WithBlock(l, y).stmts = l.stmts
    BY <1>1, FieldsOf, Zenon
  <2> HIDE DEF m
  <2> QED BY <1>1, <2>1
<1> HIDE DEF m, w
<1>4. /\ WithThen(m, n, w).names = m.names /\ WithThen(m, n, w).blocks = m.blocks
      /\ WithElse(m, n, w).names = m.names /\ WithElse(m, n, w).blocks = m.blocks
  BY <1>1, BranchOK
<1>5. ASSUME NEW c, NEW i PROVE ThenPut(c, i, l.stmts, WithThen(m, n, w).stmts, bind)
  <2> SUFFICES ASSUME NEW x, IsSeq(x), l.stmts = Append(x, OpenStatement(c, i, << >>))
               PROVE  WithThen(m, n, w).stmts = Append(x, OpenStatement(c, i, w))
    BY DEF ThenPut, w
  <2> DEFINE v == << >>
  <2>1. m.stmts = Append(x, OpenStatement(c, i, v))
    BY <1>3
  <2> HIDE DEF v
  <2>2. LastThen(m, c, i, x, w)
    BY <1>1, <2>1, ThenIs, Zenon
  <2> QED BY <2>2 DEF LastThen
<1>6. ASSUME NEW c, NEW i PROVE ElsePut(c, i, l.stmts, WithElse(m, n, w).stmts, bind)
  <2> SUFFICES ASSUME NEW x, NEW v, IsSeq(x), l.stmts = Append(x, OpenStatement(c, i, v))
               PROVE  WithElse(m, n, w).stmts = Append(x, WholeStatement(c, i, v, w))
    BY DEF ElsePut, w
  <2>1. m.stmts = Append(x, OpenStatement(c, i, v))
    BY <1>3
  <2>2. LastElse(m, c, i, x, v, w)
    BY <1>1, <2>1, ThenIs, Zenon
  <2> QED BY <2>2 DEF LastElse
<1> DEFINE T == WithThen(m, n, w)
           E == WithElse(m, n, w)
<1>7. /\ \A c, i : ThenPut(c, i, l.stmts, T.stmts, bind)
      /\ \A c, i : ElsePut(c, i, l.stmts, E.stmts, bind)
      /\ T.names = l.names /\ T.blocks = Append(l.blocks, b)
      /\ E.names = l.names /\ E.blocks = Append(l.blocks, b)
  BY <1>3, <1>4, <1>5, <1>6
<1> HIDE DEF T, E
<1>8. r \in 1..r /\ \A d \in 0..(r - 2) : d + 1 \in 1..r /\ d + 1 # r
  OBVIOUS
<1>9. IsSeq(t) /\ Len(t) = r /\ \A i \in 1..r : t[i] = IF i = r THEN T ELSE k[i]
  <2>1. t = SetAt(k, r, T)
    BY DEF T
  <2> HIDE DEF t
  <2> QED BY <1>1, <2>1, IsSeqExcept
<1>10. IsSeq(e) /\ Len(e) = r /\ \A i \in 1..r : e[i] = IF i = r THEN E ELSE k[i]
  <2>1. e = SetAt(k, r, E)
    BY DEF E
  <2> HIDE DEF e
  <2> QED BY <1>1, <2>1, IsSeqExcept
<1> HIDE DEF t, e
<1>11. t[r] = T /\ e[r] = E /\ \A d \in 0..(r - 2) : t[d + 1] = levels[d + 1] /\ e[d + 1] = levels[d + 1]
  BY <1>1, <1>8, <1>9, <1>10
<1>12. w = << Bind(Last(levels)) >>
  BY <1>1 DEF w, bind
<1> QED BY <1>2, <1>7, <1>9, <1>10, <1>11, <1>12 DEF k, b, l, bind

(* tree_code_if_else needs an IF that has no branch yet. *)
LEMMA ThenIsOpen ==
  ASSUME NEW c, NEW m \in Nat, NEW lev, NEW r \in Nat, r >= 2,
         NEW P, NEW I, NEW B, NEW S, MeanWith(c, m, lev, r, P, I, B, S),
         Last(lev[r].stmts).then = << >>
  PROVE  P[r] = I[r - 1]
<1> SUFFICES ASSUME P[r] # I[r - 1] PROVE FALSE
  OBVIOUS
<1> DEFINE i == I[r - 1]
           p == P[r - 1]
           x == StmtsUpTo(c, B, S, p, i - 1)
           v == Branch(B[i], S[i])
           a == OpenStatement(c, i, v)
           s == lev[r].stmts
<1>1. OuterIs(c, m, lev[r], p, i, P[r], B, S) /\ i \in 1..m
  BY TopIf
<1> HIDE DEF s
<1>2. s = Append(x, a)
  BY <1>1 DEF OuterIs, s
<1>3. IsSeq(x)
  <2>1. i - 1 \in Nat
    BY <1>1
  <2> HIDE DEF i, p
  <2> QED BY <2>1, StmtsStep
<1>4. a.then = v
  BY DEF OpenStatement
<1>5. v # << >>
  BY DEF Branch
<1> HIDE DEF x, a, v
<1>6. Last(s) = a
  BY <1>2, <1>3, IsSeqAppend DEF Last
<1> QED BY <1>4, <1>5, <1>6 DEF s

(* tree_code_if_else. *)
LEMMA ReadElse ==
  ASSUME NEW levels, NEW f, LevelsOK(levels, f), NEW s, IsSeq(s), LevelsRead(levels, s),
         NEW x, x.op = "else", Len(levels) > 2, Last(levels[Len(levels) - 1].stmts).then = << >>
  PROVE  LevelsRead(pushlevel(ThenSet(poplevel(levels, FALSE), << Bind(Last(levels)) >>)), Append(s, x))
<1> DEFINE k == ThenSet(poplevel(levels, FALSE), << Bind(Last(levels)) >>)
           new == Append(k, clear_binding_level)
           m == Len(s)
<1> SUFFICES ASSUME NEW c, Extends(c, Append(s, x))
             PROVE  Reads(new, c, Len(Append(s, x)))
  BY DEF LevelsRead, pushlevel
<1>1. /\ Extends(c, s) /\ Begins(c, m + 1) /\ c[m + 1] = x /\ m \in Nat /\ Len(Append(s, x)) = m + 1
  BY ExtendsLess
<1>2. Reads(levels, c, m)
  BY <1>1 DEF LevelsRead
<1> HIDE DEF m
<1>p. PICK r \in Nat : \E P, I, B, S :
           r >= 1 /\ Len(levels) = r + 1 /\ MeanWith(c, m, levels, r, P, I, B, S)
  BY <1>2 DEF Reads
<1>3. PICK P, I, B, S : r >= 1 /\ Len(levels) = r + 1 /\ MeanWith(c, m, levels, r, P, I, B, S)
  BY <1>p
<1>4. r >= 2 /\ Len(levels) - 1 = r
  BY <1>3
<1>5. P[r] = I[r - 1]
  BY <1>1, <1>3, <1>4, ThenIsOpen
<1>6. /\ IsSeq(k) /\ Len(k) = r /\ (\A d \in 0..(r - 2) : k[d + 1] = levels[d + 1])
      /\ k[r].names = levels[r].names /\ k[r].blocks = Append(levels[r].blocks, BlockOf(levels[r + 1]))
      /\ \A i : ThenPut(c, i, levels[r].stmts, k[r].stmts, Bind(levels[r + 1]))
  BY <1>3, <1>4, BranchSet
<1> HIDE DEF k
<1>7. Len(new) = r + 1 /\ new[r + 1] = clear_binding_level /\ \A i \in 1..r : new[i] = k[i]
  BY <1>6, IsSeqAppend
<1> HIDE DEF new
<1>8. new[r] = k[r] /\ \A d \in 1..(r - 2) : new[d + 1] = levels[d + 1]
  <2>1. r \in 1..r /\ \A d \in 1..(r - 2) : d + 1 \in 1..r /\ d \in 0..(r - 2)
    BY <1>4
  <2> QED BY <1>6, <1>7, <2>1
<1>9. IsEmptyLevel(new[r + 1])
  BY <1>7, ClearLevel DEF IsEmptyLevel
<1>10. /\ new[r].names = levels[r].names /\ new[r].blocks = Append(levels[r].blocks, BlockOf(levels[r + 1]))
       /\ ThenPut(c, I[r - 1], levels[r].stmts, new[r].stmts, Bind(levels[r + 1]))
  BY <1>6, <1>8
<1>o. c[m + 1].op = "else"
  BY <1>1
<1>11. MeanWith(c, m + 1, new, r, Put(P, r, m + 1), I,
                Put(B, P[r], BlockOf(levels[r + 1])), Put(S, P[r], levels[r + 1].stmts))
  BY <1>1, <1>3, <1>4, <1>5, <1>8, <1>9, <1>10, <1>o, MeanElse
<1> QED BY <1>1, <1>3, <1>7, <1>11 DEF Reads

(* tree_code_if_end. *)
LEMMA ReadEnd ==
  ASSUME NEW levels, NEW f, LevelsOK(levels, f), NEW s, IsSeq(s), LevelsRead(levels, s),
         NEW x, x.op = "end", Len(levels) > 2
  PROVE  LevelsRead(ElseSet(poplevel(levels, FALSE), << Bind(Last(levels)) >>), Append(s, x))
<1> DEFINE k == ElseSet(poplevel(levels, FALSE), << Bind(Last(levels)) >>)
           m == Len(s)
<1> SUFFICES ASSUME NEW c, Extends(c, Append(s, x))
             PROVE  Reads(k, c, Len(Append(s, x)))
  BY DEF LevelsRead
<1>1. /\ Extends(c, s) /\ Begins(c, m + 1) /\ c[m + 1] = x /\ m \in Nat /\ Len(Append(s, x)) = m + 1
      /\ EveryIfHasElse(c)
  BY ExtendsLess
<1>2. Reads(levels, c, m)
  BY <1>1 DEF LevelsRead
<1> HIDE DEF m
<1>p. PICK r \in Nat : \E P, I, B, S :
           r >= 1 /\ Len(levels) = r + 1 /\ MeanWith(c, m, levels, r, P, I, B, S)
  BY <1>2 DEF Reads
<1>3. PICK P, I, B, S : r >= 1 /\ Len(levels) = r + 1 /\ MeanWith(c, m, levels, r, P, I, B, S)
  BY <1>p
<1>4. r >= 2
  BY <1>3
<1>6. /\ Len(k) = r /\ (\A d \in 0..(r - 2) : k[d + 1] = levels[d + 1])
      /\ k[r].names = levels[r].names /\ k[r].blocks = Append(levels[r].blocks, BlockOf(levels[r + 1]))
      /\ \A i : ElsePut(c, i, levels[r].stmts, k[r].stmts, Bind(levels[r + 1]))
  BY <1>3, <1>4, BranchSet
<1> HIDE DEF k
<1>8. \A d \in 1..(r - 2) : k[d + 1] = levels[d + 1]
  <2>1. \A d \in 1..(r - 2) : d \in 0..(r - 2)
    OBVIOUS
  <2> QED BY <1>6, <2>1
<1>9. ElsePut(c, I[r - 1], levels[r].stmts, k[r].stmts, Bind(levels[r + 1]))
  BY <1>6
<1>o. c[m + 1].op = "end"
  BY <1>1
<1>11. MeanWith(c, m + 1, k, r - 1, P, I,
                Put(B, P[r], BlockOf(levels[r + 1])), Put(S, P[r], levels[r + 1].stmts))
  BY <1>1, <1>3, <1>4, <1>6, <1>8, <1>9, <1>o, MeanEnd
<1>12. r - 1 \in Nat /\ r - 1 >= 1 /\ (r - 1) + 1 = r
  BY <1>4
<1> QED BY <1>1, <1>6, <1>11, <1>12 DEF Reads

(* The level of a new function: only its body is open. *)
LEMMA ReadNew ==
  ASSUME NEW levels, Len(levels) = 2, IsEmptyLevel(levels[2])
  PROVE  LevelsRead(levels, << >>)
<1> SUFFICES ASSUME NEW c, Extends(c, << >>) PROVE Reads(levels, c, 0)
  BY IsSeqEmpty DEF LevelsRead
<1> DEFINE P == [d \in Nat |-> 0]
           e == 0
<1>1. P[1] = 0 /\ \A d \in 1..1 : d = 1
  OBVIOUS
<1> HIDE DEF P
<1>2. BlocksOpen(c, e, 1, P)
  <2>1. Depth(c, e + 1) = 1 - 1
    BY DepthStart
  <2>2. P[1] \in 0..e /\ 1..0 = {}
    BY <1>1
  <2>3. LastOpened(c, e + 1, 1 - 1, P[1])
    <3>1. Opens(c, 0) /\ Inside(c, 0) = 0
      BY DEF Opens, Inside
    <3> QED BY <1>1, <2>2, <3>1 DEF LastOpened
  <2>4. \A d, g \in 1..1 : ~(d < g)
    BY <1>1
  <2> QED BY <1>1, <2>1, <2>2, <2>3, <2>4 DEF BlocksOpen
<1>3. IfsOpen(c, e, 1, P, P) /\ IfsClosed(c, e, 1, P, P) /\ BlocksClosed(c, e, 1, P, P, P)
  <2>1. 1..(1 - 1) = {} /\ 1..0 = {}
    OBVIOUS
  <2> QED BY <2>1 DEF IfsOpen, IfsClosed, BlocksClosed
<1>4. LevelsMean(c, e, levels, 1, P, P, P, P)
  <2>1. 1..(1 - 1) = {} /\ 1 + 1 = 2
    OBVIOUS
  <2>2. VarsUpTo(c, 0, 0) = << >> /\ BlocksUpTo(c, P, 0, 0) = << >> /\ StmtsUpTo(c, P, P, 0, 0) = << >>
    BY ListsStart
  <2>3. InnerIs(c, e, levels[1 + 1], P[1], P, P)
    BY <1>1, <2>2 DEF InnerIs, IsEmptyLevel
  <2> QED BY <2>1, <2>3 DEF LevelsMean
<1>5. MeanWith(c, 0, levels, 1, P, P, P, P)
  BY <1>2, <1>3, <1>4 DEF MeanWith
<1>6. 1 \in Nat /\ 1 >= 1 /\ Len(levels) = 1 + 1
  OBVIOUS
<1> QED BY <1>5, <1>6 DEF Reads

(* The level of a body is the tree of the function. *)
LEMMA ReadBody ==
  ASSUME NEW levels, Len(levels) = 2, NEW s, IsSeq(s), LevelsRead(levels, s), EveryIfHasElse(s)
  PROVE  FunctionTree(s) = [vars |-> levels[2].names, stmts |-> levels[2].stmts, block |-> << BlockOf(levels[2]) >>]
<1>1. Extends(s, s)
  BY IsSeqFacts DEF Extends
<1>p. PICK r \in Nat : \E P, I, B, S :
           r >= 1 /\ Len(levels) = r + 1 /\ MeanWith(s, Len(s), levels, r, P, I, B, S)
  BY <1>1 DEF LevelsRead, Reads
<1>2. PICK P, I, B, S : r >= 1 /\ Len(levels) = r + 1 /\ MeanWith(s, Len(s), levels, r, P, I, B, S)
  BY <1>p
<1>3. r = 1
  BY <1>2
<1>4. MeanWith(s, Len(s), levels, 1, P, I, B, S)
  BY <1>2, <1>3
<1> QED BY <1>4, TreeIs

(* The fields of a function that TreeIsMeaning needs. *)
MeaningFields == {"parms", "arguments", "types", "initial", "saved"}

(* A function is what its calls mean, when it is finished. *)
FunctionMeans(g, s) ==
  /\ MeaningFields \subseteq DOMAIN g
  /\ g.arguments = g.parms /\ g.types = Append(g.parms, "void")
  /\ g.saved # << >> /\ EveryIfHasElse(s) =>
       g.saved = << FunctionTree(s) >> /\ g.initial = g.saved[1].block

(* The invariant: the open levels are what the calls so far mean. *)
MInv ==
  /\ \A f \in 1..Len(function) : FunctionMeans(function[f], calls[f])
  /\ current_function_decl # NULL =>
       LevelsRead(level, calls[current_function_decl]) /\ function[current_function_decl].saved = << >>

(* A function that is not finished means nothing yet. *)
LEMMA OpenMeans ==
  ASSUME NEW g, NEW s, NEW t, FunctionMeans(g, s), g.saved = << >>
  PROVE  FunctionMeans(g, t)
BY DEF FunctionMeans

(* A call in a body leaves the functions alone. *)
LEMMA BodyReads ==
  ASSUME BInv, MInv, current_function_decl # NULL, NEW op, NEW what, Called(op, what),
         UNCHANGED << current_function_decl, function >>,
         LevelsRead(level', Append(calls[current_function_decl], [op |-> op, what |-> what]))
  PROVE  MInv'
<1> DEFINE f == current_function_decl
           c == calls[f]
           d == Append(c, [op |-> op, what |-> what])
<1>1. /\ IsSeq(calls) /\ f \in 0..Len(function) /\ f # 0 /\ Len(calls) = Len(function)
      /\ Len(calls) \in Nat
  BY IsSeqFacts DEF BInv, NULL
<1>2. f \in 1..Len(calls)
  BY <1>1
<1>3. calls' = SetAt(calls, f, d)
  BY DEF Called, SetAt
<1>4. LevelsRead(level', d)
  OBVIOUS
<1> HIDE DEF d
<1>5. \A i \in 1..Len(calls) : calls'[i] = IF i = f THEN d ELSE calls[i]
  BY <1>1, <1>3, IsSeqExcept
<1>6. function' = function /\ f' = f
  OBVIOUS
<1>7. /\ (\A i \in 1..Len(function) : FunctionMeans(function[i], calls[i])) /\ function[f].saved = << >>
  BY DEF MInv
<1> HIDE DEF c
<1>8. ASSUME NEW i \in 1..Len(function') PROVE FunctionMeans(function'[i], calls'[i])
  <2>1. i \in 1..Len(function) /\ i \in 1..Len(calls) /\ function'[i] = function[i]
    BY <1>1, <1>6
  <2>2. FunctionMeans(function[i], calls[i])
    BY <1>7, <2>1
  <2>3. CASE i = f
    BY <1>7, <2>1, <2>2, <2>3, OpenMeans
  <2>4. CASE i # f
    BY <1>5, <2>1, <2>2, <2>4
  <2> QED BY <2>3, <2>4
<1>9. LevelsRead(level', calls'[f']) /\ function'[f'].saved = << >>
  BY <1>2, <1>4, <1>5, <1>6, <1>7
<1> QED BY <1>8, <1>9 DEF MInv

(* What is known in a body. *)
LEMMA BodyMeans ==
  ASSUME BInv, MInv, InBody
  PROVE  /\ LevelsOK(level, current_function_decl) /\ IsSeq(calls[current_function_decl])
         /\ LevelsRead(level, calls[current_function_decl]) /\ current_function_decl # NULL
<1>1. current_function_decl # NULL /\ LevelsOK(level, current_function_decl)
  BY InBodyFacts
<1>2. current_function_decl \in 1..Len(calls)
  BY <1>1, IsSeqFacts DEF BInv, NULL
<1> QED BY <1>1, <1>2 DEF BInv, MInv

(* Expression statements and RETURN. *)
LEMMA StatementMeans ==
  ASSUME BInv, MInv, NEW op \in {"call", "return"}, NEW what, tree_code_output_statement(op, what, what)
  PROVE  MInv'
<1> DEFINE x == [op |-> op, what |-> what]
           c == calls[current_function_decl]
<1>1. InBody /\ Called(op, what) /\ UNCHANGED << current_function_decl, function >>
      /\ level' = append_to_statement_list(level, x)
  BY DEF tree_code_output_statement
<1>2. LevelsOK(level, current_function_decl) /\ IsSeq(c) /\ LevelsRead(level, c) /\ current_function_decl # NULL
  BY <1>1, BodyMeans
<1>3. LevelsRead(level', Append(c, x))
  <2>1. x.op \in {"call", "return"}
    OBVIOUS
  <2> HIDE DEF x, c
  <2> QED BY <1>1, <1>2, <2>1, ReadStatement
<1> QED BY <1>1, <1>2, <1>3, BodyReads

(* tree_code_if_start. *)
LEMMA IfStartMeans ==
  ASSUME BInv, MInv, tree_code_if_start
  PROVE  MInv'
<1> DEFINE op == "if"
           what == << >>
           x == [op |-> op, what |-> what]
           st == [op |-> "if", what |-> << >>, then |-> << >>, else |-> << >>]
           c == calls[current_function_decl]
<1>1. InBody /\ Called(op, what) /\ UNCHANGED << current_function_decl, function >>
      /\ level' = pushlevel(append_to_statement_list(level, st))
  BY DEF tree_code_if_start
<1>2. LevelsOK(level, current_function_decl) /\ IsSeq(c) /\ LevelsRead(level, c) /\ current_function_decl # NULL
  BY <1>1, BodyMeans
<1>3. x = [op |-> "if", what |-> << >>] /\ st = [op |-> "if", what |-> << >>, then |-> << >>, else |-> << >>]
  OBVIOUS
<1>4. LevelsRead(level', Append(c, x))
  <2> HIDE DEF x, c, st
  <2>1. LevelsRead(pushlevel(append_to_statement_list(level, st)), Append(c, x))
    BY <1>2, <1>3, ReadStart
  <2> QED BY <1>1, <2>1
<1> HIDE DEF op, what
<1> QED BY <1>1, <1>2, <1>4, BodyReads

(* tree_code_if_else. *)
LEMMA IfElseMeans ==
  ASSUME BInv, MInv, tree_code_if_else
  PROVE  MInv'
<1> DEFINE op == "else"
           what == << >>
           x == [op |-> op, what |-> what]
           c == calls[current_function_decl]
           new == pushlevel(ThenSet(poplevel(level, FALSE), << Bind(Last(level)) >>))
<1>1. InBody /\ Called(op, what) /\ UNCHANGED << current_function_decl, function >>
      /\ level' = new /\ Len(level) > 2 /\ Last(level[Len(level) - 1].stmts).then = << >>
  BY DEF tree_code_if_else, ThenSet, OpenIf
<1>2. LevelsOK(level, current_function_decl) /\ IsSeq(c) /\ LevelsRead(level, c) /\ current_function_decl # NULL
  BY <1>1, BodyMeans
<1>3. x.op = "else"
  OBVIOUS
<1>4. LevelsRead(level', Append(c, x))
  <2> HIDE DEF x, c
  <2>1. LevelsRead(new, Append(c, x))
    BY <1>1, <1>2, <1>3, ReadElse
  <2> QED BY <1>1, <2>1
<1> HIDE DEF op, what
<1> QED BY <1>1, <1>2, <1>4, BodyReads

(* tree_code_if_end. *)
LEMMA IfEndMeans ==
  ASSUME BInv, MInv, tree_code_if_end
  PROVE  MInv'
<1> DEFINE op == "end"
           what == << >>
           x == [op |-> op, what |-> what]
           c == calls[current_function_decl]
           new == ElseSet(poplevel(level, FALSE), << Bind(Last(level)) >>)
<1>1. InBody /\ Called(op, what) /\ UNCHANGED << current_function_decl, function >>
      /\ level' = new /\ Len(level) > 2
  BY DEF tree_code_if_end, ElseSet
<1>2. LevelsOK(level, current_function_decl) /\ IsSeq(c) /\ LevelsRead(level, c) /\ current_function_decl # NULL
  BY <1>1, BodyMeans
<1>3. x.op = "end"
  OBVIOUS
<1>4. LevelsRead(level', Append(c, x))
  <2> HIDE DEF x, c
  <2>1. LevelsRead(new, Append(c, x))
    BY <1>1, <1>2, <1>3, ReadEnd
  <2> QED BY <1>1, <2>1
<1> HIDE DEF op, what
<1> QED BY <1>1, <1>2, <1>4, BodyReads

(* tree_code_create_variable, in a body and outside. *)
LEMMA VariableMeans ==
  ASSUME BInv, MInv, NEW name, NEW storage, tree_code_create_variable(name, storage)
  PROVE  MInv'
<1> DEFINE decl == [name |-> name, context |-> Context(storage)]
           op == "var"
           x == [op |-> op, what |-> decl]
           c == calls[current_function_decl]
<1>1. level' = pushdecl(level, decl) /\ UNCHANGED << current_function_decl, function >>
  BY DEF tree_code_create_variable
<1>2. CASE InBody /\ Called(op, decl)
  <2>1. LevelsOK(level, current_function_decl) /\ IsSeq(c) /\ LevelsRead(level, c) /\ current_function_decl # NULL
    BY <1>2, BodyMeans
  <2> HIDE DEF decl
  <2>2. x.op = "var" /\ x.what = decl
    OBVIOUS
  <2>3. LevelsRead(level', Append(c, x))
    <3> HIDE DEF x, c
    <3>1. LevelsRead(pushdecl(level, x.what), Append(c, x))
      BY <2>1, <2>2, ReadName
    <3> QED BY <1>1, <2>2, <3>1
  <2> HIDE DEF op
  <2> QED BY <1>1, <1>2, <2>1, <2>3, BodyReads
<1>3. CASE OutsideBody /\ UNCHANGED calls
  <2>1. current_function_decl = NULL /\ calls' = calls /\ function' = function /\ current_function_decl' = NULL
    BY <1>1, <1>3 DEF OutsideBody
  <2> QED BY <2>1 DEF MInv
<1> QED BY <1>2, <1>3 DEF tree_code_create_variable

(* tree_code_create_function_initial. *)
LEMMA FunctionBegins ==
  ASSUME BInv, MInv, NEW parms \in ParameterLists, tree_code_create_function_initial(parms)
  PROVE  MInv'
<1> DEFINE fn == Len(function) + 1
           decl == [name |-> "function", context |-> NULL]
           k == pushdecl(level, decl)
           g == [parms |-> parms, arguments |-> Chained(parms),
                 types |-> tree_code_create_function_prototype(parms),
                 initial |-> << >>, saved |-> << >>]
           n == Len(function)
<1>1. /\ OutsideBody /\ level' = pushlevel(k) /\ current_function_decl' = fn
      /\ function' = Append(function, g) /\ calls' = Append(calls, << >>)
  BY DEF tree_code_create_function_initial
<1>2. /\ LevelsOK(level, NULL) /\ Len(level) = 1 /\ n \in Nat
      /\ IsSeq(function) /\ IsSeq(calls) /\ Len(calls) = n
  BY <1>1, IsSeqFacts DEF OutsideBody, BInv, CountsOK
<1>3. FunctionMeans(g, << >>)
  <2>1. parms \in Seq(STRING)
    BY ListAssumption DEF ListAssumption
  <2>2. g.arguments = g.parms /\ g.types = Append(g.parms, "void")
    <3>1. Chained(parms) = parms
      BY <2>1, ChainedIs
    <3>2. tree_code_create_function_prototype(parms) = Append(parms, "void")
      BY <2>1, PrototypeIs
    <3> QED BY <3>1, <3>2
  <2>3. g.saved = << >> /\ MeaningFields \subseteq DOMAIN g
    BY DEF MeaningFields
  <2> HIDE DEF g
  <2> QED BY <2>2, <2>3 DEF FunctionMeans
<1>g. g.saved = << >>
  OBVIOUS
<1> HIDE DEF g, decl
<1>4. Len(level') = 2 /\ IsEmptyLevel(level'[2])
  <2>1. IsSeq(k) /\ Len(k) = 1
    <3> DEFINE l == WithName(level[1], decl)
    <3>1. k = SetAt(level, 1, l)
      BY <1>2, PushedIs
    <3>2. IsSeq(level)
      BY <1>2 DEF LevelsOK
    <3> HIDE DEF l, k
    <3>3. IsSeq(SetAt(level, 1, l)) /\ Len(SetAt(level, 1, l)) = Len(level)
      BY <3>2, IsSeqExcept
    <3> QED BY <1>2, <3>1, <3>3
  <2> HIDE DEF k
  <2>2. LET q == Append(k, clear_binding_level) IN Len(q) = 1 + 1 /\ q[1 + 1] = clear_binding_level
    BY <2>1, IsSeqAppend
  <2>3. 1 + 1 = 2
    OBVIOUS
  <2>4. level' = Append(k, clear_binding_level)
    BY <1>1 DEF pushlevel
  <2>5. Len(level') = 2 /\ level'[2] = clear_binding_level
    BY <2>2, <2>3, <2>4
  <2> QED BY <2>5, ClearLevel DEF IsEmptyLevel
<1> HIDE DEF k
<1>5. /\ Len(function') = n + 1 /\ function'[n + 1] = g /\ \A f \in 1..n : function'[f] = function[f]
  BY <1>1, <1>2, IsSeqAppend
<1>6. calls'[n + 1] = << >> /\ \A f \in 1..n : calls'[f] = calls[f]
  BY <1>1, <1>2, IsSeqAppend
<1>7. \A f \in 1..(n + 1) : f \in 1..n \/ f = n + 1
  BY <1>2
<1>8. \A f \in 1..n : FunctionMeans(function[f], calls[f])
  BY DEF MInv
<1> HIDE DEF n
<1>9. \A f \in 1..Len(function') : FunctionMeans(function'[f], calls'[f])
  BY <1>3, <1>5, <1>6, <1>7, <1>8
<1>10. LevelsRead(level', << >>)
  <2> DEFINE q == level'
  <2>1. Len(q) = 2 /\ IsEmptyLevel(q[2])
    BY <1>4
  <2> HIDE DEF q
  <2>2. LevelsRead(q, << >>)
    BY <2>1, ReadNew
  <2> QED BY <2>2 DEF q
<1>11. current_function_decl' = n + 1
  BY <1>1 DEF n
<1>12. LevelsRead(level', calls'[current_function_decl']) /\ function'[current_function_decl'].saved = << >>
  BY <1>5, <1>6, <1>10, <1>11, <1>g
<1> QED BY <1>9, <1>12 DEF MInv

(* A function that is closed is what its calls mean. *)
LEMMA ClosedMeans ==
  ASSUME NEW g, NEW s, FunctionMeans(g, s), NEW b, NEW t,
         EveryIfHasElse(s) => t = FunctionTree(s) /\ t.block = << b >>
  PROVE  FunctionMeans(WithBody(g, << b >>, << t >>), s)
<1> DEFINE k == WithBody(g, << b >>, << t >>)
<1>1. /\ DOMAIN k = DOMAIN g /\ k.initial = << b >> /\ k.saved = << t >> /\ k.parms = g.parms
      /\ k.arguments = g.arguments /\ k.types = g.types
  BY DEF FunctionMeans, MeaningFields, WithBody
<1>2. << t >>[1] = t
  OBVIOUS
<1> HIDE DEF k
<1>3. EveryIfHasElse(s) => k.saved = << FunctionTree(s) >> /\ k.initial = k.saved[1].block
  BY <1>1, <1>2
<1>4. FunctionMeans(k, s)
  BY <1>1, <1>3 DEF FunctionMeans
<1> QED BY <1>4 DEF k

(* tree_code_create_function_wrapup. *)
LEMMA WrapupMeans ==
  ASSUME BInv, MInv, tree_code_create_function_wrapup
  PROVE  MInv'
<1> DEFINE f == current_function_decl
           body == Last(level)
           b == BlockOf(body)
           t == [vars |-> body.names, stmts |-> body.stmts, block |-> << BlockOf(body) >>]
           g == WithBody(function[f], << b >>, << t >>)
           n == Len(function)
           c == calls[f]
<1>1. f # NULL /\ Len(level) = 2 /\ current_function_decl' = NULL /\ calls' = calls
  BY DEF tree_code_create_function_wrapup
<1>2. function' = SetAt(function, f, g)
  <2>1. function' = [function EXCEPT ![f].initial = << b >>, ![f].saved = << t >>]
    BY DEF tree_code_create_function_wrapup
  <2>2. f \in DOMAIN function
    BY <1>1, IsSeqFacts DEF BInv, NULL
  <2> QED BY <2>1, <2>2 DEF SetAt, WithBody
<1>3. n \in Nat /\ f \in 1..n /\ IsSeq(function) /\ IsSeq(c)
  <2>1. n \in Nat /\ f \in 1..n /\ IsSeq(function) /\ Len(calls) = n
    BY <1>1, IsSeqFacts DEF BInv, NULL
  <2> QED BY <2>1 DEF BInv
<1>4. LevelsRead(level, c) /\ \A i \in 1..n : FunctionMeans(function[i], calls[i])
  BY <1>1 DEF MInv
<1>5. body = level[2]
  BY <1>1 DEF Last
<1>6. EveryIfHasElse(c) => t = FunctionTree(c) /\ t.block = << b >>
  <2>1. EveryIfHasElse(c) =>
          FunctionTree(c) = [vars |-> level[2].names, stmts |-> level[2].stmts, block |-> << BlockOf(level[2]) >>]
    <3> HIDE DEF c
    <3> QED BY <1>1, <1>3, <1>4, ReadBody
  <2> QED BY <1>5, <2>1
<1> HIDE DEF b, t, body
<1>7. FunctionMeans(g, c)
  <2>1. FunctionMeans(function[f], c)
    BY <1>3, <1>4
  <2> HIDE DEF c
  <2> QED BY <1>6, <2>1, ClosedMeans
<1> HIDE DEF g, f
<1>8. Len(function') = n /\ \A i \in 1..n : function'[i] = IF i = f THEN g ELSE function[i]
  BY <1>2, <1>3, IsSeqExcept
<1>9. \A i \in 1..Len(function') : FunctionMeans(function'[i], calls'[i])
  BY <1>1, <1>4, <1>7, <1>8
<1> QED BY <1>1, <1>9 DEF MInv

(* Each call keeps the invariant. *)
LEMMA NextMeans ==
  ASSUME BInv, MInv, [Next]_vars
  PROVE  MInv'
<1>1. CASE \E parms \in ParameterLists : tree_code_create_function_initial(parms)
  BY <1>1, FunctionBegins
<1>2. CASE tree_code_create_function_wrapup
  BY <1>2, WrapupMeans
<1>3. ASSUME NEW v \in Variable,
             tree_code_create_variable(v, IF v \in Externals THEN "external" ELSE "automatic")
      PROVE  MInv'
  <2> DEFINE storage == IF v \in Externals THEN "external" ELSE "automatic"
  <2> HIDE DEF storage
  <2> QED BY <1>3, VariableMeans DEF storage
<1>4. CASE tree_code_output_statement("return", << >>, << >>)
  <2> DEFINE op == "return"
             w == << >>
  <2>1. op \in {"call", "return"}
    OBVIOUS
  <2>2. tree_code_output_statement(op, w, w)
    BY <1>4
  <2> HIDE DEF op, w
  <2> QED BY <2>1, <2>2, StatementMeans
<1>5. ASSUME NEW args \in ArgumentLists, tree_code_output_statement("call", args, Chained(args))
      PROVE  MInv'
  <2> DEFINE op == "call"
  <2>1. op \in {"call", "return"}
    OBVIOUS
  <2>2. Chained(args) = args
    <3>1. args \in Seq(STRING)
      BY ListAssumption DEF ListAssumption
    <3> QED BY <3>1, ChainedIs
  <2>3. tree_code_output_statement(op, args, args)
    BY <1>5, <2>2
  <2> HIDE DEF op
  <2> QED BY <2>1, <2>3, StatementMeans
<1>6. CASE tree_code_if_start
  BY <1>6, IfStartMeans
<1>7. CASE tree_code_if_else
  BY <1>7, IfElseMeans
<1>8. CASE tree_code_if_end
  BY <1>8, IfEndMeans
<1>9. CASE UNCHANGED vars
  <2>1. level' = level /\ current_function_decl' = current_function_decl /\ function' = function /\ calls' = calls
    BY <1>9 DEF vars
  <2> QED BY <2>1 DEF MInv
<1> QED BY <1>1, <1>2, <1>3, <1>4, <1>5, <1>6, <1>7, <1>8, <1>9 DEF Next

(* A finished function is the tree its calls mean, for any nesting of IFs    *)
(* and any number of functions and calls (pushlevel, poplevel and the        *)
(* tree_code operations of pl1tree.c); its arguments and the types of its    *)
(* prototype are its parameters in their order.                              *)
THEOREM TreeIsMeaningHolds == Spec => []TreeIsMeaning
<1>1. Init => MInv
  <2> SUFFICES ASSUME Init PROVE MInv
    OBVIOUS
  <2>1. 1..Len(function) = {} /\ current_function_decl = NULL
    <3>1. function = << >> /\ current_function_decl = NULL
      BY DEF Init
    <3>2. Len(function) = 0
      BY <3>1, IsSeqEmpty
    <3>3. 1..0 = {}
      OBVIOUS
    <3> QED BY <3>1, <3>2, <3>3
  <2> QED BY <2>1 DEF MInv
<1>2. BInv /\ MInv /\ [Next]_vars => MInv'
  BY NextMeans
<1>3. BInv /\ MInv => TreeIsMeaning
  <2> SUFFICES ASSUME BInv, MInv PROVE TreeIsMeaning
    OBVIOUS
  <2>1. DOMAIN function = 1..Len(function)
    BY IsSeqFacts DEF BInv
  <2> QED BY <2>1 DEF MInv, FunctionMeans, TreeIsMeaning
<1> QED BY <1>1, <1>2, <1>3, BInvHolds, PTL DEF Spec

================================================================================
