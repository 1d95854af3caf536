------------------------------- MODULE FoldFacts -------------------------------
(***************************************************************************)
(* What the proofs need of folds: that FoldLeft goes through a sequence of *)
(* states, one for each element, and induction over the numbers of these   *)
(* states; that FlattenSeq puts sequences behind each other one by one.    *)
(*                                                                         *)
(* FoldLeft is MapThenFoldSet over the positions of the sequence, which    *)
(* chooses a function on sets of positions.  FoldExists says that there is *)
(* such a function, so that the chosen one satisfies the equation of the   *)
(* fold; FoldSteps reads the states off it.  The operation of a fold is    *)
(* here a function F of a state and a position, because a lemma about an   *)
(* operator cannot be used for a given one.                                *)
(***************************************************************************)
EXTENDS SequencesExt, Integers, WellFoundedInduction, TLAPS

(* Induction, for the numbers with a property as a set. *)
LEMMA NatSetInduction ==
  ASSUME NEW S, 0 \in S, \A n \in Nat : n \in S => n + 1 \in S
  PROVE  Nat \subseteq S
<1> DEFINE R == OpToRel(<, Nat)
           T == Nat \ S
<1>1. SUFFICES ASSUME T # {} PROVE FALSE
  OBVIOUS
<1>2. IsWellFoundedOn(R, Nat)
  BY NatLessThanWellFounded
<1>3. \A x, y \in Nat : x < y => << x, y >> \in R
  BY DEF OpToRel
<1> HIDE DEF R
<1>4. PICK x \in T : \A y \in T : << y, x >> \notin R
  BY <1>1, <1>2, WFMin
<1>5. x # 0 /\ x - 1 \in Nat /\ x - 1 < x
  BY <1>4
<1>6. x - 1 \notin T
  BY <1>3, <1>4, <1>5
<1> QED BY <1>4, <1>5, <1>6

(* A set of numbers has a least one. *)
LEMMA Least ==
  ASSUME NEW S \in SUBSET Nat, S # {}
  PROVE  \E i \in S : \A j \in S : i <= j
<1> DEFINE R == OpToRel(<, Nat)
<1>1. IsWellFoundedOn(R, Nat)
  BY NatLessThanWellFounded
<1>2. \A x, y \in Nat : x < y => << x, y >> \in R
  BY DEF OpToRel
<1> HIDE DEF R
<1>3. PICK i \in S : \A j \in S : << j, i >> \notin R
  BY <1>1, WFMin
<1>4. \A j \in S : ~ j < i
  BY <1>2, <1>3
<1> QED BY <1>4

(* Numbers up to a bound have a greatest one. *)
LEMMA Greatest ==
  ASSUME NEW S \in SUBSET Nat, S # {}, NEW b \in Nat, \A x \in S : x <= b
  PROVE  \E m \in S : \A x \in S : x <= m
<1> DEFINE D == {b - x : x \in S}
<1>1. D \in SUBSET Nat /\ D # {}
  <2>1. \A x \in S : b - x \in Nat
    OBVIOUS
  <2> QED BY <2>1
<1>2. PICK d \in D : \A y \in D : d <= y
  BY <1>1, Least
<1>3. PICK m \in S : d = b - m
  BY <1>2
<1>4. ASSUME NEW x \in S PROVE x <= m
  <2>1. b - x \in D
    BY <1>4
  <2>2. b - m <= b - x
    BY <1>2, <1>3, <2>1
  <2> QED BY <2>2
<1> QED BY <1>3, <1>4

(* The numbers of a sequence have a bound. *)
LEMMA Bounded ==
  ASSUME NEW n \in Nat, NEW f, \A i \in 1..n : f[i] \in Nat
  PROVE  \E b \in Nat : \A i \in 1..n : f[i] <= b
<1> DEFINE P(k) == \E b \in Nat : \A i \in 1..k : f[i] <= b
           S == {k \in Nat : k <= n => P(k)}
<1>1. 0 \in S
  OBVIOUS
<1>2. ASSUME NEW k \in Nat, k \in S PROVE k + 1 \in S
  <2> SUFFICES ASSUME k + 1 <= n PROVE P(k + 1)
    <3> HIDE DEF P
    <3> QED OBVIOUS
  <2>1. PICK b \in Nat : \A i \in 1..k : f[i] <= b
    BY <1>2
  <2>2. f[k + 1] \in Nat
    OBVIOUS
  <2>3. CASE f[k + 1] <= b
    <3>1. \A i \in 1..(k + 1) : f[i] <= b
      BY <2>1, <2>3
    <3> QED BY <3>1
  <2>4. CASE b < f[k + 1]
    <3>1. \A i \in 1..(k + 1) : i \in 1..k \/ i = k + 1
      OBVIOUS
    <3>2. \A i \in 1..k : f[i] \in Nat
      OBVIOUS
    <3>3. \A i \in 1..(k + 1) : f[i] <= f[k + 1]
      BY <2>1, <2>2, <2>4, <3>1, <3>2
    <3> QED BY <2>2, <3>3
  <2> QED BY <2>2, <2>3, <2>4
<1>3. P(n)
  <2> HIDE DEF P
  <2>1. n \in S
    <3> HIDE DEF S
    <3> QED BY <1>1, <1>2, NatSetInduction
  <2> QED BY <2>1
<1> QED BY <1>3

(* g is the fold of the positions 1..n, the last one first. *)
FoldEquation(g, n, F, base) ==
  /\ g[{}] = base
  /\ \A s \in SUBSET (1..n) : s # {} => Max(s) \in s /\ g[s] = F[<< g[s \ {Max(s)}], Max(s) >>]

(* The maximum of a set of numbers. *)
LEMMA MaxIs ==
  ASSUME NEW S \in SUBSET Int, NEW m \in S, \A x \in S : x <= m
  PROVE  Max(S) = m
<1>1. m \in S /\ \A y \in S : m >= y
  OBVIOUS
<1>2. Max(S) \in S /\ \A y \in S : Max(S) >= y
  BY <1>1 DEF Max
<1>3. Max(S) \in Int /\ m \in Int /\ Max(S) <= m /\ m <= Max(S)
  BY <1>2
<1> QED BY <1>3

(* Every fold has a function that solves its equation. *)
LEMMA FoldExists ==
  ASSUME NEW T, NEW n \in Nat, NEW F \in [T \X (1..n) -> T], NEW base \in T
  PROVE  \E g \in [SUBSET (1..n) -> T] : FoldEquation(g, n, F, base)
<1> DEFINE P(m) == \E g \in [SUBSET (1..m) -> T] : FoldEquation(g, m, F, base)
           S == {m \in Nat : m <= n => P(m)}
<1>1. 0 \in S
  <2> DEFINE g == [s \in SUBSET (1..0) |-> base]
  <2>1. g \in [SUBSET (1..0) -> T] /\ g[{}] = base
    OBVIOUS
  <2>2. \A s \in SUBSET (1..0) : s = {}
    OBVIOUS
  <2> QED BY <2>1, <2>2 DEF FoldEquation
<1>2. ASSUME NEW m \in Nat, m \in S PROVE m + 1 \in S
  <2> SUFFICES ASSUME m + 1 <= n PROVE P(m + 1)
    <3> HIDE DEF P
    <3> QED OBVIOUS
  <2>0. P(m)
    <3> HIDE DEF P
    <3> QED BY <1>2
  <2>1. PICK g \in [SUBSET (1..m) -> T] : FoldEquation(g, m, F, base)
    BY <2>0
  <2> DEFINE h == [s \in SUBSET (1..(m + 1)) |->
                     IF m + 1 \in s THEN F[<< g[s \ {m + 1}], m + 1 >>] ELSE g[s]]
  <2>2. \A s \in SUBSET (1..(m + 1)) : m + 1 \notin s => s \in SUBSET (1..m)
    OBVIOUS
  <2>3. \A s \in SUBSET (1..(m + 1)) : s \ {m + 1} \in SUBSET (1..m)
    OBVIOUS
  <2>4. h \in [SUBSET (1..(m + 1)) -> T]
    BY <2>2, <2>3
  <2>5. ASSUME NEW s \in SUBSET (1..(m + 1)), s # {}
        PROVE  Max(s) \in s /\ h[s] = F[<< h[s \ {Max(s)}], Max(s) >>]
    <3>1. CASE m + 1 \in s
      <4>1. Max(s) = m + 1
        BY <3>1, MaxIs
      <4>2. h[s \ {m + 1}] = g[s \ {m + 1}]
        BY <2>3
      <4> QED BY <3>1, <4>1, <4>2
    <3>2. CASE m + 1 \notin s
      <4>1. s \in SUBSET (1..m) /\ h[s] = g[s]
        BY <2>2, <3>2
      <4>2. Max(s) \in s /\ g[s] = F[<< g[s \ {Max(s)}], Max(s) >>]
        BY <2>1, <2>5, <4>1 DEF FoldEquation
      <4>3. h[s \ {Max(s)}] = g[s \ {Max(s)}]
        BY <3>2
      <4> QED BY <4>1, <4>2, <4>3
    <3> QED BY <3>1, <3>2
  <2>6. h[{}] = base
    BY <2>1 DEF FoldEquation
  <2> HIDE DEF h
  <2> QED BY <2>4, <2>5, <2>6 DEF FoldEquation
<1>3. n \in S
  <2> HIDE DEF S
  <2> QED BY <1>1, <1>2, NatSetInduction
<1>4. P(n)
  <2> HIDE DEF P
  <2> QED BY <1>3
<1> QED BY <1>4

(* h solves the equation for a sequence with the positions D, as far as the  *)
(* values are in T. *)
Solves(h, D, T, n, F, base) ==
  /\ D = 1..n
  /\ h[{}] = base
  /\ \A s \in SUBSET (1..n) :
       s # {} /\ h[s \ {Max(s)}] \in T /\ Max(s) \in 1..n => h[s] = F[<< h[s \ {Max(s)}], Max(s) >>]

(* The states acc of a fold, from base to the result v. *)
Steps(acc, T, n, F, base, v) ==
  /\ acc[n] = v
  /\ acc \in [0..n -> T] /\ acc[0] = base
  /\ \A k \in 1..n : acc[k] = F[<< acc[k - 1], k >>]

(* What solves the equation is the last of such states. *)
LEMMA FoldSteps ==
  ASSUME NEW T, NEW n \in Nat, NEW F \in [T \X (1..n) -> T], NEW base \in T, NEW h,
         NEW D, Solves(h, D, T, n, F, base)
  PROVE  \E acc : Steps(acc, T, n, F, base, h[D])
<1> DEFINE acc == [k \in 0..n |-> h[1..k]]
           S == {k \in Nat : k <= n => acc[k] \in T}
<1>1. acc[0] = base
  <2>1. 1..0 = {}
    OBVIOUS
  <2> QED BY <2>1 DEF Solves
<1>2. ASSUME NEW k \in 1..n, acc[k - 1] \in T
      PROVE  acc[k] = F[<< acc[k - 1], k >>]
  <2>1. Max(1..k) = k
    <3>1. 1..k \in SUBSET Int /\ k \in 1..k /\ \A x \in 1..k : x <= k
      OBVIOUS
    <3> QED BY <3>1, MaxIs
  <2>2. (1..k) \ {k} = 1..(k - 1) /\ 1..k \in SUBSET (1..n) /\ 1..k # {}
    <3>1. (1..k) \ {k} = 1..(k - 1)
      OBVIOUS
    <3>2. 1..k \in SUBSET (1..n)
      OBVIOUS
    <3>3. k \in 1..k
      OBVIOUS
    <3> QED BY <3>1, <3>2, <3>3
  <2>3. acc[k] = h[1..k] /\ acc[k - 1] = h[1..(k - 1)]
    OBVIOUS
  <2> HIDE DEF acc
  <2> QED BY <1>2, <2>1, <2>2, <2>3 DEF Solves
<1>3. ASSUME NEW k \in Nat, k \in S PROVE k + 1 \in S
  <2> SUFFICES ASSUME k + 1 <= n PROVE acc[k + 1] \in T
    BY DEF S
  <2>1. acc[k] \in T /\ k + 1 \in 1..n /\ (k + 1) - 1 = k
    <3> HIDE DEF acc
    <3> QED BY <1>3
  <2>2. acc[k + 1] = F[<< acc[k], k + 1 >>]
    <3> HIDE DEF acc
    <3> QED BY <1>2, <2>1
  <2> HIDE DEF acc
  <2> QED BY <2>1, <2>2
<1>4. 0 \in S
  <2> HIDE DEF acc
  <2> QED BY <1>1
<1>5. Nat \subseteq S
  <2> HIDE DEF S
  <2> QED BY <1>3, <1>4, NatSetInduction
<1>6. \A k \in 0..n : acc[k] \in T
  <2> HIDE DEF acc
  <2> QED BY <1>5
<1>7. acc \in [0..n -> T] /\ acc[n] = h[1..n]
  BY <1>6
<1> HIDE DEF acc
<1>8. \A k \in 1..n : acc[k] = F[<< acc[k - 1], k >>]
  BY <1>2, <1>6
<1>9. D = 1..n
  BY DEF Solves
<1> QED BY <1>1, <1>7, <1>8, <1>9 DEF Steps

(* Sequences put behind each other, one by one. *)
FlatSteps(g, c) ==
  /\ g[1] = c[1]
  /\ \A i \in 1..Len(c) : i # 1 => g[i] = g[i - 1] \o c[i]

(* There is such a sequence of sequences. *)
LEMMA FlatExists ==
  ASSUME NEW c, NEW n \in Nat
  PROVE  \E g : g = [i \in 1..n |-> IF i = 1 THEN c[i] ELSE g[i - 1] \o c[i]]
<1> DEFINE R(g, i) == IF i = 1 THEN c[i] ELSE g[i - 1] \o c[i]
           P(k) == \E g : g = [i \in 1..k |-> R(g, i)]
           S == {k \in Nat : k <= n => P(k)}
<1>1. 0 \in S
  <2> DEFINE g == [i \in 1..0 |-> c[i]]
  <2>1. 1..0 = {}
    OBVIOUS
  <2>2. g = [i \in 1..0 |-> R(g, i)]
    BY <2>1, Zenon
  <2> QED BY <2>2
<1>2. ASSUME NEW k \in Nat, k \in S PROVE k + 1 \in S
  <2> SUFFICES ASSUME k + 1 <= n PROVE P(k + 1)
    <3> HIDE DEF P
    <3> QED OBVIOUS
  <2>1. P(k)
    <3> HIDE DEF P
    <3> QED BY <1>2
  <2>2. PICK f : f = [i \in 1..k |-> R(f, i)]
    BY <2>1
  <2> DEFINE g == [i \in 1..(k + 1) |-> IF i \in 1..k THEN f[i] ELSE R(f, i)]
  <2>3. \A i \in 1..k : f[i] = R(f, i)
    BY <2>2
  <2>4. \A i \in 1..(k + 1) : i # 1 => i - 1 \in 1..k
    OBVIOUS
  <2>5. \A i \in 1..k : i \in 1..(k + 1)
    OBVIOUS
  <2> HIDE DEF R
  <2>6. g = [i \in 1..(k + 1) |-> g[i]] /\ (\A i \in 1..k : g[i] = f[i]) /\ (\A i \in 1..(k + 1) : g[i] = R(f, i))
    BY <2>3, <2>5
  <2> HIDE DEF g
  <2>7. \A i \in 1..(k + 1) : R(g, i) = R(f, i)
    BY <2>4, <2>6 DEF R
  <2>8. g = [i \in 1..(k + 1) |-> R(g, i)]
    BY <2>6, <2>7
  <2> QED BY <2>8
<1>3. n \in S
  <2> HIDE DEF S
  <2> QED BY <1>1, <1>2, NatSetInduction
<1>4. P(n)
  <2> HIDE DEF P
  <2> QED BY <1>3
<1> QED BY <1>4

(* FlattenSeq puts them behind each other. *)
LEMMA FlatIs ==
  ASSUME NEW c, Len(c) \in Nat
  PROVE  /\ Len(c) = 0 => FlattenSeq(c) = c
         /\ Len(c) # 0 => \E g : FlatSteps(g, c) /\ FlattenSeq(c) = g[Len(c)]
<1> DEFINE n == Len(c)
           Eq(g) == g = [i \in 1..n |-> IF i = 1 THEN c[i] ELSE g[i - 1] \o c[i]]
           f == CHOOSE g : Eq(g)
<1>1. FlattenSeq(c) = IF n = 0 THEN c ELSE f[n]
  BY DEF FlattenSeq
<1>2. \E g : Eq(g)
  BY FlatExists
<1> HIDE DEF Eq, n
<1>3. Eq(f)
  BY <1>2
<1> HIDE DEF f
<1>4. ASSUME n # 0 PROVE FlatSteps(f, c)
  <2>1. 1 \in 1..n
    BY <1>4 DEF n
  <2>2. \A i \in 1..n : f[i] = IF i = 1 THEN c[i] ELSE f[i - 1] \o c[i]
    BY <1>3 DEF Eq
  <2> QED BY <2>1, <2>2 DEF FlatSteps, n
<1> QED BY <1>1, <1>4 DEF n

=============================================================================
