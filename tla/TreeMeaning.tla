------------------------------ MODULE TreeMeaning ------------------------------
(***************************************************************************)
(* What the calls c for the body of a function mean: the statements and    *)
(* the blocks, read from the list of the calls alone.                      *)
(*                                                                         *)
(* A call is [op |-> ..., what |-> ...], what a sequence.  A branch of an   *)
(* IF is << >> when there is none, else << tree >>; a tree has the variables *)
(* and the block only where something is declared in it.                   *)
(***************************************************************************)
EXTENDS Integers, SequencesExt

(* The number of blocks that are open before call i. *)
Depth(c, i) ==
  LET Count(op) == Cardinality({k \in 1..(i - 1) : c[k].op = op})
  IN  Count("if") - Count("end")

(* Position 0 stands for the start of the function. *)
Opens(c, k) == k = 0 \/ (k > 0 /\ c[k].op \in {"if", "else"})
Inside(c, k) == IF k = 0 THEN 0 ELSE IF c[k].op = "if" THEN Depth(c, k) + 1 ELSE Depth(c, k)

(* The block opened last of those at depth d before call i. *)
LastOpened(c, i, d, k) ==
  /\ k < i /\ Opens(c, k) /\ Inside(c, k) = d
  /\ \A j \in (k + 1)..(i - 1) : ~(Opens(c, j) /\ Inside(c, j) = d)

(* The block that call i stands in. *)
StandsIn(c, i, k) == LastOpened(c, i, Depth(c, i), k)

(* The positions of X up to n, in their order. *)
Ascending(X, n) == FoldLeft(LAMBDA s, i : IF i \in X THEN Append(s, i) ELSE s, << >>, [i \in 1..n |-> i])

Standing(c, k, ops) == {i \in DOMAIN c : c[i].op \in ops /\ StandsIn(c, i, k)}
In(c, k, ops) == Ascending(Standing(c, k, ops), Len(c))

(* The ELSE of the IF at i; each IF has one. *)
IsElseOf(c, i, j) ==
  /\ j > i /\ c[j].op = "else" /\ Depth(c, j) = Depth(c, i) + 1
  /\ \A k \in (i + 1)..(j - 1) : ~(c[k].op = "else" /\ Depth(c, k) = Depth(c, i) + 1)

ElseOf(c, i) == CHOOSE j \in DOMAIN c : IsElseOf(c, i, j)

EveryIfHasElse(c) ==
  \A i \in DOMAIN c :
    c[i].op = "end" => \E k \in DOMAIN c : c[k].op = "else" /\ StandsIn(c, i, k)

Map(f(_), s) == [i \in DOMAIN s |-> f(s[i])]

(* The last variable comes first. *)
Vars(c, k) == Reverse(Map(LAMBDA i : c[i].what, In(c, k, {"var"})))

Block(c) ==
  LET B[k \in 0..Len(c)] ==
        [vars   |-> Vars(c, k),
         blocks |-> FlattenSeq(Map(LAMBDA i : << B[i], B[ElseOf(c, i)] >>, In(c, k, {"if"})))]
  IN  B

(* The tree of a branch with the block b and the statements s. *)
Branch(b, s) == << [vars |-> b.vars, stmts |-> s, block |-> IF b.vars = << >> THEN << >> ELSE << b >>] >>

Statements(c) ==
  LET B == Block(c)
      S[k \in 0..Len(c)] ==
        LET Statement(i) ==
              IF c[i].op = "if"
              THEN [op |-> "if", what |-> c[i].what, then |-> Branch(B[i], S[i]),
                    else |-> Branch(B[ElseOf(c, i)], S[ElseOf(c, i)])]
              ELSE c[i]
        IN  Map(Statement, In(c, k, {"call", "return", "if"}))
  IN  S

FunctionTree(c) == [vars |-> Vars(c, 0), stmts |-> Statements(c)[0], block |-> << Block(c)[0] >>]

=============================================================================
