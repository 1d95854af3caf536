-------------------------- MODULE KeywordLookahead --------------------------
(***************************************************************************)
(* The decision procedures of the token based lookahead                    *)
(* (libpl1/src/TokenBasedLookahead.c) and the table of the keywords the    *)
(* scanner treats with the macro specialKeyWord (pl1-scanner.l).           *)
(*                                                                         *)
(* PL/I reserves no word.  For eight keywords the scanner saves the tokens *)
(* of the statement and decides, when the ';' arrives, whether the first   *)
(* one is the keyword or an identifier.                                    *)
(*                                                                         *)
(* A token is named by the constant pl1-parser.y gives it, the ones that   *)
(* are a single character by the name of the character; "NONE" is the -1   *)
(* that prev_token holds before the first token.  A saved token is a       *)
(* record with at least a field tok.                                       *)
(***************************************************************************)
EXTENDS Integers, Sequences, FiniteSets

(* The keywords handled by specialKeyWord(a,b,c): under a, the token saved *)
(* when it opens a lookahead (opens) and the one it stands for otherwise   *)
(* (plain).                                                                *)
SpecialKeyWord ==
  [ DECLARE   |-> [opens |-> "DECLARE",     plain |-> "VARNAME"],
    DEFAULT   |-> [opens |-> "DEFAULT",     plain |-> "VARNAME"],
    ENTRY     |-> [opens |-> "ENTRY",       plain |-> "ENTRY"],
    FORMAT    |-> [opens |-> "FORMAT_STMT", plain |-> "FORMAT"],
    OTHERWISE |-> [opens |-> "OTHERWISE",   plain |-> "VARNAME"],
    PROCEDURE |-> [opens |-> "PROCEDURE",   plain |-> "VARNAME"],
    SNAP      |-> [opens |-> "SNAP",        plain |-> "VARNAME"] ]

SpecialKeyWords == DOMAIN SpecialKeyWord

(* The tokens with which a queue of saved tokens may start. *)
OpeningTokens == {SpecialKeyWord[k].opens : k \in SpecialKeyWords} \union {"END"}

(* May keyword `token' open a lookahead when prev_token was delivered last? *)
enable_lookahead(prev_token, token) ==
  \/ token \in {"DECLARE", "DEFAULT"}            /\ prev_token \in {"SEMICOLON", "COLON", "NONE"}
  \/ token \in {"ENTRY", "FORMAT", "PROCEDURE"}  /\ prev_token \in {"COLON", "NONE"}
  \/ token = "OTHERWISE"                         /\ prev_token = "SEMICOLON"
  \/ token = "SNAP"                              /\ prev_token \notin {"PERIOD", "NONE"}

-----------------------------------------------------------------------------
(* The variable plvl of checkstmt after it has seen q[i]: parentheses       *)
(* opened minus parentheses closed behind the first token of q.             *)
PLevel(q, i) ==
  Cardinality({j \in 2..i : q[j].tok = "LPAR"}) - Cardinality({j \in 2..i : q[j].tok = "RPAR"})

(* Slip: only the token behind the keyword is looked at. *)
AssignedAtOnce(q) == Len(q) > 1 /\ q[2].tok \in {"EQUALS", "COLON"}

(* Rule 0 of checkstmt as the loop over the tokens applies it. *)
AssignedOrLabelled(q) ==
  \E i \in 2..Len(q) : q[i].tok \in {"EQUALS", "COLON"} /\ PLevel(q, i) = 0

(* The loop for OTHERWISE and SNAP stops at the first token that leaves no  *)
(* parenthesis open.                                                        *)
BalancedAt(q, i) ==
  i \in 2..Len(q) /\ PLevel(q, i) = 0 /\ \A j \in 2..(i - 1) : PLevel(q, j) # 0

(* TRUE: q is a statement that starts with a keyword; FALSE: its first      *)
(* token is an identifier.                                                  *)
checkstmt(q, prev_token) ==
  CASE q[1].tok \in {"DECLARE", "DEFAULT", "END", "ENTRY", "ENTRY_STMT",
                     "FORMAT_STMT", "PROCEDURE"} -> ~AssignedOrLabelled(q)
    [] q[1].tok \in {"OTHERWISE", "SNAP"} ->
         /\ prev_token # "CALL"
         /\ \A i \in 2..Len(q) : BalancedAt(q, i) => i = 2 /\ q[i].tok # "EQUALS"
    [] OTHER -> TRUE                        \* the branch "should not happend!"

(* The token fixKeywordTokens leaves at the head of the queue. *)
FixedToken(tok, isStmt) ==
  CASE isStmt /\ tok = "ENTRY"                              -> "ENTRY_STMT"
    [] isStmt /\ tok = "FORMAT"                             -> "FORMAT_STMT"
    [] ~isStmt /\ tok = "ENTRY_STMT"                        -> "ENTRY"
    [] ~isStmt /\ tok = "FORMAT_STMT"                       -> "FORMAT"
    [] ~isStmt /\ tok \notin {"END", "ENTRY", "FORMAT", "ENTRY_STMT", "FORMAT_STMT"} -> "VARNAME"
    [] OTHER                                                -> tok

fixKeywordTokens(q, prev_token) ==
  [q EXCEPT ![1].tok = FixedToken(@, checkstmt(q, prev_token))]

=============================================================================
