----------------------------- MODULE MCLookahead -----------------------------
(***************************************************************************)
(* Alphabets for LookaheadScanner.  Every rule of the scanner that does    *)
(* something of its own has a token, and VARNAME stands for all the        *)
(* others; CALL, '.', '(', ')' and '=' are told apart by checkstmt and     *)
(* enable_lookahead.                                                       *)
(***************************************************************************)
EXTENDS LookaheadScanner

(* All the tokens the lookahead distinguishes. *)
AllTokens == SpecialKeyWords \union
  {"END", "CALL", "VARNAME", "PERIOD", "LPAR", "RPAR", "EQUALS", "COLON", "SEMICOLON"}

(* Enough for a keyword with parentheses and an assignment, one of each of  *)
(* the two ways checkstmt decides, behind another statement.                *)
FewTokens == {"DECLARE", "SNAP", "END", "LPAR", "RPAR", "EQUALS", "COLON", "SEMICOLON"}

=============================================================================
