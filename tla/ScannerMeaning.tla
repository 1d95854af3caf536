--------------------------- MODULE ScannerMeaning ---------------------------
(***************************************************************************)
(* The scanner compared with the meaning of the program it scans.          *)
(***************************************************************************)
EXTENDS Scanner

Reference == INSTANCE PreprocessorMeaning

Meaning == Reference!Meaning(source, newppContextAnchor("NONE"))

Delivered == [i \in 1..Len(out) |-> out[i].lex]

(* When the scanner stops, the parser got exactly the text that is left     *)
(* when the preprocessor statements are carried out: each %INCLUDE file in  *)
(* its place, each variable replaced by its value, what a %GOTO passes left *)
(* out, and the body of a %DO repeated, in the order of the program; and it *)
(* stops with an error only for a program that is wrong.                    *)
OutputIsMeaning ==
  Stopped => \/ start = "DONE" /\ Meaning.e.ok /\ Delivered = Meaning.out
             \/ start = "MUST_TERMINATE" /\ ~Meaning.e.ok

=============================================================================
