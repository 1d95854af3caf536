------------------------ MODULE PreprocessorMeaning ------------------------
(***************************************************************************)
(* What a program with preprocessor statements means: the text that is     *)
(* left for the compiler, by recursion on the program instead of buffers,  *)
(* saved tokens and start conditions.  It is the reference Scanner is      *)
(* compared with; only what a single statement does to the variables is    *)
(* shared with it (pl1ppstmt of PPVariables).                              *)
(*                                                                         *)
(* A meaning m is a record of the environment e and the text out.  It is   *)
(* defined for programs without a %GOTO to a label that was passed.        *)
(***************************************************************************)
EXTENDS PPVariables

CONSTANTS Lexicon, Number

LOCAL Tok(text, i) == Lexicon[text[i]].tok

(* The first place behind i that satisfies P; Len(text) + 1 if none does. *)
LOCAL FirstPlace(text, i, P(_)) ==
  LET hits == {j \in i..Len(text) : P(j)}
  IN  IF hits = {} THEN Len(text) + 1 ELSE CHOOSE j \in hits : \A k \in hits : j <= k

Value(e, x) ==
  LET w == e.dcl[x] IN IF w.type = "FIXED" THEN <<Number[w.number]>> ELSE w.string

Expands(e, x) == Declared(e, x) /\ e.dcl[x].active /\ Value(e, x) # << >>

Increased(m, var) == [m EXCEPT !.e = ppSetIntValue(@, var, m.e.dcl[var].number + 1)]

Wrong(m) == [m EXCEPT !.e = Failed(@)]

RECURSIVE Read(_, _, _, _), Repeat(_, _, _, _)

(* The meaning of text from place i on, behind m. *)
Read(text, i, m, files) ==
  LET semi    == FirstPlace(text, i, LAMBDA j : Tok(text, j) = "SEMICOLON")
      label   == i + 2 < semi /\ Tok(text, i + 2) = "COLON"
      body    == IF label THEN i + 3 ELSE i + 1
      stmt    == IF body = semi THEN [op |-> "LISTING"] ELSE Lexicon[text[body]].stmt
      done    == pl1ppstmt(stmt, m.e, DOMAIN files)
      clash   == label /\ Declared(done, text[i + 1])
      ran     == [m EXCEPT !.e = [done EXCEPT !.type = "NONE", !.ok = @ /\ ~clash]]
      end     == FirstPlace(text, semi, LAMBDA j :
                   Tok(text, j) = "PERCENT" /\ j < Len(text) /\ text[j + 1] = "END")
      target  == FirstPlace(text, semi, LAMBDA j :
                   /\ Tok(text, j) = "PERCENT" /\ j + 1 < Len(text)
                   /\ text[j + 1] = stmt.name /\ Tok(text, j + 2) = "COLON")
      comment == FirstPlace(text, i, LAMBDA j : Tok(text, j) = "COMMENT_END")
  IN
  CASE ~m.e.ok \/ i > Len(text) -> m
    [] m.e.ok /\ i <= Len(text) ->
       CASE Tok(text, i) = "WSP"     -> Read(text, i + 1, m, files)
         [] Tok(text, i) = "COMMENT" -> Read(text, comment + 1, m, files)
         [] Tok(text, i) = "PROCESS" -> Read(text, semi + 1, m, files)
         [] Tok(text, i) = "PERCENT" ->
              CASE semi > Len(text) \/ body + 1 < semi \/ ~ran.e.ok -> Wrong(m)
                [] stmt.op = "END"     -> Wrong(m)
                [] stmt.op = "DO"      ->
                     IF end > Len(text) THEN Wrong(m)
                     ELSE LET looped == Repeat(SubSeq(text, semi + 1, end - 1), stmt,
                                               [ran EXCEPT !.e.dolevel = 0], files)
                          IN  Read(text, end + 3, looped, files)
                [] stmt.op = "INCLUDE" ->
                     IF stmt.name \notin DOMAIN files THEN Wrong(m)
                     ELSE Read(text, semi + 1, Read(files[stmt.name], 1, ran, files), files)
                [] stmt.op = "GOTO"    ->
                     IF target > Len(text) THEN Wrong(m) ELSE Read(text, target, ran, files)
                [] OTHER               -> Read(text, semi + 1, ran, files)
         [] Expands(m.e, text[i]) ->
              Read(text, i + 1, Read(Value(m.e, text[i]), 1, m, files), files)
         [] OTHER -> Read(text, i + 1, [m EXCEPT !.out = Append(@, text[i])], files)

(* The body of a %DO for each value of its variable.  The variable of a     *)
(* loop that is never entered is left one above the first value.            *)
Repeat(body, do, m, files) ==
  CASE ~m.e.ok                         -> m
    [] m.e.ok /\ do.from > do.to       -> Increased(m, do.name)
    [] m.e.ok /\ do.from <= do.to      ->
         IF m.e.dcl[do.name].number > do.to THEN m
         ELSE Repeat(body, do, Increased(Read(body, 1, m, files), do.name), files)

(* The meaning of a whole program, from the environment e. *)
Meaning(program, e) == Read(program.main, 1, [e |-> e, out |-> << >>], program.files)

=============================================================================
