----------------------------- MODULE PPVariables -----------------------------
(***************************************************************************)
(* The preprocessor's variables, labels and statements: the functions of   *)
(* libpl1/src/ppVariable.c and the actions of pl1pp-parser.y that call     *)
(* them, as operators on the part of the context anchor they change.       *)
(*                                                                         *)
(* An environment e is a record:                                           *)
(*   dcl      ppDCLhead, a function from the declared names to elements    *)
(*   labels   ppDCLLabelTail, one function from names to offsets for the   *)
(*            main file and for each open %INCLUDE file, innermost last    *)
(*   dolevel  nesting level of %DO                                         *)
(*   loop     loopVarname, loopStartValue, loopEndValue                    *)
(*   type     ppreturn->type, what the scanner has to do                   *)
(*   arg      ppreturn->string                                             *)
(*   at       ppreturn->location                                           *)
(*   ok       FALSE once a YYERROR was raised                              *)
(***************************************************************************)
EXTENDS Integers, Sequences

(* f with x mapped to v. *)
With(f, x, v) == [y \in DOMAIN f \union {x} |-> IF y = x THEN v ELSE f[y]]

Failed(e) == [e EXCEPT !.ok = FALSE]

(* An element fresh from malloc: active, and its value was never assigned.  *)
(* number and string are the members of the union value.                    *)
NewDCLElement(type) ==
  [type |-> type, active |-> TRUE, assigned |-> FALSE, number |-> 0, string |-> << >>]

Declared(e, name) == name \in DOMAIN e.dcl

(* ppDefineVariable for a type other than label. *)
ppDefineVariable(e, name, type) ==
  IF Declared(e, name) THEN Failed(e)
  ELSE [e EXCEPT !.dcl = With(@, name, NewDCLElement(type))]

(* ppDefineVariableList stops at the first name that is declared already.   *)
ppDefineVariableList(e, names, type) ==
  LET Duplicate(i) == Declared(e, names[i]) \/ \E j \in 1..(i - 1) : names[j] = names[i]
      good == {i \in 1..Len(names) : \A j \in 1..i : ~Duplicate(j)}
      new  == {names[i] : i \in good}
  IN  [e EXCEPT !.dcl = [n \in DOMAIN @ \union new |->
                           IF n \in DOMAIN @ THEN @[n] ELSE NewDCLElement(type)],
                !.ok = good = 1..Len(names)]

(* ppDefineLabel: in the innermost file; an old location is overwritten.    *)
ppDefineLabel(e, name, offset) ==
  IF Declared(e, name) THEN Failed(e)
  ELSE [e EXCEPT !.labels[Len(e.labels)] = With(@, name, offset)]

ppPushDCLLabelStack(labels) == Append(labels, << >>)

ppPopDCLLabelStack(labels) == SubSeq(labels, 1, Len(labels) - 1)

(* ppSetIntValue and ppSetStringValue: a wrong name or type is reported and *)
(* changes nothing.                                                         *)
CanAssign(e, name, type) == Declared(e, name) /\ e.dcl[name].type = type

ppSetIntValue(e, name, value) ==
  IF CanAssign(e, name, "FIXED")
  THEN [e EXCEPT !.dcl[name] = [@ EXCEPT !.number = value, !.assigned = TRUE]] ELSE e

ppSetStringValue(e, name, value) ==
  IF CanAssign(e, name, "CHAR")
  THEN [e EXCEPT !.dcl[name] = [@ EXCEPT !.string = value, !.assigned = TRUE]] ELSE e

(* ppSetActivateStmt and ppSetDeactivateStmt. *)
SetActive(e, name, active) ==
  IF Declared(e, name) THEN [e EXCEPT !.dcl[name].active = active] ELSE Failed(e)

(* ppSetGotoStmt: back to a label that has been met, else skip forwards.    *)
ppSetGotoStmt(e, label) ==
  LET known == e.labels[Len(e.labels)]
  IN  IF label \in DOMAIN known
      THEN [e EXCEPT !.type = "GOTO_LOCATION", !.arg = label, !.at = known[label]]
      ELSE [e EXCEPT !.type = "GOTO_LABEL", !.arg = label]

(* ppSetIncludeStmt; files is the set of files the search finds.            *)
ppSetIncludeStmt(e, file, files) ==
  [e EXCEPT !.type = IF file \in files THEN "INCLUDE_FILE_NAME" ELSE "ERROR", !.arg = file]

(* ppSetNoteStmt: only information and warnings let processing continue.    *)
ppSetNoteStmt(e, level) == IF level \in {"I", "W"} THEN e ELSE Failed(e)

(* ppSetDoStmt for a loop with a control variable. *)
ppSetDoStmt(e, var, from, to) ==
  IF e.dolevel > 0 \/ ~CanAssign(e, var, "FIXED")
  THEN Failed([e EXCEPT !.type = "ERROR", !.arg = var])
  ELSE [ppSetIntValue(e, var, from) EXCEPT
          !.dolevel = @ + 1, !.loop = [var |-> var, from |-> from, to |-> to],
          !.type = "LOOP_DO"]

(* ppSetEndStmt. *)
ppSetEndStmt(e) == [e EXCEPT !.dolevel = @ - 1, !.type = "LOOP_END"]

(* The rule pl1ppstmt of the grammar: statement s in environment e.  A %DO  *)
(* without a control variable is not here: ppSetDoStmt passes its NULL to   *)
(* strdup (see DoWithoutVariable in Scanner).                               *)
pl1ppstmt(s, e, files) ==
  CASE s.op = "LISTING"      -> e      \* empty, PAGE, PRINT, SKIP, NOPRINT
    [] s.op = "ACTIVATE"     -> SetActive(e, s.name, TRUE)
    [] s.op = "DEACTIVATE"   -> SetActive(e, s.name, FALSE)
    [] s.op = "DECLARE"      -> ppDefineVariableList(e, s.names, s.type)
    [] s.op = "DO"           -> ppSetDoStmt(e, s.name, s.from, s.to)
    [] s.op = "END"          -> ppSetEndStmt(e)
    [] s.op = "GOTO"         -> ppSetGotoStmt(e, s.name)
    [] s.op = "INCLUDE"      -> ppSetIncludeStmt(e, s.name, files)
    [] s.op = "ASSIGN_INT"   -> ppSetIntValue(e, s.name, s.value)
    [] s.op = "ASSIGN_STR"   -> ppSetStringValue(e, s.name, s.value)
    [] s.op = "REPLACE_INT"  -> ppSetIntValue(ppDefineVariable(e, s.name, "FIXED"), s.name, s.value)
    [] s.op = "REPLACE_STR"  -> ppSetStringValue(ppDefineVariable(e, s.name, "CHAR"), s.name, s.value)
    [] s.op = "NOTE"         -> ppSetNoteStmt(e, s.level)
    [] OTHER                 -> Failed(e)            \* syntax error

=============================================================================
