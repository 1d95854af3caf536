---------------------------- MODULE ScannerProofs ----------------------------
(***************************************************************************)
(* Proofs about Scanner for all lexicons and programs.                     *)
(*                                                                         *)
(* Every statement of the preprocessor is a function of a context, so the  *)
(* first parts are about those functions: ContextOK says what a context    *)
(* has to be like, and each function is shown to keep it and to leave the  *)
(* labels, the flags of the scanner and the types of the variables alone   *)
(* (Keeps).  The rest is the inductive invariant SInv: the buffers         *)
(* (InputInv), the tokens that are kept (TokensInv), the start condition   *)
(* (StartInv), the context and what was collected for a %DO (ContextInv)   *)
(* and the two stacks that follow the buffers (NestInv).                   *)
(*                                                                         *)
(* The last part is about the order of the tokens: QueueInv numbers those  *)
(* that are saved, and each step moves them on as TokenChannel does.       *)
(***************************************************************************)
EXTENDS Scanner, SequenceTheorems, FiniteSetTheorems, FoldFacts

(* The labels of a file, with the offsets they stand for. *)
Labels == UNION {[S -> Nat] : S \in SUBSET Lexemes}

(* The fields of a variable, and those of a context, that the code sets. *)
ElementFields == {"type", "active", "assigned", "number", "string"}

ContextFields ==
  {"dcl", "labels", "dolevel", "loop", "type", "arg", "at", "ok", "gather", "scanForLabel", "loopCur"}

(* The variables, with the texts that are their values. *)
DclOK(dcl) == \A x \in DOMAIN dcl : ElementFields \subseteq DOMAIN dcl[x] /\ dcl[x].string \in Seq(Lexemes)

(* The bounds of a loop.  If it is not to run, it has a variable. *)
LoopOK(e) ==
  /\ e.loop.from \in Int /\ e.loop.to \in Int
  /\ e.loop.from <= e.loop.to \/ CanAssign(e, e.loop.var, "FIXED")

(* A context. *)
ContextOK(e) ==
  /\ ContextFields \subseteq DOMAIN e
  /\ e.labels \in Seq(Labels) /\ e.labels # << >>
  /\ DclOK(e.dcl)
  /\ LoopOK(e)
  /\ e.at \in Nat
  /\ e.gather \in {0, 1}

(* Variables stay declared, with their types. *)
KeepsTypes(dcl, new) == \A x \in DOMAIN dcl : x \in DOMAIN new /\ new[x].type = dcl[x].type

(* What every statement of the preprocessor leaves as it is. *)
Keeps(e, r) ==
  /\ r.labels = e.labels /\ r.gather = e.gather
  /\ r.scanForLabel = e.scanForLabel /\ r.loopCur = e.loopCur
  /\ KeepsTypes(e.dcl, r.dcl)

(* While no variable is lost the bounds of a loop stay right. *)
LEMMA LoopKept ==
  ASSUME NEW e, NEW r, LoopOK(e), KeepsTypes(e.dcl, r.dcl), r.loop = e.loop
  PROVE  LoopOK(r)
BY DEF LoopOK, KeepsTypes, CanAssign, Declared

(* What the scanner is asked to do, and for which name. *)
Asked(e, t, a) == [e EXCEPT !.type = t, !.arg = a]

(* A request changes nothing else. *)
LEMMA AskedKeeps ==
  ASSUME NEW e, ContextOK(e), NEW t, NEW a
  PROVE  LET r == Asked(e, t, a)
         IN  ContextOK(r) /\ Keeps(e, r) /\ r.type = t /\ r.arg = a /\ r.dcl = e.dcl
             /\ r.dolevel = e.dolevel /\ r.loop = e.loop
<1> DEFINE r == Asked(e, t, a)
<1>1. ContextFields \subseteq DOMAIN e
  BY DEF ContextOK
<1>2. /\ DOMAIN r = DOMAIN e /\ r.type = t /\ r.arg = a
      /\ r.dcl = e.dcl /\ r.labels = e.labels /\ r.dolevel = e.dolevel /\ r.loop = e.loop
      /\ r.at = e.at /\ r.gather = e.gather /\ r.scanForLabel = e.scanForLabel
      /\ r.loopCur = e.loopCur
  BY <1>1 DEF ContextFields, Asked
<1> HIDE DEF r
<1>3. KeepsTypes(e.dcl, r.dcl)
  BY <1>2 DEF KeepsTypes
<1>4. LoopOK(r)
  BY <1>2, <1>3, LoopKept DEF ContextOK
<1>5. ContextOK(r) /\ Keeps(e, r)
  BY <1>2, <1>3, <1>4 DEF ContextOK, Keeps
<1> QED BY <1>2, <1>5 DEF r

(* Nor does an error. *)
LEMMA FailedKeeps ==
  ASSUME NEW e, ContextOK(e)
  PROVE  ContextOK(Failed(e)) /\ Keeps(e, Failed(e)) /\ Failed(e).type = e.type
<1> DEFINE r == Failed(e)
<1>1. ContextFields \subseteq DOMAIN e
  BY DEF ContextOK
<1>2. /\ DOMAIN r = DOMAIN e /\ r.type = e.type
      /\ r.dcl = e.dcl /\ r.labels = e.labels /\ r.loop = e.loop
      /\ r.at = e.at /\ r.gather = e.gather /\ r.scanForLabel = e.scanForLabel
      /\ r.loopCur = e.loopCur
  BY <1>1 DEF ContextFields, Failed
<1> HIDE DEF r
<1>3. KeepsTypes(e.dcl, r.dcl)
  BY <1>2 DEF KeepsTypes
<1>4. LoopOK(r)
  BY <1>2, <1>3, LoopKept DEF ContextOK
<1>5. ContextOK(r) /\ Keeps(e, r)
  BY <1>2, <1>3, <1>4 DEF ContextOK, Keeps
<1> QED BY <1>2, <1>5 DEF r

(* The variables, when none is lost. *)
LEMMA DclSet ==
  ASSUME NEW e, ContextOK(e), NEW d, DclOK(d), KeepsTypes(e.dcl, d)
  PROVE  LET r == [e EXCEPT !.dcl = d]
         IN  ContextOK(r) /\ Keeps(e, r) /\ r.type = e.type /\ r.dcl = d
             /\ r.dolevel = e.dolevel /\ r.loop = e.loop
<1> DEFINE r == [e EXCEPT !.dcl = d]
<1>1. ContextFields \subseteq DOMAIN e
  BY DEF ContextOK
<1>2. /\ DOMAIN r = DOMAIN e /\ r.dcl = d /\ r.type = e.type
      /\ r.labels = e.labels /\ r.loop = e.loop /\ r.dolevel = e.dolevel
      /\ r.at = e.at /\ r.gather = e.gather /\ r.scanForLabel = e.scanForLabel
      /\ r.loopCur = e.loopCur
  BY <1>1 DEF ContextFields
<1> HIDE DEF r
<1>4. LoopOK(r)
  BY <1>2, LoopKept DEF ContextOK
<1>5. ContextOK(r) /\ Keeps(e, r)
  BY <1>2, <1>4 DEF ContextOK, Keeps
<1> QED BY <1>2, <1>5 DEF r

(* Assignments. *)
LEMMA SetIntKeeps ==
  ASSUME NEW e, ContextOK(e), NEW name, NEW v
  PROVE  LET r == ppSetIntValue(e, name, v)
         IN  ContextOK(r) /\ Keeps(e, r) /\ r.type = e.type
             /\ r.dolevel = e.dolevel /\ r.loop = e.loop
             /\ (CanAssign(e, name, "FIXED") => r.dcl[name].number = v)
<1>1. CASE ~CanAssign(e, name, "FIXED")
  BY <1>1 DEF ppSetIntValue, Keeps, KeepsTypes
<1>2. CASE CanAssign(e, name, "FIXED")
  <2> DEFINE w == [e.dcl[name] EXCEPT !.number = v, !.assigned = TRUE]
             d == [e.dcl EXCEPT ![name] = w]
  <2>1. ppSetIntValue(e, name, v) = [e EXCEPT !.dcl = d]
    BY <1>2 DEF ppSetIntValue
  <2>2. name \in DOMAIN e.dcl
    BY <1>2 DEF CanAssign, Declared
  <2>3. /\ ElementFields \subseteq DOMAIN w /\ w.string \in Seq(Lexemes)
        /\ w.type = e.dcl[name].type /\ w.number = v
    BY <2>2 DEF ContextOK, DclOK, ElementFields
  <2> HIDE DEF w
  <2>4. DclOK(d) /\ KeepsTypes(e.dcl, d) /\ d[name].number = v
    BY <2>2, <2>3 DEF DclOK, KeepsTypes, ContextOK
  <2> HIDE DEF d
  <2> QED BY <2>1, <2>4, DclSet
<1> QED BY <1>1, <1>2

-----------------------------------------------------------------------------
(* Assignments of texts. *)
LEMMA SetStringKeeps ==
  ASSUME NEW e, ContextOK(e), NEW name, NEW v \in Seq(Lexemes)
  PROVE  LET r == ppSetStringValue(e, name, v)
         IN  ContextOK(r) /\ Keeps(e, r) /\ r.type = e.type
<1>1. CASE ~CanAssign(e, name, "CHAR")
  BY <1>1 DEF ppSetStringValue, Keeps, KeepsTypes
<1>2. CASE CanAssign(e, name, "CHAR")
  <2> DEFINE w == [e.dcl[name] EXCEPT !.string = v, !.assigned = TRUE]
             d == [e.dcl EXCEPT ![name] = w]
  <2>1. ppSetStringValue(e, name, v) = [e EXCEPT !.dcl = d]
    BY <1>2 DEF ppSetStringValue
  <2>2. name \in DOMAIN e.dcl
    BY <1>2 DEF CanAssign, Declared
  <2>3. /\ ElementFields \subseteq DOMAIN w /\ w.string \in Seq(Lexemes)
        /\ w.type = e.dcl[name].type
    BY <2>2 DEF ContextOK, DclOK, ElementFields
  <2> HIDE DEF w
  <2>4. DclOK(d) /\ KeepsTypes(e.dcl, d)
    BY <2>2, <2>3 DEF DclOK, KeepsTypes, ContextOK
  <2> HIDE DEF d
  <2> QED BY <2>1, <2>4, DclSet
<1> QED BY <1>1, <1>2

(* %ACTIVATE and %DEACTIVATE. *)
LEMMA SetActiveKeeps ==
  ASSUME NEW e, ContextOK(e), NEW name, NEW active
  PROVE  LET r == SetActive(e, name, active)
         IN  ContextOK(r) /\ Keeps(e, r) /\ r.type = e.type
<1>1. CASE ~Declared(e, name)
  BY <1>1, FailedKeeps DEF SetActive
<1>2. CASE Declared(e, name)
  <2> DEFINE w == [e.dcl[name] EXCEPT !.active = active]
             d == [e.dcl EXCEPT ![name] = w]
  <2>1. SetActive(e, name, active) = [e EXCEPT !.dcl = d]
    BY <1>2 DEF SetActive
  <2>2. name \in DOMAIN e.dcl
    BY <1>2 DEF Declared
  <2>3. /\ ElementFields \subseteq DOMAIN w /\ w.string \in Seq(Lexemes)
        /\ w.type = e.dcl[name].type
    BY <2>2 DEF ContextOK, DclOK, ElementFields
  <2> HIDE DEF w
  <2>4. DclOK(d) /\ KeepsTypes(e.dcl, d)
    BY <2>2, <2>3 DEF DclOK, KeepsTypes, ContextOK
  <2> HIDE DEF d
  <2> QED BY <2>1, <2>4, DclSet
<1> QED BY <1>1, <1>2

(* A new variable. *)
LEMMA NewElement ==
  ASSUME NEW type
  PROVE  LET w == NewDCLElement(type)
         IN  ElementFields \subseteq DOMAIN w /\ w.string \in Seq(Lexemes) /\ w.type = type
BY DEF NewDCLElement, ElementFields

(* %REPLACE declares its variable. *)
LEMMA DefineVariableKeeps ==
  ASSUME NEW e, ContextOK(e), NEW name, NEW type
  PROVE  LET r == ppDefineVariable(e, name, type)
         IN  ContextOK(r) /\ Keeps(e, r) /\ r.type = e.type
<1>1. CASE Declared(e, name)
  BY <1>1, FailedKeeps DEF ppDefineVariable
<1>2. CASE ~Declared(e, name)
  <2> DEFINE w == NewDCLElement(type)
             d == With(e.dcl, name, w)
  <2>1. ppDefineVariable(e, name, type) = [e EXCEPT !.dcl = d]
    BY <1>2 DEF ppDefineVariable
  <2>2. ElementFields \subseteq DOMAIN w /\ w.string \in Seq(Lexemes)
    BY NewElement
  <2> HIDE DEF w
  <2>3. DclOK(d) /\ KeepsTypes(e.dcl, d)
    BY <1>2, <2>2 DEF DclOK, KeepsTypes, ContextOK, With, Declared
  <2> HIDE DEF d
  <2> QED BY <2>1, <2>3, DclSet
<1> QED BY <1>1, <1>2

(* An error may be raised. *)
LEMMA OkSet ==
  ASSUME NEW e, ContextOK(e), NEW ok
  PROVE  LET r == [e EXCEPT !.ok = ok]
         IN  ContextOK(r) /\ Keeps(e, r) /\ r.type = e.type
<1> DEFINE r == [e EXCEPT !.ok = ok]
<1>1. ContextFields \subseteq DOMAIN e
  BY DEF ContextOK
<1>2. /\ DOMAIN r = DOMAIN e /\ r.type = e.type
      /\ r.dcl = e.dcl /\ r.labels = e.labels /\ r.loop = e.loop
      /\ r.at = e.at /\ r.gather = e.gather /\ r.scanForLabel = e.scanForLabel
      /\ r.loopCur = e.loopCur
  BY <1>1 DEF ContextFields
<1> HIDE DEF r
<1>3. KeepsTypes(e.dcl, r.dcl)
  BY <1>2 DEF KeepsTypes
<1>4. LoopOK(r)
  BY <1>2, <1>3, LoopKept DEF ContextOK
<1>5. ContextOK(r) /\ Keeps(e, r)
  BY <1>2, <1>3, <1>4 DEF ContextOK, Keeps
<1> QED BY <1>2, <1>5 DEF r

(* %DECLARE. *)
LEMMA DefineVariableListKeeps ==
  ASSUME NEW e, ContextOK(e), NEW names, NEW type
  PROVE  LET r == ppDefineVariableList(e, names, type)
         IN  ContextOK(r) /\ Keeps(e, r) /\ r.type = e.type
<1> DEFINE Duplicate(i) == Declared(e, names[i]) \/ \E j \in 1..(i - 1) : names[j] = names[i]
           good == {i \in 1..Len(names) : \A j \in 1..i : ~Duplicate(j)}
           new == {names[i] : i \in good}
           ok == good = 1..Len(names)
           w == NewDCLElement(type)
           d == [n \in DOMAIN e.dcl \union new |-> IF n \in DOMAIN e.dcl THEN e.dcl[n] ELSE w]
           p == [e EXCEPT !.dcl = d]
<1>1. ppDefineVariableList(e, names, type) = [e EXCEPT !.dcl = d, !.ok = ok]
  BY DEF ppDefineVariableList
<1>2. ElementFields \subseteq DOMAIN w /\ w.string \in Seq(Lexemes)
  BY NewElement
<1> HIDE DEF new, ok, w
<1>3. DclOK(d) /\ KeepsTypes(e.dcl, d)
  BY <1>2 DEF DclOK, KeepsTypes, ContextOK
<1> HIDE DEF d
<1>4. ContextOK(p) /\ Keeps(e, p) /\ p.type = e.type
  BY <1>3, DclSet
<1>5. [e EXCEPT !.dcl = d, !.ok = ok] = [p EXCEPT !.ok = ok]
  OBVIOUS
<1> HIDE DEF p
<1>6. LET r == [p EXCEPT !.ok = ok] IN ContextOK(r) /\ Keeps(p, r) /\ r.type = p.type
  BY <1>4, OkSet
<1>7. LET r == [p EXCEPT !.ok = ok] IN Keeps(e, r)
  BY <1>4, <1>6 DEF Keeps, KeepsTypes
<1> QED BY <1>1, <1>4, <1>5, <1>6, <1>7

(* One statement may use several of these functions. *)
LEMMA KeepsTransitive ==
  ASSUME NEW e, NEW p, NEW r, Keeps(e, p), Keeps(p, r)
  PROVE  Keeps(e, r)
BY DEF Keeps, KeepsTypes

(* %GOTO. *)
LEMMA GotoKeeps ==
  ASSUME NEW e, ContextOK(e), NEW label
  PROVE  LET r == ppSetGotoStmt(e, label)
         IN  ContextOK(r) /\ Keeps(e, r) /\ r.dcl = e.dcl /\ r.dolevel = e.dolevel
             /\ r.type \in {"GOTO_LOCATION", "GOTO_LABEL"}
<1> DEFINE known == e.labels[Len(e.labels)]
<1>1. CASE label \in DOMAIN known
  <2> DEFINE t == "GOTO_LOCATION"
             p == Asked(e, t, label)
             r == [p EXCEPT !.at = known[label]]
  <2>1. ppSetGotoStmt(e, label) = r
    BY <1>1 DEF ppSetGotoStmt, Asked
  <2>0. t = "GOTO_LOCATION"
    OBVIOUS
  <2> HIDE DEF t
  <2>2. /\ ContextOK(p) /\ Keeps(e, p) /\ p.type = t
        /\ p.dcl = e.dcl /\ p.dolevel = e.dolevel
    BY AskedKeeps
  <2>3. known[label] \in Nat
    <3>1. known \in Labels
      BY DEF ContextOK
    <3> QED BY <1>1, <3>1 DEF Labels
  <2> HIDE DEF p, known
  <2>4. ContextFields \subseteq DOMAIN p
    BY <2>2 DEF ContextOK
  <2>5. /\ DOMAIN r = DOMAIN p /\ r.type = p.type /\ r.at = known[label]
        /\ r.dcl = p.dcl /\ r.labels = p.labels /\ r.loop = p.loop /\ r.dolevel = p.dolevel
        /\ r.gather = p.gather /\ r.scanForLabel = p.scanForLabel
        /\ r.loopCur = p.loopCur
    BY <2>4 DEF ContextFields
  <2> HIDE DEF r
  <2>6. Keeps(p, r)
    BY <2>5 DEF Keeps, KeepsTypes
  <2>7. LoopOK(r)
    BY <2>2, <2>5, <2>6, LoopKept DEF ContextOK, Keeps
  <2>8. ContextOK(r)
    BY <2>2, <2>3, <2>5, <2>7 DEF ContextOK
  <2>9. Keeps(e, r)
    BY <2>2, <2>6, KeepsTransitive
  <2> QED BY <2>0, <2>1, <2>2, <2>5, <2>8, <2>9
<1>2. CASE label \notin DOMAIN known
  <2> DEFINE t == "GOTO_LABEL"
             r == Asked(e, t, label)
  <2>1. ppSetGotoStmt(e, label) = r /\ t = "GOTO_LABEL"
    BY <1>2 DEF ppSetGotoStmt, Asked
  <2> HIDE DEF t
  <2>2. ContextOK(r) /\ Keeps(e, r) /\ r.type = t /\ r.dcl = e.dcl /\ r.dolevel = e.dolevel
    BY AskedKeeps
  <2> HIDE DEF r
  <2> QED BY <2>1, <2>2
<1> QED BY <1>1, <1>2

(* %INCLUDE. *)
LEMMA IncludeKeeps ==
  ASSUME NEW e, ContextOK(e), NEW file, NEW files
  PROVE  LET r == ppSetIncludeStmt(e, file, files)
         IN  ContextOK(r) /\ Keeps(e, r) /\ r.type \in {"INCLUDE_FILE_NAME", "ERROR"}
             /\ (r.type = "INCLUDE_FILE_NAME" => r.arg \in files)
<1> DEFINE t == IF file \in files THEN "INCLUDE_FILE_NAME" ELSE "ERROR"
<1>1. ppSetIncludeStmt(e, file, files) = Asked(e, t, file)
  BY DEF ppSetIncludeStmt, Asked
<1>2. t \in {"INCLUDE_FILE_NAME", "ERROR"} /\ (t = "INCLUDE_FILE_NAME" => file \in files)
  OBVIOUS
<1> HIDE DEF t
<1> QED BY <1>1, <1>2, AskedKeeps

(* %DO and %END. *)
LEMMA DoKeeps ==
  ASSUME NEW e, ContextOK(e), NEW var, NEW from \in Int, NEW to \in Int
  PROVE  LET r == ppSetDoStmt(e, var, from, to)
         IN  ContextOK(r) /\ Keeps(e, r) /\ r.type \in {"ERROR", "LOOP_DO"}
<1>1. CASE e.dolevel > 0 \/ ~CanAssign(e, var, "FIXED")
  <2> DEFINE t == "ERROR"
             p == Asked(e, t, var)
             r == Failed(p)
  <2>1. ppSetDoStmt(e, var, from, to) = r /\ t = "ERROR"
    BY <1>1 DEF ppSetDoStmt, Asked
  <2> HIDE DEF t
  <2>2. ContextOK(p) /\ Keeps(e, p) /\ p.type = t
    BY AskedKeeps
  <2> HIDE DEF p
  <2>3. ContextOK(r) /\ Keeps(p, r)
    BY <2>2, FailedKeeps
  <2>4. r.type = p.type
    BY <2>2 DEF Failed, ContextOK, ContextFields
  <2> QED BY <2>1, <2>2, <2>3, <2>4, KeepsTransitive
<1>2. CASE ~(e.dolevel > 0 \/ ~CanAssign(e, var, "FIXED"))
  <2> DEFINE p == ppSetIntValue(e, var, from)
             l == [var |-> var, from |-> from, to |-> to]
             r == [p EXCEPT !.dolevel = @ + 1, !.loop = l, !.type = "LOOP_DO"]
  <2>1. ppSetDoStmt(e, var, from, to) = r
    BY <1>2 DEF ppSetDoStmt
  <2>2. ContextOK(p) /\ Keeps(e, p)
    <3> HIDE DEF l
    <3> QED BY SetIntKeeps
  <2>3. CanAssign(p, var, "FIXED")
    BY <1>2, <2>2 DEF Keeps, KeepsTypes, CanAssign, Declared
  <2>a. l.from \in Int /\ l.to \in Int /\ l.var = var
    OBVIOUS
  <2> HIDE DEF p, l
  <2>4. ContextFields \subseteq DOMAIN p
    BY <2>2 DEF ContextOK
  <2>5. /\ DOMAIN r = DOMAIN p /\ r.type = "LOOP_DO" /\ r.loop = l
        /\ r.dcl = p.dcl /\ r.labels = p.labels /\ r.at = p.at
        /\ r.gather = p.gather /\ r.scanForLabel = p.scanForLabel
        /\ r.loopCur = p.loopCur
    BY <2>4 DEF ContextFields
  <2> HIDE DEF r
  <2>6. Keeps(p, r)
    BY <2>5 DEF Keeps, KeepsTypes
  <2>7. LoopOK(r)
    BY <2>3, <2>5, <2>a DEF LoopOK, CanAssign, Declared
  <2>8. ContextOK(r)
    BY <2>2, <2>5, <2>7 DEF ContextOK
  <2>9. Keeps(e, r)
    BY <2>2, <2>6, KeepsTransitive
  <2> QED BY <2>1, <2>5, <2>8, <2>9
<1> QED BY <1>1, <1>2

(* %END. *)
LEMMA EndKeeps ==
  ASSUME NEW e, ContextOK(e)
  PROVE  LET r == ppSetEndStmt(e)
         IN  ContextOK(r) /\ Keeps(e, r) /\ r.type = "LOOP_END"
<1> DEFINE r == ppSetEndStmt(e)
<1>1. ContextFields \subseteq DOMAIN e
  BY DEF ContextOK
<1>2. /\ DOMAIN r = DOMAIN e /\ r.type = "LOOP_END"
      /\ r.dcl = e.dcl /\ r.labels = e.labels /\ r.loop = e.loop
      /\ r.at = e.at /\ r.gather = e.gather /\ r.scanForLabel = e.scanForLabel
      /\ r.loopCur = e.loopCur
  BY <1>1 DEF ContextFields, ppSetEndStmt
<1> HIDE DEF r
<1>3. KeepsTypes(e.dcl, r.dcl)
  BY <1>2 DEF KeepsTypes
<1>4. LoopOK(r)
  BY <1>2, <1>3, LoopKept DEF ContextOK
<1>5. ContextOK(r) /\ Keeps(e, r)
  BY <1>2, <1>3, <1>4 DEF ContextOK, Keeps
<1> QED BY <1>2, <1>5 DEF r

(* What the lexicon promises of a statement. *)
StatementOK(s) ==
  /\ s.op \in {"ASSIGN_STR", "REPLACE_STR"} => s.value \in Seq(Lexemes)
  /\ s.op = "DO" => s.from \in Int /\ s.to \in Int

(* What a statement may ask of the scanner. *)
Asks(e, r, files) ==
  /\ r.type = "INCLUDE_FILE_NAME" => r.arg \in files
  /\ r.type = "GOTO_LABEL" => r.dcl = e.dcl /\ r.dolevel = e.dolevel

(* pl1ppstmt: every statement. *)
LEMMA StatementKeeps ==
  ASSUME NEW e, ContextOK(e), e.type \in StaleTypes, NEW s, StatementOK(s),
         NEW files
  PROVE  LET r == pl1ppstmt(s, e, files)
         IN  ContextOK(r) /\ Keeps(e, r) /\ Asks(e, r, files)
<1> DEFINE r == pl1ppstmt(s, e, files)
           Goal(q) == ContextOK(q) /\ Keeps(e, q) /\ Asks(e, q, files)
<1>a. ASSUME NEW q, ContextOK(q), Keeps(e, q), q.type \in StaleTypes
      PROVE  Goal(q)
  BY <1>a DEF Asks, StaleTypes
<1>b. Keeps(e, e)
  BY DEF Keeps, KeepsTypes
<1> SUFFICES Goal(r)
  BY DEF Goal, r
<1>1. CASE s.op = "LISTING"
  <2>1. r = e
    BY <1>1 DEF pl1ppstmt
  <2> QED BY <2>1, <1>a, <1>b
<1>2. CASE s.op \in {"ACTIVATE", "DEACTIVATE"}
  <2>1. \E active : r = SetActive(e, s.name, active)
    BY <1>2 DEF pl1ppstmt
  <2> HIDE DEF r, Goal
  <2> QED BY <2>1, <1>a, SetActiveKeeps
<1>3. CASE s.op = "DECLARE"
  <2>1. r = ppDefineVariableList(e, s.names, s.type)
    BY <1>3 DEF pl1ppstmt
  <2> HIDE DEF r, Goal
  <2> QED BY <2>1, <1>a, DefineVariableListKeeps
<1>4. CASE s.op = "DO"
  <2>1. r = ppSetDoStmt(e, s.name, s.from, s.to) /\ s.from \in Int /\ s.to \in Int
    BY <1>4 DEF pl1ppstmt, StatementOK
  <2> HIDE DEF r, Goal
  <2> QED BY <2>1, <1>a, DoKeeps DEF StaleTypes
<1>5. CASE s.op = "END"
  <2>1. r = ppSetEndStmt(e)
    BY <1>5 DEF pl1ppstmt
  <2> HIDE DEF r, Goal
  <2> QED BY <2>1, <1>a, EndKeeps DEF StaleTypes
<1>6. CASE s.op = "GOTO"
  <2>1. r = ppSetGotoStmt(e, s.name)
    BY <1>6 DEF pl1ppstmt
  <2> HIDE DEF r
  <2> QED BY <2>1, GotoKeeps DEF Asks
<1>7. CASE s.op = "INCLUDE"
  <2>1. r = ppSetIncludeStmt(e, s.name, files)
    BY <1>7 DEF pl1ppstmt
  <2> HIDE DEF r
  <2> QED BY <2>1, IncludeKeeps DEF Asks
<1>8. CASE s.op = "ASSIGN_INT"
  <2>1. r = ppSetIntValue(e, s.name, s.value)
    BY <1>8 DEF pl1ppstmt
  <2> HIDE DEF r, Goal
  <2> QED BY <2>1, <1>a, SetIntKeeps
<1>9. CASE s.op = "ASSIGN_STR"
  <2>1. r = ppSetStringValue(e, s.name, s.value) /\ s.value \in Seq(Lexemes)
    BY <1>9 DEF pl1ppstmt, StatementOK
  <2> HIDE DEF r, Goal
  <2> QED BY <2>1, <1>a, SetStringKeeps
<1>10. CASE s.op = "REPLACE_INT"
  <2> DEFINE p == ppDefineVariable(e, s.name, "FIXED")
  <2>1. r = ppSetIntValue(p, s.name, s.value)
    BY <1>10 DEF pl1ppstmt
  <2>2. ContextOK(p) /\ Keeps(e, p) /\ p.type = e.type
    BY DefineVariableKeeps
  <2> HIDE DEF r, Goal, p
  <2>4. ContextOK(r) /\ Keeps(p, r) /\ r.type = p.type
    BY <2>1, <2>2, SetIntKeeps
  <2>5. Keeps(e, r)
    BY <2>2, <2>4, KeepsTransitive
  <2> QED BY <2>2, <2>4, <2>5, <1>a
<1>11. CASE s.op = "REPLACE_STR"
  <2> DEFINE p == ppDefineVariable(e, s.name, "CHAR")
  <2>1. r = ppSetStringValue(p, s.name, s.value) /\ s.value \in Seq(Lexemes)
    BY <1>11 DEF pl1ppstmt, StatementOK
  <2>2. ContextOK(p) /\ Keeps(e, p) /\ p.type = e.type
    BY DefineVariableKeeps
  <2> HIDE DEF r, Goal, p
  <2>4. ContextOK(r) /\ Keeps(p, r) /\ r.type = p.type
    BY <2>1, <2>2, SetStringKeeps
  <2>5. Keeps(e, r)
    BY <2>2, <2>4, KeepsTransitive
  <2> QED BY <2>2, <2>4, <2>5, <1>a
<1>12. CASE s.op = "NOTE"
  <2>1. r = e \/ r = Failed(e)
    BY <1>12 DEF pl1ppstmt, ppSetNoteStmt
  <2> HIDE DEF r, Goal
  <2> QED BY <2>1, <1>a, <1>b, FailedKeeps
<1>13. CASE s.op \notin {"LISTING", "ACTIVATE", "DEACTIVATE", "DECLARE", "DO", "END", "GOTO", "INCLUDE",
                        "ASSIGN_INT", "ASSIGN_STR", "REPLACE_INT", "REPLACE_STR", "NOTE"}
  <2>1. r = Failed(e)
    BY <1>13 DEF pl1ppstmt
  <2> HIDE DEF r, Goal
  <2> QED BY <2>1, <1>a, FailedKeeps
<1> HIDE DEF r, Goal
<1> QED BY <1>1, <1>2, <1>3, <1>4, <1>5, <1>6, <1>7, <1>8, <1>9, <1>10, <1>11, <1>12, <1>13

-----------------------------------------------------------------------------
(* The search for a token. *)
LEMMA FirstOfIs ==
  ASSUME NEW q \in Seq(PPTokens), NEW t, Has(q, t)
  PROVE  FirstOf(q, t) \in 1..Len(q) /\ q[FirstOf(q, t)].tok = t
<1> DEFINE S == {i \in 1..Len(q) : q[i].tok = t}
<1>1. S \in SUBSET Nat /\ S # {}
  BY DEF Has
<1>2. PICK i \in S : \A j \in S : i <= j
  BY <1>1, Least
<1>3. i \in 1..Len(q) /\ q[i].tok = t /\ \A j \in 1..(i - 1) : q[j].tok # t
  <2>1. ASSUME NEW j \in 1..(i - 1), q[j].tok = t PROVE FALSE
    <3>1. j \in S
      BY <1>2, <2>1
    <3> QED BY <1>2, <3>1
  <2> QED BY <1>2, <2>1
<1> QED BY <1>3 DEF FirstOf

(* What ppScanTokensForChar leaves. *)
LEMMA FromPercentIs ==
  ASSUME NEW q \in Seq(PPTokens), Has(q, "PERCENT")
  PROVE  /\ FromPercent(q) \in Seq(PPTokens) /\ FromPercent(q) # << >>
         /\ FromPercent(q)[Len(FromPercent(q))] = q[Len(q)]
<1> DEFINE f == FirstOf(q, "PERCENT")
<1>1. f \in 1..Len(q) /\ Len(q) \in Nat
  BY FirstOfIs
<1>2. FromPercent(q) = SubSeq(q, f, Len(q))
  BY DEF FromPercent
<1> HIDE DEF f
<1>3. /\ SubSeq(q, f, Len(q)) \in Seq(PPTokens)
      /\ Len(SubSeq(q, f, Len(q))) = Len(q) - f + 1
      /\ SubSeq(q, f, Len(q))[Len(q) - f + 1] = q[Len(q)]
  BY <1>1
<1> DEFINE p == SubSeq(q, f, Len(q))
<1>4. p \in Seq(PPTokens) /\ Len(p) = Len(q) - f + 1 /\ p[Len(p)] = q[Len(q)]
  BY <1>3
<1> HIDE DEF p
<1>5. p # << >>
  BY <1>1, <1>4
<1> QED BY <1>2, <1>4, <1>5 DEF p

(* What remains when labels are defined. *)
Carries(e, r) ==
  /\ Len(r.labels) = Len(e.labels) /\ r.gather = e.gather
  /\ r.scanForLabel = e.scanForLabel /\ r.loopCur = e.loopCur
  /\ KeepsTypes(e.dcl, r.dcl)

(* Other labels in the innermost file. *)
Relabelled(e, f) == [e EXCEPT !.labels[Len(e.labels)] = f]

(* They change nothing else. *)
LEMMA RelabelledCarries ==
  ASSUME NEW e, ContextOK(e), NEW f \in Labels
  PROVE  LET r == Relabelled(e, f)
         IN  ContextOK(r) /\ Carries(e, r) /\ r.type = e.type /\ r.arg = e.arg /\ r.dcl = e.dcl
             /\ r.dolevel = e.dolevel
<1> DEFINE l == [e.labels EXCEPT ![Len(e.labels)] = f]
           r == Relabelled(e, f)
<1>1. ContextFields \subseteq DOMAIN e
  BY DEF ContextOK
<1>2. /\ DOMAIN r = DOMAIN e /\ r.dcl = e.dcl /\ r.type = e.type /\ r.arg = e.arg
      /\ r.labels = l /\ r.loop = e.loop /\ r.dolevel = e.dolevel
      /\ r.at = e.at /\ r.gather = e.gather /\ r.scanForLabel = e.scanForLabel
      /\ r.loopCur = e.loopCur
  BY <1>1 DEF ContextFields, Relabelled
<1>3. l \in Seq(Labels) /\ Len(l) = Len(e.labels) /\ l # << >>
  <2>1. e.labels \in Seq(Labels) /\ e.labels # << >>
    BY DEF ContextOK
  <2> DEFINE m == e.labels
  <2> HIDE DEF m
  <2>2. m \in Seq(Labels) /\ m # << >> =>
          LET k == [m EXCEPT ![Len(m)] = f] IN k \in Seq(Labels) /\ Len(k) = Len(m) /\ k # << >>
    OBVIOUS
  <2> QED BY <2>1, <2>2 DEF m
<1> HIDE DEF r, l
<1>4. KeepsTypes(e.dcl, r.dcl)
  BY <1>2 DEF KeepsTypes
<1>5. LoopOK(r)
  BY <1>2, <1>4, LoopKept DEF ContextOK
<1>6. ContextOK(r) /\ Carries(e, r)
  BY <1>2, <1>3, <1>4, <1>5 DEF ContextOK, Carries
<1> QED BY <1>2, <1>6 DEF r

(* ppDefineLabel. *)
LEMMA DefineLabelCarries ==
  ASSUME NEW e, ContextOK(e), NEW name \in Lexemes, NEW offset \in Nat
  PROVE  LET r == ppDefineLabel(e, name, offset)
         IN  ContextOK(r) /\ Carries(e, r) /\ r.type = e.type /\ r.arg = e.arg /\ r.dcl = e.dcl
             /\ r.dolevel = e.dolevel
<1>1. CASE Declared(e, name)
  <2>1. ppDefineLabel(e, name, offset) = Failed(e)
    BY <1>1 DEF ppDefineLabel
  <2>2. Failed(e).arg = e.arg /\ Failed(e).dcl = e.dcl /\ Failed(e).dolevel = e.dolevel
    BY DEF Failed, ContextOK, ContextFields
  <2> QED BY <2>1, <2>2, FailedKeeps DEF Keeps, Carries
<1>2. CASE ~Declared(e, name)
  <2> DEFINE known == e.labels[Len(e.labels)]
             f == With(known, name, offset)
  <2>1. known \in Labels
    BY DEF ContextOK
  <2>2. f \in Labels
    <3> HIDE DEF known
    <3>1. PICK S \in SUBSET Lexemes : known \in [S -> Nat]
      BY <2>1 DEF Labels
    <3>2. f \in [S \union {name} -> Nat]
      BY <3>1 DEF With
    <3> QED BY <3>2 DEF Labels
  <2>3. ppDefineLabel(e, name, offset) = Relabelled(e, f)
    BY <1>2 DEF ppDefineLabel, Relabelled
  <2> HIDE DEF f
  <2> QED BY <2>2, <2>3, RelabelledCarries
<1> QED BY <1>1, <1>2

(* The names before the ':'. *)
LEMMA LabelNamesAre ==
  ASSUME NEW q \in Seq(PPTokens), Has(q, "PERCENT"), Has(FromPercent(q), "COLON")
  PROVE  \E n \in Nat, p \in Seq(PPTokens) :
           n <= Len(p) /\ LabelNames(q) \subseteq {p[i] : i \in 1..n}
<1> DEFINE p == FromPercent(q)
           n == FirstOf(p, "COLON")
<1>1. p \in Seq(PPTokens) /\ n \in 1..Len(p)
  BY FromPercentIs, FirstOfIs
<1>2. LabelNames(q) = {p[i] : i \in {j \in 2..(n - 1) : p[j].tok # "COMMA"}}
  BY DEF LabelNames
<1> HIDE DEF p, n
<1>3. \A j \in 2..(n - 1) : j \in 1..n
  BY <1>1
<1>4. LabelNames(q) \subseteq {p[i] : i \in 1..n}
  BY <1>2, <1>3
<1> QED BY <1>1, <1>4

(* ppProcessLabelStmt. *)
LEMMA DefineLabelsCarries ==
  ASSUME NEW e, ContextOK(e), NEW q \in Seq(PPTokens), Has(q, "PERCENT"), Has(FromPercent(q), "COLON")
  PROVE  LET r == DefineLabels(e, q)
         IN  ContextOK(r) /\ Carries(e, r) /\ r.type = e.type /\ r.arg = e.arg /\ r.dcl = e.dcl
             /\ r.dolevel = e.dolevel
<1> DEFINE At(name) == (CHOOSE n \in LabelNames(q) :
                          n.lex = name /\ \A m \in LabelNames(q) : m.lex = name => m.at <= n.at).at
           new == {n.lex : n \in LabelNames(q)}
           known == e.labels[Len(e.labels)]
           f == [x \in DOMAIN known \union new |-> IF x \in new THEN At(x) ELSE known[x]]
<1>1. known \in Labels
  BY DEF ContextOK
<1>2. PICK n \in Nat, p \in Seq(PPTokens) :
        n <= Len(p) /\ LabelNames(q) \subseteq {p[i] : i \in 1..n}
  BY LabelNamesAre
<1>3. \A i \in 1..n : p[i] \in PPTokens
  BY <1>2
<1>4. new \subseteq Lexemes
  BY <1>2, <1>3 DEF PPTokens
<1>5. ASSUME NEW x \in new PROVE At(x) \in Nat
  <2> DEFINE N == {m \in LabelNames(q) : m.lex = x}
             A == {m.at : m \in N}
  <2>1. \A m \in N : m \in PPTokens /\ \E i \in 1..n : m = p[i]
    BY <1>2, <1>3
  <2>2. PICK b \in Nat : \A i \in 1..n : p[i].at <= b
    <3> DEFINE g == [i \in 1..n |-> p[i].at]
    <3>1. \A i \in 1..n : g[i] \in Nat
      BY <1>3 DEF PPTokens
    <3>2. \E b \in Nat : \A i \in 1..n : g[i] <= b
      <4> HIDE DEF g
      <4> QED BY <3>1, Bounded
    <3> QED BY <3>2
  <2>3. A \in SUBSET Nat /\ A # {} /\ \A a \in A : a <= b
    BY <2>1, <2>2 DEF PPTokens
  <2>4. PICK a \in A : \A c \in A : c <= a
    BY <2>2, <2>3, Greatest
  <2>5. PICK m \in N : m.at = a
    BY <2>4
  <2>6. m \in LabelNames(q) /\ m.lex = x /\ \A k \in LabelNames(q) : k.lex = x => k.at <= m.at
    BY <2>4, <2>5
  <2> DEFINE Q(k) == k.lex = x /\ \A j \in LabelNames(q) : j.lex = x => j.at <= k.at
             c == CHOOSE k \in LabelNames(q) : Q(k)
  <2>7. c \in LabelNames(q)
    <3>1. \E k \in LabelNames(q) : Q(k)
      BY <2>6
    <3> HIDE DEF Q
    <3> QED BY <3>1
  <2>8. At(x) = c.at
    OBVIOUS
  <2> HIDE DEF c
  <2>9. c.at \in Nat
    BY <2>7, <1>2, <1>3 DEF PPTokens
  <2> QED BY <2>8, <2>9
<1>6. DefineLabels(e, q) = Relabelled(e, f)
  BY DEF DefineLabels, Relabelled
<1>7. f \in Labels
  <2> HIDE DEF At, new, known
  <2>1. PICK S \in SUBSET Lexemes : known \in [S -> Nat]
    BY <1>1 DEF Labels
  <2>2. f \in [S \union new -> Nat]
    BY <2>1, <1>5
  <2>3. S \union new \in SUBSET Lexemes
    BY <1>4
  <2> HIDE DEF f
  <2> QED BY <2>2, <2>3 DEF Labels
<1> HIDE DEF f
<1> QED BY <1>6, <1>7, RelabelledCarries

(* The statement in a list of tokens. *)
LEMMA StatementInOK ==
  ASSUME NEW q \in Seq(PPTokens), WellFormed(q), q # << >>, q[Len(q)].tok = "SEMICOLON"
  PROVE  StatementOK(StatementIn(q))
<1> DEFINE body == IF Len(q) > 3 THEN SubSeq(q, 4, Len(q)) ELSE Tail(q)
<1>1. Len(q) >= 2
  BY DEF WellFormed
<1>2. body \in Seq(PPTokens) /\ body # << >>
  <2>0. Len(q) \in Nat
    OBVIOUS
  <2>1. CASE Len(q) > 3
    <3>1. body = SubSeq(q, 4, Len(q))
      BY <2>1
    <3>2. SubSeq(q, 4, Len(q)) \in Seq(PPTokens) /\ Len(SubSeq(q, 4, Len(q))) = Len(q) - 3
      BY <2>1
    <3> HIDE DEF body
    <3>3. body \in Seq(PPTokens) /\ Len(body) = Len(q) - 3
      BY <3>1, <3>2
    <3>4. Len(body) # 0
      BY <2>0, <2>1, <3>3
    <3> QED BY <3>3, <3>4
  <2>2. CASE ~(Len(q) > 3)
    <3>1. body = Tail(q)
      BY <2>2
    <3>2. Tail(q) \in Seq(PPTokens) /\ Len(Tail(q)) = Len(q) - 1
      BY <1>1
    <3> HIDE DEF body
    <3>3. body \in Seq(PPTokens) /\ Len(body) = Len(q) - 1
      BY <3>1, <3>2
    <3>4. Len(body) # 0
      BY <1>1, <2>0, <3>3
    <3> QED BY <3>3, <3>4
  <2> QED BY <2>1, <2>2
<1>3. StatementIn(q) = IF Len(body) = 1 THEN [op |-> "LISTING"] ELSE Lexicon[body[1].lex].stmt
  BY DEF StatementIn
<1> HIDE DEF body
<1>4. body[1].lex \in Lexemes
  <2>1. body[1] \in PPTokens
    BY <1>2
  <2> QED BY <2>1 DEF PPTokens
<1>5. StatementOK(Lexicon[body[1].lex].stmt)
  BY <1>4, LexiconAssumption DEF LexiconAssumption, StatementOK
<1>6. StatementOK([op |-> "LISTING"])
  BY DEF StatementOK
<1> QED BY <1>3, <1>5, <1>6

(* pl1pp_parser: the label and the statement. *)
LEMMA ParserCarries ==
  ASSUME NEW e, ContextOK(e), e.type \in StaleTypes,
         NEW q \in Seq(PPTokens), q # << >>, q[Len(q)].tok = "SEMICOLON"
  PROVE  LET r == pl1pp_parser(q, e)
         IN  ContextOK(r) /\ Carries(e, r) /\ Asks(e, r, DOMAIN source.files)
<1> DEFINE s == StatementIn(q)
           files == DOMAIN source.files
           ran == pl1ppstmt(s, e, files)
           r == pl1pp_parser(q, e)
<1>1. CASE ~WellFormed(q)
  <2>1. r = Failed(e)
    BY <1>1 DEF pl1pp_parser
  <2>2. ContextOK(Failed(e)) /\ Keeps(e, Failed(e)) /\ Failed(e).type = e.type
    BY FailedKeeps
  <2> QED BY <2>1, <2>2 DEF Keeps, Carries, Asks, StaleTypes
<1>2. CASE WellFormed(q)
  <2>1. ContextOK(ran) /\ Keeps(e, ran) /\ Asks(e, ran, files)
    BY <1>2, StatementInOK, StatementKeeps
  <2>2. r = ran \/ (Len(q) > 3 /\ r = ppDefineLabel(ran, q[2].lex, q[1].at))
    BY <1>2 DEF pl1pp_parser
  <2> HIDE DEF r, ran, files
  <2>3. CASE r = ran
    BY <2>1, <2>3 DEF Keeps, Carries, files, r
  <2>4. CASE Len(q) > 3 /\ r = ppDefineLabel(ran, q[2].lex, q[1].at)
    <3>1. q[2].lex \in Lexemes /\ q[1].at \in Nat
      <4>1. q[1] \in PPTokens /\ q[2] \in PPTokens
        BY <2>4
      <4> QED BY <4>1 DEF PPTokens
    <3>2. /\ ContextOK(r) /\ Carries(ran, r) /\ r.type = ran.type /\ r.arg = ran.arg
          /\ r.dcl = ran.dcl /\ r.dolevel = ran.dolevel
      BY <2>1, <2>4, <3>1, DefineLabelCarries
    <3>3. Carries(e, r)
      BY <2>1, <3>2 DEF Keeps, Carries, KeepsTypes
    <3>4. Asks(e, r, files)
      BY <2>1, <3>2 DEF Asks
    <3> QED BY <3>2, <3>3, <3>4 DEF files, r
  <2> QED BY <2>2, <2>3, <2>4
<1> QED BY <1>1, <1>2

-----------------------------------------------------------------------------
(* The number of files among buffers. *)
FilesIn(f) == Cardinality({i \in 1..Len(f) : f[i].kind # "PPVAR"})

(* It is a number, *)
LEMMA FilesNumber ==
  ASSUME NEW f \in Seq(Frame)
  PROVE  FilesIn(f) \in Nat
<1> DEFINE S == {i \in 1..Len(f) : f[i].kind # "PPVAR"}
<1>1. Len(f) \in Nat
  OBVIOUS
<1>2. IsFiniteSet(1..Len(f))
  BY <1>1, FS_Interval
<1>3. S \subseteq 1..Len(f)
  OBVIOUS
<1> HIDE DEF S
<1>4. IsFiniteSet(S)
  BY <1>2, <1>3, FS_Subset
<1>5. Cardinality(S) \in Nat
  BY <1>4, FS_CardinalityType
<1> QED BY <1>5 DEF FilesIn, S

(* which depends on the kinds of the buffers only *)
LEMMA FilesSame ==
  ASSUME NEW f \in Seq(Frame), NEW g \in Seq(Frame), Len(f) = Len(g),
         \A i \in 1..Len(f) : f[i].kind = g[i].kind
  PROVE  FilesIn(f) = FilesIn(g)
<1>1. {i \in 1..Len(f) : f[i].kind # "PPVAR"} = {i \in 1..Len(g) : g[i].kind # "PPVAR"}
  OBVIOUS
<1> QED BY <1>1 DEF FilesIn

(* and grows with each file. *)
LEMMA FilesAppended ==
  ASSUME NEW f \in Seq(Frame), NEW x \in Frame
  PROVE  FilesIn(Append(f, x)) = FilesIn(f) + (IF x.kind # "PPVAR" THEN 1 ELSE 0)
<1> DEFINE S == {i \in 1..Len(f) : f[i].kind # "PPVAR"}
           g == Append(f, x)
           T == {i \in 1..Len(g) : g[i].kind # "PPVAR"}
           n == Len(f) + 1
<1>1. /\ Len(f) \in Nat /\ Len(g) = n /\ g[n] = x
      /\ \A i \in 1..Len(f) : g[i] = f[i]
  OBVIOUS
<1>2. IsFiniteSet(S)
  <2>1. IsFiniteSet(1..Len(f))
    BY <1>1, FS_Interval
  <2>2. S \subseteq 1..Len(f)
    OBVIOUS
  <2> HIDE DEF S
  <2> QED BY <2>1, <2>2, FS_Subset
<1>3. n \notin S
  BY <1>1
<1>4. CASE x.kind # "PPVAR"
  <2>1. T = S \union {n}
    <3> HIDE DEF g
    <3> QED BY <1>1, <1>4
  <2> HIDE DEF S, T
  <2>2. Cardinality(T) = Cardinality(S) + 1
    BY <1>2, <1>3, <2>1, FS_AddElement
  <2> QED BY <1>4, <2>2 DEF FilesIn, S, T
<1>5. CASE x.kind = "PPVAR"
  <2>1. T = S
    <3> HIDE DEF g
    <3> QED BY <1>1, <1>5
  <2>2. FilesIn(g) = FilesIn(f)
    BY <2>1 DEF FilesIn
  <2>3. FilesIn(f) \in Nat
    BY FilesNumber
  <2> QED BY <1>5, <2>2, <2>3
<1> QED BY <1>4, <1>5

(* The buffers. *)
InputInv ==
  /\ cur \in Frame /\ stack \in Seq(Frame)
  /\ \A i \in 1..Len(Frames) : Frames[i].kind = "MAIN" <=> i = 1
  /\ includeCount = Len(stack)

(* The current buffer is another part of the same text. *)
LEMMA SameBuffer ==
  ASSUME InputInv, cur' \in Frame, cur'.kind = cur.kind, UNCHANGED <<stack, includeCount>>
  PROVE  InputInv' /\ FilesIn(Frames') = FilesIn(Frames) /\ Len(Frames') = Len(Frames)
<1> DEFINE f == Append(stack, cur)
           g == Append(stack, cur')
<1>1. /\ f \in Seq(Frame) /\ g \in Seq(Frame) /\ Len(f) = Len(g)
      /\ \A i \in 1..Len(f) : f[i].kind = g[i].kind
  BY DEF InputInv
<1>2. Frames = f /\ Frames' = g
  BY DEF Frames
<1> HIDE DEF f, g
<1>3. FilesIn(g) = FilesIn(f)
  BY <1>1, FilesSame
<1>4. \A i \in 1..Len(g) : g[i].kind = "MAIN" <=> i = 1
  BY <1>1, <1>2 DEF InputInv
<1>5. InputInv'
  BY <1>2, <1>4 DEF InputInv
<1> QED BY <1>1, <1>2, <1>3, <1>5

(* Another text is read first. *)
LEMMA BufferPushed ==
  ASSUME InputInv, NEW old \in Frame, old.kind = cur.kind,
         NEW kind \in {"FILE", "PPVAR"}, NEW text \in Seq(Lexemes),
         stackCurrentBuffer(old, kind, text)
  PROVE  /\ InputInv' /\ Len(Frames') = Len(Frames) + 1
         /\ FilesIn(Frames') = FilesIn(Frames) + (IF kind = "FILE" THEN 1 ELSE 0)
<1> DEFINE f == Append(stack, cur)
           s == Append(stack, old)
           new == [kind |-> kind, text |-> text, pos |-> 0]
           g == Append(s, new)
<1>0. cur \in Frame /\ stack \in Seq(Frame) /\ includeCount = Len(stack)
  BY DEF InputInv
<1>1. /\ f \in Seq(Frame) /\ s \in Seq(Frame) /\ Len(f) = Len(s)
      /\ Len(s) = Len(stack) + 1 /\ Len(stack) \in Nat
      /\ \A i \in 1..Len(f) : f[i].kind = s[i].kind
  BY <1>0
<1>2. new \in Frame /\ new.kind = kind
  BY DEF Frame
<1>3. Frames = f /\ Frames' = g /\ stack' = s /\ cur' = new /\ includeCount' = includeCount + 1
  BY DEF Frames, stackCurrentBuffer
<1> HIDE DEF f, s, new
<1>4. /\ g \in Seq(Frame) /\ Len(g) = Len(s) + 1 /\ g[Len(s) + 1] = new
      /\ \A i \in 1..Len(s) : g[i] = s[i]
  BY <1>1, <1>2
<1>5. FilesIn(g) = FilesIn(f) + (IF kind = "FILE" THEN 1 ELSE 0)
  <2>1. FilesIn(s) = FilesIn(f)
    BY <1>1, FilesSame
  <2>2. FilesIn(g) = FilesIn(s) + (IF new.kind # "PPVAR" THEN 1 ELSE 0)
    BY <1>1, <1>2, FilesAppended
  <2> HIDE DEF g
  <2> QED BY <1>2, <2>1, <2>2
<1> HIDE DEF g
<1>6. ASSUME NEW i \in 1..Len(g) PROVE g[i].kind = "MAIN" <=> i = 1
  <2>1. CASE i \in 1..Len(s)
    BY <2>1, <1>1, <1>3, <1>4 DEF InputInv
  <2>2. CASE i = Len(s) + 1
    <3>1. g[i].kind = kind /\ i # 1
      BY <2>2, <1>1, <1>2, <1>4
    <3> QED BY <3>1
  <2>3. i \in 1..Len(s) \/ i = Len(s) + 1
    BY <1>1, <1>4
  <2> QED BY <2>1, <2>2, <2>3
<1>7. InputInv'
  BY <1>0, <1>1, <1>2, <1>3, <1>6 DEF InputInv
<1> QED BY <1>1, <1>3, <1>4, <1>5, <1>7

(* The buffer before the current one is read on. *)
LEMMA BufferPopped ==
  ASSUME InputInv, includeCount > 0,
         cur' = Top(stack), stack' = Popped(stack), includeCount' = includeCount - 1
  PROVE  /\ InputInv' /\ Len(Frames) = Len(Frames') + 1
         /\ FilesIn(Frames) = FilesIn(Frames') + (IF cur.kind = "FILE" THEN 1 ELSE 0)
<1> DEFINE f == Append(stack, cur)
<1>0. cur \in Frame /\ stack \in Seq(Frame) /\ includeCount = Len(stack)
  BY DEF InputInv
<1>1. /\ f \in Seq(Frame) /\ Len(f) = Len(stack) + 1 /\ f[Len(stack) + 1] = cur
      /\ Len(stack) \in Nat /\ \A i \in 1..Len(stack) : f[i] = stack[i]
  BY <1>0
<1>2. Frames = f
  BY DEF Frames
<1> HIDE DEF f
<1>3. /\ Popped(stack) \in Seq(Frame) /\ Len(Popped(stack)) = Len(stack) - 1
      /\ Top(stack) \in Frame /\ Append(Popped(stack), Top(stack)) = stack
  BY <1>0, <1>1 DEF Popped, Top
<1>4. Frames' = stack
  BY <1>3 DEF Frames
<1>5. InputInv'
  <2>1. \A i \in 1..Len(stack) : stack[i].kind = "MAIN" <=> i = 1
    BY <1>1, <1>2 DEF InputInv
  <2>2. includeCount' = Len(stack')
    BY <1>0, <1>3
  <2> QED BY <1>3, <1>4, <2>1, <2>2 DEF InputInv
<1>6. FilesIn(f) = FilesIn(stack) + (IF cur.kind # "PPVAR" THEN 1 ELSE 0)
  BY <1>0, FilesAppended DEF f
<1>7. cur.kind # "MAIN"
  <2>1. Len(stack) + 1 \in 1..Len(f) /\ Len(stack) + 1 # 1
    BY <1>0, <1>1
  <2> QED BY <1>1, <1>2, <2>1 DEF InputInv
<1>8. cur.kind # "PPVAR" <=> cur.kind = "FILE"
  BY <1>0, <1>7 DEF Frame
<1> QED BY <1>1, <1>2, <1>4, <1>5, <1>6, <1>8

-----------------------------------------------------------------------------
(* The start conditions, and how the scanner stops. *)
StartStates == {"INITIAL", "COMMENT", "PP_SKIP", "LEXRETURN", "PP_DOLOOP",
                "DONE", "MUST_TERMINATE", "CRASH"}

(* The tokens that are kept. *)
TokensInv ==
  /\ lah \in [list: Seq(SavedTokens), count: Int]
  /\ accepted \in Nat /\ out \in Seq(SavedTokens)
  /\ pp \in Seq(PPTokens)

(* No token is gathered while the loop or saved tokens are read. *)
StartInv ==
  /\ source \in Sources
  /\ start \in StartStates /\ lookahead \in {0, 1}
  /\ start \in {"PP_DOLOOP", "LEXRETURN"} => ctx.gather = 0

(* The preprocessor between two statements.  What was collected ends with   *)
(* the ';' of a statement.                                                  *)
ContextInv ==
  /\ ContextOK(ctx) /\ ctx.type \in StaleTypes
  /\ ctx.scanForLabel # "NONE" => ctx.gather = 1
  /\ collected \in Seq(PPTokens) /\ ctx.loopCur \in 0..Len(collected)
  /\ collected = << >> \/ Lexicon[collected[Len(collected)].lex].first = "SEMICOLON"

(* The stack of start conditions and that of the labels. *)
NestInv ==
  /\ conds \in Seq({"INITIAL", "PP_DOLOOP"}) /\ conds # << >> /\ StatesNested
  /\ Len(ctx.labels) = FilesIn(Frames)

(* The invariant. *)
SInv == InputInv /\ TokensInv /\ StartInv /\ ContextInv /\ NestInv

(* It has the invariants of Scanner in it. *)
LEMMA SInvImplies ==
  ASSUME SInv
  PROVE  TypeOK /\ StatesNested /\ LabelsPerFile
BY DEF SInv, InputInv, TokensInv, StartInv, ContextInv, NestInv, TypeOK, StartStates, ContextOK,
       LabelsPerFile, FilesIn

(* The lexeme that is read. *)
LEMMA LexemeRead ==
  ASSUME InputInv, CanRead
  PROVE  /\ Lexeme \in Lexemes /\ Tok \in Tokens /\ cur.pos \in Nat
         /\ Advanced \in Frame /\ Advanced.kind = cur.kind
<1>1. cur \in Frame
  BY DEF InputInv
<1>2. Lexeme \in Lexemes
  BY <1>1 DEF CanRead, Lexeme, Frame
<1>3. Tok \in Tokens
  BY <1>2 DEF Tok, Tokens
<1>4. Advanced \in Frame /\ Advanced.kind = cur.kind
  BY <1>1 DEF Advanced, Frame
<1> QED BY <1>1, <1>2, <1>3, <1>4 DEF Frame

(* The next lexeme is read. *)
LEMMA ReadOn ==
  ASSUME InputInv, CanRead, cur' = Advanced, UNCHANGED <<stack, includeCount>>
  PROVE  InputInv' /\ FilesIn(Frames') = FilesIn(Frames) /\ Len(Frames') = Len(Frames)
BY LexemeRead, SameBuffer

(* The stack of start conditions and that of the labels, while the buffers  *)
(* hold the same files.                                                     *)
LEMMA NestKept ==
  ASSUME NestInv, InputInv, InputInv', UNCHANGED conds, Len(ctx'.labels) = Len(ctx.labels),
         FilesIn(Frames') = FilesIn(Frames), Len(Frames') >= Len(Frames)
  PROVE  NestInv'
<1>1. Len(conds) \in Nat /\ Len(conds) <= Len(Frames)
  BY DEF NestInv, StatesNested
<1>2. Len(Frames) \in Nat /\ Len(Frames') \in Nat
  <2>1. Frames \in Seq(Frame) /\ Frames' \in Seq(Frame)
    BY DEF InputInv, Frames
  <2> QED BY <2>1
<1>3. Len(conds') <= Len(Frames')
  BY <1>1, <1>2
<1> QED BY <1>3 DEF NestInv, StatesNested

(* The values of variables are texts. *)
LEMMA ValuesAreTexts ==
  ASSUME NEW dcl, DclOK(dcl), NEW x \in DOMAIN dcl, NEW v \in ppGetValueAsString(dcl[x])
  PROVE  v \in Seq(Lexemes)
<1>1. CASE dcl[x].type = "FIXED"
  <2>1. PICK i \in DOMAIN Number : v = <<Number[i]>>
    BY <1>1 DEF ppGetValueAsString
  <2>2. Number[i] \in Lexemes
    BY LexiconAssumption DEF LexiconAssumption
  <2> QED BY <2>1, <2>2
<1>2. CASE dcl[x].type # "FIXED"
  BY <1>2 DEF ppGetValueAsString, DclOK
<1> QED BY <1>1, <1>2

(* So are the texts that replace a name. *)
LEMMA ExpansionsAreTexts ==
  ASSUME ContextInv, NEW x, NEW v \in ppExpandTokenText(x)
  PROVE  v \in Seq(Lexemes)
<1>1. CASE Active(x)
  <2>1. x \in DOMAIN ctx.dcl /\ v \in ppGetValueAsString(ctx.dcl[x])
    BY <1>1 DEF ppExpandTokenText, Active, Declared
  <2>2. DclOK(ctx.dcl)
    BY DEF ContextInv, ContextOK
  <2> QED BY <2>1, <2>2, ValuesAreTexts
<1>2. CASE ~Active(x)
  BY <1>2 DEF ppExpandTokenText
<1> QED BY <1>1, <1>2

(* Saved tokens. *)
LEMMA TokensAre ==
  ASSUME InputInv, TokensInv, CanRead, NEW t \in Tokens
  PROVE  Here(t) \in PPTokens /\ Numbered(t) \in SavedTokens
BY LexemeRead DEF TokensInv, Here, Numbered, PPTokens, SavedTokens

(* A queue with one more token. *)
LEMMA SaveTokenIs ==
  ASSUME NEW l \in [list: Seq(SavedTokens), count: Int], NEW tk \in SavedTokens
  PROVE  LET q == savetoken(l, tk)
         IN  q \in [list: Seq(SavedTokens), count: Int] /\ q.list # << >>
<1>1. Append(l.list, tk) \in Seq(SavedTokens) /\ Append(l.list, tk) # << >>
  <2> DEFINE s == l.list
  <2>1. s \in Seq(SavedTokens)
    OBVIOUS
  <2> HIDE DEF s
  <2>2. Append(s, tk) \in Seq(SavedTokens) /\ Len(Append(s, tk)) = Len(s) + 1 /\ Len(s) \in Nat
    BY <2>1
  <2>3. Append(s, tk) # << >>
    BY <2>2
  <2> QED BY <2>2, <2>3 DEF s
<1> DEFINE a == Append(l.list, tk)
           c == IF l.list = << >> THEN 1 ELSE l.count + 1
<1>2. c \in Int
  OBVIOUS
<1>3. savetoken(l, tk) = [list |-> a, count |-> c]
  BY DEF savetoken
<1> HIDE DEF a, c
<1> QED BY <1>1, <1>2, <1>3 DEF a

(* What a rule of INITIAL leaves, in all that the macro dupyy changes. *)
Kept ==
  /\ InputInv' /\ TokensInv'
  /\ FilesIn(Frames') = FilesIn(Frames) /\ Len(Frames') >= Len(Frames)

(* The three outcomes of dupyy keep it. *)
LEMMA SaveForPreprocessorKeeps ==
  ASSUME SInv, CanRead, NEW t \in Tokens, SaveForPreprocessor(t)
  PROVE  Kept
<1>1. Here(t) \in PPTokens
  BY TokensAre DEF SInv
<1>2. TokensInv'
  BY <1>1 DEF SInv, TokensInv, SaveForPreprocessor, parser
<1>3. InputInv' /\ FilesIn(Frames') = FilesIn(Frames) /\ Len(Frames') = Len(Frames)
  BY ReadOn DEF SInv, SaveForPreprocessor
<1>4. Len(Frames) \in Nat
  BY DEF SInv, InputInv, Frames
<1> QED BY <1>2, <1>3, <1>4 DEF Kept

(* A value is read. *)
LEMMA ReadValueKeeps ==
  ASSUME SInv, CanRead, ReadValue
  PROVE  Kept
<1>1. PICK value \in ppExpandTokenText(Lexeme) : stackCurrentBuffer(Advanced, "PPVAR", value)
  BY DEF ReadValue
<1>2. value \in Seq(Lexemes)
  BY <1>1, ExpansionsAreTexts DEF SInv
<1>3. Advanced \in Frame /\ Advanced.kind = cur.kind
  BY LexemeRead DEF SInv
<1> DEFINE kind == "PPVAR"
<1>4. kind \in {"FILE", "PPVAR"} /\ kind # "FILE" /\ stackCurrentBuffer(Advanced, kind, value)
  BY <1>1
<1> HIDE DEF kind
<1>5. /\ InputInv' /\ Len(Frames') = Len(Frames) + 1
      /\ FilesIn(Frames') = FilesIn(Frames) + 0
  BY <1>2, <1>3, <1>4, BufferPushed DEF SInv
<1>6. Frames \in Seq(Frame)
  BY DEF SInv, InputInv, Frames
<1>7. Len(Frames) \in Nat /\ FilesIn(Frames) \in Nat
  BY <1>6, FilesNumber
<1>8. TokensInv'
  BY DEF SInv, TokensInv, ReadValue, parser
<1> QED BY <1>5, <1>7, <1>8 DEF Kept

(* The token is for the parser. *)
LEMMA PassOnKeeps ==
  ASSUME SInv, CanRead, NEW t \in Tokens, NEW la, PassOn(t, la)
  PROVE  Kept
<1>1. Numbered(t) \in SavedTokens /\ accepted \in Nat
  BY TokensAre DEF SInv, TokensInv
<1>2. savetoken(lah, Numbered(t)) \in [list: Seq(SavedTokens), count: Int]
  BY <1>1, SaveTokenIs DEF SInv, TokensInv
<1>3. out \in Seq(SavedTokens) /\ Append(out, Numbered(t)) \in Seq(SavedTokens)
  BY <1>1 DEF SInv, TokensInv
<1>4. lah' \in [list: Seq(SavedTokens), count: Int] /\ out' \in Seq(SavedTokens)
  BY <1>2, <1>3 DEF PassOn, return_token, SInv, TokensInv
<1>5. accepted' \in Nat /\ UNCHANGED pp
  BY <1>1 DEF PassOn
<1>6. TokensInv'
  BY <1>4, <1>5 DEF SInv, TokensInv
<1>7. cur' = Advanced /\ UNCHANGED <<stack, includeCount>>
  BY DEF PassOn
<1>8. InputInv' /\ FilesIn(Frames') = FilesIn(Frames) /\ Len(Frames') = Len(Frames)
  BY <1>7, ReadOn DEF SInv
<1>9. Len(Frames) \in Nat
  BY DEF SInv, InputInv, Frames
<1> QED BY <1>6, <1>8, <1>9 DEF Kept

(* Together. *)
LEMMA DupyyKeeps ==
  ASSUME SInv, CanRead, NEW t \in Tokens, NEW la, dupyy(t, la)
  PROVE  Kept
BY SaveForPreprocessorKeeps, ReadValueKeeps, PassOnKeeps DEF dupyy

(* A rule that leaves the preprocessor as it is. *)
LEMMA RuleKeeps ==
  ASSUME SInv, Kept, UNCHANGED <<source, conds, ctx, collected>>,
         start' \in StartStates, lookahead' \in {0, 1},
         start' \in {"PP_DOLOOP", "LEXRETURN"} => ctx.gather = 0
  PROVE  SInv'
<1>1. ContextInv'
  BY DEF SInv, ContextInv
<1>2. NestInv'
  BY NestKept DEF SInv, Kept
<1> QED BY <1>1, <1>2 DEF SInv, Kept, StartInv

(* Nothing changes in it, *)
LEMMA StillKept ==
  ASSUME SInv, UNCHANGED <<input, pp, lah, parser>>
  PROVE  Kept
<1>1. Len(Frames) \in Nat
  BY DEF SInv, InputInv, Frames
<1>2. Frames' = Frames /\ InputInv' /\ TokensInv'
  BY DEF SInv, InputInv, TokensInv, Frames, input, parser
<1> QED BY <1>1, <1>2 DEF Kept

(* or one more lexeme is read. *)
LEMMA ReadOnKept ==
  ASSUME SInv, CanRead, cur' = Advanced, UNCHANGED <<stack, includeCount>>, TokensInv'
  PROVE  Kept
<1>1. InputInv' /\ FilesIn(Frames') = FilesIn(Frames) /\ Len(Frames') = Len(Frames)
  BY ReadOn DEF SInv
<1>2. Len(Frames) \in Nat
  BY DEF SInv, InputInv, Frames
<1> QED BY <1>1, <1>2 DEF Kept

-----------------------------------------------------------------------------
(* The tokens the rules name. *)
LEMMA NamedTokens ==
  /\ {"VARNAME", "ENTRY", "ENTRY_STMT", "FORMAT", "FORMAT_STMT", "END", "DECLARE"} \subseteq Tokens
  /\ \A k \in SpecialKeyWords : SpecialKeyWord[k].plain \in Tokens /\ SpecialKeyWord[k].opens \in Tokens
<1>1. \A k \in SpecialKeyWords : SpecialKeyWord[k].opens \in OpeningTokens
  BY DEF OpeningTokens
<1>2. "END" \in OpeningTokens
  BY DEF OpeningTokens
<1>3. "DECLARE" \in OpeningTokens
  <2>1. "DECLARE" \in SpecialKeyWords /\ SpecialKeyWord["DECLARE"].opens = "DECLARE"
    BY DEF SpecialKeyWords, SpecialKeyWord
  <2> QED BY <1>1, <2>1
<1>4. \A k \in SpecialKeyWords : SpecialKeyWord[k].plain \in {"VARNAME", "ENTRY", "FORMAT"}
  BY DEF SpecialKeyWords, SpecialKeyWord
<1> QED BY <1>1, <1>2, <1>3, <1>4 DEF Tokens

(* fixKeywordTokens leaves a token in the place of the first one. *)
LEMMA FixedTokenIs ==
  ASSUME NEW t \in Tokens, NEW b
  PROVE  FixedToken(t, b) \in Tokens
BY NamedTokens DEF FixedToken

(* The first token of a queue gets another name. *)
LEMMA RenamedFirst ==
  ASSUME NEW q \in Seq(SavedTokens), q # << >>, NEW t \in Tokens
  PROVE  [q EXCEPT ![1].tok = t] \in Seq(SavedTokens)
<1>1. q[1] \in SavedTokens
  OBVIOUS
<1>2. [q[1] EXCEPT !.tok = t] \in SavedTokens
  BY <1>1 DEF SavedTokens
<1> DEFINE w == [q[1] EXCEPT !.tok = t]
<1>3. [q EXCEPT ![1].tok = t] = [q EXCEPT ![1] = w]
  OBVIOUS
<1> HIDE DEF w
<1> QED BY <1>2, <1>3 DEF w

(* fixKeywordTokens. *)
LEMMA FixKeywordTokensIs ==
  ASSUME NEW q \in Seq(SavedTokens), q # << >>, NEW prev
  PROVE  fixKeywordTokens(q, prev) \in Seq(SavedTokens)
<1> DEFINE t == FixedToken(q[1].tok, checkstmt(q, prev))
<1>1. q[1].tok \in Tokens
  <2>1. q[1] \in SavedTokens
    OBVIOUS
  <2> QED BY <2>1 DEF SavedTokens
<1>2. t \in Tokens
  BY <1>1, FixedTokenIs
<1>3. fixKeywordTokens(q, prev) = [q EXCEPT ![1].tok = t]
  BY DEF fixKeywordTokens
<1> HIDE DEF t
<1> QED BY <1>2, <1>3, RenamedFirst

(* The rules of INITIAL. *)
LEMMA TextKeeps ==
  ASSUME SInv, Text
  PROVE  SInv'
<1> DEFINE t == Tok
<1>1. start = "INITIAL" /\ CanRead
  BY DEF Text, Match
<1>2. t \in Tokens /\ lookahead \in {0, 1} /\ start \in StartStates
  BY <1>1, LexemeRead DEF SInv, StartInv
<1>3. \/ ReadWildPointer
      \/ WhiteSpace(t) \/ SkipStart(t) \/ PlainToken(t) \/ Percent(t)
      \/ OpenLookahead(t) \/ KeyWordAsPlain(t) \/ EndToken(t)
      \/ Colon(t) \/ PlainSemicolon(t) \/ EndOfStatement(t)
  BY DEF Text
<1> HIDE DEF t
<1>r. {"INITIAL", "CRASH", "COMMENT", "PP_SKIP"} \subseteq StartStates \ {"PP_DOLOOP", "LEXRETURN"}
      /\ "LEXRETURN" \in StartStates
  BY DEF StartStates
<1>4. CASE ReadWildPointer
  <2>1. Kept
    BY <1>4, StillKept DEF ReadWildPointer, ppVars, queue
  <2> QED BY <1>2, <1>4, <1>r, <2>1, RuleKeeps DEF ReadWildPointer, ppVars, queue
<1>5. CASE WhiteSpace(t)
  <2>1. TokensInv'
    BY <1>5 DEF WhiteSpace, SInv, TokensInv, ppVars, queue, parser
  <2>2. Kept
    BY <1>1, <1>5, <2>1, ReadOnKept DEF WhiteSpace
  <2> QED BY <1>1, <1>2, <1>5, <1>r, <2>2, RuleKeeps DEF WhiteSpace, ppVars, queue
<1>6. CASE SkipStart(t)
  <2>1. TokensInv'
    BY <1>6 DEF SkipStart, SInv, TokensInv, ppVars, queue, parser
  <2>2. Kept
    BY <1>1, <1>6, <2>1, ReadOnKept DEF SkipStart
  <2>3. start' \in {"COMMENT", "PP_SKIP"}
    BY <1>6 DEF SkipStart, Skips
  <2> QED BY <1>1, <1>2, <1>6, <1>r, <2>2, <2>3, RuleKeeps DEF SkipStart, ppVars, queue
<1>7. CASE PlainToken(t)
  <2>1. Kept
    BY <1>1, <1>2, <1>7, DupyyKeeps DEF PlainToken
  <2> QED BY <1>1, <1>2, <1>7, <1>r, <2>1, RuleKeeps DEF PlainToken
<1>8. CASE Percent(t)
  <2>1. Here("PERCENT") \in PPTokens
    <3>1. t = "PERCENT"
      BY <1>8 DEF Percent
    <3> QED BY <1>1, <1>2, <3>1, TokensAre DEF SInv
  <2>2. TokensInv'
    BY <1>8, <2>1 DEF Percent, SInv, TokensInv, queue, parser
  <2>3. Kept
    BY <1>1, <1>8, <2>2, ReadOnKept DEF Percent
  <2>4. ContextFields \subseteq DOMAIN ctx
    BY DEF SInv, ContextInv, ContextOK
  <2>5. /\ DOMAIN ctx' = DOMAIN ctx /\ ctx'.dcl = ctx.dcl /\ ctx'.labels = ctx.labels
        /\ ctx'.loop = ctx.loop /\ ctx'.type = ctx.type /\ ctx'.at = ctx.at
        /\ ctx'.gather = 1 /\ ctx'.loopCur = ctx.loopCur
    BY <1>8, <2>4 DEF Percent, ContextFields
  <2>6. LoopOK(ctx')
    <3>1. KeepsTypes(ctx.dcl, ctx'.dcl)
      BY <2>5 DEF KeepsTypes
    <3> QED BY <2>5, <3>1, LoopKept DEF SInv, ContextInv, ContextOK
  <2>7. ContextOK(ctx')
    BY <2>5, <2>6 DEF SInv, ContextInv, ContextOK
  <2>8. ContextInv'
    BY <1>8, <2>5, <2>7 DEF SInv, ContextInv, Percent
  <2>9. NestInv'
    BY <1>8, <2>3, <2>5, NestKept DEF SInv, Kept, Percent
  <2>10. StartInv'
    BY <1>1, <1>8 DEF SInv, StartInv, Percent, queue
  <2> QED BY <2>3, <2>8, <2>9, <2>10 DEF SInv, Kept
<1>9. CASE OpenLookahead(t)
  <2>1. SpecialKeyWord[t].opens \in Tokens
    BY <1>9, NamedTokens DEF OpenLookahead
  <2>2. Kept
    <3>1. ReadValue \/ PassOn(SpecialKeyWord[t].opens, 1)
      BY <1>9 DEF OpenLookahead
    <3> QED BY <1>1, <2>1, <3>1, ReadValueKeeps, PassOnKeeps
  <2> QED BY <1>1, <1>2, <1>9, <1>r, <2>2, RuleKeeps DEF OpenLookahead
<1>10. CASE KeyWordAsPlain(t)
  <2>1. \E u \in Tokens : dupyy(u, lookahead)
    BY <1>10, NamedTokens DEF KeyWordAsPlain
  <2>2. Kept
    BY <1>1, <2>1, DupyyKeeps
  <2> QED BY <1>1, <1>2, <1>10, <1>r, <2>2, RuleKeeps DEF KeyWordAsPlain
<1>11. CASE EndToken(t)
  <2>1. Kept
    <3>1. \E u \in Tokens : \E la : dupyy(u, la)
      BY <1>11, NamedTokens DEF EndToken
    <3> QED BY <1>1, <3>1, DupyyKeeps
  <2> QED BY <1>1, <1>2, <1>11, <1>r, <2>1, RuleKeeps DEF EndToken
<1>12. CASE Colon(t)
  <2>0. "COLON" \in Tokens
    BY <1>2, <1>12 DEF Colon
  <2>1. CASE (SaveForPreprocessor("COLON") \/ PassOn("COLON", lookahead)) /\ UNCHANGED start
    <3>1. \E u \in Tokens : SaveForPreprocessor(u) \/ PassOn(u, lookahead)
      BY <2>0, <2>1
    <3>2. Kept
      BY <1>1, <3>1, SaveForPreprocessorKeeps, PassOnKeeps
    <3> QED BY <1>1, <1>2, <1>12, <1>r, <2>1, <3>2, RuleKeeps DEF Colon
  <2>2. CASE ~((SaveForPreprocessor("COLON") \/ PassOn("COLON", lookahead)) /\ UNCHANGED start)
    <3> DEFINE q == savetoken(lah, Numbered("COLON"))
    <3>1. /\ ctx.gather = 0
          /\ lah' = [q EXCEPT !.list[1].tok = "VARNAME"]
          /\ cur' = Advanced /\ accepted' = accepted + 1 /\ start' = "LEXRETURN"
          /\ UNCHANGED <<pp, prev_token, out>>
      BY <1>12, <2>2 DEF Colon
    <3>2. Numbered("COLON") \in SavedTokens
      BY <1>1, <2>0, TokensAre DEF SInv
    <3>3. q \in [list: Seq(SavedTokens), count: Int] /\ q.list # << >>
      BY <3>2, SaveTokenIs DEF SInv, TokensInv
    <3>4. lah' \in [list: Seq(SavedTokens), count: Int]
      <4> DEFINE l == [q.list EXCEPT ![1].tok = "VARNAME"]
      <4> HIDE DEF q
      <4>1. lah' = [q EXCEPT !.list = l]
        BY <3>1
      <4>2. l \in Seq(SavedTokens)
        <5> DEFINE v == "VARNAME"
        <5>1. v \in Tokens
          BY NamedTokens
        <5>2. l = [q.list EXCEPT ![1].tok = v]
          OBVIOUS
        <5> HIDE DEF v, l
        <5> QED BY <3>3, <5>1, <5>2, RenamedFirst
      <4> HIDE DEF l
      <4> QED BY <3>3, <4>1, <4>2
    <3>5. TokensInv'
      BY <3>1, <3>4 DEF SInv, TokensInv
    <3>6. Kept
      BY <1>1, <1>12, <3>1, <3>5, ReadOnKept DEF Colon
    <3> QED BY <1>2, <1>12, <1>r, <3>1, <3>6, RuleKeeps DEF Colon
  <2> QED BY <2>1, <2>2
<1>13. CASE PlainSemicolon(t)
  <2>1. \E u \in Tokens : PassOn(u, 0)
    BY <1>2, <1>13 DEF PlainSemicolon
  <2>2. Kept
    BY <1>1, <2>1, PassOnKeeps
  <2> QED BY <1>1, <1>2, <1>13, <1>r, <2>2, RuleKeeps DEF PlainSemicolon
<1>14. CASE EndOfStatement(t)
  <2> DEFINE q == savetoken(lah, Numbered("SEMICOLON"))
  <2>1. /\ ctx.gather = 0
        /\ lah' = [q EXCEPT !.list = fixKeywordTokens(@, prev_token)]
        /\ cur' = Advanced /\ accepted' = accepted + 1 /\ start' = "LEXRETURN"
        /\ UNCHANGED <<pp, prev_token, out, stack, includeCount>>
    BY <1>14 DEF EndOfStatement, ppVars
  <2>2. Numbered("SEMICOLON") \in SavedTokens
    <3>1. "SEMICOLON" \in Tokens
      BY <1>2, <1>14 DEF EndOfStatement
    <3> QED BY <1>1, <3>1, TokensAre DEF SInv
  <2>3. q \in [list: Seq(SavedTokens), count: Int] /\ q.list # << >>
    BY <2>2, SaveTokenIs DEF SInv, TokensInv
  <2>4. lah' \in [list: Seq(SavedTokens), count: Int]
    <3> HIDE DEF q
    <3>1. fixKeywordTokens(q.list, prev_token) \in Seq(SavedTokens)
      BY <2>3, FixKeywordTokensIs
    <3> DEFINE l == fixKeywordTokens(q.list, prev_token)
    <3>2. lah' = [q EXCEPT !.list = l]
      BY <2>1
    <3> HIDE DEF l
    <3> QED BY <2>3, <3>1, <3>2 DEF l
  <2>5. TokensInv'
    BY <2>1, <2>4 DEF SInv, TokensInv
  <2>6. Kept
    BY <1>1, <2>1, <2>5, ReadOnKept
  <2> QED BY <1>2, <1>14, <1>r, <2>1, <2>6, RuleKeeps DEF EndOfStatement, ppVars
<1> QED BY <1>3, <1>4, <1>5, <1>6, <1>7, <1>8, <1>9, <1>10, <1>11, <1>12, <1>13, <1>14

-----------------------------------------------------------------------------
(* Comments and *PROCESS. *)
LEMMA SkippingKeeps ==
  ASSUME SInv, Skipping
  PROVE  SInv'
<1>1. CanRead /\ cur' = Advanced /\ start \in {"COMMENT", "PP_SKIP"}
  BY DEF Skipping, SkipEnd
<1>2. TokensInv'
  BY DEF Skipping, SInv, TokensInv, ppVars, queue, parser
<1>3. Kept
  BY <1>1, <1>2, ReadOnKept DEF Skipping
<1>4. start' \in {"INITIAL", "COMMENT", "PP_SKIP"}
  BY <1>1 DEF Skipping
<1>5. start' \in StartStates /\ start' \notin {"PP_DOLOOP", "LEXRETURN"}
  BY <1>4 DEF StartStates
<1> QED BY <1>3, <1>5, RuleKeeps DEF Skipping, SInv, StartInv, ppVars, queue

(* The scanner stops, or changes its state. *)
LEMMA OnlyStart ==
  ASSUME SInv, start' \in StartStates \ {"PP_DOLOOP", "LEXRETURN"},
         UNCHANGED <<source, input, conds, ppVars, queue, parser>>
  PROVE  SInv'
<1>1. Kept
  BY StillKept DEF ppVars, queue
<1> QED BY <1>1, RuleKeeps DEF SInv, StartInv, ppVars, queue

(* LEXRETURNSAVEDTOKENS. *)
LEMMA ReturnedKeeps ==
  ASSUME SInv, Returned
  PROVE  SInv'
<1>1. CASE ReturnSavedToken
  <2>1. Head(lah.list) \in SavedTokens /\ Tail(lah.list) \in Seq(SavedTokens)
    <3> DEFINE l == lah.list
    <3>1. l \in Seq(SavedTokens) /\ l # << >>
      BY <1>1 DEF SInv, TokensInv, ReturnSavedToken
    <3> HIDE DEF l
    <3>2. Head(l) \in SavedTokens /\ Tail(l) \in Seq(SavedTokens)
      BY <3>1
    <3> QED BY <3>2 DEF l
  <2>2. lah' \in [list: Seq(SavedTokens), count: Int]
    BY <1>1, <2>1 DEF SInv, TokensInv, ReturnSavedToken
  <2>3. out' \in Seq(SavedTokens)
    BY <1>1, <2>1 DEF SInv, TokensInv, ReturnSavedToken, return_token
  <2>4. TokensInv' /\ UNCHANGED <<source, input, start, conds, ctx, collected, lookahead>>
    BY <1>1, <2>2, <2>3 DEF SInv, TokensInv, ReturnSavedToken, ppVars
  <2>5. Kept
    <3>1. Len(Frames) \in Nat
      BY DEF SInv, InputInv, Frames
    <3>2. Frames' = Frames /\ InputInv'
      BY <2>4 DEF SInv, InputInv, Frames, input
    <3> QED BY <2>4, <3>1, <3>2 DEF Kept
  <2> QED BY <2>4, <2>5, RuleKeeps DEF SInv, StartInv
<1>2. CASE AllReturned
  <2>1. lah' \in [list: Seq(SavedTokens), count: Int]
    BY <1>2 DEF SInv, TokensInv, AllReturned
  <2>2. TokensInv' /\ UNCHANGED <<source, input, conds, ctx, collected>>
    BY <1>2, <2>1 DEF SInv, TokensInv, AllReturned, ppVars, parser
  <2>3. Kept
    <3>1. Len(Frames) \in Nat
      BY DEF SInv, InputInv, Frames
    <3>2. Frames' = Frames /\ InputInv'
      BY <2>2 DEF SInv, InputInv, Frames, input
    <3> QED BY <2>2, <3>1, <3>2 DEF Kept
  <2>4. start' = "INITIAL" /\ lookahead' = 0
    BY <1>2 DEF AllReturned
  <2>5. start' \in StartStates /\ start' \notin {"PP_DOLOOP", "LEXRETURN"}
    BY <2>4 DEF StartStates
  <2> QED BY <2>2, <2>3, <2>4, <2>5, RuleKeeps
<1>3. CASE NoSavedTokens
  <2>1. start' \in StartStates \ {"PP_DOLOOP", "LEXRETURN"}
    BY <1>3 DEF NoSavedTokens, StartStates
  <2> QED BY <1>3, <2>1, OnlyStart DEF NoSavedTokens
<1> QED BY <1>1, <1>2, <1>3 DEF Returned

(* The context when a buffer ends. *)
LEMMA LabelsPopped ==
  ASSUME NEW e, ContextOK(e), Len(e.labels) >= 2
  PROVE  LET r == [e EXCEPT !.labels = ppPopDCLLabelStack(@)]
         IN  /\ ContextOK(r) /\ Len(r.labels) = Len(e.labels) - 1
             /\ r.gather = e.gather /\ r.type = e.type /\ r.scanForLabel = e.scanForLabel
             /\ r.loopCur = e.loopCur
<1> DEFINE l == ppPopDCLLabelStack(e.labels)
           r == [e EXCEPT !.labels = ppPopDCLLabelStack(@)]
<1>1. ContextFields \subseteq DOMAIN e
  BY DEF ContextOK
<1>2. /\ DOMAIN r = DOMAIN e /\ r.labels = l /\ r.dcl = e.dcl /\ r.type = e.type
      /\ r.loop = e.loop /\ r.at = e.at /\ r.gather = e.gather
      /\ r.scanForLabel = e.scanForLabel /\ r.loopCur = e.loopCur
  BY <1>1 DEF ContextFields
<1>3. l \in Seq(Labels) /\ Len(l) = Len(e.labels) - 1 /\ l # << >>
  <2> DEFINE m == e.labels
  <2>1. m \in Seq(Labels) /\ Len(m) >= 2
    BY DEF ContextOK
  <2>2. l = SubSeq(m, 1, Len(m) - 1)
    BY DEF ppPopDCLLabelStack
  <2> HIDE DEF m, l
  <2>3. /\ SubSeq(m, 1, Len(m) - 1) \in Seq(Labels)
        /\ Len(SubSeq(m, 1, Len(m) - 1)) = Len(m) - 1 /\ Len(m) \in Nat
    BY <2>1
  <2>4. Len(l) = Len(m) - 1 /\ Len(l) # 0 /\ l \in Seq(Labels)
    BY <2>1, <2>2, <2>3
  <2>5. l # << >>
    BY <2>4
  <2> QED BY <2>4, <2>5 DEF m
<1> HIDE DEF r, l
<1>4. LoopOK(r)
  <2>1. KeepsTypes(e.dcl, r.dcl)
    BY <1>2 DEF KeepsTypes
  <2> QED BY <1>2, <2>1, LoopKept DEF ContextOK
<1>5. ContextOK(r)
  BY <1>2, <1>3, <1>4 DEF ContextOK
<1> QED BY <1>2, <1>3, <1>5 DEF r

(* switchToPreviousBuffer: the stacks of labels and of start conditions      *)
(* shrink with the buffers. *)
LEMMA EofOfBufferKeeps ==
  ASSUME SInv, EofOfBuffer
  PROVE  SInv'
<1>1. /\ InputInv' /\ Len(Frames) = Len(Frames') + 1
      /\ FilesIn(Frames) = FilesIn(Frames') + (IF cur.kind = "FILE" THEN 1 ELSE 0)
  BY BufferPopped DEF EofOfBuffer, SInv
<1>2. Len(Frames') \in Nat /\ FilesIn(Frames') \in Nat
  <2>1. Append(stack', cur') \in Seq(Frame)
    BY <1>1 DEF InputInv
  <2> DEFINE f == Append(stack', cur')
  <2>2. f \in Seq(Frame) /\ Frames' = f
    BY <2>1 DEF Frames
  <2> HIDE DEF f
  <2>3. Len(f) \in Nat /\ FilesIn(f) \in Nat
    BY <2>2, FilesNumber
  <2> QED BY <2>2, <2>3
<1>3. FilesIn(Frames') >= 1
  <2> DEFINE f == Append(stack', cur')
             S == {i \in 1..Len(f) : f[i].kind # "PPVAR"}
  <2>1. Frames' = f
    BY DEF Frames
  <2>2. f \in Seq(Frame) /\ Len(f) >= 1
    BY <1>1 DEF InputInv
  <2>3. \A i \in 1..Len(f) : f[i].kind = "MAIN" <=> i = 1
    BY <1>1, <2>1 DEF InputInv
  <2> HIDE DEF f
  <2>4. 1 \in S /\ IsFiniteSet(1..Len(f)) /\ S \subseteq 1..Len(f)
    BY <2>2, <2>3, FS_Interval
  <2> HIDE DEF S
  <2>5. IsFiniteSet(S)
    BY <2>4, FS_Subset
  <2>6. Cardinality(S) # 0
    BY <2>4, <2>5, FS_EmptySet
  <2>7. Cardinality(S) \in Nat
    BY <2>5, FS_CardinalityType
  <2> QED BY <2>1, <2>6, <2>7 DEF FilesIn, S
<1>4. /\ ContextOK(ctx') /\ Len(ctx'.labels) = FilesIn(Frames')
      /\ ctx'.gather = ctx.gather /\ ctx'.type = ctx.type
      /\ ctx'.scanForLabel = ctx.scanForLabel /\ ctx'.loopCur = ctx.loopCur
  <2>1. ContextOK(ctx) /\ Len(ctx.labels) = FilesIn(Frames)
    BY DEF SInv, ContextInv, NestInv
  <2>2. CASE cur.kind = "FILE"
    <3>1. ctx' = [ctx EXCEPT !.labels = ppPopDCLLabelStack(@)]
      BY <2>2 DEF EofOfBuffer
    <3>2. Len(ctx.labels) >= 2 /\ Len(ctx.labels) - 1 = FilesIn(Frames')
      BY <1>1, <1>2, <1>3, <2>1, <2>2
    <3> QED BY <2>1, <3>1, <3>2, LabelsPopped
  <2>3. CASE cur.kind # "FILE"
    BY <1>1, <1>2, <2>1, <2>3 DEF EofOfBuffer
  <2> QED BY <2>2, <2>3
<1>5. ContextInv'
  BY <1>4 DEF SInv, ContextInv, EofOfBuffer
<1>6. /\ conds' \in Seq({"INITIAL", "PP_DOLOOP"}) /\ conds' # << >> /\ StatesNested'
      /\ (start' = "PP_DOLOOP" \/ start' = start)
  <2> DEFINE C == {"INITIAL", "PP_DOLOOP"}
  <2>1. conds \in Seq(C) /\ conds # << >> /\ Len(conds) <= Len(Frames) /\ conds[1] = "INITIAL"
    BY DEF SInv, NestInv, StatesNested
  <2>2. \A i \in 2..Len(conds) : conds[i] = "PP_DOLOOP"
    BY DEF SInv, NestInv, StatesNested
  <2>3. CASE Top(conds) = "PP_DOLOOP"
    <3>1. start' = "PP_DOLOOP" /\ conds' = Popped(conds)
      BY <2>3 DEF EofOfBuffer
    <3>2. Len(conds) \in Nat /\ Len(conds) # 1 /\ conds[Len(conds)] = "PP_DOLOOP"
      BY <2>1, <2>3 DEF Top
    <3>3. Len(conds) # 0
      BY <2>1
    <3>4. /\ conds' \in Seq(C) /\ Len(conds') = Len(conds) - 1
          /\ \A i \in 1..(Len(conds) - 1) : conds'[i] = conds[i]
      BY <2>1, <3>1, <3>2, <3>3 DEF Popped
    <3>5. StatesNested'
      BY <1>1, <1>2, <2>1, <2>2, <3>2, <3>3, <3>4 DEF StatesNested
    <3>6. conds' # << >>
      BY <3>2, <3>3, <3>4
    <3> QED BY <3>1, <3>4, <3>5, <3>6
  <2>4. CASE Top(conds) # "PP_DOLOOP"
    <3>1. UNCHANGED <<start, conds>>
      BY <2>4 DEF EofOfBuffer
    <3>2. Len(conds) \in Nat /\ Len(conds) <= 1
      BY <2>1, <2>2, <2>4 DEF Top
    <3>3. Len(Frames') >= 1
      BY <1>1, <1>2 DEF InputInv, Frames
    <3>4. StatesNested'
      BY <1>2, <2>1, <2>2, <3>1, <3>2, <3>3 DEF StatesNested
    <3> QED BY <2>1, <3>1, <3>4
  <2> QED BY <2>3, <2>4
<1>7. NestInv'
  BY <1>4, <1>6 DEF NestInv
<1>8. TokensInv'
  BY DEF SInv, TokensInv, EofOfBuffer, queue, parser
<1>9. StartInv'
  <2>1. "PP_DOLOOP" \in StartStates
    BY DEF StartStates
  <2> QED BY <1>4, <1>6, <2>1 DEF SInv, StartInv, EofOfBuffer, queue
<1> QED BY <1>1, <1>5, <1>7, <1>8, <1>9 DEF SInv

(* <<EOF>>. *)
LEMMA EofKeeps ==
  ASSUME SInv, Eof
  PROVE  SInv'
<1>1. CASE EofWhileGathering
  <2>1. start' \in StartStates \ {"PP_DOLOOP", "LEXRETURN"}
    BY <1>1 DEF EofWhileGathering, StartStates
  <2> QED BY <1>1, <2>1, OnlyStart DEF EofWhileGathering
<1>2. CASE EofOfBuffer
  BY <1>2, EofOfBufferKeeps
<1>3. CASE EofInLookahead
  <2>1. cur' \in Frame /\ cur'.kind = cur.kind
    <3> DEFINE text == Append(cur.text, "BLANK")
    <3>1. cur \in Frame /\ cur.text \in Seq(Lexemes)
      BY DEF SInv, InputInv, Frame
    <3>2. "BLANK" \in Lexemes
      BY LexiconAssumption DEF LexiconAssumption
    <3>3. text \in Seq(Lexemes)
      <4> DEFINE s == cur.text
      <4> HIDE DEF s
      <4>1. s \in Seq(Lexemes) => Append(s, "BLANK") \in Seq(Lexemes)
        BY <3>2
      <4> QED BY <3>1, <4>1 DEF s
    <3>4. cur' = [cur EXCEPT !.text = text]
      BY <1>3 DEF EofInLookahead
    <3> HIDE DEF text
    <3> QED BY <3>1, <3>3, <3>4 DEF Frame
  <2>2. InputInv' /\ FilesIn(Frames') = FilesIn(Frames) /\ Len(Frames') = Len(Frames)
    BY <1>3, <2>1, SameBuffer DEF SInv, EofInLookahead
  <2>3. Len(Frames) \in Nat
    BY DEF SInv, InputInv, Frames
  <2>4. TokensInv'
    BY <1>3 DEF SInv, TokensInv, EofInLookahead, ppVars, queue, parser
  <2>5. Kept
    BY <2>2, <2>3, <2>4 DEF Kept
  <2>6. start' \in StartStates /\ ctx.gather = 0
    BY <1>3 DEF EofInLookahead, StartStates
  <2> QED BY <1>3, <2>5, <2>6, RuleKeeps DEF EofInLookahead, SInv, StartInv, ppVars, queue
<1>4. CASE EofOfMain
  <2>1. start' \in StartStates \ {"PP_DOLOOP", "LEXRETURN"}
    BY <1>4 DEF EofOfMain, StartStates
  <2> QED BY <1>4, <2>1, OnlyStart DEF EofOfMain
<1> QED BY <1>1, <1>2, <1>3, <1>4 DEF Eof

(* No step. *)
LEMMA StutterKeeps ==
  ASSUME SInv, UNCHANGED vars
  PROVE  SInv'
<1>1. Kept /\ UNCHANGED <<source, conds, ctx, collected, start, lookahead>>
  BY StillKept DEF vars, ppVars, queue
<1> QED BY <1>1, RuleKeeps DEF SInv, StartInv

-----------------------------------------------------------------------------
(* What the invariant asks of a context does not depend on what the scanner *)
(* is to do.                                                                *)
LEMMA SameData ==
  ASSUME NEW e, ContextOK(e), NEW r, DOMAIN r = DOMAIN e,
         r.dcl = e.dcl, r.loop = e.loop, r.at = e.at,
         r.labels \in Seq(Labels), r.labels # << >>, r.gather \in {0, 1}
  PROVE  ContextOK(r)
<1>1. KeepsTypes(e.dcl, r.dcl)
  BY DEF KeepsTypes
<1>2. LoopOK(r)
  BY <1>1, LoopKept DEF ContextOK
<1> QED BY <1>2 DEF ContextOK

(* A list of tokens that ends with the ';' of a statement. *)
EndsStatement(q) ==
  /\ q \in Seq(PPTokens) /\ q # << >>
  /\ q[Len(q)].tok = "SEMICOLON" /\ Lexicon[q[Len(q)].lex].first = "SEMICOLON"

(* The tokens gathered when ";" arrives are such a list. *)
LEMMA GatheredEnds ==
  ASSUME SInv, StatementGathered
  PROVE  EndsStatement(Gathered)
<1> DEFINE h == Here("SEMICOLON")
<1>1. CanRead /\ Tok = "SEMICOLON" /\ pp \in Seq(PPTokens)
  BY DEF StatementGathered, Match, SInv, TokensInv
<1>2. Tok \in Tokens /\ Lexeme \in Lexemes
  BY <1>1, LexemeRead DEF SInv
<1>3. h \in PPTokens /\ h.tok = "SEMICOLON" /\ h.lex = Lexeme
  BY <1>1, <1>2, TokensAre DEF SInv, Here
<1>4. Lexicon[Lexeme].first = "SEMICOLON"
  BY <1>1, <1>2, LexiconAssumption DEF LexiconAssumption, Tok
<1> HIDE DEF h
<1>5. /\ Append(pp, h) \in Seq(PPTokens) /\ Len(Append(pp, h)) = Len(pp) + 1
      /\ Append(pp, h)[Len(pp) + 1] = h /\ Len(pp) \in Nat
  BY <1>1, <1>3
<1>6. Append(pp, h) # << >>
  BY <1>5
<1> QED BY <1>3, <1>4, <1>5, <1>6 DEF EndsStatement, Gathered, h

(* There is no label without a "%". *)
LEMMA LabelledHas ==
  ASSUME NEW q, ppDetectStmtType(q) >= 100
  PROVE  Has(q, "PERCENT")
<1> SUFFICES ASSUME ~Has(q, "PERCENT") PROVE FALSE
  OBVIOUS
<1>1. ppDetectStmtType(q) = -1
  BY DEF ppDetectStmtType
<1> QED BY <1>1

(* The statement to be evaluated, and its context. *)
LEMMA ContextIs ==
  ASSUME SInv, StatementGathered, Arrived
  PROVE  /\ EndsStatement(Stmt)
         /\ ContextOK(Context) /\ Context.type \in StaleTypes
         /\ Context.dcl = ctx.dcl /\ Context.dolevel = ctx.dolevel
         /\ Len(Context.labels) = Len(ctx.labels)
         /\ Context.gather = 1 /\ Context.scanForLabel = "NONE" /\ Context.loopCur = ctx.loopCur
<1>1. /\ EndsStatement(Gathered) /\ ContextOK(ctx) /\ ctx.type \in StaleTypes
      /\ ctx.gather = 1
  BY GatheredEnds DEF SInv, ContextInv, StatementGathered
<1>2. CASE ctx.scanForLabel = "NONE"
  BY <1>1, <1>2 DEF Stmt, Context
<1>3. CASE ctx.scanForLabel # "NONE"
  <2>1. Has(Gathered, "PERCENT") /\ Has(FromPercent(Gathered), "COLON")
    BY <1>3, LabelledHas DEF Arrived, Labelled, CanDefineLabels
  <2>2. EndsStatement(Stmt)
    BY <1>1, <1>3, <2>1, FromPercentIs DEF EndsStatement, Stmt
  <2> DEFINE p == DefineLabels(ctx, Gathered)
             r == [p EXCEPT !.scanForLabel = "NONE"]
  <2>3. /\ ContextOK(p) /\ Carries(ctx, p) /\ p.type = ctx.type /\ p.dcl = ctx.dcl
        /\ p.dolevel = ctx.dolevel
    BY <1>1, <2>1, DefineLabelsCarries DEF EndsStatement
  <2>4. Context = r
    BY <1>3 DEF Context
  <2> HIDE DEF p
  <2>5. ContextFields \subseteq DOMAIN p
    BY <2>3 DEF ContextOK
  <2>6. /\ DOMAIN r = DOMAIN p /\ r.dcl = p.dcl /\ r.loop = p.loop /\ r.at = p.at
        /\ r.labels = p.labels /\ r.gather = p.gather /\ r.type = p.type
        /\ r.dolevel = p.dolevel /\ r.loopCur = p.loopCur /\ r.scanForLabel = "NONE"
    BY <2>5 DEF ContextFields
  <2> HIDE DEF r
  <2>7. ContextOK(r)
    BY <2>3, <2>6, SameData DEF ContextOK
  <2> QED BY <1>1, <2>2, <2>3, <2>4, <2>6, <2>7 DEF Carries
<1> QED BY <1>2, <1>3

(* What the statement leaves. *)
LEMMA ResultIs ==
  ASSUME SInv, StatementGathered, Arrived
  PROVE  /\ ContextOK(Result) /\ Asks(Context, Result, DOMAIN source.files)
         /\ Len(Result.labels) = Len(ctx.labels)
         /\ Result.gather = 1 /\ Result.scanForLabel = "NONE" /\ Result.loopCur = ctx.loopCur
<1>1. ContextOK(Result) /\ Carries(Context, Result) /\ Asks(Context, Result, DOMAIN source.files)
  BY ContextIs, ParserCarries DEF EndsStatement, Result
<1> QED BY <1>1, ContextIs DEF Carries

(* resetCurrentContext. *)
LEMMA ResetIs ==
  ASSUME NEW e, ContextOK(e)
  PROVE  LET r == resetCurrentContext(e)
         IN  /\ ContextOK(r) /\ DOMAIN r = DOMAIN e /\ r.type = "NONE"
             /\ r.labels = e.labels /\ r.gather = e.gather
             /\ r.scanForLabel = e.scanForLabel /\ r.loopCur = e.loopCur
             /\ r.dcl = e.dcl /\ r.dolevel = e.dolevel /\ r.loop = e.loop /\ r.at = e.at
<1> DEFINE r == resetCurrentContext(e)
<1>1. ContextFields \subseteq DOMAIN e
  BY DEF ContextOK
<1>2. /\ DOMAIN r = DOMAIN e /\ r.type = "NONE"
      /\ r.labels = e.labels /\ r.gather = e.gather
      /\ r.scanForLabel = e.scanForLabel /\ r.loopCur = e.loopCur
      /\ r.dcl = e.dcl /\ r.dolevel = e.dolevel /\ r.loop = e.loop /\ r.at = e.at
  BY <1>1 DEF ContextFields, resetCurrentContext
<1> HIDE DEF r
<1>3. ContextOK(r)
  BY <1>2, SameData DEF ContextOK
<1> QED BY <1>2, <1>3 DEF r

(* The step ends a statement within the same text. *)
LEMMA EvaluationKeeps ==
  ASSUME SInv, StatementGathered,
         UNCHANGED <<source, stack, includeCount, conds, queue, parser>>, pp' = << >>,
         cur' \in Frame, cur'.kind = cur.kind,
         ContextInv', Len(ctx'.labels) = Len(ctx.labels),
         start' = "INITIAL" \/ (start' = "PP_DOLOOP" /\ ctx'.gather = 0)
  PROVE  SInv'
<1>1. InputInv' /\ FilesIn(Frames') = FilesIn(Frames) /\ Len(Frames') = Len(Frames)
  BY SameBuffer DEF SInv
<1>2. Len(Frames) \in Nat
  BY DEF SInv, InputInv, Frames
<1>3. NestInv'
  BY <1>1, <1>2, NestKept DEF SInv
<1>4. TokensInv'
  BY DEF SInv, TokensInv, queue, parser
<1>5. StartInv'
  BY DEF SInv, StartInv, StartStates, queue
<1> QED BY <1>1, <1>3, <1>4, <1>5 DEF SInv

(* The context of a step that leaves what was collected as it is. *)
LEMMA ContextKept ==
  ASSUME SInv, UNCHANGED collected, ContextOK(ctx'), ctx'.type = "NONE",
         ctx'.scanForLabel # "NONE" => ctx'.gather = 1,
         ctx'.loopCur \in 0..Len(collected)
  PROVE  ContextInv'
BY DEF SInv, ContextInv, StaleTypes

(* Statements that are skipped, collected or refused. *)
LEMMA SkippedKeeps ==
  ASSUME SInv, StatementGathered,
         DiscardStatement \/ DiscardLabelled \/ BadLabel \/ CollectStatement \/ DoWithoutVariable
  PROVE  SInv'
<1>1. /\ CanRead /\ start = "INITIAL" /\ ContextOK(ctx) /\ ctx.gather = 1
      /\ ctx.loopCur \in 0..Len(collected) /\ Len(collected) \in Nat
      /\ EndsStatement(Gathered)
  BY GatheredEnds DEF StatementGathered, Match, SInv, ContextInv
<1>2. Advanced \in Frame /\ Advanced.kind = cur.kind
  BY <1>1, LexemeRead DEF SInv
<1>3. CASE DiscardStatement
  <2>1. ContextInv' /\ Len(ctx'.labels) = Len(ctx.labels)
    BY <1>1, <1>3, ResetIs, ContextKept DEF DiscardStatement
  <2> QED BY <1>1, <1>2, <1>3, <2>1, EvaluationKeeps DEF DiscardStatement, Emptied
<1>4. CASE DiscardLabelled
  <2> DEFINE p == DefineLabels(ctx, Gathered)
  <2>1. Has(Gathered, "PERCENT") /\ Has(FromPercent(Gathered), "COLON")
    BY <1>4, LabelledHas DEF DiscardLabelled, Labelled, CanDefineLabels
  <2>2. ContextOK(p) /\ Carries(ctx, p)
    BY <1>1, <2>1, DefineLabelsCarries DEF EndsStatement
  <2>3. ctx' = resetCurrentContext(p) /\ UNCHANGED collected
    BY <1>4 DEF DiscardLabelled
  <2> HIDE DEF p
  <2>4. ContextInv' /\ Len(ctx'.labels) = Len(ctx.labels)
    BY <1>1, <2>2, <2>3, ResetIs, ContextKept DEF Carries
  <2> QED BY <1>1, <1>2, <1>4, <2>4, EvaluationKeeps DEF DiscardLabelled, Emptied
<1>5. CASE BadLabel
  <2>1. start' \in StartStates \ {"PP_DOLOOP", "LEXRETURN"}
    BY <1>5 DEF BadLabel, StartStates
  <2> QED BY <1>5, <2>1, OnlyStart DEF BadLabel
<1>6. CASE CollectStatement
  <2>1. /\ EndsStatement(Stmt) /\ ContextOK(Context) /\ Len(Context.labels) = Len(ctx.labels)
        /\ Context.gather = 1 /\ Context.scanForLabel = "NONE" /\ Context.loopCur = ctx.loopCur
    BY <1>6, ContextIs DEF CollectStatement
  <2>2. /\ ContextOK(ctx') /\ ctx'.type = "NONE" /\ Len(ctx'.labels) = Len(ctx.labels)
        /\ ctx'.scanForLabel = "NONE" /\ ctx'.loopCur = ctx.loopCur
    BY <1>6, <2>1, ResetIs DEF CollectStatement
  <2>3. /\ collected' \in Seq(PPTokens) /\ Len(collected) <= Len(collected')
        /\ Lexicon[collected'[Len(collected')].lex].first = "SEMICOLON"
    <3> DEFINE q == Stmt
    <3>1. q \in Seq(PPTokens) /\ Len(q) >= 1 /\ Lexicon[q[Len(q)].lex].first = "SEMICOLON"
      BY <2>1 DEF EndsStatement
    <3>2. collected' = collected \o q /\ collected \in Seq(PPTokens)
      BY <1>6 DEF CollectStatement, SInv, ContextInv
    <3> HIDE DEF q
    <3>3. /\ collected \o q \in Seq(PPTokens) /\ Len(collected \o q) = Len(collected) + Len(q)
          /\ (collected \o q)[Len(collected) + Len(q)] = q[Len(q)] /\ Len(q) \in Nat
      BY <3>1, <3>2
    <3> QED BY <1>1, <3>1, <3>2, <3>3
  <2>4. ctx'.loopCur \in 0..Len(collected')
    <3>1. Len(collected') \in Nat
      BY <2>3
    <3> QED BY <1>1, <2>2, <2>3, <3>1
  <2>5. ContextInv'
    BY <2>2, <2>3, <2>4 DEF ContextInv, StaleTypes
  <2> QED BY <1>1, <1>2, <1>6, <2>2, <2>5, EvaluationKeeps DEF CollectStatement, Emptied
<1>7. CASE DoWithoutVariable
  <2>1. start' \in StartStates \ {"PP_DOLOOP", "LEXRETURN"}
    BY <1>7 DEF DoWithoutVariable, StartStates
  <2> QED BY <1>7, <2>1, OnlyStart DEF DoWithoutVariable
<1> QED BY <1>3, <1>4, <1>5, <1>6, <1>7

(* What follows a statement that was evaluated. *)
LEMMA EvaluateKeeps ==
  ASSUME SInv, StatementGathered, Evaluate, NEW r, r = Result,
         \/ StatementFails(r) \/ StatementDone(r) \/ IncludeFile(r)
         \/ GotoForward(r) \/ GotoBackward(r) \/ GotoInVariable(r)
         \/ UseStaleString(r) \/ GotoAnywhere(r) \/ GotoRefused(r)
         \/ DoBegins(r) \/ DoEnds(r)
  PROVE  SInv'
<1>1. /\ CanRead /\ start = "INITIAL" /\ ctx.gather = 1
      /\ ctx.loopCur \in 0..Len(collected) /\ Len(collected) \in Nat
  BY DEF StatementGathered, Match, SInv, ContextInv
<1>2. Advanced \in Frame /\ Advanced.kind = cur.kind
  BY <1>1, LexemeRead DEF SInv
<1>3. /\ ContextOK(r) /\ Asks(Context, r, DOMAIN source.files)
      /\ Len(r.labels) = Len(ctx.labels)
      /\ r.gather = 1 /\ r.scanForLabel = "NONE" /\ r.loopCur = ctx.loopCur
  BY ResultIs DEF Evaluate
<1> DEFINE p == resetCurrentContext(r)
<1>4. /\ ContextOK(p) /\ DOMAIN p = DOMAIN r /\ p.type = "NONE"
      /\ p.labels = r.labels /\ p.gather = 1 /\ p.scanForLabel = "NONE" /\ p.loopCur = ctx.loopCur
  BY <1>3, ResetIs
<1>5. ContextFields \subseteq DOMAIN r /\ ContextFields \subseteq DOMAIN p
  BY <1>3, <1>4 DEF ContextOK
<1>6. CASE StatementFails(r)
  <2>1. start' \in StartStates \ {"PP_DOLOOP", "LEXRETURN"}
    BY <1>6 DEF StatementFails, StartStates
  <2> QED BY <1>6, <2>1, OnlyStart DEF StatementFails
<1>7. CASE StatementDone(r)
  <2>1. /\ DOMAIN ctx' = DOMAIN r /\ ctx'.dcl = r.dcl /\ ctx'.loop = r.loop /\ ctx'.at = r.at
        /\ ctx'.labels = r.labels /\ ctx'.gather = 0 /\ ctx'.type = r.type
        /\ ctx'.loopCur = r.loopCur /\ ctx'.scanForLabel = r.scanForLabel
    BY <1>5, <1>7 DEF StatementDone, ContextFields
  <2>2. ContextOK(ctx')
    BY <1>3, <2>1, SameData DEF ContextOK
  <2>3. r.type = "NONE" /\ UNCHANGED collected
    BY <1>7 DEF StatementDone, Succeeds
  <2>4. ContextInv'
    BY <1>1, <1>3, <2>1, <2>2, <2>3, ContextKept
  <2> QED BY <1>1, <1>2, <1>3, <1>7, <2>1, <2>4, EvaluationKeeps DEF StatementDone, Emptied
<1> HIDE DEF p
<1>8. CASE IncludeFile(r)
  <2> DEFINE kind == "FILE"
             text == source.files[r.arg]
             l == ppPushDCLLabelStack(p.labels)
  <2>0. kind \in {"FILE", "PPVAR"} /\ kind = "FILE"
    OBVIOUS
  <2>1. stackCurrentBuffer(Advanced, kind, text)
    BY <1>8 DEF IncludeFile
  <2>2. text \in Seq(Lexemes)
    <3>1. r.arg \in DOMAIN source.files
      BY <1>3, <1>8 DEF IncludeFile, Succeeds, Asks
    <3>2. source \in Sources
      BY DEF SInv, StartInv
    <3> QED BY <3>1, <3>2, SourcesAssumption DEF SourcesAssumption
  <2> HIDE DEF kind, text
  <2>3. /\ InputInv' /\ Len(Frames') = Len(Frames) + 1
        /\ FilesIn(Frames') = FilesIn(Frames) + 1
    BY <1>2, <2>0, <2>1, <2>2, BufferPushed DEF SInv
  <2>4. l \in Seq(Labels) /\ l # << >> /\ Len(l) = Len(ctx.labels) + 1
    <3> DEFINE m == p.labels
    <3>1. m \in Seq(Labels) /\ Len(m) = Len(ctx.labels)
      BY <1>3, <1>4 DEF ContextOK
    <3>2. << >> \in Labels
      <4>1. << >> \in [{} -> Nat]
        OBVIOUS
      <4> QED BY <4>1 DEF Labels
    <3> HIDE DEF m
    <3>3. /\ Append(m, << >>) \in Seq(Labels) /\ Len(Append(m, << >>)) = Len(m) + 1
          /\ Len(m) \in Nat
      BY <3>1, <3>2
    <3>4. Append(m, << >>) # << >>
      BY <3>3
    <3> QED BY <3>1, <3>3, <3>4 DEF m, ppPushDCLLabelStack
  <2>5. /\ DOMAIN ctx' = DOMAIN p /\ ctx'.dcl = p.dcl /\ ctx'.loop = p.loop /\ ctx'.at = p.at
        /\ ctx'.labels = l /\ ctx'.gather = 0 /\ ctx'.type = p.type
        /\ ctx'.loopCur = p.loopCur /\ ctx'.scanForLabel = p.scanForLabel
    <3> HIDE DEF l
    <3>1. ctx' = [p EXCEPT !.gather = 0, !.labels = l]
      BY <1>8 DEF IncludeFile, p, l
    <3> QED BY <1>5, <3>1 DEF ContextFields
  <2> HIDE DEF l
  <2>6. ContextOK(ctx')
    BY <1>4, <2>4, <2>5, SameData
  <2>7. UNCHANGED <<source, start, conds, collected, queue, parser>> /\ pp' = << >>
    BY <1>8 DEF IncludeFile
  <2>8. ContextInv'
    BY <1>1, <1>4, <2>5, <2>6, <2>7, ContextKept
  <2>9. NestInv'
    <3>1. conds \in Seq({"INITIAL", "PP_DOLOOP"}) /\ conds # << >> /\ Len(conds) <= Len(Frames)
      BY DEF SInv, NestInv, StatesNested
    <3>2. Len(Frames) \in Nat /\ Len(conds) \in Nat
      BY <3>1 DEF SInv, InputInv, Frames
    <3>3. Len(conds') <= Len(Frames')
      BY <2>3, <2>7, <3>1, <3>2
    <3> QED BY <2>3, <2>4, <2>5, <2>7, <3>3 DEF SInv, NestInv, StatesNested
  <2>10. TokensInv'
    BY <2>7 DEF SInv, TokensInv, queue, parser
  <2>11. StartInv'
    BY <1>1, <2>7 DEF SInv, StartInv, queue
  <2> QED BY <2>3, <2>8, <2>9, <2>10, <2>11 DEF SInv
<1>9. CASE GotoForward(r)
  <2>1. /\ DOMAIN ctx' = DOMAIN p /\ ctx'.dcl = p.dcl /\ ctx'.loop = p.loop /\ ctx'.at = p.at
        /\ ctx'.labels = p.labels /\ ctx'.gather = p.gather /\ ctx'.type = p.type
        /\ ctx'.loopCur = p.loopCur
    <3>1. ctx' = [p EXCEPT !.scanForLabel = r.arg]
      BY <1>9 DEF GotoForward, p
    <3> QED BY <1>5, <3>1 DEF ContextFields
  <2>2. ContextOK(ctx')
    BY <1>4, <2>1, SameData DEF ContextOK
  <2>3. ContextInv'
    BY <1>1, <1>4, <1>9, <2>1, <2>2, ContextKept DEF GotoForward
  <2> QED BY <1>1, <1>2, <1>3, <1>4, <1>9, <2>1, <2>3, EvaluationKeeps DEF GotoForward, Emptied
<1>10. CASE GotoBackward(r)
  <2>1. /\ DOMAIN ctx' = DOMAIN p /\ ctx'.dcl = p.dcl /\ ctx'.loop = p.loop /\ ctx'.at = p.at
        /\ ctx'.labels = p.labels /\ ctx'.gather = 0 /\ ctx'.type = p.type
        /\ ctx'.loopCur = p.loopCur /\ ctx'.scanForLabel = p.scanForLabel
    <3>1. ctx' = [p EXCEPT !.gather = 0]
      BY <1>10 DEF GotoBackward, p
    <3> QED BY <1>5, <3>1 DEF ContextFields
  <2>2. ContextOK(ctx')
    BY <1>4, <2>1, SameData DEF ContextOK
  <2>3. ContextInv'
    BY <1>1, <1>4, <1>10, <2>1, <2>2, ContextKept DEF GotoBackward
  <2>4. cur' \in Frame /\ cur'.kind = cur.kind
    <3>1. r.at \in Nat /\ cur \in Frame
      BY <1>3 DEF ContextOK, SInv, InputInv
    <3>2. cur' = [cur EXCEPT !.pos = r.at]
      BY <1>10 DEF GotoBackward
    <3> QED BY <3>1, <3>2 DEF Frame
  <2> QED BY <1>1, <1>3, <1>4, <1>10, <2>1, <2>3, <2>4, EvaluationKeeps DEF GotoBackward
<1>11. CASE GotoInVariable(r)
  <2>1. start' \in StartStates \ {"PP_DOLOOP", "LEXRETURN"}
    BY <1>11 DEF GotoInVariable, StartStates
  <2> QED BY <1>11, <2>1, OnlyStart DEF GotoInVariable
<1>12. CASE DoBegins(r)
  <2>1. ctx' = p /\ UNCHANGED collected
    BY <1>12 DEF DoBegins, p
  <2>2. ContextInv'
    BY <1>1, <1>4, <2>1, ContextKept
  <2> QED BY <1>1, <1>2, <1>3, <1>4, <1>12, <2>1, <2>2, EvaluationKeeps DEF DoBegins, Emptied
<1>13. CASE DoEnds(r)
  <2>1. /\ DOMAIN ctx' = DOMAIN p /\ ctx'.dcl = p.dcl /\ ctx'.loop = p.loop /\ ctx'.at = p.at
        /\ ctx'.labels = p.labels /\ ctx'.gather = 0 /\ ctx'.type = p.type
        /\ ctx'.loopCur = 0 /\ ctx'.scanForLabel = p.scanForLabel
    <3>1. ctx' = [p EXCEPT !.gather = 0, !.loopCur = 0]
      BY <1>13 DEF DoEnds, p
    <3> QED BY <1>5, <3>1 DEF ContextFields
  <2>2. ContextOK(ctx')
    BY <1>4, <2>1, SameData DEF ContextOK
  <2>3. ContextInv'
    BY <1>1, <1>4, <1>13, <2>1, <2>2, ContextKept DEF DoEnds
  <2> QED BY <1>1, <1>2, <1>3, <1>4, <1>13, <2>1, <2>3, EvaluationKeeps DEF DoEnds, Emptied
<1>14. CASE UseStaleString(r) \/ GotoRefused(r)
  <2>1. start' \in StartStates \ {"PP_DOLOOP", "LEXRETURN"}
    BY <1>14 DEF UseStaleString, GotoRefused, StartStates
  <2> QED BY <1>14, <2>1, OnlyStart DEF UseStaleString, GotoRefused
<1>15. CASE GotoAnywhere(r)
  <2>1. /\ DOMAIN ctx' = DOMAIN p /\ ctx'.dcl = p.dcl /\ ctx'.loop = p.loop /\ ctx'.at = p.at
        /\ ctx'.labels = p.labels /\ ctx'.gather = 0 /\ ctx'.type = p.type
        /\ ctx'.loopCur = p.loopCur /\ ctx'.scanForLabel = p.scanForLabel
    <3>1. ctx' = [p EXCEPT !.gather = 0]
      BY <1>15 DEF GotoAnywhere, p
    <3> QED BY <1>5, <3>1 DEF ContextFields
  <2>2. ContextOK(ctx')
    BY <1>4, <2>1, SameData DEF ContextOK
  <2>3. ContextInv'
    BY <1>1, <1>4, <1>15, <2>1, <2>2, ContextKept DEF GotoAnywhere
  <2>4. cur' \in Frame /\ cur'.kind = cur.kind
    <3>1. cur \in Frame /\ Len(cur.text) \in Nat
      BY DEF SInv, InputInv, Frame
    <3>2. PICK offset \in 0..Len(cur.text) : cur' = [cur EXCEPT !.pos = offset]
      BY <1>15 DEF GotoAnywhere
    <3>3. offset \in Nat
      BY <3>1, <3>2
    <3> QED BY <3>1, <3>2, <3>3 DEF Frame
  <2> QED BY <1>1, <1>3, <1>4, <1>15, <2>1, <2>3, <2>4, EvaluationKeeps DEF GotoAnywhere
<1> QED BY <1>6, <1>7, <1>8, <1>9, <1>10, <1>11, <1>12, <1>13, <1>14, <1>15

(* The rule for ";" while tokens are gathered. *)
LEMMA PreprocessorKeeps ==
  ASSUME SInv, evaluatePreprocessor
  PROVE  SInv'
BY SkippedKeeps, EvaluateKeeps DEF evaluatePreprocessor

-----------------------------------------------------------------------------
(* The next token of the loop. *)
LEMMA LoopCurSet ==
  ASSUME NEW e, ContextOK(e), NEW n
  PROVE  LET r == [e EXCEPT !.loopCur = n]
         IN  /\ ContextOK(r) /\ r.loopCur = n /\ r.type = e.type
             /\ r.labels = e.labels /\ r.gather = e.gather /\ r.scanForLabel = e.scanForLabel
             /\ r.dcl = e.dcl
<1> DEFINE r == [e EXCEPT !.loopCur = n]
<1>1. ContextFields \subseteq DOMAIN e
  BY DEF ContextOK
<1>2. /\ DOMAIN r = DOMAIN e /\ r.loopCur = n /\ r.type = e.type
      /\ r.labels = e.labels /\ r.gather = e.gather /\ r.scanForLabel = e.scanForLabel
      /\ r.dcl = e.dcl /\ r.loop = e.loop /\ r.at = e.at
  BY <1>1 DEF ContextFields
<1> HIDE DEF r
<1>3. ContextOK(r)
  BY <1>2, SameData DEF ContextOK
<1> QED BY <1>2, <1>3 DEF r

(* What the loop leaves of the context. *)
LoopKeeps(e, r) ==
  /\ ContextOK(r) /\ r.type = e.type /\ r.labels = e.labels
  /\ r.gather = e.gather /\ r.scanForLabel = e.scanForLabel
  /\ KeepsTypes(e.dcl, r.dcl)

(* The loop moves on within what was collected.  A loop that is not to run  *)
(* has a variable, so that its number is beyond the end of the loop. *)
LEMMA LoopAdvancedIs ==
  ASSUME SInv, InLoop, Repeatable
  PROVE  LoopKeeps(ctx, LoopAdvanced) /\ LoopAdvanced.loopCur \in 0..Len(collected)
<1> DEFINE begins == ctx.loopCur = 0
           e == IF begins THEN ppSetIntValue(ctx, LoopVar, ctx.loop.from) ELSE ctx
           next == CASE begins /\ ctx.loop.from <= ctx.loop.to -> 1
                     [] ~begins /\ ctx.loopCur < Len(collected)  -> ctx.loopCur + 1
                     [] OTHER                                    -> 0
           i == IF Declared(e, LoopVar) THEN e.dcl[LoopVar].number + 1 ELSE 1
           p == ppSetIntValue(e, LoopVar, i)
           again == IF i <= ctx.loop.to THEN 1 ELSE 0
<1>1. /\ ContextOK(ctx) /\ collected \in Seq(PPTokens) /\ Len(collected) \in Nat
      /\ ctx.loopCur \in 0..Len(collected)
      /\ ctx.loop.from \in Int /\ ctx.loop.to \in Int
  BY DEF SInv, ContextInv, ContextOK, LoopOK
<1>2. LoopAdvanced = IF next # 0 THEN [e EXCEPT !.loopCur = next]
                     ELSE [p EXCEPT !.loopCur = again]
  BY DEF LoopAdvanced
<1>3. ContextOK(e) /\ Keeps(ctx, e) /\ e.type = ctx.type
  <2>1. CASE begins
    <3> DEFINE v == ctx.loop.from
               a == ppSetIntValue(ctx, LoopVar, v)
    <3> HIDE DEF v
    <3>1. ContextOK(a) /\ Keeps(ctx, a) /\ a.type = ctx.type
      BY <1>1, SetIntKeeps
    <3>2. e = a
      BY <2>1 DEF v
    <3> HIDE DEF a, e
    <3> QED BY <3>1, <3>2
  <2>2. CASE ~begins
    BY <1>1, <2>2 DEF Keeps, KeepsTypes
  <2> QED BY <2>1, <2>2
<1>4. begins /\ ~(ctx.loop.from <= ctx.loop.to) => again = 0
  <2> SUFFICES ASSUME begins, ~(ctx.loop.from <= ctx.loop.to) PROVE again = 0
    OBVIOUS
  <2>1. CanAssign(ctx, LoopVar, "FIXED")
    BY <1>1 DEF ContextOK, LoopOK, LoopVar
  <2>2. e.dcl[LoopVar].number = ctx.loop.from
    <3> DEFINE v == ctx.loop.from
               a == ppSetIntValue(ctx, LoopVar, v)
    <3> HIDE DEF v
    <3>1. a.dcl[LoopVar].number = v
      BY <1>1, <2>1, SetIntKeeps
    <3>2. e = a
      BY DEF v
    <3> HIDE DEF a, e
    <3> QED BY <3>1, <3>2 DEF v
  <2> HIDE DEF e
  <2>3. Declared(e, LoopVar)
    BY <1>3, <2>1 DEF Keeps, KeepsTypes, CanAssign, Declared
  <2>4. ~(i <= ctx.loop.to)
    BY <1>1, <2>2, <2>3
  <2> QED BY <2>4
<1>5. ~begins \/ ctx.loop.from <= ctx.loop.to => collected # << >>
  BY <1>1 DEF Repeatable, NothingToRepeat
<1>6. collected # << >> => Len(collected) >= 1
  BY <1>1
<1>7. next # 0 => next \in 0..Len(collected)
  BY <1>1, <1>5, <1>6
<1>8. again \in 0..Len(collected)
  <2> HIDE DEF i, begins
  <2>1. again \in {0, 1}
    OBVIOUS
  <2> HIDE DEF again
  <2> QED BY <1>1, <1>4, <1>5, <1>6, <2>1
<1>9. ContextOK(p) /\ Keeps(e, p) /\ p.type = e.type
  <2> HIDE DEF e, i
  <2> QED BY <1>3, SetIntKeeps
<1> HIDE DEF next, again, p, e
<1>10. CASE next # 0
  <2> DEFINE r == [e EXCEPT !.loopCur = next]
  <2>1. /\ ContextOK(r) /\ r.loopCur = next /\ r.type = e.type
        /\ r.labels = e.labels /\ r.gather = e.gather /\ r.scanForLabel = e.scanForLabel
        /\ r.dcl = e.dcl
    BY <1>3, LoopCurSet
  <2>2. LoopAdvanced = r
    BY <1>2, <1>10
  <2> HIDE DEF r
  <2> QED BY <1>3, <1>7, <1>10, <2>1, <2>2 DEF LoopKeeps, Keeps, KeepsTypes
<1>11. CASE next = 0
  <2> DEFINE r == [p EXCEPT !.loopCur = again]
  <2>1. /\ ContextOK(r) /\ r.loopCur = again /\ r.type = p.type
        /\ r.labels = p.labels /\ r.gather = p.gather /\ r.scanForLabel = p.scanForLabel
        /\ r.dcl = p.dcl
    BY <1>9, LoopCurSet
  <2>2. LoopAdvanced = r
    BY <1>2, <1>11
  <2>3. Keeps(ctx, p)
    BY <1>3, <1>9, KeepsTransitive
  <2> HIDE DEF r
  <2> QED BY <1>3, <1>8, <1>9, <2>1, <2>2, <2>3 DEF LoopKeeps, Keeps
<1> QED BY <1>10, <1>11

(* A text pushed by the loop. *)
LEMMA ReadInLoopKeeps ==
  ASSUME SInv, InLoop, NEW text \in Seq(Lexemes), ReadInLoop(text),
         UNCHANGED <<source, pp, collected, queue, parser>>,
         LoopKeeps(ctx, ctx'), ctx'.loopCur \in 0..Len(collected)
  PROVE  SInv'
<1> DEFINE kind == "PPVAR"
<1>1. kind \in {"FILE", "PPVAR"} /\ kind # "FILE" /\ stackCurrentBuffer(cur, kind, text)
  BY DEF ReadInLoop
<1> HIDE DEF kind
<1>2. cur \in Frame
  BY DEF SInv, InputInv
<1>3. /\ InputInv' /\ Len(Frames') = Len(Frames) + 1
      /\ FilesIn(Frames') = FilesIn(Frames) + 0
  BY <1>1, <1>2, BufferPushed DEF SInv
<1>4. Len(Frames) \in Nat /\ FilesIn(Frames) \in Nat
  <2>1. Frames \in Seq(Frame)
    BY DEF SInv, InputInv, Frames
  <2> QED BY <2>1, FilesNumber
<1>5. ContextInv'
  BY DEF SInv, ContextInv, LoopKeeps
<1>6. NestInv'
  <2> DEFINE C == {"INITIAL", "PP_DOLOOP"}
  <2>1. /\ conds \in Seq(C) /\ conds # << >> /\ Len(conds) <= Len(Frames) /\ Len(conds) \in Nat
        /\ conds[1] = "INITIAL" /\ \A i \in 2..Len(conds) : conds[i] = "PP_DOLOOP"
        /\ Len(ctx.labels) = FilesIn(Frames)
    BY DEF SInv, NestInv, StatesNested
  <2>2. conds' = Append(conds, "PP_DOLOOP")
    BY DEF ReadInLoop
  <2>3. /\ conds' \in Seq(C) /\ Len(conds') = Len(conds) + 1 /\ conds'[Len(conds) + 1] = "PP_DOLOOP"
        /\ \A i \in 1..Len(conds) : conds'[i] = conds[i]
    BY <2>1, <2>2
  <2>4. conds' # << >> /\ Len(conds) >= 1
    BY <2>1, <2>3
  <2>5. \A i \in 2..Len(conds') : i \in 2..Len(conds) \/ i = Len(conds) + 1
    BY <2>1, <2>3
  <2>6. \A i \in 2..Len(conds') : conds'[i] = "PP_DOLOOP"
    BY <2>1, <2>3, <2>5
  <2>7. Len(conds') <= Len(Frames')
    BY <1>3, <1>4, <2>1, <2>3
  <2>8. conds'[1] = "INITIAL"
    BY <2>1, <2>3, <2>4
  <2>9. Len(ctx'.labels) = FilesIn(Frames')
    BY <1>3, <1>4, <2>1 DEF LoopKeeps
  <2> QED BY <2>3, <2>4, <2>6, <2>7, <2>8, <2>9 DEF NestInv, StatesNested
<1>7. TokensInv'
  BY DEF SInv, TokensInv, queue, parser
<1>8. StartInv'
  BY DEF SInv, StartInv, StartStates, ReadInLoop, queue
<1> QED BY <1>3, <1>5, <1>6, <1>7, <1>8 DEF SInv

(* The loop moves on without a change of the input. *)
LEMMA LoopStays ==
  ASSUME SInv, InLoop, UNCHANGED <<source, input, conds, collected>>, TokensInv',
         LoopKeeps(ctx, ctx'), ctx'.loopCur \in 0..Len(collected),
         start' \in {"INITIAL", "PP_DOLOOP"}, lookahead' \in {0, 1}
  PROVE  SInv'
<1>1. InputInv' /\ Frames' = Frames
  BY DEF SInv, InputInv, Frames, input
<1>2. ContextInv'
  BY DEF SInv, ContextInv, LoopKeeps
<1>3. NestInv'
  BY <1>1 DEF SInv, NestInv, StatesNested, LoopKeeps
<1>4. StartInv'
  BY DEF SInv, StartInv, StartStates, LoopKeeps, InLoop
<1> QED BY <1>1, <1>2, <1>3, <1>4 DEF SInv

(* PP_DOLOOP. *)
LEMMA DoLoopKeeps ==
  ASSUME SInv, DoLoop
  PROVE  SInv'
<1>1. CASE LoopCrashes
  <2>1. start' \in StartStates \ {"PP_DOLOOP", "LEXRETURN"}
    BY <1>1 DEF LoopCrashes, StartStates
  <2> QED BY <1>1, <2>1, OnlyStart DEF LoopCrashes
<1> SUFFICES ASSUME ~LoopCrashes PROVE SInv'
  BY <1>1
<1> DEFINE e == LoopAdvanced
           n == e.loopCur
<1>2. InLoop /\ Repeatable
  BY DEF DoLoop, LoopDone, LoopStatement, LoopExpands, LoopReturns, LoopPlain, LoopGoesOn
<1>3. LoopKeeps(ctx, e) /\ n \in 0..Len(collected)
  BY <1>2, LoopAdvancedIs
<1>4. collected \in Seq(PPTokens) /\ Len(collected) \in Nat
  BY DEF SInv, ContextInv
<1>5. LoopGoesOn => n \in 1..Len(collected) /\ LoopToken \in PPTokens
  <2> SUFFICES ASSUME LoopGoesOn PROVE n \in 1..Len(collected) /\ LoopToken \in PPTokens
    OBVIOUS
  <2>1. n # 0
    BY DEF LoopGoesOn
  <2>2. LoopToken = collected[n]
    BY DEF LoopToken
  <2> HIDE DEF n
  <2> QED BY <1>3, <1>4, <2>1, <2>2
<1>6. CASE LoopDone
  <2>1. /\ ctx' = e /\ start' = "INITIAL"
        /\ UNCHANGED <<source, input, conds, pp, collected, queue, parser>>
    BY <1>6 DEF LoopDone
  <2>2. TokensInv' /\ lookahead' \in {0, 1}
    BY <2>1 DEF SInv, StartInv, TokensInv, queue, parser
  <2> HIDE DEF e
  <2> QED BY <1>2, <1>3, <2>1, <2>2, LoopStays
<1>7. CASE LoopStatement
  <2> DEFINE Semicolon(j) == Lexicon[collected[j].lex].first = "SEMICOLON"
             last == CHOOSE j \in n..Len(collected) :
                       Semicolon(j) /\ \A k \in n..(j - 1) : ~Semicolon(k)
             text == [k \in 1..(last - n + 1) |-> collected[n + k - 1].lex]
  <2>1. ReadInLoop(text) /\ ctx' = [e EXCEPT !.loopCur = last]
    BY <1>7 DEF LoopStatement
  <2>2. n \in 1..Len(collected)
    BY <1>5, <1>7 DEF LoopStatement
  <2>3. Semicolon(Len(collected))
    <3>1. collected # << >>
      BY <1>4, <2>2
    <3> QED BY <3>1 DEF SInv, ContextInv
  <2> HIDE DEF n
  <2>4. \E j \in n..Len(collected) : Semicolon(j) /\ \A k \in n..(j - 1) : ~Semicolon(k)
    <3> HIDE DEF Semicolon
    <3> DEFINE S == {j \in n..Len(collected) : Semicolon(j)}
    <3>1. S \in SUBSET Nat /\ S # {}
      BY <1>4, <2>2, <2>3
    <3>2. PICK j \in S : \A k \in S : j <= k
      BY <3>1, Least
    <3>3. ASSUME NEW k \in n..(j - 1), Semicolon(k) PROVE FALSE
      <4>1. k \in S
        BY <1>4, <2>2, <3>2, <3>3
      <4> QED BY <3>1, <3>2, <3>3, <4>1
    <3> QED BY <3>2, <3>3
  <2>5. last \in n..Len(collected)
    <3> HIDE DEF Semicolon
    <3> QED BY <2>4
  <2> HIDE DEF last
  <2>6. text \in Seq(Lexemes)
    <3>1. last - n + 1 \in Nat
      BY <1>4, <2>2, <2>5
    <3>2. ASSUME NEW k \in 1..(last - n + 1) PROVE collected[n + k - 1].lex \in Lexemes
      <4>1. n + k - 1 \in 1..Len(collected)
        BY <1>4, <2>2, <2>5
      <4>2. collected[n + k - 1] \in PPTokens
        BY <1>4, <4>1
      <4> QED BY <4>2 DEF PPTokens
    <3>3. text \in [1..(last - n + 1) -> Lexemes]
      BY <3>2
    <3> HIDE DEF text
    <3> QED BY <3>1, <3>3
  <2> HIDE DEF text
  <2>7. /\ LoopKeeps(ctx, ctx') /\ ctx'.loopCur = last
    <3> DEFINE r == [e EXCEPT !.loopCur = last]
    <3> HIDE DEF e
    <3>1. /\ ContextOK(r) /\ r.loopCur = last /\ r.type = e.type
          /\ r.labels = e.labels /\ r.gather = e.gather /\ r.scanForLabel = e.scanForLabel
          /\ r.dcl = e.dcl
      BY <1>3, LoopCurSet DEF LoopKeeps
    <3>2. ctx' = r
      BY <2>1
    <3> HIDE DEF r
    <3> QED BY <1>3, <3>1, <3>2 DEF LoopKeeps
  <2>8. ctx'.loopCur \in 0..Len(collected)
    BY <1>4, <2>2, <2>5, <2>7
  <2>9. UNCHANGED <<source, pp, collected, queue, parser>>
    BY <1>7 DEF LoopStatement
  <2> QED BY <1>2, <2>1, <2>6, <2>7, <2>8, <2>9, ReadInLoopKeeps
<1>8. CASE LoopExpands
  <2>1. PICK value \in LoopValues : ReadInLoop(value)
    BY <1>8 DEF LoopExpands
  <2>2. value \in Seq(Lexemes)
    <3> DEFINE x == LoopToken.lex
    <3>1. CASE Active(x)
      <4>1. value \in ppGetValueAsString(LoopAdvanced.dcl[x])
        BY <2>1, <3>1 DEF LoopValues
      <4>2. x \in DOMAIN LoopAdvanced.dcl /\ DclOK(LoopAdvanced.dcl)
        BY <1>3, <3>1 DEF LoopKeeps, KeepsTypes, Active, Declared, ContextOK
      <4> QED BY <4>1, <4>2, ValuesAreTexts
    <3>2. CASE ~Active(x)
      BY <2>1, <3>2 DEF LoopValues
    <3> QED BY <3>1, <3>2
  <2>3. ctx' = e /\ UNCHANGED <<source, pp, collected, queue, parser>>
    BY <1>8 DEF LoopExpands
  <2> HIDE DEF e
  <2> QED BY <1>2, <1>3, <2>1, <2>2, <2>3, ReadInLoopKeeps
<1>9. CASE LoopReturns
  <2>1. LoopToken \in PPTokens
    BY <1>5, <1>9 DEF LoopReturns, LoopPlain
  <2>2. accepted' = accepted + 1 /\ accepted \in Nat /\ out \in Seq(SavedTokens)
    BY <1>9 DEF LoopReturns, SInv, TokensInv
  <2> DEFINE tk == [lex |-> LoopToken.lex, tok |-> LoopToken.tok, no |-> accepted']
  <2>3. tk \in SavedTokens
    BY <2>1, <2>2 DEF PPTokens, SavedTokens
  <2>4. out' = Append(out, tk)
    BY <1>9 DEF LoopReturns
  <2> HIDE DEF tk
  <2>5. out' \in Seq(SavedTokens)
    BY <2>2, <2>3, <2>4
  <2>6. /\ ctx' = e /\ UNCHANGED <<source, input, start, conds, pp, collected, queue>>
    BY <1>9 DEF LoopReturns
  <2>7. TokensInv' /\ lookahead' \in {0, 1} /\ start' = "PP_DOLOOP"
    BY <1>2, <2>2, <2>5, <2>6 DEF SInv, StartInv, TokensInv, queue, InLoop
  <2> HIDE DEF e
  <2> QED BY <1>2, <1>3, <2>6, <2>7, LoopStays
<1> QED BY <1>6, <1>7, <1>8, <1>9 DEF DoLoop

(* In the initial states. *)
LEMMA SInvInit ==
  ASSUME Init
  PROVE  SInv
<1> DEFINE labels == ppPushDCLLabelStack(<< >>)
           loop == [var |-> "NONE", from |-> -1, to |-> -1]
<1>1. << >> \in Labels
  <2>1. << >> \in [{} -> Nat]
    OBVIOUS
  <2> QED BY <2>1 DEF Labels
<1>2. labels = << << >> >>
  BY DEF ppPushDCLLabelStack
<1>3. labels \in Seq(Labels) /\ Len(labels) = 1 /\ labels # << >>
  <2> DEFINE none == << >>
  <2>1. none \in Labels /\ labels = <<none>>
    BY <1>1, <1>2
  <2> HIDE DEF none, labels
  <2> QED BY <2>1
<1>4. ctx = newppContextAnchor(source.stale) /\ source.stale \in StaleTypes
  BY SourcesAssumption DEF SourcesAssumption, Init
<1>5. /\ DOMAIN ctx = ContextFields /\ ctx.labels = labels /\ ctx.dcl = << >> /\ ctx.loop = loop
      /\ ctx.type = source.stale /\ ctx.at = 0 /\ ctx.gather = 0 /\ ctx.scanForLabel = "NONE"
      /\ ctx.loopCur = 0
  BY <1>4 DEF newppContextAnchor, ContextFields
<1>6. DclOK(<< >>)
  BY DEF DclOK
<1>7. LoopOK(ctx)
  BY <1>5 DEF LoopOK
<1> HIDE DEF labels, loop
<1>8. ContextOK(ctx)
  BY <1>3, <1>5, <1>6, <1>7 DEF ContextOK
<1>9. ContextInv
  BY <1>4, <1>5, <1>8 DEF ContextInv, Init
<1>10. TokensInv
  BY DEF Init, TokensInv
<1>11. StartInv
  BY DEF Init, StartInv, StartStates
<1>12. cur \in Frame /\ cur.kind = "MAIN" /\ stack = << >> /\ includeCount = 0
  BY SourcesAssumption DEF SourcesAssumption, Init, Frame
<1>13. Frames \in Seq(Frame) /\ Len(Frames) = 1 /\ Frames[1] = cur
  BY <1>12 DEF Frames
<1>14. InputInv
  BY <1>12, <1>13 DEF InputInv
<1>15. FilesIn(Frames) = 1
  <2>1. {i \in 1..Len(Frames) : Frames[i].kind # "PPVAR"} = {1}
    BY <1>12, <1>13
  <2> QED BY <2>1, FS_Singleton DEF FilesIn
<1>16. NestInv
  <2>1. conds = <<"INITIAL">>
    BY DEF Init
  <2>2. /\ conds \in Seq({"INITIAL", "PP_DOLOOP"}) /\ conds # << >> /\ Len(conds) = 1
        /\ conds[1] = "INITIAL"
    BY <2>1
  <2> QED BY <1>3, <1>5, <1>13, <1>15, <2>2 DEF NestInv, StatesNested
<1> QED BY <1>9, <1>10, <1>11, <1>14, <1>16 DEF SInv

(* Every step keeps the invariant. *)
LEMMA SInvNext ==
  ASSUME SInv, [Next]_vars
  PROVE  SInv'
BY TextKeeps, SkippingKeeps, PreprocessorKeeps, DoLoopKeeps, ReturnedKeeps, EofKeeps, StutterKeeps
   DEF Next, Finished

(* The invariant holds in every state the scanner can get into. *)
THEOREM SInvHolds == Spec => []SInv
<1>1. Init => SInv
  BY SInvInit
<1>2. SInv /\ [Next]_vars => SInv'
  BY SInvNext
<1> QED BY <1>1, <1>2, PTL DEF Spec

(* The state the rules share keeps its shape: there is always a current      *)
(* buffer, only the outermost one is the main file, and the count of open    *)
(* buffers is right. *)
THEOREM TypeOKHolds == Spec => []TypeOK
BY SInvHolds, SInvImplies, PTL

(* PP_DOLOOP is resumed at most once for each buffer. *)
THEOREM StatesNestedHolds == Spec => []StatesNested
BY SInvHolds, SInvImplies, PTL

(* Each open file has one set of labels of its own. *)
THEOREM LabelsPerFileHolds == Spec => []LabelsPerFile
BY SInvHolds, SInvImplies, PTL

(* A step while a label is looked for. *)
LEMMA SkippedStep ==
  ASSUME SInv, Next, ctx.scanForLabel # "NONE", ctx'.scanForLabel # "NONE"
  PROVE  /\ ctx'.gather = 1
         /\ ctx'.dcl = ctx.dcl /\ ctx'.dolevel = ctx.dolevel
         /\ UNCHANGED <<stack, collected, accepted, out>>
<1> DEFINE Goal == /\ ctx'.gather = 1
                   /\ ctx'.dcl = ctx.dcl /\ ctx'.dolevel = ctx.dolevel
                   /\ UNCHANGED <<stack, collected, accepted, out>>
<1>1. ctx.gather = 1 /\ ContextOK(ctx) /\ start \notin {"PP_DOLOOP", "LEXRETURN"}
  BY DEF SInv, StartInv, ContextInv
<1>3. UNCHANGED ctx /\ UNCHANGED <<stack, collected, accepted, out>> => Goal
  BY <1>1
<1>4. CASE Text
  <2> DEFINE t == Tok
  <2>1. \/ ReadWildPointer
        \/ WhiteSpace(t) \/ SkipStart(t) \/ PlainToken(t) \/ Percent(t)
        \/ OpenLookahead(t) \/ KeyWordAsPlain(t) \/ EndToken(t)
        \/ Colon(t) \/ PlainSemicolon(t) \/ EndOfStatement(t)
    BY <1>4 DEF Text
  <2> HIDE DEF t
  <2>2. ASSUME NEW u, NEW la, dupyy(u, la) PROVE UNCHANGED <<stack, accepted, out>>
    BY <1>1, <2>2 DEF dupyy, SaveForPreprocessor, ReadValue, PassOn, parser
  <2>3. ~ReadWildPointer /\ ~OpenLookahead(t) /\ ~PlainSemicolon(t) /\ ~EndOfStatement(t)
    BY <1>1 DEF ReadWildPointer, OpenLookahead, PlainSemicolon, PassOn, EndOfStatement
  <2>4. CASE WhiteSpace(t) \/ SkipStart(t)
    BY <1>3, <2>4 DEF WhiteSpace, SkipStart, ppVars, parser
  <2>5. CASE PlainToken(t)
    BY <1>3, <2>2, <2>5 DEF PlainToken
  <2>6. CASE KeyWordAsPlain(t)
    <3>1. \E u, la : dupyy(u, la)
      BY <2>6 DEF KeyWordAsPlain
    <3> QED BY <1>3, <2>2, <2>6, <3>1 DEF KeyWordAsPlain
  <2>7. CASE EndToken(t)
    BY <1>3, <2>2, <2>7 DEF EndToken
  <2>8. CASE Colon(t)
    <3>1. SaveForPreprocessor("COLON")
      BY <1>1, <2>8 DEF Colon, PassOn
    <3> QED BY <1>3, <2>8, <3>1 DEF Colon, SaveForPreprocessor, parser
  <2>9. CASE Percent(t)
    <3>1. ctx' = [ctx EXCEPT !.gather = 1] /\ UNCHANGED <<stack, collected, accepted, out>>
      BY <2>9 DEF Percent, parser
    <3>2. ctx'.gather = 1 /\ ctx'.dcl = ctx.dcl /\ ctx'.dolevel = ctx.dolevel
      BY <1>1, <3>1 DEF ContextOK, ContextFields
    <3> QED BY <3>1, <3>2
  <2> QED BY <2>1, <2>3, <2>4, <2>5, <2>6, <2>7, <2>8, <2>9
<1>5. CASE Skipping
  BY <1>3, <1>5 DEF Skipping, ppVars, parser
<1>6. CASE evaluatePreprocessor
  <2>1. CASE BadLabel \/ DoWithoutVariable
    BY <1>3, <2>1 DEF BadLabel, DoWithoutVariable, ppVars, input, parser
  <2>2. CASE DiscardStatement
    BY <1>1, <2>2, ResetIs DEF DiscardStatement, parser
  <2>3. CASE DiscardLabelled
    <3> DEFINE p == DefineLabels(ctx, Gathered)
    <3>1. Has(Gathered, "PERCENT") /\ Has(FromPercent(Gathered), "COLON")
      BY <2>3, LabelledHas DEF DiscardLabelled, Labelled, CanDefineLabels
    <3>2. EndsStatement(Gathered)
      BY <1>6, GatheredEnds DEF evaluatePreprocessor
    <3>3. /\ ContextOK(p) /\ Carries(ctx, p) /\ p.dcl = ctx.dcl /\ p.dolevel = ctx.dolevel
      BY <1>1, <3>1, <3>2, DefineLabelsCarries DEF EndsStatement
    <3>4. ctx' = resetCurrentContext(p) /\ UNCHANGED <<stack, collected, parser>>
      BY <2>3 DEF DiscardLabelled
    <3> HIDE DEF p
    <3> QED BY <1>1, <3>3, <3>4, ResetIs DEF Carries, parser
  <2>4. CASE CollectStatement
    <3>1. ContextOK(Context) /\ Context.scanForLabel = "NONE"
      BY <1>6, <2>4, ContextIs DEF CollectStatement, evaluatePreprocessor
    <3>2. ctx'.scanForLabel = "NONE"
      BY <2>4, <3>1, ResetIs DEF CollectStatement
    <3> QED BY <3>2
  <2>5. CASE Evaluate
    <3>1. PICK r : /\ r = Result
                   /\ \/ StatementFails(r) \/ StatementDone(r) \/ IncludeFile(r)
                      \/ GotoForward(r) \/ GotoBackward(r) \/ GotoInVariable(r)
                      \/ UseStaleString(r) \/ GotoAnywhere(r) \/ GotoRefused(r)
                      \/ DoBegins(r) \/ DoEnds(r)
                      \/ DiscardStatement \/ DiscardLabelled \/ BadLabel
                      \/ CollectStatement \/ DoWithoutVariable
      BY <1>6, <2>5 DEF evaluatePreprocessor
    <3>2. /\ ContextOK(r) /\ Asks(Context, r, DOMAIN source.files)
          /\ r.gather = 1 /\ r.scanForLabel = "NONE"
      BY <1>6, <2>5, <3>1, ResultIs DEF Evaluate, evaluatePreprocessor
    <3>3. ContextFields \subseteq DOMAIN r
      BY <3>2 DEF ContextOK
    <3> DEFINE p == resetCurrentContext(r)
    <3>4. /\ ContextOK(p) /\ DOMAIN p = DOMAIN r /\ p.dcl = r.dcl /\ p.dolevel = r.dolevel
          /\ p.gather = 1 /\ p.scanForLabel = "NONE"
      BY <3>2, ResetIs
    <3>5. CASE StatementFails(r) \/ GotoInVariable(r) \/ UseStaleString(r) \/ GotoRefused(r)
      BY <1>3, <3>5
         DEF StatementFails, GotoInVariable, UseStaleString, GotoRefused, ppVars, input, parser
    <3>6. CASE GotoForward(r)
      <4>1. r.dcl = ctx.dcl /\ r.dolevel = ctx.dolevel
        BY <1>6, <2>5, <3>2, <3>6, ContextIs
           DEF Asks, GotoForward, Succeeds, Evaluate, evaluatePreprocessor
      <4>2. ctx' = [p EXCEPT !.scanForLabel = r.arg] /\ UNCHANGED <<stack, collected, parser>>
        BY <3>6 DEF GotoForward
      <4> HIDE DEF p
      <4>3. ctx'.gather = p.gather /\ ctx'.dcl = p.dcl /\ ctx'.dolevel = p.dolevel
        BY <3>3, <3>4, <4>2 DEF ContextFields
      <4> QED BY <3>4, <4>1, <4>2, <4>3 DEF parser
    <3>7. CASE StatementDone(r)
      BY <3>2, <3>3, <3>7 DEF StatementDone, ContextFields
    <3>8. CASE IncludeFile(r)
      <4> DEFINE l == ppPushDCLLabelStack(p.labels)
      <4>1. ctx' = [p EXCEPT !.gather = 0, !.labels = l]
        BY <3>8 DEF IncludeFile
      <4> HIDE DEF p, l
      <4> QED BY <3>3, <3>4, <4>1 DEF ContextFields
    <3>9. CASE GotoBackward(r)
      <4>1. ctx' = [p EXCEPT !.gather = 0]
        BY <3>9 DEF GotoBackward
      <4> HIDE DEF p
      <4> QED BY <3>3, <3>4, <4>1 DEF ContextFields
    <3>10. CASE DoBegins(r)
      <4>1. ctx' = p
        BY <3>10 DEF DoBegins
      <4> HIDE DEF p
      <4> QED BY <3>4, <4>1
    <3>11. CASE DoEnds(r)
      <4>1. ctx' = [p EXCEPT !.gather = 0, !.loopCur = 0]
        BY <3>11 DEF DoEnds
      <4> HIDE DEF p
      <4> QED BY <3>3, <3>4, <4>1 DEF ContextFields
    <3>12. CASE GotoAnywhere(r)
      <4>1. ctx' = [p EXCEPT !.gather = 0]
        BY <3>12 DEF GotoAnywhere
      <4> HIDE DEF p
      <4> QED BY <3>3, <3>4, <4>1 DEF ContextFields
    <3> QED BY <2>1, <2>2, <2>3, <2>4, <3>1, <3>5, <3>6, <3>7, <3>8, <3>9, <3>10, <3>11, <3>12
  <2> QED BY <1>6, <2>1, <2>2, <2>3, <2>4, <2>5 DEF evaluatePreprocessor
<1>7. CASE DoLoop \/ Returned
  BY <1>1, <1>7 DEF DoLoop, LoopCrashes, LoopGoesOn, LoopDone, LoopStatement, LoopExpands, LoopPlain,
                    LoopReturns, InLoop, Returned, ReturnSavedToken, AllReturned, NoSavedTokens
<1>8. CASE Eof
  <2>1. EofWhileGathering
    BY <1>1, <1>8 DEF Eof, EofOfBuffer, EofInLookahead, EofOfMain
  <2> QED BY <1>3, <2>1 DEF EofWhileGathering, ppVars, input, parser
<1>9. CASE Finished
  BY <1>3, <1>9 DEF Finished, vars, ppVars, input, parser
<1> QED BY <1>4, <1>5, <1>6, <1>7, <1>8, <1>9 DEF Next

(* What is skipped by a %GOTO has no effect. *)
THEOREM SkippedHasNoEffectHolds == Spec => SkippedHasNoEffect
<1>1. SInv /\ [Next]_vars =>
        [ctx.scanForLabel # "NONE" /\ ctx'.scanForLabel # "NONE" =>
           /\ ctx'.gather = 1
           /\ ctx'.dcl = ctx.dcl /\ ctx'.dolevel = ctx.dolevel
           /\ UNCHANGED <<stack, collected, accepted, out>>]_vars
  BY SkippedStep
<1> QED BY <1>1, SInvHolds, PTL DEF Spec, SkippedHasNoEffect

-----------------------------------------------------------------------------
(* The order of the tokens.  A token the loop returns is handed over at     *)
(* once, so it overtakes those an open lookahead has saved.  Only that is   *)
(* excluded.                                                                *)
LoopsOutsideLookahead == start = "PP_DOLOOP" => lookahead = 0

(* The tokens saved are the ones left since the last one handed over, and   *)
(* none is saved but for a lookahead.                                       *)
QueueInv ==
  /\ accepted = LastNo + Len(lah.list)
  /\ \A i \in 1..Len(lah.list) : lah.list[i].no = LastNo + i
  /\ lookahead = 0 => lah.list = << >>

(* A step of the channel, or none. *)
Moves == QueueInv' /\ [Channel!Next]_Channel!vars

(* The numbers of tokens are numbers. *)
LEMMA NumbersAre ==
  ASSUME TokensInv
  PROVE  LastNo \in Nat /\ accepted \in Nat /\ Len(lah.list) \in Nat
<1>1. accepted \in Nat /\ Len(lah.list) \in Nat
  BY DEF TokensInv
<1>2. CASE out = << >>
  BY <1>1, <1>2 DEF LastNo
<1>3. CASE out # << >>
  <2>1. out[Len(out)] \in SavedTokens
    <3> DEFINE s == out
    <3>1. s \in Seq(SavedTokens) /\ s # << >>
      BY <1>3 DEF TokensInv
    <3> HIDE DEF s
    <3>2. s[Len(s)] \in SavedTokens
      BY <3>1
    <3> QED BY <3>2 DEF s
  <2> QED BY <1>1, <1>3, <2>1 DEF LastNo, SavedTokens
<1> QED BY <1>2, <1>3

(* A token that is handed over is the last one. *)
LEMMA HandedOver ==
  ASSUME TokensInv, NEW tk, out' = Append(out, tk)
  PROVE  LastNo' = tk.no
<1>1. /\ Len(Append(out, tk)) = Len(out) + 1
      /\ Append(out, tk)[Len(out) + 1] = tk
      /\ Len(out) \in Nat
  BY DEF TokensInv
<1>2. out' # << >>
  BY <1>1
<1> QED BY <1>1, <1>2 DEF LastNo

(* The tokens stay where they are. *)
LEMMA NothingMoves ==
  ASSUME QueueInv, lah'.list = lah.list, UNCHANGED <<accepted, out>>,
         lookahead' = 0 => lookahead = 0 \/ lah.list = << >>
  PROVE  Moves
<1>1. LastNo' = LastNo
  BY DEF LastNo
<1> QED BY <1>1 DEF Moves, QueueInv, Channel!vars

(* A token is saved. *)
LEMMA TokenSaved ==
  ASSUME TokensInv, QueueInv, Len(lah'.list) = Len(lah.list) + 1,
         \A i \in 1..Len(lah.list) : lah'.list[i].no = lah.list[i].no,
         lah'.list[Len(lah.list) + 1].no = accepted + 1,
         accepted' = accepted + 1, UNCHANGED out, lookahead' # 0
  PROVE  Moves
<1>1. LastNo' = LastNo
  BY DEF LastNo
<1>2. LastNo \in Nat /\ accepted \in Nat /\ Len(lah.list) \in Nat
  BY NumbersAre
<1>3. QueueInv'
  <2>1. accepted' = LastNo' + Len(lah'.list)
    BY <1>1, <1>2 DEF QueueInv
  <2>2. ASSUME NEW i \in 1..Len(lah'.list) PROVE lah'.list[i].no = LastNo' + i
    <3>1. CASE i \in 1..Len(lah.list)
      <4>1. lah'.list[i].no = lah.list[i].no /\ lah.list[i].no = LastNo + i
        BY <3>1 DEF QueueInv
      <4> QED BY <1>1, <4>1
    <3>2. CASE i = Len(lah.list) + 1
      <4>1. accepted + 1 = LastNo + i
        BY <1>2, <3>2 DEF QueueInv
      <4> QED BY <1>1, <3>2, <4>1
    <3>3. i \in 1..Len(lah.list) \/ i = Len(lah.list) + 1
      BY <1>2
    <3> QED BY <3>1, <3>2, <3>3
  <2> QED BY <2>1, <2>2 DEF QueueInv
<1> QED BY <1>1, <1>3 DEF Moves, Channel!Next, Channel!Keep

(* A token is handed over while none is saved. *)
LEMMA TokenPassed ==
  ASSUME TokensInv, QueueInv, lah.list = << >>, lah'.list = lah.list,
         NEW tk, tk.no = accepted + 1, out' = Append(out, tk), accepted' = accepted + 1
  PROVE  Moves
<1>1. LastNo' = accepted + 1
  BY HandedOver
<1>2. LastNo \in Nat /\ accepted \in Nat /\ Len(lah.list) = 0
  BY NumbersAre
<1>3. LastNo = accepted
  BY <1>2 DEF QueueInv
<1> QED BY <1>1, <1>2, <1>3 DEF Moves, QueueInv, Channel!Next, Channel!PassOn

(* The first of the saved tokens is handed over. *)
LEMMA TokenReturned ==
  ASSUME TokensInv, QueueInv, lah.list # << >>, lah'.list = Tail(lah.list),
         out' = Append(out, Head(lah.list)), UNCHANGED <<accepted, lookahead>>
  PROVE  Moves
<1> DEFINE l == lah.list
           m == lah'.list
<1>1. l \in Seq(SavedTokens) /\ l # << >> /\ m = Tail(l)
  BY DEF TokensInv
<1>2. LastNo \in Nat /\ accepted \in Nat
  BY NumbersAre
<1>3. /\ accepted = LastNo + Len(l) /\ lookahead # 0
      /\ \A i \in 1..Len(l) : l[i].no = LastNo + i
  BY DEF QueueInv
<1>4. LastNo' = Head(l).no
  BY HandedOver
<1> HIDE DEF l, m
<1>5. /\ Len(l) \in Nat /\ Len(l) >= 1 /\ Head(l) = l[1]
      /\ Len(m) = Len(l) - 1 /\ \A i \in 1..Len(m) : m[i] = l[i + 1]
  BY <1>1
<1>6. LastNo' = LastNo + 1
  BY <1>3, <1>4, <1>5
<1>7. accepted' = LastNo' + Len(m)
  BY <1>2, <1>3, <1>5, <1>6
<1>8. ASSUME NEW i \in 1..Len(m) PROVE m[i].no = LastNo' + i
  <2>1. i + 1 \in 1..Len(l) /\ m[i] = l[i + 1]
    BY <1>5
  <2> QED BY <1>2, <1>3, <1>6, <2>1
<1>9. QueueInv'
  BY <1>3, <1>7, <1>8 DEF QueueInv, m
<1>10. Channel!Next
  BY <1>2, <1>3, <1>5, <1>6 DEF Channel!Next, Channel!Deliver
<1> QED BY <1>9, <1>10 DEF Moves

(* A queue whose first token has another name. *)
RenamedHead(q, t) == [q EXCEPT ![1].tok = t]

(* The queue with one more token, perhaps with the first one renamed. *)
LEMMA QueueGrows ==
  ASSUME TokensInv, QueueInv, NEW tk \in SavedTokens, tk.no = accepted + 1, NEW t,
         lah'.list \in {Append(lah.list, tk), RenamedHead(Append(lah.list, tk), t)},
         accepted' = accepted + 1, UNCHANGED out, lookahead' # 0
  PROVE  Moves
<1> DEFINE l == lah.list
           q == Append(l, tk)
           r == RenamedHead(q, t)
           m == lah'.list
<1>1. l \in Seq(SavedTokens) /\ (m = q \/ m = r)
  BY DEF TokensInv
<1> HIDE DEF l, m
<1>2. /\ q \in Seq(SavedTokens) /\ Len(l) \in Nat /\ Len(q) = Len(l) + 1
      /\ q[Len(l) + 1] = tk /\ \A i \in 1..Len(l) : q[i] = l[i]
  BY <1>1
<1> HIDE DEF q
<1>3. Len(r) = Len(q) /\ \A i \in 1..Len(q) : r[i].no = q[i].no
  <2> DEFINE w == [q[1] EXCEPT !.tok = t]
  <2>1. 1 \in 1..Len(q)
    BY <1>2
  <2>2. q[1] \in SavedTokens
    BY <1>2, <2>1
  <2>3. w.no = q[1].no
    BY <2>2 DEF SavedTokens
  <2>4. r = [q EXCEPT ![1] = w]
    BY DEF RenamedHead
  <2> HIDE DEF w, r
  <2>5. Len(r) = Len(q) /\ \A i \in 1..Len(q) : r[i] = IF i = 1 THEN w ELSE q[i]
    BY <1>2, <2>4
  <2> QED BY <2>3, <2>5
<1> HIDE DEF r
<1>4. Len(m) = Len(l) + 1 /\ \A i \in 1..(Len(l) + 1) : m[i].no = q[i].no
  BY <1>1, <1>2, <1>3
<1>5. \A i \in 1..Len(l) : m[i].no = l[i].no
  BY <1>2, <1>4
<1>6. m[Len(l) + 1].no = accepted + 1
  BY <1>2, <1>4
<1> QED BY <1>4, <1>5, <1>6, TokenSaved DEF l, m

(* A token is saved while a lookahead is active, else handed over. *)
LEMMA PassOnMoves ==
  ASSUME SInv, QueueInv, CanRead, NEW t \in Tokens, PassOn(t, lookahead'),
         lookahead' \in {0, 1}, lookahead' = 0 => lookahead = 0
  PROVE  Moves
<1> DEFINE tk == Numbered(t)
<1>1. tk \in SavedTokens /\ tk.no = accepted + 1
  <2>1. tk \in SavedTokens
    BY TokensAre DEF SInv
  <2> QED BY <2>1 DEF Numbered
<1>2. accepted' = accepted + 1
  BY DEF PassOn
<1> HIDE DEF tk
<1>3. CASE lookahead' = 1
  <2>1. lah' = savetoken(lah, tk) /\ UNCHANGED out
    BY <1>3 DEF PassOn, tk
  <2>2. lah'.list \in {Append(lah.list, tk), RenamedHead(Append(lah.list, tk), t)}
    BY <2>1 DEF savetoken
  <2> QED BY <1>1, <1>2, <1>3, <2>1, <2>2, QueueGrows DEF SInv
<1>4. CASE lookahead' = 0
  <2>1. out' = Append(out, tk) /\ UNCHANGED lah
    BY <1>4 DEF PassOn, return_token, tk
  <2>2. lah.list = << >>
    BY <1>4 DEF QueueInv
  <2> QED BY <1>1, <1>2, <2>1, <2>2, TokenPassed DEF SInv
<1> QED BY <1>3, <1>4

(* dupyy. *)
LEMMA DupyyMoves ==
  ASSUME SInv, QueueInv, CanRead, NEW t \in Tokens, dupyy(t, lookahead'),
         lookahead' \in {0, 1}, lookahead' = 0 => lookahead = 0
  PROVE  Moves
<1>1. CASE SaveForPreprocessor(t) \/ ReadValue
  BY <1>1, NothingMoves DEF SaveForPreprocessor, ReadValue, parser
<1>2. CASE PassOn(t, lookahead')
  BY <1>2, PassOnMoves
<1> QED BY <1>1, <1>2 DEF dupyy

(* The rules that leave the tokens alone. *)
LEMMA StillMoves ==
  ASSUME QueueInv, UNCHANGED <<queue, parser>>
  PROVE  Moves
BY NothingMoves DEF queue, parser

(* The rules of INITIAL. *)
LEMMA TextMoves ==
  ASSUME SInv, QueueInv, Text
  PROVE  Moves
<1> DEFINE t == Tok
<1>1. start = "INITIAL" /\ CanRead /\ lookahead \in {0, 1}
  BY DEF Text, Match, SInv, StartInv
<1>2. t \in Tokens
  BY <1>1, LexemeRead DEF SInv
<1>3. \/ ReadWildPointer
      \/ WhiteSpace(t) \/ SkipStart(t) \/ PlainToken(t) \/ Percent(t)
      \/ OpenLookahead(t) \/ KeyWordAsPlain(t) \/ EndToken(t)
      \/ Colon(t) \/ PlainSemicolon(t) \/ EndOfStatement(t)
  BY DEF Text
<1> HIDE DEF t
<1>4. CASE ReadWildPointer \/ WhiteSpace(t) \/ SkipStart(t) \/ Percent(t)
  BY <1>4, StillMoves DEF ReadWildPointer, WhiteSpace, SkipStart, Percent
<1>5. CASE PlainToken(t)
  <2>1. dupyy(t, lookahead) /\ lookahead' = lookahead
    BY <1>5 DEF PlainToken
  <2> QED BY <1>1, <1>2, <2>1, DupyyMoves
<1>6. CASE OpenLookahead(t)
  <2> DEFINE u == SpecialKeyWord[t].opens
  <2>1. u \in Tokens
    BY <1>6, NamedTokens DEF OpenLookahead
  <2>2. lookahead' = 1 /\ (ReadValue \/ PassOn(u, 1))
    BY <1>6 DEF OpenLookahead
  <2> HIDE DEF u
  <2>3. dupyy(u, lookahead')
    BY <2>2 DEF dupyy
  <2> QED BY <1>1, <2>1, <2>2, <2>3, DupyyMoves
<1>7. CASE KeyWordAsPlain(t)
  <2>1. PICK u \in Tokens : dupyy(u, lookahead)
    BY <1>7, NamedTokens DEF KeyWordAsPlain
  <2>2. lookahead' = lookahead
    BY <1>7 DEF KeyWordAsPlain
  <2> QED BY <1>1, <2>1, <2>2, DupyyMoves
<1>8. CASE EndToken(t)
  <2> DEFINE u == "END"
  <2>1. u \in Tokens
    BY NamedTokens
  <2>2. lookahead' = (IF ctx.gather = 0 THEN 1 ELSE lookahead) /\ dupyy(u, lookahead')
    BY <1>8 DEF EndToken
  <2> HIDE DEF u
  <2> QED BY <1>1, <2>1, <2>2, DupyyMoves
<1>9. CASE Colon(t)
  <2> DEFINE u == "COLON"
             tk == Numbered(u)
  <2>1. u \in Tokens /\ lookahead' = lookahead
    BY <1>2, <1>9 DEF Colon
  <2>2. CASE SaveForPreprocessor(u) \/ PassOn(u, lookahead)
    <3> HIDE DEF u
    <3>1. dupyy(u, lookahead')
      BY <2>1, <2>2 DEF dupyy
    <3> QED BY <1>1, <2>1, <3>1, DupyyMoves
  <2>3. CASE ~(SaveForPreprocessor(u) \/ PassOn(u, lookahead))
    <3> DEFINE q == savetoken(lah, tk)
               v == "VARNAME"
    <3>1. /\ lookahead = 1 /\ lah' = [q EXCEPT !.list[1].tok = v]
          /\ accepted' = accepted + 1 /\ UNCHANGED out
      BY <1>9, <2>3 DEF Colon
    <3> HIDE DEF u, v
    <3>2. tk \in SavedTokens /\ tk.no = accepted + 1
      <4>1. tk \in SavedTokens
        BY <1>1, <2>1, TokensAre DEF SInv
      <4> QED BY <4>1 DEF Numbered
    <3> HIDE DEF tk
    <3>3. lah'.list \in {Append(lah.list, tk), RenamedHead(Append(lah.list, tk), v)}
      BY <3>1 DEF savetoken, RenamedHead
    <3>4. lookahead' # 0 /\ accepted' = accepted + 1 /\ UNCHANGED out
      BY <2>1, <3>1
    <3> QED BY <3>2, <3>3, <3>4, QueueGrows DEF SInv
  <2> QED BY <2>2, <2>3
<1>10. CASE PlainSemicolon(t)
  <2> DEFINE u == "SEMICOLON"
  <2>1. u \in Tokens /\ lookahead = 0 /\ lookahead' = lookahead /\ PassOn(u, 0)
    BY <1>2, <1>10 DEF PlainSemicolon
  <2> HIDE DEF u
  <2>2. PassOn(u, lookahead')
    BY <2>1
  <2> QED BY <1>1, <2>1, <2>2, PassOnMoves
<1>11. CASE EndOfStatement(t)
  <2> DEFINE u == "SEMICOLON"
             tk == Numbered(u)
             q == savetoken(lah, tk)
  <2>1. /\ u \in Tokens /\ lookahead = 1 /\ lookahead' = lookahead
        /\ lah' = [q EXCEPT !.list = fixKeywordTokens(@, prev_token)]
        /\ accepted' = accepted + 1 /\ UNCHANGED out
    BY <1>2, <1>11 DEF EndOfStatement
  <2> HIDE DEF u
  <2>2. tk \in SavedTokens /\ tk.no = accepted + 1
    <3>1. tk \in SavedTokens
      BY <1>1, <2>1, TokensAre DEF SInv
    <3> QED BY <3>1 DEF Numbered
  <2> HIDE DEF tk
  <2> DEFINE a == Append(lah.list, tk)
             v == FixedToken(a[1].tok, checkstmt(a, prev_token))
  <2>3. q.list = a
    BY DEF savetoken
  <2>4. fixKeywordTokens(a, prev_token) = [a EXCEPT ![1].tok = v]
    BY DEF fixKeywordTokens
  <2>5. lah'.list = fixKeywordTokens(q.list, prev_token)
    <3> DEFINE l == fixKeywordTokens(q.list, prev_token)
    <3>1. lah' = [q EXCEPT !.list = l] /\ "list" \in DOMAIN q
      BY <2>1 DEF savetoken
    <3> HIDE DEF q, l
    <3>2. lah'.list = l
      BY <3>1
    <3> QED BY <3>2 DEF l
  <2> HIDE DEF q, v
  <2>6. lah'.list \in {Append(lah.list, tk), RenamedHead(Append(lah.list, tk), v)}
    BY <2>3, <2>4, <2>5 DEF RenamedHead
  <2> QED BY <2>1, <2>2, <2>6, QueueGrows DEF SInv
<1> QED BY <1>3, <1>4, <1>5, <1>6, <1>7, <1>8, <1>9, <1>10, <1>11

(* The rule for ";" while tokens are gathered. *)
LEMMA PreprocessorMoves ==
  ASSUME QueueInv, evaluatePreprocessor
  PROVE  Moves
<1>1. UNCHANGED <<queue, parser>>
  <2>1. CASE DiscardStatement \/ DiscardLabelled \/ BadLabel \/ CollectStatement \/ DoWithoutVariable
    BY <2>1 DEF DiscardStatement, DiscardLabelled, BadLabel, CollectStatement, DoWithoutVariable
  <2>2. ASSUME NEW r, \/ StatementFails(r) \/ StatementDone(r) \/ IncludeFile(r)
                      \/ GotoForward(r) \/ GotoBackward(r) \/ GotoInVariable(r)
                      \/ UseStaleString(r) \/ GotoAnywhere(r) \/ GotoRefused(r)
                      \/ DoBegins(r) \/ DoEnds(r)
        PROVE  UNCHANGED <<queue, parser>>
    BY <2>2 DEF StatementFails, StatementDone, IncludeFile, GotoForward, GotoBackward,
                GotoInVariable, UseStaleString, GotoAnywhere, GotoRefused, DoBegins, DoEnds
  <2> QED BY <2>1, <2>2 DEF evaluatePreprocessor
<1> QED BY <1>1, StillMoves

(* The tokens of a loop, while no lookahead is active. *)
LEMMA DoLoopMoves ==
  ASSUME SInv, QueueInv, LoopsOutsideLookahead, DoLoop
  PROVE  Moves
<1>1. CASE LoopCrashes \/ LoopDone \/ LoopStatement \/ LoopExpands
  BY <1>1, StillMoves DEF LoopCrashes, LoopDone, LoopStatement, LoopExpands
<1>2. CASE LoopReturns
  <2> DEFINE tk == [lex |-> LoopToken.lex, tok |-> LoopToken.tok, no |-> accepted']
  <2>1. /\ accepted' = accepted + 1 /\ out' = Append(out, tk) /\ UNCHANGED lah
        /\ start = "PP_DOLOOP"
    BY <1>2 DEF LoopReturns, LoopPlain, LoopGoesOn, InLoop, queue
  <2>2. tk.no = accepted + 1
    BY <2>1
  <2>3. lah.list = << >>
    BY <2>1 DEF LoopsOutsideLookahead, QueueInv
  <2> HIDE DEF tk
  <2> QED BY <2>1, <2>2, <2>3, TokenPassed DEF SInv
<1> QED BY <1>1, <1>2 DEF DoLoop

(* The saved tokens. *)
LEMMA ReturnedMoves ==
  ASSUME SInv, QueueInv, Returned
  PROVE  Moves
<1>1. CASE ReturnSavedToken
  <2>1. /\ lah.list # << >> /\ out' = Append(out, Head(lah.list))
        /\ lah' = [lah EXCEPT !.list = Tail(@)] /\ UNCHANGED <<accepted, lookahead>>
    BY <1>1 DEF ReturnSavedToken, return_token
  <2>2. lah'.list = Tail(lah.list)
    BY <2>1 DEF SInv, TokensInv
  <2> QED BY <2>1, <2>2, TokenReturned DEF SInv
<1>2. CASE AllReturned
  <2>1. lah.list = << >> /\ lah' = [lah EXCEPT !.count = 0] /\ UNCHANGED <<accepted, out>>
    BY <1>2 DEF AllReturned, parser
  <2>2. lah'.list = lah.list
    BY <2>1 DEF SInv, TokensInv
  <2> QED BY <2>1, <2>2, NothingMoves
<1>3. CASE NoSavedTokens
  BY <1>3, StillMoves DEF NoSavedTokens
<1> QED BY <1>1, <1>2, <1>3 DEF Returned

(* Every step moves the tokens on as the channel does. *)
LEMMA StepMoves ==
  ASSUME SInv, QueueInv, LoopsOutsideLookahead, [Next]_vars
  PROVE  Moves
<1>1. CASE Skipping \/ Eof \/ Finished \/ UNCHANGED vars
  BY <1>1, StillMoves DEF Skipping, Eof, EofWhileGathering, EofOfBuffer, EofInLookahead, EofOfMain,
                          Finished, vars
<1> QED BY <1>1, TextMoves, PreprocessorMoves, DoLoopMoves, ReturnedMoves DEF Next

(* As long as no loop is repeated within an open lookahead, the tokens that *)
(* the preprocessor leaves reach the parser once each and in their order:   *)
(* of the main file, of %INCLUDE files, of the values of variables, of      *)
(* what a %GOTO repeats and of the bodies of loops.                         *)
THEOREM DeliversInOrderHolds == Spec /\ []LoopsOutsideLookahead => DeliversInOrder
<1>1. Init => QueueInv /\ Channel!Init
  <2> SUFFICES ASSUME Init PROVE QueueInv /\ Channel!Init
    OBVIOUS
  <2>1. accepted = 0 /\ out = << >> /\ lah.list = << >>
    BY DEF Init
  <2>2. LastNo = 0 /\ Len(lah.list) = 0
    BY <2>1 DEF LastNo
  <2> QED BY <2>1, <2>2 DEF QueueInv, Channel!Init
<1>2. SInv /\ QueueInv /\ LoopsOutsideLookahead /\ [Next]_vars
        => QueueInv' /\ [Channel!Next]_Channel!vars
  BY StepMoves DEF Moves
<1> QED BY <1>1, <1>2, SInvHolds, PTL DEF Spec, DeliversInOrder, Channel!InOrder

=============================================================================
