------------------------------- MODULE Scanner -------------------------------
(***************************************************************************)
(* The scanner of pl1-scanner.l: the token based lookahead, the            *)
(* preprocessor, the stack of input buffers and the repetition of %DO.     *)
(* A step is one flex rule.                                                *)
(*                                                                         *)
(* A text is a sequence of lexemes.  What stands between the '%' or the    *)
(* ':' and the ';' of a preprocessor statement is a single lexeme, whose   *)
(* entry in the lexicon says what pl1pp-parser.y makes of it; a position   *)
(* in a text stands for an offset.                                         *)
(***************************************************************************)
EXTENDS KeywordLookahead, PPVariables

CONSTANTS
  Lexicon,   \* for each lexeme: tok, the token the flex rules recognise;
             \* first, its first character where that is a '%' or a ';';
             \* stmt, its preprocessor statement
  Sources,   \* the programs: a main text, the %INCLUDE files that exist,
             \* and stale, what malloc leaves in ppreturn->type for it
  Number     \* the lexemes that stand for numbers, for those within its
             \* domain; a program that shows another is beyond the bound

(* "NONE" is a number that is none of the LIT_ constants.  The type of      *)
(* %INCLUDE or of a %GOTO forwards comes with a string, that of a %GOTO     *)
(* backwards with a location that nobody has set.                           *)
StaleTypes == {"NONE", "ERROR", "LOOP_DO", "LOOP_END", "STALE_STRING", "STALE_LOCATION"}

Lexemes == DOMAIN Lexicon

(* What stands for a ';' starts with one, and the values in statements are  *)
(* texts and numbers.                                                       *)
ASSUME LexiconAssumption ==
  /\ "BLANK" \in Lexemes
  /\ \A i \in DOMAIN Number : Number[i] \in Lexemes
  /\ \A x \in Lexemes :
       LET entry == Lexicon[x]
       IN  /\ entry.tok = "SEMICOLON" => entry.first = "SEMICOLON"
           /\ entry.stmt.op \in {"ASSIGN_STR", "REPLACE_STR"} => entry.stmt.value \in Seq(Lexemes)
           /\ entry.stmt.op = "DO" => entry.stmt.from \in Int /\ entry.stmt.to \in Int

ASSUME SourcesAssumption ==
  \A s \in Sources :
    /\ s.main \in Seq(Lexemes) /\ \A f \in DOMAIN s.files : s.files[f] \in Seq(Lexemes)
    /\ s.stale \in StaleTypes

VARIABLES
  source,        \* the program: main, files, stale
  cur,           \* the current buffer: kind, text, and pos lexemes read
  stack,         \* currentScannerBufferList
  includeCount,
  start,         \* the flex start condition; "DONE" after yyterminate, and
                 \* "CRASH" after the use of a wild or a null pointer
  conds,         \* flex's stack of start conditions
  ctx,           \* ppCurrentContext: an environment of PPVariables with
                 \* gather, scanForLabel and loopCur (0 for NULL)
  pp,            \* ppSaveTokensList
  collected,     \* ppCollectedTokensList; it is empty only while it is NULL
  lookahead,     \* the flag lookahead
  lah,           \* lahSaveTokensList: list, and count, -1 while it is NULL
  prev_token,
  accepted,      \* history: number of tokens that are not for the preprocessor
  out            \* history: the tokens the parser got

input  == <<cur, stack, includeCount>>
ppVars == <<ctx, pp, collected>>
queue  == <<lookahead, lah>>
parser == <<prev_token, accepted, out>>
vars   == <<source, input, start, conds, ppVars, queue, parser>>

(* newppContextAnchor: ppreturn->type is what malloc returned. *)
newppContextAnchor(stale) ==
  [dcl |-> << >>, labels |-> ppPushDCLLabelStack(<< >>),
   dolevel |-> 0, loop |-> [var |-> "NONE", from |-> -1, to |-> -1],
   type |-> stale, arg |-> "NONE", at |-> 0, ok |-> TRUE,
   gather |-> 0, scanForLabel |-> "NONE", loopCur |-> 0]

Init ==
  /\ source \in Sources
  /\ cur = [kind |-> "MAIN", text |-> source.main, pos |-> 0]
  /\ stack = << >>
  /\ includeCount = 0
  /\ start = "INITIAL"
  /\ conds = <<"INITIAL">>
  /\ ctx = newppContextAnchor(source.stale)
  /\ pp = << >>
  /\ collected = << >>
  /\ lookahead = 0
  /\ lah = [list |-> << >>, count |-> -1]
  /\ prev_token = "NONE"
  /\ accepted = 0
  /\ out = << >>

-----------------------------------------------------------------------------
CanRead  == cur.pos < Len(cur.text)
Lexeme   == cur.text[cur.pos + 1]
Tok      == Lexicon[Lexeme].tok
Advanced == [cur EXCEPT !.pos = @ + 1]

(* A rule of INITIAL matches the next lexeme.  The actions for these rules  *)
(* have the token of the lexeme as their argument t.                        *)
Match == start = "INITIAL" /\ CanRead

(* stackCurrentBuffer, includeCount++ and the switch to a new buffer; old is *)
(* the state of the current one.                                            *)
stackCurrentBuffer(old, kind, text) ==
  /\ stack' = Append(stack, old)
  /\ includeCount' = includeCount + 1
  /\ cur' = [kind |-> kind, text |-> text, pos |-> 0]

(* The next lexeme of the text, read with the kind of token it is.          *)
Here(t)     == [lex |-> Lexeme, tok |-> t, at |-> cur.pos]
Numbered(t) == [lex |-> Lexeme, tok |-> t, no |-> accepted + 1]

(* savetoken: a list that has run empty starts to count anew.               *)
savetoken(l, tk) ==
  [list |-> Append(l.list, tk), count |-> IF l.list = << >> THEN 1 ELSE l.count + 1]

(* ppGetValueAsString, as the set of texts: an element that was never       *)
(* assigned has any number, or a null pointer (see ReadWildPointer).        *)
ppGetValueAsString(w) ==
  IF w.type = "FIXED"
  THEN {<<Number[i]>> : i \in {n \in DOMAIN Number : w.assigned => n = w.number}}
  ELSE {w.string}

(* Slip: %DEACTIVATE is ignored. *)
Active_Declared(x) == Declared(ctx, x)

Active(x) == Declared(ctx, x) /\ ctx.dcl[x].active

(* The texts by which ppExpandTokenText may replace x; << >> if it is left. *)
ppExpandTokenText(x) == IF Active(x) THEN ppGetValueAsString(ctx.dcl[x]) ELSE {<< >>}

return_token(tk) == prev_token' = tk.tok /\ out' = Append(out, tk)

(* The three outcomes of the macro dupyy, where the flag lookahead is la:   *)
(* the token is for the preprocessor, it names a variable whose value is    *)
(* to be read, or it is for the parser.                                     *)
SaveForPreprocessor(t) ==
  /\ ctx.gather = 1
  /\ pp' = Append(pp, Here(t))
  /\ cur' = Advanced
  /\ UNCHANGED <<stack, includeCount, lah, parser>>

ReadValue ==
  /\ ctx.gather = 0
  /\ \E value \in ppExpandTokenText(Lexeme) :
       value # << >> /\ stackCurrentBuffer(Advanced, "PPVAR", value)
  /\ UNCHANGED <<pp, lah, parser>>

PassOn(t, la) ==
  /\ ctx.gather = 0 /\ << >> \in ppExpandTokenText(Lexeme)
  /\ IF la = 1 THEN lah' = savetoken(lah, Numbered(t)) /\ UNCHANGED <<prev_token, out>>
     ELSE return_token(Numbered(t)) /\ UNCHANGED lah
  /\ cur' = Advanced
  /\ accepted' = accepted + 1
  /\ UNCHANGED <<stack, includeCount, pp>>

dupyy(t, la) == SaveForPreprocessor(t) \/ ReadValue \/ PassOn(t, la)

-----------------------------------------------------------------------------
(* The rule for white space. *)
WhiteSpace(t) ==
  /\ t = "WSP"
  /\ cur' = Advanced
  /\ UNCHANGED <<source, stack, includeCount, start, conds, ppVars, queue, parser>>

(* What is not for the parser: comments, and *PROCESS up to its ';', also   *)
(* while tokens are gathered.                                               *)
Skips == [COMMENT |-> "COMMENT", PROCESS |-> "PP_SKIP"]

SkipStart(t) ==
  /\ t \in DOMAIN Skips
  /\ cur' = Advanced
  /\ start' = Skips[t]
  /\ UNCHANGED <<source, stack, includeCount, conds, ppVars, queue, parser>>

SkipEnd == [COMMENT |-> "COMMENT_END", PP_SKIP |-> "SEMICOLON"]

(* The rules of COMMENT and PP_SKIP. *)
Skipping ==
  /\ start \in DOMAIN SkipEnd /\ CanRead
  /\ cur' = Advanced
  /\ start' = IF Tok = SkipEnd[start] THEN "INITIAL" ELSE start
  /\ UNCHANGED <<source, stack, includeCount, conds, ppVars, queue, parser>>

(* The rules that do nothing but dupyy; a string constant is one lexeme. *)
PlainToken(t) ==
  /\ t \notin SpecialKeyWords \union
              {"WSP", "COMMENT", "PROCESS", "PERCENT", "END", "COLON", "SEMICOLON"}
  /\ dupyy(t, lookahead)
  /\ UNCHANGED <<source, start, conds, ctx, collected, lookahead>>

(* The rules that use specialKeyWord: the keyword opens a lookahead. *)
OpenLookahead(t) ==
  /\ t \in SpecialKeyWords
  /\ ctx.gather = 0 /\ lookahead = 0 /\ enable_lookahead(prev_token, t)
  /\ lookahead' = 1
  /\ ReadValue \/ PassOn(SpecialKeyWord[t].opens, 1)
  /\ UNCHANGED <<source, start, conds, ctx, collected>>

(* Slip: a keyword overtakes the tokens the lookahead has saved. *)
KeyWordAsPlain_AtOnce(t) ==
  /\ t \in SpecialKeyWords
  /\ ctx.gather = 1 \/ lookahead = 1 \/ ~enable_lookahead(prev_token, t)
  /\ dupyy(IF ctx.gather = 1 /\ t = "DECLARE" THEN "DECLARE" ELSE SpecialKeyWord[t].plain, 0)
  /\ UNCHANGED <<source, start, conds, ctx, collected, lookahead>>

(* The same rules otherwise.  %DECLARE is the preprocessor's. *)
KeyWordAsPlain(t) ==
  /\ t \in SpecialKeyWords
  /\ ctx.gather = 1 \/ lookahead = 1 \/ ~enable_lookahead(prev_token, t)
  /\ dupyy(IF ctx.gather = 1 /\ t = "DECLARE" THEN "DECLARE" ELSE SpecialKeyWord[t].plain,
           lookahead)
  /\ UNCHANGED <<source, start, conds, ctx, collected, lookahead>>

EndToken(t) ==
  /\ t = "END"
  /\ lookahead' = IF ctx.gather = 0 THEN 1 ELSE lookahead
  /\ dupyy("END", lookahead')
  /\ UNCHANGED <<source, start, conds, ctx, collected>>

Colon(t) ==
  /\ t = "COLON"
  /\ UNCHANGED <<source, stack, includeCount, conds, ctx, collected, lookahead>>
  /\ \/ /\ ctx.gather = 1 \/ lookahead = 0 \/ savetoken(lah, Here("COLON")).count # 2
        /\ SaveForPreprocessor("COLON") \/ PassOn("COLON", lookahead)
        /\ UNCHANGED start
     \/ /\ ctx.gather = 0 /\ lookahead = 1
        /\ LET q == savetoken(lah, Numbered("COLON")) IN
             /\ q.count = 2
             /\ lah' = [q EXCEPT !.list[1].tok = "VARNAME"]
        /\ cur' = Advanced
        /\ accepted' = accepted + 1
        /\ start' = "LEXRETURN"
        /\ UNCHANGED <<pp, prev_token, out>>

PlainSemicolon(t) ==
  /\ t = "SEMICOLON"
  /\ lookahead = 0
  /\ PassOn("SEMICOLON", 0)
  /\ UNCHANGED <<source, start, conds, ctx, collected, lookahead>>

EndOfStatement(t) ==
  /\ t = "SEMICOLON"
  /\ ctx.gather = 0 /\ lookahead = 1
  /\ LET q == savetoken(lah, Numbered("SEMICOLON"))
     IN  lah' = [q EXCEPT !.list = fixKeywordTokens(@, prev_token)]
  /\ cur' = Advanced
  /\ accepted' = accepted + 1
  /\ start' = "LEXRETURN"
  /\ UNCHANGED <<source, stack, includeCount, conds, ppVars, lookahead, prev_token, out>>

(* The rule for '%' starts to gather a preprocessor statement. *)
Percent(t) ==
  /\ t = "PERCENT"
  /\ ctx' = [ctx EXCEPT !.gather = 1]
  /\ pp' = Append(pp, Here("PERCENT"))
  /\ cur' = Advanced
  /\ UNCHANGED <<source, stack, includeCount, start, conds, collected, queue, parser>>

(* An active CHAR variable that was never assigned: its value is any        *)
(* pointer.                                                                 *)
Wild(x) == Active(x) /\ ctx.dcl[x].type = "CHAR" /\ ~ctx.dcl[x].assigned

ReadWildPointer ==
  /\ ctx.gather = 0 /\ Wild(Lexeme)
  /\ start' = "CRASH"
  /\ UNCHANGED <<source, input, conds, ppVars, queue, parser>>

-----------------------------------------------------------------------------
(* The preprocessor: the rule for ';' while tokens are gathered.            *)

FirstOf(q, t) == CHOOSE i \in 1..Len(q) : q[i].tok = t /\ \A j \in 1..(i - 1) : q[j].tok # t

Has(q, t) == \E i \in 1..Len(q) : q[i].tok = t

(* ppDetectStmtType of a list that ends with a ';'. *)
ppDetectStmtType(q) ==
  LET next == q[FirstOf(q, IF Has(q, "COLON") THEN "COLON" ELSE "PERCENT") + 1].tok
  IN  IF ~Has(q, "PERCENT") THEN -1
      ELSE   (IF Has(q, "COLON") THEN 100 ELSE 0)
           + (CASE next = "DO" -> 2 [] next = "END" -> 3 [] OTHER -> 0)

(* The tokens from the '%' on: ppScanTokensForChar with PP_DISPOSE. *)
FromPercent(q) == SubSeq(q, FirstOf(q, "PERCENT"), Len(q))

(* ppProcessLabelStmt: the names between the '%' and the ':' become labels,  *)
(* each at its own place.                                                   *)
LabelNames(q) ==
  LET p == FromPercent(q)
  IN  {p[i] : i \in {j \in 2..(FirstOf(p, "COLON") - 1) : p[j].tok # "COMMA"}}

CanDefineLabels(e, q) ==
  Has(FromPercent(q), "COLON") /\ \A n \in LabelNames(q) : ~Declared(e, n.lex)

DefineLabels(e, q) ==
  LET At(name) == (CHOOSE n \in LabelNames(q) :
                     n.lex = name /\ \A m \in LabelNames(q) : m.lex = name => m.at <= n.at).at
  IN  [e EXCEPT !.labels[Len(e.labels)] =
         [x \in DOMAIN @ \union {n.lex : n \in LabelNames(q)} |->
            IF x \in {n.lex : n \in LabelNames(q)} THEN At(x) ELSE @[x]]]

(* What the grammar of pl1pp-parser.y accepts: '%', a label or none, the     *)
(* statement or nothing, and ';'.                                           *)
WellFormed(q) ==
  q[1].tok = "PERCENT" /\ (Len(q) <= 3 \/ (Len(q) <= 5 /\ q[3].tok = "COLON"))

(* The statement in q; s.op is LISTING if there is none. *)
StatementIn(q) ==
  LET body == IF Len(q) > 3 THEN SubSeq(q, 4, Len(q)) ELSE Tail(q)
  IN  IF Len(body) = 1 THEN [op |-> "LISTING"] ELSE Lexicon[body[1].lex].stmt

(* pl1pp_parser: the label is defined, at the '%', after its statement ran. *)
pl1pp_parser(q, e) ==
  LET ran == pl1ppstmt(StatementIn(q), e, DOMAIN source.files)
  IN  IF ~WellFormed(q) THEN Failed(e)
      ELSE IF Len(q) > 3 /\ ran.ok THEN ppDefineLabel(ran, q[2].lex, q[1].at)
      ELSE ran

resetCurrentContext(e) == [e EXCEPT !.type = "NONE"]

(* ';' ends the tokens gathered so far. *)
Gathered == Append(pp, Here("SEMICOLON"))

StatementGathered == Match /\ ctx.gather = 1 /\ Tok = "SEMICOLON"

Labelled == ppDetectStmtType(Gathered) >= 100

Sought == Has(FromPercent(Gathered), "COLON") /\ \E n \in LabelNames(Gathered) : n.lex = ctx.scanForLabel

(* emptyAnyTokenList, and on to what follows the ';'. *)
Emptied == pp' = << >> /\ cur' = Advanced

(* Slip: the flag to gather is reset as it is after other statements. *)
DiscardStatement_EndGathering ==
  /\ ctx.scanForLabel # "NONE" /\ ~Labelled
  /\ Emptied
  /\ ctx' = [resetCurrentContext(ctx) EXCEPT !.gather = 0]
  /\ UNCHANGED <<source, stack, includeCount, start, conds, collected, queue, parser>>

(* A statement without a label is skipped while a label is looked for. *)
DiscardStatement ==
  /\ ctx.scanForLabel # "NONE" /\ ~Labelled
  /\ Emptied
  /\ ctx' = resetCurrentContext(ctx)
  /\ UNCHANGED <<source, stack, includeCount, start, conds, collected, queue, parser>>

(* So is one with another label, which is noted. *)
DiscardLabelled ==
  /\ ctx.scanForLabel # "NONE" /\ Labelled /\ ~Sought
  /\ CanDefineLabels(ctx, Gathered)
  /\ Emptied
  /\ ctx' = resetCurrentContext(DefineLabels(ctx, Gathered))
  /\ UNCHANGED <<source, stack, includeCount, start, conds, collected, queue, parser>>

(* return _SCANNER_ERROR_: the parser stops. *)
BadLabel ==
  /\ ctx.scanForLabel # "NONE" /\ Labelled
  /\ ~CanDefineLabels(ctx, Gathered)
  /\ start' = "MUST_TERMINATE"
  /\ UNCHANGED <<source, input, conds, ppVars, queue, parser>>

(* The statement to be evaluated, and the context it is evaluated in: no    *)
(* label is looked for, or the statement has it.                            *)
Arrived == ctx.scanForLabel # "NONE" => Labelled /\ Sought /\ CanDefineLabels(ctx, Gathered)

Stmt == IF ctx.scanForLabel = "NONE" THEN Gathered ELSE FromPercent(Gathered)

Context ==
  IF ctx.scanForLabel = "NONE" THEN ctx
  ELSE [DefineLabels(ctx, Gathered) EXCEPT !.scanForLabel = "NONE"]

(* The body of a %DO is kept for later. *)
IsCollected ==
  \/ ppDetectStmtType(Stmt) < 0
  \/ ppDetectStmtType(Stmt) = 0 /\ ctx.dolevel > 0

CollectStatement ==
  /\ Arrived /\ IsCollected
  /\ collected' = collected \o Stmt
  /\ Emptied
  /\ ctx' = resetCurrentContext(Context)
  /\ UNCHANGED <<source, stack, includeCount, start, conds, queue, parser>>

(* `%DO;' hands a null pointer to strdup. *)
DoWithoutVariable ==
  /\ Arrived /\ ~IsCollected
  /\ WellFormed(Stmt) /\ StatementIn(Stmt).op = "DO_GROUP"
  /\ start' = "CRASH"
  /\ UNCHANGED <<source, input, conds, ppVars, queue, parser>>

(* The context after the statement ran.  The actions for what follows have  *)
(* it as their argument r: evaluatePreprocessor acts on r.type.             *)
Result == pl1pp_parser(Stmt, Context)

Evaluate ==
  /\ Arrived /\ ~IsCollected
  /\ ~(WellFormed(Stmt) /\ StatementIn(Stmt).op = "DO_GROUP")

StatementFails(r) ==
  /\ ~r.ok \/ r.type = "ERROR"
  /\ start' = "MUST_TERMINATE"
  /\ UNCHANGED <<source, input, conds, ppVars, queue, parser>>

Succeeds(r, type) == r.ok /\ r.type = type

(* The statement asks nothing of the scanner. *)
StatementDone(r) ==
  /\ Succeeds(r, "NONE")
  /\ ctx' = [r EXCEPT !.gather = 0]
  /\ Emptied
  /\ UNCHANGED <<source, stack, includeCount, start, conds, collected, queue, parser>>

IncludeFile(r) ==
  /\ Succeeds(r, "INCLUDE_FILE_NAME")
  /\ stackCurrentBuffer(Advanced, "FILE", source.files[r.arg])
  /\ ctx' = [resetCurrentContext(r) EXCEPT !.gather = 0, !.labels = ppPushDCLLabelStack(@)]
  /\ pp' = << >>
  /\ UNCHANGED <<source, start, conds, collected, queue, parser>>

GotoForward(r) ==
  /\ Succeeds(r, "GOTO_LABEL")
  /\ ctx' = [resetCurrentContext(r) EXCEPT !.scanForLabel = r.arg]
  /\ Emptied
  /\ UNCHANGED <<source, stack, includeCount, start, conds, collected, queue, parser>>

GotoBackward(r) ==
  /\ Succeeds(r, "GOTO_LOCATION") /\ cur.kind # "PPVAR"
  /\ ctx' = [resetCurrentContext(r) EXCEPT !.gather = 0]
  /\ cur' = [cur EXCEPT !.pos = r.at]
  /\ pp' = << >>
  /\ UNCHANGED <<source, stack, includeCount, start, conds, collected, queue, parser>>

(* The text of a variable has no file to seek in. *)
GotoInVariable(r) ==
  /\ Succeeds(r, "GOTO_LOCATION") /\ cur.kind = "PPVAR"
  /\ start' = "CRASH"
  /\ UNCHANGED <<source, input, conds, ppVars, queue, parser>>

(* What malloc returned is taken for the name of a file or a label, or is   *)
(* printed in the message for an error that is none.                        *)
UseStaleString(r) ==
  /\ Succeeds(r, "STALE_STRING") \/ (Succeeds(r, "ERROR") /\ r.arg = "NONE")
  /\ start' = "CRASH"
  /\ UNCHANGED <<source, input, conds, ppVars, queue, parser>>

(* Or it is taken for an offset, which fseek may refuse.                    *)
GotoAnywhere(r) ==
  /\ Succeeds(r, "STALE_LOCATION") /\ cur.kind # "PPVAR"
  /\ ctx' = [resetCurrentContext(r) EXCEPT !.gather = 0]
  /\ \E offset \in 0..Len(cur.text) : cur' = [cur EXCEPT !.pos = offset]
  /\ pp' = << >>
  /\ UNCHANGED <<source, stack, includeCount, start, conds, collected, queue, parser>>

GotoRefused(r) ==
  /\ Succeeds(r, "STALE_LOCATION")
  /\ start' = IF cur.kind = "PPVAR" THEN "CRASH" ELSE "MUST_TERMINATE"
  /\ UNCHANGED <<source, input, conds, ppVars, queue, parser>>

DoBegins(r) ==
  /\ Succeeds(r, "LOOP_DO")
  /\ ctx' = resetCurrentContext(r)
  /\ Emptied
  /\ UNCHANGED <<source, stack, includeCount, start, conds, collected, queue, parser>>

DoEnds(r) ==
  /\ Succeeds(r, "LOOP_END")
  /\ ctx' = [resetCurrentContext(r) EXCEPT !.gather = 0, !.loopCur = 0]
  /\ start' = "PP_DOLOOP"
  /\ Emptied
  /\ UNCHANGED <<source, stack, includeCount, conds, collected, queue, parser>>

-----------------------------------------------------------------------------
(* The rule of PP_DOLOOP, which needs a character to match and puts it back. *)

LoopVar == ctx.loop.var

(* The context once the rule has moved on, in the order of the code: an     *)
(* iteration begins, and when there is no next token, another one may.      *)
LoopAdvanced ==
  LET begins == ctx.loopCur = 0
      e == IF begins THEN ppSetIntValue(ctx, LoopVar, ctx.loop.from) ELSE ctx
      next == CASE begins /\ ctx.loop.from <= ctx.loop.to -> 1
                [] ~begins /\ ctx.loopCur < Len(collected)  -> ctx.loopCur + 1
                [] OTHER                                    -> 0
      i == IF Declared(e, LoopVar) THEN e.dcl[LoopVar].number + 1 ELSE 1
  IN  IF next # 0 THEN [e EXCEPT !.loopCur = next]
      ELSE [ppSetIntValue(e, LoopVar, i) EXCEPT !.loopCur = IF i <= ctx.loop.to THEN 1 ELSE 0]

(* Without a body there is no head to start from, and an %END that no %DO   *)
(* preceded finds no name for the variable either.                          *)
NothingToRepeat == collected = << >> /\ ctx.loop.from <= ctx.loop.to

(* The NULL of a loop without a %DO is compared with each declared name.    *)
NullCompared == LoopVar = "NONE" /\ DOMAIN ctx.dcl # {}

Repeatable == ~NothingToRepeat /\ ~NullCompared

LoopToken == collected[LoopAdvanced.loopCur]

InLoop == start = "PP_DOLOOP" /\ CanRead

LoopGoesOn == InLoop /\ Repeatable /\ LoopAdvanced.loopCur # 0

LoopCrashes ==
  /\ \/ InLoop /\ ~Repeatable
     \/ LoopGoesOn /\ Wild(LoopToken.lex)
  /\ start' = "CRASH"
  /\ UNCHANGED <<source, input, conds, ppVars, queue, parser>>

LoopDone ==
  /\ InLoop /\ Repeatable
  /\ LoopAdvanced.loopCur = 0
  /\ ctx' = LoopAdvanced
  /\ start' = "INITIAL"
  /\ UNCHANGED <<source, input, conds, pp, collected, queue, parser>>

(* Text pushed by the loop is read in INITIAL; PP_DOLOOP is to be resumed.  *)
ReadInLoop(text) ==
  /\ stackCurrentBuffer(cur, "PPVAR", text)
  /\ conds' = Append(conds, "PP_DOLOOP")
  /\ start' = "INITIAL"

(* A preprocessor statement of the body, up to its ';', is read again:      *)
(* savedtokenListStmtAsString.                                              *)
LoopStatement ==
  /\ LoopGoesOn
  /\ Lexicon[LoopToken.lex].first = "PERCENT"
  /\ LET i    == LoopAdvanced.loopCur
         last == CHOOSE j \in i..Len(collected) :
                   /\ Lexicon[collected[j].lex].first = "SEMICOLON"
                   /\ \A k \in i..(j - 1) : Lexicon[collected[k].lex].first # "SEMICOLON"
     IN  /\ ReadInLoop([k \in 1..(last - i + 1) |-> collected[i + k - 1].lex])
         /\ ctx' = [LoopAdvanced EXCEPT !.loopCur = last]
  /\ UNCHANGED <<source, pp, collected, queue, parser>>

LoopPlain == LoopGoesOn /\ Lexicon[LoopToken.lex].first # "PERCENT"

(* The value of a variable, as the assignments of the rule leave it. *)
LoopValues ==
  LET x == LoopToken.lex
  IN  IF ~Active(x) THEN {<< >>} ELSE ppGetValueAsString(LoopAdvanced.dcl[x])

LoopExpands ==
  /\ LoopPlain
  /\ \E value \in LoopValues : value # << >> /\ ReadInLoop(value)
  /\ ctx' = LoopAdvanced
  /\ UNCHANGED <<source, pp, collected, queue, parser>>

(* Any other token goes to the parser as it was saved; prev_token stays.    *)
LoopReturns ==
  /\ LoopPlain
  /\ << >> \in LoopValues
  /\ accepted' = accepted + 1
  /\ out' = Append(out, [lex |-> LoopToken.lex, tok |-> LoopToken.tok, no |-> accepted'])
  /\ ctx' = LoopAdvanced
  /\ UNCHANGED <<source, input, start, conds, pp, collected, queue, prev_token>>

-----------------------------------------------------------------------------
(* LEXRETURNSAVEDTOKENS: hasMoreSavedTokens returns the next token.         *)
ReturnSavedToken ==
  /\ start = "LEXRETURN" /\ CanRead
  /\ lah.list # << >>
  /\ return_token(Head(lah.list))
  /\ lah' = [lah EXCEPT !.list = Tail(@)]
  /\ UNCHANGED <<source, input, start, conds, ppVars, lookahead, accepted>>

(* Slip: BEGIN INITIAL is missing. *)
AllReturned_KeepState ==
  /\ start = "LEXRETURN" /\ CanRead
  /\ lah.list = << >> /\ lah.count # -1
  /\ lah' = [lah EXCEPT !.count = 0]
  /\ lookahead' = 0
  /\ UNCHANGED <<source, start, input, conds, ppVars, parser>>

AllReturned ==
  /\ start = "LEXRETURN" /\ CanRead
  /\ lah.list = << >> /\ lah.count # -1
  /\ lah' = [lah EXCEPT !.count = 0]
  /\ lookahead' = 0
  /\ start' = "INITIAL"
  /\ UNCHANGED <<source, input, conds, ppVars, parser>>

(* There is no list: a variable named like a keyword began the lookahead.   *)
NoSavedTokens ==
  /\ start = "LEXRETURN" /\ CanRead
  /\ lah.count = -1
  /\ start' = "CRASH"
  /\ UNCHANGED <<source, input, conds, ppVars, queue, parser>>

-----------------------------------------------------------------------------
(* <<EOF>>, in every start condition.                                       *)
Stopped == start \in {"DONE", "MUST_TERMINATE", "CRASH"}

AtEof == ~Stopped /\ ~CanRead

(* evaluateEOFType 1: the message names the first token gathered.           *)
EofWhileGathering ==
  /\ AtEof /\ ctx.gather = 1
  /\ start' = IF ctx.scanForLabel = "NONE" /\ pp = << >> THEN "CRASH" ELSE "MUST_TERMINATE"
  /\ UNCHANGED <<source, input, conds, ppVars, queue, parser>>

Top(s)    == s[Len(s)]
Popped(s) == SubSeq(s, 1, Len(s) - 1)

(* Slips: the count of open buffers stays, the labels go with every buffer,  *)
(* and PP_DOLOOP stays on the stack of start conditions.                    *)
EofOfBuffer_KeepCount ==
  /\ AtEof /\ ctx.gather = 0 /\ stack # << >>
  /\ cur' = Top(stack)
  /\ stack' = Popped(stack)
  /\ ctx' = IF cur.kind = "FILE" THEN [ctx EXCEPT !.labels = ppPopDCLLabelStack(@)] ELSE ctx
  /\ IF Top(conds) = "PP_DOLOOP" THEN start' = "PP_DOLOOP" /\ conds' = Popped(conds)
     ELSE UNCHANGED <<start, conds>>
  /\ UNCHANGED <<source, includeCount, pp, collected, queue, parser>>

EofOfBuffer_PopLabels ==
  /\ AtEof /\ ctx.gather = 0 /\ includeCount > 0
  /\ cur' = Top(stack)
  /\ stack' = Popped(stack)
  /\ includeCount' = includeCount - 1
  /\ ctx' = [ctx EXCEPT !.labels = ppPopDCLLabelStack(@)]
  /\ IF Top(conds) = "PP_DOLOOP" THEN start' = "PP_DOLOOP" /\ conds' = Popped(conds)
     ELSE UNCHANGED <<start, conds>>
  /\ UNCHANGED <<source, pp, collected, queue, parser>>

EofOfBuffer_KeepState ==
  /\ AtEof /\ ctx.gather = 0 /\ includeCount > 0
  /\ cur' = Top(stack)
  /\ stack' = Popped(stack)
  /\ includeCount' = includeCount - 1
  /\ ctx' = IF cur.kind = "FILE" THEN [ctx EXCEPT !.labels = ppPopDCLLabelStack(@)] ELSE ctx
  /\ start' = Top(conds)
  /\ UNCHANGED <<source, conds, pp, collected, queue, parser>>

(* evaluateEOFType 2, switchToPreviousBuffer, and back to PP_DOLOOP if that  *)
(* is on top of the stack of start conditions.                              *)
EofOfBuffer ==
  /\ AtEof /\ ctx.gather = 0 /\ includeCount > 0
  /\ cur' = Top(stack)
  /\ stack' = Popped(stack)
  /\ includeCount' = includeCount - 1
  /\ ctx' = IF cur.kind = "FILE" THEN [ctx EXCEPT !.labels = ppPopDCLLabelStack(@)] ELSE ctx
  /\ IF Top(conds) = "PP_DOLOOP" THEN start' = "PP_DOLOOP" /\ conds' = Popped(conds)
     ELSE UNCHANGED <<start, conds>>
  /\ UNCHANGED <<source, pp, collected, queue, parser>>

(* evaluateEOFType 3: unput a ' '. *)
EofInLookahead ==
  /\ AtEof /\ ctx.gather = 0 /\ includeCount = 0 /\ lookahead = 1
  /\ cur' = [cur EXCEPT !.text = Append(@, "BLANK")]
  /\ start' = "LEXRETURN"
  /\ UNCHANGED <<source, stack, includeCount, conds, ppVars, queue, parser>>

(* evaluateEOFType 4: yyterminate. *)
EofOfMain ==
  /\ AtEof /\ ctx.gather = 0 /\ includeCount = 0 /\ lookahead = 0
  /\ start' = "DONE"
  /\ UNCHANGED <<source, input, conds, ppVars, queue, parser>>

(* The parser asks for no more tokens. *)
Finished == Stopped /\ UNCHANGED vars

Text ==
  /\ Match
  /\ \/ ReadWildPointer
     \/ \E t \in {Tok} :
          \/ WhiteSpace(t) \/ SkipStart(t) \/ PlainToken(t) \/ Percent(t)
          \/ OpenLookahead(t) \/ KeyWordAsPlain(t) \/ EndToken(t)
          \/ Colon(t) \/ PlainSemicolon(t) \/ EndOfStatement(t)

evaluatePreprocessor ==
  /\ StatementGathered
  /\ \/ DiscardStatement \/ DiscardLabelled \/ BadLabel
     \/ CollectStatement \/ DoWithoutVariable
     \/ /\ Evaluate
        /\ \E r \in {Result} :
             \/ StatementFails(r) \/ StatementDone(r) \/ IncludeFile(r)
             \/ GotoForward(r) \/ GotoBackward(r) \/ GotoInVariable(r)
             \/ UseStaleString(r) \/ GotoAnywhere(r) \/ GotoRefused(r)
             \/ DoBegins(r) \/ DoEnds(r)

DoLoop == LoopCrashes \/ LoopDone \/ LoopStatement \/ LoopExpands \/ LoopReturns

Returned == ReturnSavedToken \/ AllReturned \/ NoSavedTokens

Eof == EofWhileGathering \/ EofOfBuffer \/ EofInLookahead \/ EofOfMain

Next == Text \/ Skipping \/ evaluatePreprocessor \/ DoLoop \/ Returned \/ Eof \/ Finished

(* The parser asks for the next token until it is told that there is none   *)
(* or that the scanner failed.                                              *)
Spec == Init /\ [][Next]_vars /\ WF_vars(Next)

-----------------------------------------------------------------------------
Frames == Append(stack, cur)

Frame == [kind: {"MAIN", "FILE", "PPVAR"}, text: Seq(Lexemes), pos: Nat]

Tokens == {Lexicon[x].tok : x \in Lexemes} \union OpeningTokens
            \union {"VARNAME", "ENTRY", "ENTRY_STMT", "FORMAT", "FORMAT_STMT"}

SavedTokens == [lex: Lexemes, tok: Tokens, no: Nat]
PPTokens    == [lex: Lexemes, tok: Tokens, at: Nat]

(* The state the rules share has the shape the code gives it. *)
TypeOK ==
  /\ cur \in Frame /\ stack \in Seq(Frame)
  /\ \A i \in 1..Len(Frames) : Frames[i].kind = "MAIN" <=> i = 1
  /\ includeCount = Len(stack)
  /\ start \in {"INITIAL", "COMMENT", "PP_SKIP", "LEXRETURN", "PP_DOLOOP",
                "DONE", "MUST_TERMINATE", "CRASH"}
  /\ lookahead \in {0, 1} /\ ctx.gather \in {0, 1}
  /\ lah \in [list: Seq(SavedTokens), count: Int]
  /\ accepted \in Nat /\ out \in Seq(SavedTokens)
  /\ pp \in Seq(PPTokens) /\ collected \in Seq(PPTokens)

(* Each open %INCLUDE file, and the main file, has one set of labels of its *)
(* own: the set a %GOTO searches is that of the innermost file, also while  *)
(* the text of a variable is read.                                          *)
LabelsPerFile ==
  Len(ctx.labels) = Cardinality({i \in 1..Len(Frames) : Frames[i].kind # "PPVAR"})

(* PP_DOLOOP is resumed at most once for each buffer: at the end of the     *)
(* main file nothing is left on the stack of start conditions but the       *)
(* INITIAL that is pushed first, which yy_top_state needs.                  *)
StatesNested ==
  /\ conds[1] = "INITIAL" /\ Len(conds) <= Len(Frames)
  /\ \A i \in 2..Len(conds) : conds[i] = "PP_DOLOOP"

(* The tokens of a statement are gathered and thrown away from a %GOTO to   *)
(* its label: in between no token gets to the parser or into the body of a  *)
(* %DO, no variable changes and no file is included.                        *)
SkippedHasNoEffect ==
  [][ctx.scanForLabel # "NONE" /\ ctx'.scanForLabel # "NONE" =>
       /\ ctx'.gather = 1
       /\ ctx'.dcl = ctx.dcl /\ ctx'.dolevel = ctx.dolevel
       /\ UNCHANGED <<stack, collected, accepted, out>>]_vars

(* Whatever is wrong with a program, the scanner stops. *)
EventuallyStops == <>Stopped

LastNo == IF out = << >> THEN 0 ELSE out[Len(out)].no

Channel == INSTANCE TokenChannel WITH delivered <- LastNo

(* The tokens the preprocessor leaves, whatever buffers they come from,     *)
(* reach the parser once each and in the order in which they were left.     *)
DeliversInOrder == Channel!InOrder

=============================================================================
