----------------------------- MODULE MCScanner -----------------------------
(***************************************************************************)
(* Programs for Scanner.  They are composed of fragments: statements of    *)
(* the language and of the preprocessor that between them use every rule.  *)
(***************************************************************************)
EXTENDS ScannerClaims, SequencesExt

Entry(tok, first, stmt) == [tok |-> tok, first |-> first, stmt |-> stmt]
Word(tok)               == Entry(tok, "OTHER", [op |-> "SYNTAX_ERROR"])
Statement(tok, stmt)    == Entry(tok, "OTHER", stmt)

MCLexicon ==
  [ BLANK |-> Word("WSP"),
    A |-> Word("VARNAME"), B |-> Word("VARNAME"), L |-> Word("VARNAME"), M |-> Word("VARNAME"),
    I |-> Word("VARNAME"), N |-> Word("VARNAME"), V |-> Word("VARNAME"), W |-> Word("VARNAME"),
    N0 |-> Word("NUM"), N1 |-> Word("NUM"), N2 |-> Word("NUM"), N3 |-> Word("NUM"),
    STR |-> Word("STR_CONSTANT"), PROCESS |-> Word("PROCESS"),
    DCL |-> Word("DECLARE"), PROC |-> Word("PROCEDURE"),
    DCL_V   |-> Statement("DECLARE",    [op |-> "DECLARE", names |-> <<"V", "W">>, type |-> "CHAR"]),
    DCL_I   |-> Statement("DECLARE",    [op |-> "DECLARE", names |-> <<"I">>, type |-> "FIXED"]),
    DCL_DCL |-> Statement("DECLARE",    [op |-> "DECLARE", names |-> <<"DCL">>, type |-> "CHAR"]),
    SET_DCL |-> Statement("DECLARE",    [op |-> "ASSIGN_STR", name |-> "DCL", value |-> <<"BLANK">>]),
    SET_V   |-> Statement("VARNAME",    [op |-> "ASSIGN_STR", name |-> "V", value |-> <<"A", "B">>]),
    SET_W   |-> Statement("VARNAME",    [op |-> "ASSIGN_STR", name |-> "W", value |-> <<"V", "B">>]),
    EMPTY_V |-> Statement("VARNAME",    [op |-> "ASSIGN_STR", name |-> "V", value |-> << >>]),
    GOTO_V  |-> Statement("VARNAME",    [op |-> "ASSIGN_STR", name |-> "V", value |-> <<"%", "GOTO_L", ";">>]),
    SET_I   |-> Statement("VARNAME",    [op |-> "ASSIGN_INT", name |-> "I", value |-> 2]),
    DEACT_V |-> Statement("DEACTIVATE", [op |-> "DEACTIVATE", name |-> "V"]),
    ACT_V   |-> Statement("ACTIVATE",   [op |-> "ACTIVATE", name |-> "V"]),
    DO_I    |-> Statement("DO",         [op |-> "DO", name |-> "I", from |-> 1, to |-> 2]),
    DO_NONE |-> Statement("DO",         [op |-> "DO", name |-> "I", from |-> 2, to |-> 1]),
    DO_ALL  |-> Statement("DO",         [op |-> "DO_GROUP"]),
    GOTO_L  |-> Statement("GOTO",       [op |-> "GOTO", name |-> "L"]),
    GOTO_M  |-> Statement("GOTO",       [op |-> "GOTO", name |-> "M"]),
    GOTO_X  |-> Statement("GOTO",       [op |-> "GOTO", name |-> "X"]),
    INC_F   |-> Statement("INCLUDE",    [op |-> "INCLUDE", name |-> "F"]),
    INC_G   |-> Statement("INCLUDE",    [op |-> "INCLUDE", name |-> "G"]),
    INC_X   |-> Statement("INCLUDE",    [op |-> "INCLUDE", name |-> "X"]),
    RPL_N   |-> Statement("VARNAME",    [op |-> "REPLACE_INT", name |-> "N", value |-> 3]),
    RPL_M   |-> Statement("VARNAME",    [op |-> "REPLACE_STR", name |-> "M", value |-> <<"A">>]),
    NOTE_I  |-> Statement("NOTE",       [op |-> "NOTE", level |-> "I"]),
    NOTE_E  |-> Statement("NOTE",       [op |-> "NOTE", level |-> "E"]),
    END     |-> Statement("END",        [op |-> "END"]) ]
  @@ ("%"  :> Entry("PERCENT", "PERCENT", [op |-> "SYNTAX_ERROR"]))
  @@ (";"  :> Entry("SEMICOLON", "SEMICOLON", [op |-> "SYNTAX_ERROR"]))
  @@ (":"  :> Word("COLON"))
  @@ (","  :> Word("COMMA"))
  @@ ("/*" :> Word("COMMENT"))
  @@ ("*/" :> Word("COMMENT_END"))

MCNumber == [i \in 0..3 |-> <<"N0", "N1", "N2", "N3">>[i + 1]]

MCFiles ==
  [ F |-> <<"B", ";", "BLANK">>,
    G |-> <<"%", "GOTO_L", ";", "A", ";", "%", "L", ":", ";", "%", "INC_F", ";", "V">> ]

Program(text) == [main |-> text, files |-> MCFiles, stale |-> "NONE"]

(* The programs behind prefix of at most n of the fragments. *)
Programs(prefix, fragments, n) ==
  {Program(prefix \o FlattenSeq(s)) : s \in UNION {[1..m -> fragments] : m \in 0..n}}

Declarations == <<"%", "DCL_V", ";", "%", "SET_V", ";", "%", "DCL_I", ";">>

-----------------------------------------------------------------------------
(* Programs that are right and wrong in every way the rules tell apart. *)

Fragments ==
  { <<"A", ";">>, <<"DCL", "A", ";">>, <<"END", ";">>, <<"V">>, <<"W">>, <<"I">>, <<"DCL">>,
    <<":">>, <<"BLANK">>, <<"/*", ";", "*/">>, <<"/*">>, <<"%">>,
    <<"PROCESS", "STR", ";">>,
    <<"%", "DCL_I", ";">>, <<"%", "DEACT_V", ";">>, <<"%", "SET_W", ";">>, <<"%", "NOTE_E", ";">>,
    <<"%", "DO_I", ";">>, <<"%", "END", ";">>, <<"%", "DO_NONE", ";">>, <<"%", "DO_ALL", ";">>,
    <<"%", "INC_F", ";">>, <<"%", "INC_G", ";">>, <<"%", "INC_X", ";">>,
    <<"%", "GOTO_L", ";">>, <<"%", "L", ":", ";">>, <<"%", "V", ":", ";">> }

(* In a loop, while a label is looked for, with a variable that has no      *)
(* value, and with a variable that is named like a keyword.                 *)
Beginnings ==
  { << >>, Declarations,
    Declarations \o <<"%", "DO_I", ";", "V", "I", ";">>,
    Declarations \o <<"%", "DO_I", ";", "W", ";", "%", "SET_W", ";", "%", "END", ";">>,
    Declarations \o <<"%", "GOTO_L", ";", "A", ";">>,
    Declarations \o <<"%", "L", ":", ";", "%", "GOTO_V", ";">>,
    <<"%", "DCL_DCL", ";", "%", "SET_DCL", ";">> }

(* A program that goes back to a label runs for ever, unless an error stops *)
(* it; in Again that is the second declaration of V.                        *)
Again ==
  <<"%", "GOTO_M", ";", "%", "L", ":", ";", "%", "DCL_V", ";", "A", ";", "%", "M", ":", ";",
    "%", "GOTO_L", ";">>

(* A %DO that nobody wrote and whose variable is NULL: malloc left its type. *)
NullLoop  == <<"%", "L", ":", ";", "A", ";", "%", "END", ";", "B", ";">>
NullNamed == <<"%", "DCL_I", ";", "A", ";", "%", "END", ";", "B", ";">>

GoesBack(text) ==
  \E i \in 1..Len(text) : \E j \in 1..(i - 1) :
    <<text[j], text[i]>> \in {<<"L", "GOTO_L">>, <<"M", "GOTO_M">>}

(* Each value malloc may leave in ppreturn->type, with every program behind *)
(* no declarations; the others have a 0 or none of the constants there.     *)
Every ==
  UNION {{[p EXCEPT !.stale = type] :
            p \in {q \in Programs(b, Fragments, 2) : ~GoesBack(q.main)},
            type \in IF b = << >> THEN StaleTypes ELSE {"NONE", "ERROR"}} : b \in Beginnings}
  \union {[Program(text) EXCEPT !.stale = type] : text \in {Again, NullLoop, NullNamed}, type \in StaleTypes}

-----------------------------------------------------------------------------
(* Programs compared with their meaning.  The ones that are not here are    *)
(* those for which the scanner is known to go wrong.                        *)

(* All variables that are used have a value. *)
Prologue == Declarations \o <<"%", "SET_I", ";">>

(* Complete statements, in which a lookahead may be active. *)
Statements ==
  { <<"A", ";">>, <<"DCL", "V", "PROC", ";">>, <<"END", ";">>, <<"V", "I", ";">>, <<"DCL", ":">>,
    <<"/*", "%", "*/">>, <<"STR", "PROCESS", "%", ";">>, <<"%", "SET_I", ";">>, <<"%", "SET_W", ";", "W", ";">>,
    <<"%", "EMPTY_V", ";">>, <<"%", "DEACT_V", ";">>, <<"%", "INC_F", ";">>, <<"%", "INC_G", ";">>,
    <<"%", "GOTO_M", ";", "A", "%", "L", ":", "DO_I", ";", "V", "%", "M", ":", ";">>,
    <<"%", "M", ":", "SET_W", ";">>, <<"%", "RPL_N", ";", "N">>, <<"%", "RPL_M", ";", "M">>, <<"DCL", "%", "INC_F", ";", "V", ";">> }

(* Statements that end the program with an error. *)
Errors ==
  { <<"%", "DCL_I", ";">>, <<"%", "NOTE_E", ";">>, <<"%", "INC_X", ";">>, <<"%", "A", ";">>,
    <<"%", "V", ":", ";">>, <<"%", "GOTO_X", ";", "A", ";">>, <<"%", "A", "B", ";">> }

LoopBodies ==
  { <<"A", ";">>, <<"I", ";">>, <<"V", "A", ";">>, <<"%", "INC_F", ";">>,
    <<"%", "SET_V", ";">>, <<"%", "EMPTY_V", ";">>, <<"A">> }

Loops ==
  {<<"%", do, ";">> \o FlattenSeq(body) \o <<"B", ";", "%", "END", ";", "BLANK">> :
     do \in {"DO_I", "DO_NONE"}, body \in UNION {[1..m -> LoopBodies] : m \in 0..2}}

Right ==
  {p \in Programs(Prologue, Statements, 3) : ~GoesBack(p.main)}
  \union {Program(Prologue \o a \o b \o c) : a, c \in Statements, b \in Errors}
  \union {Program(Prologue \o a \o l \o b) :
            a \in {<< >>, <<"DCL", "V", ";">>}, l \in Loops, b \in {<< >>, <<"DCL", "I", ";">>, <<"END", "V">>}}

-----------------------------------------------------------------------------
(* Programs with a rule that goes wrong. *)

Loop(body) == <<"%", "DO_I", ";">> \o body \o <<"%", "END", ";", "BLANK">>

(* A second loop repeats the body of the first as well. *)
TwoLoops == Programs(Declarations, {Loop(<<"A", ";">>), Loop(<<"I", ";">>)}, 2)

=============================================================================
