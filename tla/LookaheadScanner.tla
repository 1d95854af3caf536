-------------------------- MODULE LookaheadScanner --------------------------
(***************************************************************************)
(* The token based lookahead of pl1-scanner.l on a text without            *)
(* preprocessor statements: the start conditions INITIAL and               *)
(* LEXRETURNSAVEDTOKENS, the queue lahSaveTokensList, the flag lookahead   *)
(* and the <<EOF>> rule.  A step is one flex rule; the parser calls yylex  *)
(* until it is told that the text has ended.                               *)
(*                                                                         *)
(* The text is not stored: the next token is any token of Token, and the   *)
(* text may end before any character.  The numbers of the tokens are not   *)
(* in the code; they make loss, duplication and reordering visible.        *)
(***************************************************************************)
EXTENDS KeywordLookahead

CONSTANTS Token,     \* the tokens the flex rules recognise
          MaxTokens  \* bound: the length of the text, in tokens

ASSUME TokenAssumption ==
  /\ MaxTokens \in Nat
  /\ {"NONE", "ENTRY_STMT", "FORMAT_STMT"} \intersect Token = {}

VARIABLES
  start,       \* the flex start condition, or "DONE" after yyterminate
  lookahead,   \* the flag lookahead
  lah,         \* lahSaveTokensList
  prev_token,  \* the token returned last
  rest,        \* what is left of the text: "text", nothing ("eof"), or the
               \* ' ' that the <<EOF>> rule put back ("blank")
  accepted,    \* history: number of tokens recognised
  last         \* history: the token the parser got last

vars == <<start, lookahead, lah, prev_token, rest, accepted, last>>

SavedToken == [tok : Token \union {"NONE", "VARNAME", "FORMAT", "ENTRY_STMT", "FORMAT_STMT"},
               no : Nat]

Init ==
  /\ start = "INITIAL"
  /\ lookahead = 0
  /\ lah = << >>
  /\ prev_token = "NONE"
  /\ rest = "text"
  /\ accepted = 0
  /\ last = [tok |-> "NONE", no |-> 0]

-----------------------------------------------------------------------------
Numbered(t) == [tok |-> t, no |-> accepted + 1]

(* savetoken *)
Saved(t) == Append(lah, Numbered(t))

(* Slip: the copy of the macro in hasMoreSavedTokens forgets prev_token. *)
return_token_StalePrev(tk) == last' = tk /\ UNCHANGED prev_token

(* The macro return_token and the copies of it in hasMoreSavedTokens. *)
return_token(tk) == prev_token' = tk.tok /\ last' = tk

(* A rule of INITIAL recognises a token. *)
Recognise ==
  /\ start = "INITIAL"
  /\ rest = "text"
  /\ accepted < MaxTokens
  /\ accepted' = accepted + 1
  /\ UNCHANGED rest

(* Slip: a token is returned although a lookahead is active. *)
dupyy_IgnoreLookahead(t) == return_token(Numbered(t)) /\ UNCHANGED lah

(* The macro dupyy without a preprocessor. *)
dupyy(t) ==
  \/ lookahead = 1 /\ lah' = Saved(t) /\ UNCHANGED <<prev_token, last>>
  \/ lookahead = 0 /\ return_token(Numbered(t)) /\ UNCHANGED lah

(* The rules that do nothing but dupyy. *)
PlainToken(t) ==
  /\ t \notin SpecialKeyWords \union {"END", "COLON", "SEMICOLON"}
  /\ Recognise
  /\ dupyy(t)
  /\ UNCHANGED <<start, lookahead>>

(* Slip: specialKeyWord without its test of the context. *)
OpenLookahead_AnyContext(t) ==
  /\ t \in SpecialKeyWords /\ lookahead = 0
  /\ Recognise
  /\ lookahead' = 1
  /\ lah' = Saved(SpecialKeyWord[t].opens)
  /\ UNCHANGED <<start, prev_token, last>>

(* The rules that use specialKeyWord: the keyword opens a lookahead. *)
OpenLookahead(t) ==
  /\ t \in SpecialKeyWords
  /\ lookahead = 0 /\ enable_lookahead(prev_token, t)
  /\ Recognise
  /\ lookahead' = 1
  /\ lah' = Saved(SpecialKeyWord[t].opens)
  /\ UNCHANGED <<start, prev_token, last>>

(* The same rules where the word cannot be the keyword of a statement. *)
KeyWordAsPlain(t) ==
  /\ t \in SpecialKeyWords
  /\ lookahead = 1 \/ ~enable_lookahead(prev_token, t)
  /\ Recognise
  /\ dupyy(SpecialKeyWord[t].plain)
  /\ UNCHANGED <<start, lookahead>>

(* END opens a lookahead wherever it stands. *)
EndToken ==
  /\ "END" \in Token
  /\ Recognise
  /\ lookahead' = 1
  /\ lah' = Saved("END")
  /\ UNCHANGED <<start, prev_token, last>>

(* A ':' right behind the keyword: it was a label. *)
LabelColon ==
  /\ "COLON" \in Token
  /\ lookahead = 1 /\ Len(lah) = 1
  /\ Recognise
  /\ lah' = [Saved("COLON") EXCEPT ![1].tok = "VARNAME"]
  /\ start' = "LEXRETURN"
  /\ UNCHANGED <<lookahead, prev_token, last>>

OtherColon ==
  /\ "COLON" \in Token
  /\ ~(lookahead = 1 /\ Len(lah) = 1)
  /\ Recognise
  /\ dupyy("COLON")
  /\ UNCHANGED <<start, lookahead>>

(* Slip: the rule for ';' without BEGIN LEXRETURNSAVEDTOKENS. *)
EndOfStatement_KeepScanning ==
  /\ "SEMICOLON" \in Token /\ lookahead = 1
  /\ Recognise
  /\ lah' = fixKeywordTokens(Saved("SEMICOLON"), prev_token)
  /\ UNCHANGED <<start, lookahead, prev_token, last>>

(* The ';' completes the statement: decide what its first token is. *)
EndOfStatement ==
  /\ "SEMICOLON" \in Token
  /\ lookahead = 1
  /\ Recognise
  /\ lah' = fixKeywordTokens(Saved("SEMICOLON"), prev_token)
  /\ start' = "LEXRETURN"
  /\ UNCHANGED <<lookahead, prev_token, last>>

PlainSemicolon ==
  /\ "SEMICOLON" \in Token
  /\ lookahead = 0
  /\ Recognise
  /\ dupyy("SEMICOLON")
  /\ UNCHANGED <<start, lookahead>>

(* Slip: hasMoreSavedTokens does not move the head of the list. *)
ReturnSavedToken_KeepHead ==
  /\ start = "LEXRETURN" /\ rest # "eof" /\ lah # << >>
  /\ return_token(Head(lah))
  /\ UNCHANGED <<lah, start, lookahead, rest, accepted>>

(* The rule of LEXRETURNSAVEDTOKENS needs a character to match; it puts it  *)
(* back and returns the next saved token.                                   *)
ReturnSavedToken ==
  /\ start = "LEXRETURN"
  /\ rest # "eof"
  /\ lah # << >>
  /\ return_token(Head(lah))
  /\ lah' = Tail(lah)
  /\ UNCHANGED <<start, lookahead, rest, accepted>>

(* Slip: the flag stays set when the list is empty. *)
AllReturned_KeepFlag ==
  /\ start = "LEXRETURN" /\ rest # "eof" /\ lah = << >>
  /\ start' = "INITIAL"
  /\ UNCHANGED <<lookahead, lah, prev_token, rest, accepted, last>>

(* The list is empty: back to INITIAL. *)
AllReturned ==
  /\ start = "LEXRETURN"
  /\ rest # "eof"
  /\ lah = << >>
  /\ lookahead' = 0
  /\ start' = "INITIAL"
  /\ UNCHANGED <<lah, prev_token, rest, accepted, last>>

(* The last character of the text has been read. *)
TextEnds ==
  /\ start # "DONE"
  /\ rest = "text"
  /\ rest' = "eof"
  /\ UNCHANGED <<start, lookahead, lah, prev_token, accepted, last>>

(* <<EOF>>, evaluateEOFType 3: saved tokens are left, unput a ' '. *)
EofInLookahead ==
  /\ start # "DONE"
  /\ rest = "eof"
  /\ lookahead = 1
  /\ rest' = "blank"
  /\ start' = "LEXRETURN"
  /\ UNCHANGED <<lookahead, lah, prev_token, accepted, last>>

(* The rule for white space eats that ' '. *)
EatBlank ==
  /\ start = "INITIAL"
  /\ rest = "blank"
  /\ rest' = "eof"
  /\ UNCHANGED <<start, lookahead, lah, prev_token, accepted, last>>

(* Slip: evaluateEOFType without its case 3. *)
EofOfText_Always ==
  /\ start # "DONE" /\ rest = "eof"
  /\ start' = "DONE"
  /\ UNCHANGED <<lookahead, lah, prev_token, rest, accepted, last>>

(* <<EOF>>, evaluateEOFType 4: yyterminate. *)
EofOfText ==
  /\ start # "DONE"
  /\ rest = "eof"
  /\ lookahead = 0
  /\ start' = "DONE"
  /\ UNCHANGED <<lookahead, lah, prev_token, rest, accepted, last>>

Recognised ==
  \/ \E t \in Token : PlainToken(t) \/ OpenLookahead(t) \/ KeyWordAsPlain(t)
  \/ EndToken \/ LabelColon \/ OtherColon \/ EndOfStatement \/ PlainSemicolon

Returned == ReturnSavedToken \/ AllReturned

AtEof == EofInLookahead \/ EatBlank \/ EofOfText

(* yyterminate told the parser that there are no more tokens. *)
Finished == start = "DONE" /\ UNCHANGED vars

Next == Recognised \/ Returned \/ TextEnds \/ AtEof \/ Finished

(* The parser asks for the next token until it is told that there is none,  *)
(* so the scanner never stops while a rule matches.                         *)
Spec == Init /\ [][Next]_vars /\ WF_vars(Next)

-----------------------------------------------------------------------------
(* The tokens by which the parser knows a statement that starts with one of *)
(* the seven keywords, and the keyword each stands for.                     *)
StatementToken ==
  [ DECLARE |-> "DECLARE", DEFAULT |-> "DEFAULT", ENTRY_STMT |-> "ENTRY",
    FORMAT_STMT |-> "FORMAT", OTHERWISE |-> "OTHERWISE",
    PROCEDURE |-> "PROCEDURE", SNAP |-> "SNAP" ]

StatementTokens == DOMAIN StatementToken

(* q is a whole statement whose first token, with one optional matching set *)
(* of parentheses, is followed by one of tokens.                            *)
FollowedBy(q, tokens) ==
  /\ Len(q) > 1 /\ q[Len(q)].tok = "SEMICOLON"
  /\ \E i \in 2..Len(q) :
       /\ q[i].tok \in tokens
       /\ \/ i = 2
          \/ q[2].tok = "LPAR" /\ BalancedAt(q, i - 1)

(* The state the rules share has the shape the code gives it. *)
TypeOK ==
  /\ start \in {"INITIAL", "LEXRETURN", "DONE"}
  /\ lookahead \in {0, 1}
  /\ lah \in Seq(SavedToken)
  /\ rest \in {"text", "eof", "blank"}
  /\ accepted \in Nat
  /\ last \in SavedToken
  /\ prev_token = last.tok

(* The saved tokens are exactly those recognised since the last one the     *)
(* parser got, in the order of the text: savetoken, hasMoreSavedTokens and  *)
(* the direct returns of dupyy never lose, repeat or overtake a token.      *)
QueueInOrder ==
  /\ Len(lah) = accepted - last.no
  /\ \A i \in 1..Len(lah) : lah[i].no = last.no + i

(* Whenever a statement is being saved its first token is END or a keyword  *)
(* that prev_token allowed: checkstmt is never called without a list, nor   *)
(* reaches its branch `should not happend!', and without lookahead nothing  *)
(* is saved.                                                                *)
HeadOpened ==
  /\ lookahead = 1 /\ start = "INITIAL" =>
       /\ lah # << >>
       /\ \/ lah[1].tok = "END"
          \/ \E k \in SpecialKeyWords :
               /\ lah[1].tok = SpecialKeyWord[k].opens
               /\ enable_lookahead(prev_token, k)
  /\ lookahead = 0 => lah = << >> /\ start # "LEXRETURN"

(* The list never holds more than one statement: a ';' is the last token    *)
(* saved, and behind the first token no keyword stands for a statement.     *)
(* The decision of checkstmt about the first token is therefore never made  *)
(* on the tokens of two statements.                                         *)
OneStatement ==
  \A i \in 1..Len(lah) :
    /\ lah[i].tok = "SEMICOLON" => i = Len(lah) /\ start # "INITIAL"
    /\ i > 1 => lah[i].tok \notin StatementTokens

(* A token that starts a statement reaches the parser only behind a token   *)
(* that lets its keyword open a lookahead, however many tokens were saved   *)
(* between the decision and the delivery.                                   *)
KeywordInContext ==
  [][last' # last /\ last'.tok \in StatementTokens =>
       enable_lookahead(last.tok, StatementToken[last'.tok])]_vars

(* The statements `dcl = 1;' and `dcl(i) = 1;' assign to a variable that is *)
(* named like a keyword: rule 0 of checkstmt never lets the parser see the  *)
(* keyword.                                                                 *)
AssignmentNotKeyword ==
  [][start = "LEXRETURN" /\ FollowedBy(lah, {"EQUALS"}) /\ last' # last =>
       last'.tok \notin StatementTokens]_vars

Channel == INSTANCE TokenChannel WITH delivered <- last.no

(* The lookahead is invisible but for the kind of the tokens: the parser    *)
(* gets the tokens once each, in order, and none stays in the list.         *)
DeliversInOrder == Channel!Spec

(* The scanner comes to the end of every text with nothing left in the      *)
(* list, in particular when the text ends behind a ';' that completes a     *)
(* lookahead, or inside a statement.                                        *)
EverythingDelivered == <>(start = "DONE" /\ lah = << >> /\ last.no = accepted)

=============================================================================
