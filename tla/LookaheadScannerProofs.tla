----------------------- MODULE LookaheadScannerProofs -----------------------
(***************************************************************************)
(* Proofs about LookaheadScanner for every set of tokens and texts of      *)
(* every length.                                                           *)
(*                                                                         *)
(* The inductive invariant adds HeadInContext to the invariants of the     *)
(* component: a keyword at the head of the list may still be delivered as  *)
(* the start of a statement, because nothing was delivered since it was    *)
(* saved.  KeywordInContext and the refinement of TokenChannel follow from *)
(* it step by step.                                                        *)
(***************************************************************************)
EXTENDS LookaheadScanner, FiniteSetTheorems, SequenceTheorems, TLAPS

HeadInContext ==
  lah # << >> /\ lah[1].tok \in StatementTokens =>
    enable_lookahead(prev_token, StatementToken[lah[1].tok])

Inv == TypeOK /\ QueueInOrder /\ HeadOpened /\ OneStatement /\ HeadInContext

-----------------------------------------------------------------------------
(* The two tables, column by column. *)
LEMMA SpecialKeyWordTable ==
  /\ SpecialKeyWords = {"DECLARE", "DEFAULT", "ENTRY", "FORMAT", "OTHERWISE", "PROCEDURE", "SNAP"}
  /\ \A k \in SpecialKeyWords :
       /\ SpecialKeyWord[k].opens = IF k = "FORMAT" THEN "FORMAT_STMT" ELSE k
       /\ SpecialKeyWord[k].plain = IF k \in {"ENTRY", "FORMAT"} THEN k ELSE "VARNAME"
BY DEF SpecialKeyWords, SpecialKeyWord

LEMMA StatementTokenTable ==
  /\ StatementTokens = {"DECLARE", "DEFAULT", "ENTRY_STMT", "FORMAT_STMT", "OTHERWISE", "PROCEDURE", "SNAP"}
  /\ \A t \in StatementTokens :
       StatementToken[t] = IF t = "ENTRY_STMT" THEN "ENTRY"
                           ELSE IF t = "FORMAT_STMT" THEN "FORMAT" ELSE t
BY DEF StatementTokens, StatementToken

(* What the kinds of tokens a rule may save or return have in common. *)
LEMMA PlainTokens ==
  ASSUME NEW t \in Token
  PROVE  /\ t \notin SpecialKeyWords => t \notin StatementTokens
         /\ t \in SpecialKeyWords => SpecialKeyWord[t].plain \notin StatementTokens \union {"SEMICOLON"}
         /\ t \in SpecialKeyWords => SpecialKeyWord[t].opens # "SEMICOLON"
BY SpecialKeyWordTable, StatementTokenTable, TokenAssumption

LEMMA NumberedType ==
  ASSUME TypeOK, NEW t \in Token \union {"VARNAME", "FORMAT", "FORMAT_STMT"}
  PROVE  Numbered(t) \in SavedToken
BY DEF TypeOK, SavedToken, Numbered

LEMMA KeyWordTokenType ==
  ASSUME NEW t \in Token, t \in SpecialKeyWords
  PROVE  /\ SpecialKeyWord[t].plain \in Token \union {"VARNAME", "FORMAT"}
         /\ SpecialKeyWord[t].opens \in Token \union {"FORMAT_STMT"}
BY SpecialKeyWordTable

(* Saving the token recognised last at the end of the list keeps the order. *)
LEMMA QueueGrows ==
  ASSUME TypeOK, QueueInOrder, lah' \in Seq(SavedToken),
         Len(lah') = Len(lah) + 1, accepted' = accepted + 1, last' = last,
         \A i \in 1..Len(lah) : lah'[i].no = lah[i].no,
         lah'[Len(lah) + 1].no = accepted + 1
  PROVE  QueueInOrder'
<1>1. /\ Len(lah) \in Nat /\ accepted \in Nat /\ last.no \in Nat
      /\ Len(lah) = accepted - last.no
  BY DEF TypeOK, QueueInOrder, SavedToken
<1>2. ASSUME NEW i \in 1..Len(lah') PROVE lah'[i].no = last'.no + i
  <2>1. CASE i \in 1..Len(lah)
    BY <2>1 DEF QueueInOrder
  <2>2. CASE i = Len(lah) + 1
    BY <1>1, <2>2
  <2> QED BY <1>1, <2>1, <2>2
<1> QED BY <1>1, <1>2 DEF QueueInOrder

(* A step that recognises a token that is no keyword of a statement, and    *)
(* saves or returns it with dupyy, keeps the invariant.                     *)
LEMMA DupyyStep ==
  ASSUME Inv, Recognise, UNCHANGED <<start, lookahead>>,
         NEW t \in Token \union {"VARNAME", "FORMAT"},
         t \notin StatementTokens, lookahead = 1 => t # "SEMICOLON",
         dupyy(t)
  PROVE  Inv'
<1> USE DEF Inv, Recognise
<1>n. Numbered(t) \in SavedToken
  BY NumberedType
<1>1. CASE lookahead = 1
  <2>1. lah' = Append(lah, Numbered(t)) /\ UNCHANGED <<prev_token, last>>
    BY <1>1 DEF dupyy, Saved
  <2>2. TypeOK'
    BY <2>1, <1>n DEF TypeOK
  <2>3. QueueInOrder'
    <3>1. /\ lah' \in Seq(SavedToken) /\ Len(lah') = Len(lah) + 1
          /\ \A i \in 1..Len(lah) : lah'[i] = lah[i]
          /\ lah'[Len(lah) + 1] = Numbered(t)
      BY <2>1, <1>n, AppendProperties DEF TypeOK
    <3> QED BY <2>1, <3>1, QueueGrows DEF Numbered
  <2>4. lah # << >> /\ lah'[1] = lah[1] /\ lah' # << >>
    BY <2>1, <1>1 DEF HeadOpened, TypeOK
  <2>5. HeadOpened'
    BY <2>1, <2>4, <1>1 DEF HeadOpened
  <2>6. OneStatement'
    BY <2>1, <2>4, <1>1 DEF OneStatement, TypeOK, Numbered
  <2>7. HeadInContext'
    BY <2>1, <2>4 DEF HeadInContext
  <2> QED BY <2>2, <2>3, <2>5, <2>6, <2>7
<1>2. CASE lookahead # 1
  <2>1. lah = << >> /\ UNCHANGED lah /\ return_token(Numbered(t))
    BY <1>2 DEF dupyy, HeadOpened
  <2>2. TypeOK'
    BY <2>1, <1>n DEF TypeOK, return_token
  <2>3. QueueInOrder'
    BY <2>1 DEF QueueInOrder, TypeOK, Numbered, return_token, SavedToken
  <2>4. HeadOpened' /\ OneStatement' /\ HeadInContext'
    BY <2>1, <1>2 DEF HeadOpened, OneStatement, HeadInContext
  <2> QED BY <2>2, <2>3, <2>4
<1> QED BY <1>1, <1>2

(* The list after fixKeywordTokens: only the kind of the first token may    *)
(* have changed, and it stands for a statement only if its keyword was      *)
(* allowed to open the lookahead.                                           *)
LEMMA FixedHead ==
  ASSUME Inv, lookahead = 1, start = "INITIAL", NEW b \in BOOLEAN
  PROVE  LET t == FixedToken(lah[1].tok, b)
         IN  /\ t \in Token \union {"VARNAME", "FORMAT", "ENTRY_STMT", "FORMAT_STMT"}
             /\ t # "SEMICOLON"
             /\ t \in StatementTokens => enable_lookahead(prev_token, StatementToken[t])
<1>1. lah # << >> /\ lah[1] \in SavedToken
  BY DEF Inv, HeadOpened, TypeOK
<1>2. CASE lah[1].tok = "END"
  BY <1>1, <1>2, StatementTokenTable DEF FixedToken, SavedToken
<1>3. CASE \E k \in SpecialKeyWords : lah[1].tok = SpecialKeyWord[k].opens /\ enable_lookahead(prev_token, k)
  <2>1. PICK k \in SpecialKeyWords : lah[1].tok = SpecialKeyWord[k].opens /\ enable_lookahead(prev_token, k)
    BY <1>3
  <2> QED BY <1>1, <2>1, SpecialKeyWordTable, StatementTokenTable DEF FixedToken, SavedToken
<1> QED BY <1>1, <1>2, <1>3 DEF Inv, HeadOpened

LEMMA CheckstmtDecides ==
  ASSUME NEW q, NEW p
  PROVE  checkstmt(q, p) \in BOOLEAN
BY DEF checkstmt, AssignedOrLabelled

-----------------------------------------------------------------------------
LEMMA InvInit == Init => Inv
BY DEF Init, Inv, TypeOK, QueueInOrder, HeadOpened, OneStatement, HeadInContext, SavedToken

(* The rules that recognise a token, one step per action. *)
LEMMA InvRecognised == Inv /\ Recognised => Inv'
<1> SUFFICES ASSUME Inv, Recognised PROVE Inv'
  OBVIOUS
<1>1. ASSUME NEW t \in Token, PlainToken(t) PROVE Inv'
  BY <1>1, PlainTokens, DupyyStep DEF PlainToken
<1>2. ASSUME NEW t \in Token, OpenLookahead(t) PROVE Inv'
  <2> DEFINE tk == Numbered(SpecialKeyWord[t].opens)
  <2>1. lah = << >> /\ lah' = <<tk>> /\ accepted \in Nat
    BY <1>2 DEF OpenLookahead, Saved, Inv, HeadOpened, TypeOK
  <2>2. tk \in SavedToken
    BY <1>2, KeyWordTokenType, NumberedType DEF OpenLookahead, Inv
  <2>3. TypeOK'
    BY <1>2, <2>1, <2>2 DEF OpenLookahead, Recognise, Inv, TypeOK
  <2>4. QueueInOrder'
    BY <1>2, <2>1 DEF OpenLookahead, Recognise, Numbered, Inv, QueueInOrder, TypeOK, SavedToken
  <2>5. HeadOpened'
    BY <1>2, <2>1 DEF OpenLookahead, Recognise, Numbered, HeadOpened
  <2>6. OneStatement'
    BY <1>2, <2>1, PlainTokens DEF OpenLookahead, Numbered, OneStatement
  <2>7. HeadInContext'
    BY <1>2, <2>1, SpecialKeyWordTable, StatementTokenTable
    DEF OpenLookahead, Numbered, HeadInContext
  <2> QED BY <2>3, <2>4, <2>5, <2>6, <2>7 DEF Inv
<1>3. ASSUME NEW t \in Token, KeyWordAsPlain(t) PROVE Inv'
  BY <1>3, PlainTokens, KeyWordTokenType, DupyyStep DEF KeyWordAsPlain
<1>4. ASSUME EndToken PROVE Inv'
  <2>1. lah' = Append(lah, Numbered("END")) /\ accepted' = accepted + 1
    BY <1>4 DEF EndToken, Saved, Recognise
  <2>2. Numbered("END") \in SavedToken
    BY <1>4, NumberedType DEF EndToken, Inv
  <2>3. TypeOK'
    BY <1>4, <2>1, <2>2 DEF EndToken, Recognise, Inv, TypeOK
  <2>4. QueueInOrder'
    <3>1. last' = last /\ TypeOK /\ QueueInOrder
      BY <1>4 DEF EndToken, Inv
    <3>2. /\ lah' \in Seq(SavedToken) /\ Len(lah') = Len(lah) + 1
          /\ \A i \in 1..Len(lah) : lah'[i] = lah[i]
          /\ lah'[Len(lah) + 1] = Numbered("END")
      BY <2>1, <2>2, AppendProperties DEF Inv, TypeOK
    <3> QED BY <2>1, <3>1, <3>2, QueueGrows DEF Numbered
  <2>5. lah # << >> => lookahead = 1 /\ lah'[1] = lah[1]
    BY <2>1 DEF Inv, HeadOpened, TypeOK
  <2>6. lah = << >> => lah'[1].tok = "END"
    BY <2>1 DEF Numbered
  <2>7. HeadOpened'
    BY <1>4, <2>1, <2>5, <2>6 DEF EndToken, Recognise, Inv, HeadOpened, TypeOK
  <2>8. OneStatement'
    BY <1>4, <2>1, StatementTokenTable
    DEF EndToken, Recognise, Numbered, Inv, OneStatement, TypeOK
  <2>9. HeadInContext'
    BY <1>4, <2>1, <2>5, <2>6, StatementTokenTable DEF EndToken, Inv, HeadInContext
  <2> QED BY <2>3, <2>4, <2>7, <2>8, <2>9 DEF Inv
<1>5. ASSUME LabelColon PROVE Inv'
  <2> DEFINE tk == Numbered("COLON")
  <2>1. /\ lah \in Seq(SavedToken) /\ Len(lah) = 1
        /\ accepted' = accepted + 1 /\ last' = last
    BY <1>5 DEF LabelColon, Recognise, Inv, TypeOK
  <2>b. lah[1] \in SavedToken
    <3>1. 1 \in 1..Len(lah)
      BY <2>1
    <3> QED BY <2>1, <3>1, ElementOfSeq
  <2>2. tk \in SavedToken
    BY <1>5, NumberedType DEF LabelColon, Inv
  <2> DEFINE q == Append(lah, tk)
  <2>3. q \in Seq(SavedToken) /\ Len(q) = 2 /\ q[1] = lah[1] /\ q[2] = tk
    <3>1. /\ q \in Seq(SavedToken) /\ Len(q) = Len(lah) + 1
          /\ \A i \in 1..Len(lah) : q[i] = lah[i]
          /\ q[Len(lah) + 1] = tk
      BY <2>2, AppendProperties DEF Inv, TypeOK
    <3> QED BY <2>1, <3>1
  <2> DEFINE h == [q[1] EXCEPT !.tok = "VARNAME"]
  <2>4. lah' = [q EXCEPT ![1] = h] /\ h \in SavedToken /\ h.tok = "VARNAME" /\ h.no = lah[1].no
    BY <1>5, <2>1, <2>b, <2>3 DEF LabelColon, Saved, SavedToken
  <2> HIDE DEF h, q
  <2>5. /\ lah' \in Seq(SavedToken) /\ Len(lah') = 2
        /\ lah'[1].tok = "VARNAME" /\ lah'[1].no = lah[1].no
        /\ lah'[2] = tk
    BY <2>3, <2>4, ExceptSeq
  <2>6. TypeOK'
    BY <1>5, <2>5 DEF LabelColon, Recognise, Inv, TypeOK
  <2>7. QueueInOrder'
    BY <2>1, <2>5, QueueGrows DEF Numbered, Inv
  <2>8. HeadOpened' /\ OneStatement' /\ HeadInContext'
    BY <1>5, <2>5, StatementTokenTable
    DEF LabelColon, Numbered, HeadOpened, OneStatement, HeadInContext
  <2> QED BY <2>6, <2>7, <2>8 DEF Inv
<1>6. ASSUME OtherColon PROVE Inv'
  BY <1>6, DupyyStep, StatementTokenTable DEF OtherColon
<1>7. ASSUME EndOfStatement PROVE Inv'
  <2> DEFINE b == checkstmt(Saved("SEMICOLON"), prev_token)
             h == [lah[1] EXCEPT !.tok = FixedToken(@, b)]
             tk == Numbered("SEMICOLON")
  <2>1. lah # << >> /\ lah[1] \in SavedToken /\ start = "INITIAL" /\ accepted' = accepted + 1
    BY <1>7 DEF EndOfStatement, Recognise, Inv, HeadOpened, TypeOK
  <2>3. tk \in SavedToken
    BY <1>7, NumberedType DEF EndOfStatement, Inv
  <2> DEFINE q == Append(lah, tk)
  <2>a. /\ q \in Seq(SavedToken) /\ Len(q) = Len(lah) + 1
        /\ \A i \in 1..Len(lah) : q[i] = lah[i]
        /\ q[Len(lah) + 1] = tk
        /\ 1 \in 1..Len(lah)
    BY <2>1, <2>3, AppendProperties DEF Inv, TypeOK
  <2>2. lah' = [q EXCEPT ![1] = h]
    BY <1>7, <2>a DEF EndOfStatement, fixKeywordTokens, Saved
  <2>4. /\ h.tok \in Token \union {"VARNAME", "FORMAT", "ENTRY_STMT", "FORMAT_STMT"}
        /\ h.tok # "SEMICOLON"
        /\ h.tok \in StatementTokens => enable_lookahead(prev_token, StatementToken[h.tok])
        /\ h.no = lah[1].no
    BY <1>7, <2>1, CheckstmtDecides, FixedHead DEF EndOfStatement, SavedToken
  <2>5. h \in SavedToken
    BY <2>1, <2>4 DEF SavedToken
  <2> HIDE DEF h, q
  <2>6. /\ Len(lah') = Len(lah) + 1
        /\ lah' \in Seq(SavedToken)
        /\ lah'[1] = h
        /\ \A i \in 2..Len(lah) : lah'[i] = lah[i]
        /\ lah'[Len(lah) + 1] = tk
    BY <2>a, <2>2, <2>5, ExceptSeq
  <2>7. TypeOK'
    BY <1>7, <2>6 DEF EndOfStatement, Recognise, Inv, TypeOK
  <2>8. QueueInOrder'
    <3>1. last' = last
      BY <1>7 DEF EndOfStatement
    <3>2. \A i \in 1..Len(lah) : lah'[i].no = lah[i].no
      BY <2>4, <2>6
    <3> QED BY <2>1, <2>6, <3>1, <3>2, QueueGrows DEF Numbered, Inv
  <2>9. HeadOpened'
    BY <1>7 DEF EndOfStatement, HeadOpened
  <2>10. OneStatement'
    BY <1>7, <2>1, <2>4, <2>6, StatementTokenTable
    DEF EndOfStatement, Numbered, Inv, OneStatement, TypeOK
  <2>11. HeadInContext'
    BY <1>7, <2>4, <2>6 DEF EndOfStatement, HeadInContext
  <2> QED BY <2>7, <2>8, <2>9, <2>10, <2>11 DEF Inv
<1>8. ASSUME PlainSemicolon PROVE Inv'
  BY <1>8, DupyyStep, StatementTokenTable DEF PlainSemicolon
<1> QED BY <1>1, <1>2, <1>3, <1>4, <1>5, <1>6, <1>7, <1>8 DEF Recognised

(* The rules of LEXRETURNSAVEDTOKENS. *)
LEMMA InvReturned == Inv /\ Returned => Inv'
<1> SUFFICES ASSUME Inv, Returned PROVE Inv'
  OBVIOUS
<1>1. ASSUME ReturnSavedToken PROVE Inv'
  <2>1. /\ lah \in Seq(SavedToken) /\ lah # << >> /\ last' = Head(lah) /\ lah' = Tail(lah)
        /\ accepted' = accepted
    BY <1>1 DEF ReturnSavedToken, return_token, Inv, TypeOK
  <2>2. Head(lah) = lah[1]
    BY <2>1
  <2>3. /\ last' \in SavedToken
        /\ lah' \in Seq(SavedToken) /\ Len(lah') = Len(lah) - 1
        /\ \A i \in 1..Len(lah') : lah'[i] = lah[i + 1]
    BY <2>1, HeadTailProperties
  <2>4. Len(lah) \in Nat \ {0}
    BY <2>1, EmptySeq
  <2>5. TypeOK'
    BY <1>1, <2>3 DEF ReturnSavedToken, return_token, Inv, TypeOK
  <2>6. QueueInOrder'
    <3>1. last'.no = last.no + 1
      BY <2>1, <2>2, <2>4 DEF Inv, QueueInOrder
    <3>2. last.no \in Nat /\ accepted \in Nat /\ Len(lah) = accepted - last.no
      BY DEF Inv, QueueInOrder, TypeOK, SavedToken
    <3>3. ASSUME NEW i \in 1..Len(lah') PROVE lah'[i].no = last'.no + i
      <4>1. i + 1 \in 1..Len(lah) /\ lah'[i] = lah[i + 1]
        BY <2>3, <2>4
      <4>2. lah[i + 1].no = last.no + (i + 1)
        BY <4>1 DEF Inv, QueueInOrder
      <4>3. lah'[i].no = last.no + (i + 1)
        BY <4>1, <4>2
      <4>4. i \in Int
        BY <2>3, <2>4
      <4> HIDE DEF Inv
      <4> QED BY <3>1, <3>2, <4>3, <4>4
    <3> QED BY <2>1, <2>3, <2>4, <3>1, <3>2, <3>3 DEF QueueInOrder
  <2>7. HeadOpened'
    BY <1>1, <2>1 DEF ReturnSavedToken, Inv, HeadOpened
  <2>8. \A i \in 1..Len(lah') :
          /\ lah'[i].tok = "SEMICOLON" => i = Len(lah')
          /\ lah'[i].tok \notin StatementTokens
    BY <2>3, <2>4 DEF Inv, OneStatement
  <2>9. OneStatement'
    BY <1>1, <2>8 DEF ReturnSavedToken, OneStatement
  <2>10. HeadInContext'
    BY <2>3, <2>4, <2>8, EmptySeq DEF HeadInContext
  <2> QED BY <2>5, <2>6, <2>7, <2>9, <2>10 DEF Inv
<1>2. ASSUME AllReturned PROVE Inv'
  <2>1. TypeOK'
    BY <1>2 DEF AllReturned, Inv, TypeOK
  <2>2. QueueInOrder' /\ HeadOpened' /\ OneStatement' /\ HeadInContext'
    BY <1>2 DEF AllReturned, Inv, QueueInOrder, HeadOpened, OneStatement, HeadInContext
  <2> QED BY <2>1, <2>2 DEF Inv
<1> QED BY <1>1, <1>2 DEF Returned

(* The steps at the end of the text leave the list alone. *)
LEMMA InvAtEnd == Inv /\ (TextEnds \/ AtEof \/ UNCHANGED vars) => Inv'
<1> SUFFICES ASSUME Inv, TextEnds \/ AtEof \/ UNCHANGED vars PROVE Inv'
  OBVIOUS
<1>1. UNCHANGED <<lookahead, lah, prev_token, accepted, last>>
  BY DEF TextEnds, AtEof, EofInLookahead, EatBlank, EofOfText, vars
<1>2. /\ start' = start \/ (start' = "LEXRETURN" /\ lookahead = 1) \/ (start' = "DONE" /\ lookahead = 0)
      /\ rest' \in {"text", "eof", "blank"}
  BY DEF TextEnds, AtEof, EofInLookahead, EatBlank, EofOfText, vars, Inv, TypeOK
<1>3. TypeOK'
  BY <1>1, <1>2 DEF Inv, TypeOK
<1>4. QueueInOrder' /\ HeadInContext'
  BY <1>1 DEF Inv, QueueInOrder, HeadInContext
<1>5. HeadOpened'
  BY <1>1, <1>2 DEF Inv, HeadOpened
<1>6. OneStatement'
  <2>1. start' = "INITIAL" => start = "INITIAL"
    BY <1>2
  <2> QED BY <1>1, <2>1 DEF Inv, OneStatement
<1> QED BY <1>3, <1>4, <1>5, <1>6 DEF Inv

LEMMA InvNext == Inv /\ [Next]_vars => Inv'
BY InvRecognised, InvReturned, InvAtEnd DEF Next, Finished

LEMMA Invariant == Spec => []Inv
BY InvInit, InvNext, PTL DEF Spec

-----------------------------------------------------------------------------
(* The variables of the lookahead keep the types the code gives them, for   *)
(* every alphabet and every length of the text.                             *)
THEOREM TypeCorrect == Spec => []TypeOK
BY Invariant, PTL DEF Inv

(* The list holds the tokens that are recognised and not yet delivered, all *)
(* of them and in the order of the text.                                    *)
THEOREM QueueOrder == Spec => []QueueInOrder
BY Invariant, PTL DEF Inv

(* checkstmt is only called with a list that starts with a keyword.         *)
THEOREM HeadIsOpened == Spec => []HeadOpened
BY Invariant, PTL DEF Inv

(* The list never holds the tokens of two statements.                       *)
THEOREM SingleStatement == Spec => []OneStatement
BY Invariant, PTL DEF Inv

(* What a step may deliver: a direct return is never a keyword, and a saved *)
(* keyword is still in the context that opened its lookahead.               *)
LEMMA DeliveredInContext ==
  ASSUME Inv, [Next]_vars, last' # last, last'.tok \in StatementTokens
  PROVE  enable_lookahead(last.tok, StatementToken[last'.tok])
<1>1. CASE ReturnSavedToken
  BY <1>1, EmptySeq DEF ReturnSavedToken, return_token, Inv, HeadInContext, TypeOK
<1>2. ASSUME Recognised PROVE FALSE
  <2>1. ASSUME NEW t, t \notin StatementTokens, dupyy(t) PROVE FALSE
    BY <2>1 DEF dupyy, return_token, Numbered
  <2>2. ASSUME NEW t \in Token, PlainToken(t) PROVE FALSE
    BY <2>1, <2>2, PlainTokens DEF PlainToken
  <2>3. ASSUME NEW t \in Token, KeyWordAsPlain(t) PROVE FALSE
    BY <2>1, <2>3, PlainTokens DEF KeyWordAsPlain
  <2>4. ASSUME OtherColon \/ PlainSemicolon PROVE FALSE
    BY <2>1, <2>4, StatementTokenTable DEF OtherColon, PlainSemicolon
  <2>5. last' = last \/ OtherColon \/ PlainSemicolon
        \/ \E t \in Token : PlainToken(t) \/ KeyWordAsPlain(t)
    BY <1>2 DEF Recognised, OpenLookahead, EndToken, LabelColon, EndOfStatement
  <2> QED BY <2>2, <2>3, <2>4, <2>5
<1>3. ASSUME AllReturned \/ TextEnds \/ AtEof \/ UNCHANGED vars PROVE FALSE
  BY <1>3 DEF AllReturned, TextEnds, AtEof, EofInLookahead, EatBlank, EofOfText, vars
<1> QED BY <1>1, <1>2, <1>3 DEF Next, Returned, Finished

(* No step delivers a keyword of a statement where it could not open a      *)
(* lookahead.                                                               *)
THEOREM KeywordsInContext == Spec => KeywordInContext
<1>1. Inv /\ [Next]_vars =>
        [last' # last /\ last'.tok \in StatementTokens =>
           enable_lookahead(last.tok, StatementToken[last'.tok])]_vars
  BY DeliveredInContext
<1> QED BY <1>1, Invariant, PTL DEF Spec, KeywordInContext

-----------------------------------------------------------------------------
LEMMA ChannelInit == Init => Channel!Init
BY DEF Init, Channel!Init

LEMMA ChannelStep == Inv /\ [Next]_vars => [Channel!Next]_Channel!vars
<1> SUFFICES ASSUME Inv, [Next]_vars PROVE [Channel!Next]_Channel!vars
  OBVIOUS
<1>1. /\ accepted \in Nat /\ last.no \in Nat /\ Len(lah) \in Nat
      /\ Len(lah) = accepted - last.no
      /\ lah = << >> => Len(lah) = 0
      /\ lah # << >> => Len(lah) > 0
  BY EmptySeq DEF Inv, TypeOK, QueueInOrder, SavedToken
<1>2. ASSUME Recognised PROVE Channel!Next
  <2>1. accepted' = accepted + 1
    BY <1>2 DEF Recognised, PlainToken, OpenLookahead, KeyWordAsPlain, EndToken,
                LabelColon, OtherColon, EndOfStatement, PlainSemicolon, Recognise
  <2>2. last' = last \/ (lah = << >> /\ last'.no = accepted + 1)
    <3>1. ASSUME NEW t, dupyy(t) PROVE last' = last \/ (lah = << >> /\ last'.no = accepted + 1)
      BY <3>1 DEF dupyy, return_token, Numbered, Inv, HeadOpened
    <3> QED BY <1>2, <3>1
            DEF Recognised, PlainToken, OpenLookahead, KeyWordAsPlain, EndToken,
                LabelColon, OtherColon, EndOfStatement, PlainSemicolon
  <2> QED BY <1>1, <2>1, <2>2 DEF Channel!Next, Channel!Keep, Channel!PassOn
<1>3. ASSUME ReturnSavedToken PROVE Channel!Next
  <2>1. last' = lah[1] /\ lah # << >> /\ accepted' = accepted
    BY <1>3 DEF ReturnSavedToken, return_token
  <2>2. last'.no = last.no + 1
    BY <1>1, <2>1 DEF Inv, QueueInOrder
  <2> QED BY <1>1, <2>1, <2>2 DEF Channel!Next, Channel!Deliver
<1>4. ASSUME AllReturned \/ TextEnds \/ AtEof \/ UNCHANGED vars PROVE UNCHANGED Channel!vars
  BY <1>4 DEF AllReturned, TextEnds, AtEof, EofInLookahead, EatBlank, EofOfText, vars, Channel!vars
<1> QED BY <1>2, <1>3, <1>4 DEF Next, Returned, Finished

(* The scanner implements the safety part of TokenChannel: however the      *)
(* statements are saved, the parser gets every token once and in the order  *)
(* of the text.                                                             *)
THEOREM ImplementsChannel == Spec => Channel!InOrder
BY ChannelInit, ChannelStep, Invariant, PTL DEF Spec, Channel!InOrder

-----------------------------------------------------------------------------
(* Parentheses are counted behind the first token only.                     *)
LEMMA SameLevel ==
  ASSUME NEW q, NEW r, NEW n \in Int, NEW i \in 2..n,
         \A j \in 2..n : q[j] = r[j]
  PROVE  PLevel(q, i) = PLevel(r, i)
<1>1. \A t : {j \in 2..i : q[j].tok = t} = {j \in 2..i : r[j].tok = t}
  OBVIOUS
<1> QED BY <1>1 DEF PLevel

(* The first token behind the keyword decides the level alone.              *)
LEMMA FirstLevel ==
  ASSUME NEW q
  PROVE  /\ q[2].tok = "EQUALS" => PLevel(q, 2) = 0
         /\ q[2].tok = "LPAR" => PLevel(q, 2) = 1
<1>1. ASSUME NEW t, q[2].tok # t PROVE Cardinality({j \in 2..2 : q[j].tok = t}) = 0
  <2>1. {j \in 2..2 : q[j].tok = t} = {}
    BY <1>1
  <2> QED BY <2>1, FS_EmptySet
<1>2. ASSUME NEW t, q[2].tok = t PROVE Cardinality({j \in 2..2 : q[j].tok = t}) = 1
  <2>1. {j \in 2..2 : q[j].tok = t} = {2}
    BY <1>2
  <2> QED BY <2>1, FS_Singleton
<1>3. ASSUME q[2].tok = "EQUALS" PROVE PLevel(q, 2) = 0
  <2>1. q[2].tok # "LPAR" /\ q[2].tok # "RPAR"
    BY <1>3
  <2> QED BY <1>1, <2>1 DEF PLevel
<1>4. ASSUME q[2].tok = "LPAR" PROVE PLevel(q, 2) = 1
  <2>1. q[2].tok # "RPAR"
    BY <1>4
  <2> QED BY <1>1, <1>2, <1>4, <2>1 DEF PLevel
<1> QED BY <1>3, <1>4

(* A token that is no parenthesis does not change the level.                *)
LEMMA NextLevel ==
  ASSUME NEW q, NEW i \in Int, i > 2, q[i].tok = "EQUALS"
  PROVE  PLevel(q, i) = PLevel(q, i - 1)
<1>1. ASSUME NEW t, t # "EQUALS"
      PROVE  {j \in 2..i : q[j].tok = t} = {j \in 2..(i - 1) : q[j].tok = t}
  BY <1>1
<1> QED BY <1>1 DEF PLevel

(* Both ways in which checkstmt decides find the '=' of an assignment.      *)
LEMMA AssignmentFound ==
  ASSUME NEW q, Len(q) \in Nat, NEW p, FollowedBy(q, {"EQUALS"}),
         q[1].tok \in OpeningTokens
  PROVE  ~checkstmt(q, p)
<1>1. PICK i \in 2..Len(q) :
        q[i].tok = "EQUALS" /\ (i = 2 \/ (q[2].tok = "LPAR" /\ BalancedAt(q, i - 1)))
  BY DEF FollowedBy
<1>2. AssignedOrLabelled(q) /\ \E k \in 2..Len(q) : BalancedAt(q, k) /\ ~(k = 2 /\ q[k].tok # "EQUALS")
  <2>1. CASE i = 2
    <3>1. PLevel(q, 2) = 0 /\ BalancedAt(q, 2)
      BY <1>1, <2>1, FirstLevel DEF BalancedAt
    <3> QED BY <1>1, <2>1, <3>1 DEF AssignedOrLabelled
  <2>2. CASE i # 2
    <3>1. q[2].tok = "LPAR" /\ BalancedAt(q, i - 1) /\ i > 2 /\ PLevel(q, i - 1) = 0
      BY <1>1, <2>2 DEF BalancedAt
    <3>2. i - 1 # 2
      BY <3>1, FirstLevel
    <3>3. PLevel(q, i) = 0
      BY <1>1, <3>1, NextLevel
    <3> QED BY <1>1, <3>1, <3>2, <3>3 DEF AssignedOrLabelled
  <2> QED BY <2>1, <2>2
<1>3. q[1].tok \in {"DECLARE", "DEFAULT", "ENTRY", "FORMAT_STMT", "OTHERWISE", "PROCEDURE", "SNAP", "END"}
  BY SpecialKeyWordTable DEF OpeningTokens
<1> QED BY <1>2, <1>3 DEF checkstmt

(* While the saved tokens are returned, an assignment does not start with   *)
(* the keyword of a statement.                                              *)
Decided ==
  start = "LEXRETURN" /\ FollowedBy(lah, {"EQUALS"}) => lah[1].tok \notin StatementTokens

LEMMA DecidedByEndOfStatement ==
  ASSUME Inv, EndOfStatement
  PROVE  Decided'
<1> DEFINE q == Saved("SEMICOLON")
           r == lah'
<1>1. /\ lah \in Seq(SavedToken) /\ lah # << >> /\ Len(lah) \in Nat \ {0}
      /\ lah[1].tok \in OpeningTokens
  BY EmptySeq DEF EndOfStatement, Recognise, Inv, TypeOK, HeadOpened, OpeningTokens
<1>2. Numbered("SEMICOLON") \in SavedToken
  BY NumberedType DEF EndOfStatement, Inv
<1>3. /\ q \in Seq(SavedToken) /\ Len(q) = Len(lah) + 1
      /\ \A i \in 1..Len(lah) : q[i] = lah[i]
      /\ q[Len(lah) + 1] = Numbered("SEMICOLON")
  BY <1>1, <1>2, AppendProperties DEF Saved
<1>4. 1 \in 1..Len(q) /\ q[1] = lah[1] /\ q[1] \in SavedToken /\ Len(q) \in Int
  BY <1>1, <1>3, ElementOfSeq
<1> DEFINE h == [q[1] EXCEPT !.tok = FixedToken(@, checkstmt(q, prev_token))]
<1>5. r = [q EXCEPT ![1] = h]
  BY DEF EndOfStatement, fixKeywordTokens
<1>6. h.tok = FixedToken(q[1].tok, checkstmt(q, prev_token))
  BY <1>4 DEF SavedToken
<1> HIDE DEF h, q
<1>7. Len(r) = Len(q) /\ r[1] = h /\ \A i \in 2..Len(q) : r[i] = q[i]
  BY <1>3, <1>4, <1>5
<1>8. ASSUME FollowedBy(r, {"EQUALS"}) PROVE FollowedBy(q, {"EQUALS"})
  <2>1. Len(q) > 1 /\ q[Len(q)].tok = "SEMICOLON"
    BY <1>4, <1>7, <1>8 DEF FollowedBy
  <2>2. \A i \in 2..Len(q) : PLevel(q, i) = PLevel(r, i)
    BY <1>4, <1>7, SameLevel
  <2>3. \A i : BalancedAt(r, i) => BalancedAt(q, i)
    BY <1>4, <1>7, <2>2 DEF BalancedAt
  <2>4. PICK i \in 2..Len(q) :
          r[i].tok \in {"EQUALS"} /\ (i = 2 \/ (r[2].tok = "LPAR" /\ BalancedAt(r, i - 1)))
    BY <1>7, <1>8 DEF FollowedBy
  <2>5. q[i].tok \in {"EQUALS"} /\ (i = 2 \/ (q[2].tok = "LPAR" /\ BalancedAt(q, i - 1)))
    BY <1>4, <1>7, <2>1, <2>3, <2>4
  <2> QED BY <2>1, <2>4, <2>5 DEF FollowedBy
<1>9. ASSUME FollowedBy(r, {"EQUALS"}) PROVE r[1].tok \notin StatementTokens
  <2>1. Len(q) \in Nat /\ q[1].tok \in OpeningTokens
    BY <1>1, <1>3, <1>4
  <2>2. ~checkstmt(q, prev_token)
    BY <1>8, <1>9, <2>1, AssignmentFound
  <2>3. FixedToken(q[1].tok, checkstmt(q, prev_token)) \in {"END", "ENTRY", "FORMAT", "VARNAME"}
    BY <2>2 DEF FixedToken
  <2> QED BY <1>6, <1>7, <2>3, StatementTokenTable
<1> QED BY <1>9 DEF Decided

LEMMA DecidedNext == Inv /\ Decided /\ [Next]_vars => Decided'
<1> SUFFICES ASSUME Inv, Decided, [Next]_vars PROVE Decided'
  OBVIOUS
<1>1. CASE EndOfStatement
  BY <1>1, DecidedByEndOfStatement
<1>2. CASE LabelColon
  <2>1. lah \in Seq(SavedToken) /\ Len(lah) = 1 /\ Numbered("COLON") \in SavedToken
    BY <1>2, NumberedType DEF LabelColon, Inv, TypeOK
  <2>2. Len(Saved("COLON")) = 2 /\ Saved("COLON")[2].tok = "COLON"
    <3>1. Len(Saved("COLON")) = Len(lah) + 1 /\ Saved("COLON")[Len(lah) + 1] = Numbered("COLON")
      BY <2>1, AppendProperties DEF Saved
    <3>2. Numbered("COLON").tok = "COLON"
      BY DEF Numbered
    <3> QED BY <2>1, <3>1, <3>2
  <2>3. Len(lah') = 2 /\ lah'[2].tok = "COLON"
    BY <1>2, <2>2 DEF LabelColon
  <2> QED BY <2>3 DEF Decided, FollowedBy
<1>3. ASSUME Recognised, ~EndOfStatement, ~LabelColon PROVE Decided'
  BY <1>3 DEF Recognised, PlainToken, OpenLookahead, KeyWordAsPlain, EndToken, OtherColon,
              PlainSemicolon, Recognise, Decided
<1>4. CASE ReturnSavedToken
  <2>1. lah \in Seq(SavedToken) /\ lah # << >> /\ lah' = Tail(lah)
    BY <1>4 DEF ReturnSavedToken, Inv, TypeOK
  <2>2. Len(lah) \in Nat \ {0} /\ Len(lah') = Len(lah) - 1 /\ \A i \in 1..Len(lah') : lah'[i] = lah[i + 1]
    BY <2>1, HeadTailProperties, EmptySeq
  <2>3. Len(lah') > 1 => lah'[1].tok \notin StatementTokens
    BY <2>2 DEF Inv, OneStatement
  <2> QED BY <2>3 DEF Decided, FollowedBy
<1>5. CASE EofInLookahead
  <2>1. start = "INITIAL" => ~FollowedBy(lah, {"EQUALS"})
    <3>1. Len(lah) \in Nat
      BY DEF Inv, TypeOK
    <3> QED BY <3>1 DEF Inv, OneStatement, FollowedBy
  <2>2. start \in {"INITIAL", "LEXRETURN"} /\ lah' = lah
    BY <1>5 DEF EofInLookahead, Inv, TypeOK
  <2> QED BY <2>1, <2>2 DEF Decided
<1>6. ASSUME AllReturned \/ TextEnds \/ EatBlank \/ EofOfText \/ UNCHANGED vars PROVE Decided'
  BY <1>6 DEF AllReturned, TextEnds, EatBlank, EofOfText, vars, Decided
<1> QED BY <1>1, <1>2, <1>3, <1>4, <1>5, <1>6 DEF Next, Returned, AtEof, Finished

(* An assignment to a variable that is named like a keyword is never taken  *)
(* for the statement, however deep its subscripts nest.                     *)
THEOREM AssignmentsKept == Spec => AssignmentNotKeyword
<1>1. Init => Decided
  BY DEF Init, Decided
<1>2. Inv /\ Decided /\ [Next]_vars =>
        [start = "LEXRETURN" /\ FollowedBy(lah, {"EQUALS"}) /\ last' # last =>
           last'.tok \notin StatementTokens]_vars
  <2> SUFFICES ASSUME Inv, Decided, [Next]_vars, start = "LEXRETURN",
                      FollowedBy(lah, {"EQUALS"}), last' # last
               PROVE  last'.tok \notin StatementTokens
    OBVIOUS
  <2>1. ReturnSavedToken
    BY DEF Next, Recognised, PlainToken, OpenLookahead, KeyWordAsPlain, EndToken, LabelColon,
           OtherColon, EndOfStatement, PlainSemicolon, Recognise, Returned, AllReturned,
           TextEnds, AtEof, EofInLookahead, EatBlank, EofOfText, Finished, vars
  <2> QED BY <2>1 DEF ReturnSavedToken, return_token, Decided
<1> QED BY <1>1, <1>2, DecidedNext, Invariant, PTL DEF Spec, AssignmentNotKeyword

=============================================================================
