------------------------------ MODULE ScopeTree ------------------------------
(***************************************************************************)
(* The tree of scopes the parser builds (libpl1/src/parseScopeNode.c) and  *)
(* the names it declares in them (the functions at the end of              *)
(* pl1-parser.y), for one program.  An action is the semantic action of a  *)
(* statement.                                                              *)
(*                                                                         *)
(* A pointer to a scope is its number in the order of allocation, and NULL *)
(* is 0; scope 1 is scopeRoot.  The field up of a scope is the chain of    *)
(* its parents, outermost first: what following ->parent from it meets, in *)
(* the other direction.  A parent never changes, so the chain is a value.  *)
(*                                                                         *)
(* dcl[s] is the list of names declared in scope s; attributes and members *)
(* of structures are the business of Declarations.                         *)
(***************************************************************************)
EXTENDS Integers, SequencesExt

CONSTANTS
  Name,         \* labels and names of variables
  Root,         \* the name of scopeRoot
  Unnamed,      \* the name of a scope without a label
  LabelLists,   \* the labels a statement may have; << >> is none
  NameLists,    \* the parameters of a PROCEDURE, the names of a DECLARE
  MaxScopes,    \* bound on the number of scopes
  MaxElements   \* bound on the names declared in all of them

ASSUME NameAssumption ==
  /\ Root \in Name /\ Unnamed \in Name
  /\ LabelLists \subseteq Seq(Name) /\ NameLists \subseteq Seq(Name)

ASSUME BoundAssumption == MaxScopes \in Nat /\ MaxElements \in Nat

NULL == 0

VARIABLES
  scope,     \* the scopes allocated so far
  dcl,       \* for each of them, the list of declared names
  current,   \* currentScope
  parser,    \* whether bison goes on
  reported   \* whether the last statement called yyerror

vars == << scope, dcl, current, parser, reported >>

-----------------------------------------------------------------------------
Kinds == {"ROOT", "PROCEDURE", "OTHER"}

Pointer == 0..Len(scope)
ScopeNode == [name: Seq(Name), kind: Kinds, up: Seq(Nat), head: Nat, tail: Nat, next: Nat]
DeclareElement == [name: Name, implied: BOOLEAN]

Parent_Unset(s) ==
  IF scope[s].up = << >> THEN Len(scope) + 1 ELSE scope[s].up[Len(scope[s].up)]

Parent(s) == IF scope[s].up = << >> THEN NULL ELSE scope[s].up[Len(scope[s].up)]

(* The scopes from the outermost one to s. *)
Path(s) == IF s = NULL THEN << >> ELSE Append(scope[s].up, s)

initScopeNode(name, kind, up) ==
  [name |-> name, kind |-> kind, up |-> up, head |-> NULL, tail |-> NULL, next |-> NULL]

(* The new scope becomes the tail of the current one.  Without a current    *)
(* scope nothing points to it.                                              *)
newScope_Head(kind, labels) ==
  LET new  == Len(scope) + 1
      node == initScopeNode(IF labels = << >> THEN << Unnamed >> ELSE labels, kind, Path(current))
  IN  /\ scope' = Append([s \in 1..Len(scope) |->
                            IF s = current
                            THEN [scope[s] EXCEPT !.tail = new,
                                                  !.head = IF @ = NULL THEN new ELSE @]
                            ELSE scope[s]], node)
      /\ current' = new

newScope_TailKept(kind, labels) ==
  LET new  == Len(scope) + 1
      node == initScopeNode(IF labels = << >> THEN << Unnamed >> ELSE labels, kind, Path(current))
  IN  /\ scope' = Append([s \in 1..Len(scope) |->
                            IF s = current /\ scope[s].head = NULL
                            THEN [scope[s] EXCEPT !.head = new, !.tail = new]
                            ELSE IF current # NULL /\ s = scope[current].tail
                            THEN [scope[s] EXCEPT !.next = new]
                            ELSE scope[s]], node)
      /\ current' = new

newScope(kind, labels) ==
  LET new  == Len(scope) + 1
      node == initScopeNode(IF labels = << >> THEN << Unnamed >> ELSE labels, kind, Path(current))
  IN  /\ scope' = Append([s \in 1..Len(scope) |->
                            IF s = current
                            THEN [scope[s] EXCEPT !.tail = new,
                                                  !.head = IF @ = NULL THEN new ELSE @]
                            ELSE IF current # NULL /\ s = scope[current].tail
                            THEN [scope[s] EXCEPT !.next = new]
                            ELSE scope[s]], node)
      /\ current' = new

(* The places of the scopes with the label on the way from the root to s. *)
Labelled(s, label) ==
  {i \in 1..Len(Path(s)) :
     \E j \in 1..Len(scope[Path(s)[i]].name) : scope[Path(s)[i]].name[j] = label}

(* The innermost scope with the label among s and its parents, as a set     *)
(* that is empty when the code returns NULL.                                *)
lookUpMatchingNode_Outermost(s, label) ==
  {Path(s)[i] : i \in {k \in Labelled(s, label) : \A j \in Labelled(s, label) : k <= j}}

lookUpMatchingNode(s, label) ==
  {Path(s)[i] : i \in {k \in Labelled(s, label) : \A j \in Labelled(s, label) : j <= k}}

-----------------------------------------------------------------------------
(* The list of the names of a scope. *)

findDclName_Last(list, name) ==
  LET at == {i \in DOMAIN list : list[i].name = name}
  IN  IF at = {} THEN 0 ELSE CHOOSE i \in at : \A j \in at : j <= i

findDclName(list, name) ==
  LET at == {i \in DOMAIN list : list[i].name = name}
  IN  IF at = {} THEN 0 ELSE CHOOSE i \in at : \A j \in at : i <= j

Implied(name) == [name |-> name, implied |-> TRUE]

(* A parameter that has been declared already is left as it is. *)
addDclImplied(list, name) ==
  IF findDclName(list, name) # 0 THEN list ELSE Append(list, Implied(name))

defineProcedure(list, parameters) == FoldLeft(addDclImplied, list, parameters)

(* The labels of a procedure are appended without a look at the list. *)
AddLabels_First(list, labels) == Append(list, Implied(labels[1]))

AddLabels(list, labels) == list \o [i \in DOMAIN labels |-> Implied(labels[i])]

(* One round of the loop of addDclDeclareElementList, for a scalar or the   *)
(* first level of a structure.  r.list is the list so far, r.end how the    *)
(* loop ended.                                                              *)
Declare1_StillImplied(r, name, fits) ==
  LET found == findDclName(r.list, name)
  IN  IF r.end # "ok" THEN r
      ELSE IF found = 0
      THEN [r EXCEPT !.list = Append(@, [name |-> name, implied |-> FALSE])]
      ELSE IF r.list[found].implied
      THEN [r EXCEPT !.end = IF fits THEN "ok" ELSE "attributes"]
      ELSE [r EXCEPT !.end = "duplicate"]

Declare1(r, name, fits) ==
  LET found == findDclName(r.list, name)
  IN  IF r.end # "ok" THEN r
      ELSE IF found = 0
      THEN [r EXCEPT !.list = Append(@, [name |-> name, implied |-> FALSE])]
      ELSE IF r.list[found].implied
      THEN [list |-> [r.list EXCEPT ![found].implied = FALSE],
            end  |-> IF fits THEN "ok" ELSE "attributes"]
      ELSE [r EXCEPT !.end = "duplicate"]

addDclDeclareElementList(list, names, fits) ==
  FoldLeft(LAMBDA r, name : Declare1(r, name, fits), [list |-> list, end |-> "ok"], names)

-----------------------------------------------------------------------------
Init ==
  /\ scope = << initScopeNode(<< Root >>, "ROOT", << >>) >>
  /\ dcl = << << >> >>
  /\ current = 1
  /\ parser = "parsing"
  /\ reported = FALSE

(* The bound on the names. *)
RoomFor(n) == FoldLeft(LAMBDA sum, list : sum + Len(list), n, dcl) <= MaxElements

(* The use of a null pointer. *)
Crash ==
  /\ parser' = "crashed"
  /\ UNCHANGED << scope, dcl, current, reported >>

(* BEGIN, DO, PACKAGE and SELECT; without labels also PROCEDURE and ENTRY,  *)
(* whose parameters are lost then.                                          *)
OpenScope(labels) ==
  /\ parser = "parsing" /\ Len(scope) < MaxScopes
  /\ newScope("OTHER", labels)
  /\ dcl' = Append(dcl, << >>)
  /\ reported' = FALSE
  /\ UNCHANGED parser

(* PROCEDURE with labels: a scope with the parameters; its labels are names *)
(* of the scope around it.                                                  *)
Procedure(labels, parameters) ==
  /\ parser = "parsing" /\ Len(scope) < MaxScopes
  /\ current # NULL /\ labels # << >>
  /\ RoomFor(Len(labels) + Len(parameters))
  /\ newScope("PROCEDURE", labels)
  /\ dcl' = Append([dcl EXCEPT ![current] = AddLabels(@, labels)],
                   defineProcedure(<< >>, parameters))
  /\ reported' = FALSE
  /\ UNCHANGED parser

(* ENTRY with labels: another way into the current procedure. *)
Entry(labels, parameters) ==
  /\ parser = "parsing"
  /\ current # NULL /\ labels # << >>
  /\ Parent(current) # NULL
  /\ RoomFor(Len(labels) + Len(parameters))
  /\ dcl' = [dcl EXCEPT ![current] = defineProcedure(@, parameters),
                        ![Parent(current)] = AddLabels(@, labels)]
  /\ reported' = FALSE
  /\ UNCHANGED << scope, current, parser >>

(* PROCEDURE and ENTRY behind a condition prefix only, and where there is   *)
(* no scope around the procedure.                                           *)
NoPlaceForLabels(kind, labels) ==
  /\ parser = "parsing"
  /\ \/ labels = << >>
     \/ current = NULL
     \/ kind = "ENTRY" /\ current # NULL /\ Parent(current) = NULL
  /\ Crash

(* END.  When everything is closed it changes nothing. *)
End ==
  /\ parser = "parsing"
  /\ current' = IF current = NULL THEN NULL ELSE Parent(current)
  /\ reported' = FALSE
  /\ UNCHANGED << scope, dcl, parser >>

(* END with a name.  lookUpMatchingNode uses the scope it found even when   *)
(* there is none, so the error branch of endScope is never reached.         *)
EndNamed(label) ==
  /\ parser = "parsing"
  /\ IF current = NULL
     THEN /\ reported' = FALSE
          /\ UNCHANGED << scope, dcl, current, parser >>
     ELSE LET found == lookUpMatchingNode(current, label)
          IN  IF found = {} THEN Crash
              ELSE /\ \E s \in found : current' = Parent(s)
                   /\ reported' = FALSE
                   /\ UNCHANGED << scope, dcl, parser >>

(* DECLARE.  A duplicate is reported and ends the list; attributes that do  *)
(* not fit to those implied end the parse.                                  *)
Declare(names, fits) ==
  /\ parser = "parsing" /\ RoomFor(Len(names))
  /\ IF current = NULL THEN Crash
     ELSE LET r == addDclDeclareElementList(dcl[current], names, fits)
          IN  /\ dcl' = [dcl EXCEPT ![current] = r.list]
              /\ reported' = (r.end # "ok")
              /\ parser' = IF r.end = "attributes" THEN "stopped" ELSE "parsing"
              /\ UNCHANGED << scope, current >>

Next ==
  \/ \E labels \in LabelLists :
       \/ OpenScope(labels)
       \/ \E parameters \in NameLists : Procedure(labels, parameters) \/ Entry(labels, parameters)
       \/ \E kind \in {"PROCEDURE", "ENTRY"} : NoPlaceForLabels(kind, labels)
  \/ End
  \/ \E label \in Name : EndNamed(label)
  \/ \E names \in NameLists, fits \in BOOLEAN : names # << >> /\ Declare(names, fits)

Spec == Init /\ [][Next]_vars

-----------------------------------------------------------------------------
(* produceXrefList(scopeRoot): the order in which the scopes are listed,    *)
(* all of a list before what is in them.                                    *)
produceXrefList ==
  LET List[s \in Pointer]  == IF s = NULL THEN << >> ELSE << s >> \o List[scope[s].next]
      Visit[s \in Pointer] == List[s] \o FlattenSeq([i \in 1..Len(List[s]) |-> Visit[scope[List[s][i]].head]])
  IN  Visit[1]

-----------------------------------------------------------------------------
(* Type invariant. *)
TypeOK ==
  /\ scope \in Seq(ScopeNode) /\ scope # << >>
  /\ dcl \in Seq(Seq(DeclareElement)) /\ Len(dcl) = Len(scope)
  /\ current \in Pointer
  /\ parser \in {"parsing", "stopped", "crashed"}
  /\ reported \in BOOLEAN

(* The chain of a scope consists of older scopes, each with the part before *)
(* it as its own chain.                                                     *)
ChainsOK ==
  \A s \in 1..Len(scope) : \A i \in 1..Len(scope[s].up) :
    /\ scope[s].up[i] \in 1..(s - 1)
    /\ scope[scope[s].up[i]].up = SubSeq(scope[s].up, 1, i - 1)

(* The three pointers that newScope keeps for the children of a scope agree *)
(* with the parents of the children: head is the oldest child, tail the     *)
(* youngest, next the next younger sibling.                                 *)
HeadsOK ==
  \A s \in 1..Len(scope) :
    \/ /\ scope[s].head = NULL /\ scope[s].tail = NULL
       /\ \A k \in 1..Len(scope) : Parent(k) # s
    \/ /\ scope[s].head \in 1..Len(scope) /\ scope[s].tail \in 1..Len(scope)
       /\ Parent(scope[s].head) = s /\ Parent(scope[s].tail) = s
       /\ \A k \in 1..Len(scope) : Parent(k) = s => scope[s].head <= k /\ k <= scope[s].tail

NextOK ==
  \A k \in 1..Len(scope) :
    LET sibling == {j \in (k + 1)..Len(scope) : Parent(k) # NULL /\ Parent(j) = Parent(k)}
    IN  \/ scope[k].next = NULL /\ sibling = {}
        \/ scope[k].next \in sibling /\ \A j \in sibling : scope[k].next <= j

TreeShape == ChainsOK /\ HeadsOK /\ NextOK

(* A name is explicitly declared at most once in a scope, and a search for  *)
(* it finds the explicit declaration, whatever procedures, entries and      *)
(* parameters of that name there are.                                       *)
OneExplicit ==
  \A s \in 1..Len(dcl) : \A i, j \in 1..Len(dcl[s]) :
    i < j /\ dcl[s][i].name = dcl[s][j].name => dcl[s][j].implied

(* Every label of a procedure is a name of the scope around the procedure,  *)
(* so a CALL from there can find it.                                        *)
ProceduresKnown ==
  \A s \in 1..Len(scope) :
    scope[s].kind = "PROCEDURE" =>
      \A i \in DOMAIN scope[s].name :
        scope[s].name[i] # Unnamed =>
          findDclName(dcl[Parent(s)], scope[s].name[i]) # 0

(* The cross reference lists each scope in the tree of the root once, and a *)
(* scope after its parent and its older siblings.                           *)
ListedOnce ==
  LET order == produceXrefList
      tree  == {s \in 1..Len(scope) : Path(s)[1] = 1}
  IN  /\ ToSet(order) = tree /\ Len(order) = Cardinality(tree)
      /\ \A i, j \in 1..Len(order) :
           i < j => /\ Parent(order[i]) # order[j]
                    /\ Parent(order[i]) = Parent(order[j]) => order[i] < order[j]

(* After a DECLARE that nothing was reported for, every name of it is an    *)
(* explicit declaration of the scope.                                       *)
DeclaredOrReported ==
  [][\A names \in NameLists, fits \in BOOLEAN :
       names # << >> /\ Declare(names, fits) /\ ~reported' /\ parser' = "parsing" =>
         \A i \in DOMAIN names :
           \E j \in DOMAIN dcl'[current] : dcl'[current][j] = [name |-> names[i], implied |-> FALSE]]_vars

(* BEGIN, PROCEDURE and END open and close blocks as PL/I says, DECLARE and *)
(* ENTRY leave them open.  A null pointer, used instead of the message      *)
(* about an END that closes nothing, only stops the program.                *)
OpenBlocks == [i \in 1..Len(Path(current)) |-> scope[Path(current)[i]].name]

Blocks == INSTANCE BlockStack WITH blocks <- OpenBlocks
BlocksNest == Blocks!Spec

=============================================================================
