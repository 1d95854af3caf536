----------------------------- MODULE Declarations -----------------------------
(***************************************************************************)
(* One DECLARE statement: the attributes of its names and the levels of    *)
(* its structures (libpl1/src/parseDclStmt.c, parseDclOptionList.c and the *)
(* actions of dclstmt in pl1-parser.y).  Names stand in a list that may    *)
(* have parentheses, and a factor behind a parenthesis counts for all the  *)
(* names in it:                                                            *)
(*                                                                         *)
(*     DECLARE 1 A, 2 (B FIXED, C) BINARY, (D, (E, F) FLOAT) EXTERNAL;     *)
(*                                                                         *)
(* bison reads it from the left, so the elements are always one list, elem, *)
(* and an open parenthesis is the place of its first name in that list.    *)
(* Names share what a factor gives them: heap holds the two kinds of       *)
(* records on which elements may have pointers, struct DclOptionList and   *)
(* what its union points to.  A pointer is a place in one of them, or NULL.  *)
(***************************************************************************)
EXTENDS Integers, SequencesExt

CONSTANT
  Vocabularies  \* what a statement may be made of (see VocabularyAssumption)

NULL == 0

VARIABLES
  vocabulary,  \* of this statement
  elem,        \* the elements read so far
  open,        \* the open parentheses, outermost first
  heap,        \* the records of attributes
  parser,      \* how far the statement is
  dcl,         \* what the statement adds to the names of the scope
  written      \* the attributes in the text for each name, inner ones first

vars == << vocabulary, elem, open, heap, parser, dcl, written >>

-----------------------------------------------------------------------------
(* The attributes.  One that is set twice is an error (setTristateAttribute *)
(* and setBooleanAttribute) or replaces the first (setIntegerAttribute and  *)
(* setNstateAttribute).                                                     *)

Storage == {"storageclass", "internal"}
Typed == {"domain", "base", "type", "precision", "reducible", "chartype"}
Tristate == {"domain", "base", "type", "reducible"}
UnionType == {"UNKNOWN", "DCLNUM", "DCLPGM", "DCLCHAR"}

Once(type, field, value) == [uniontype |-> type, field |-> field, value |-> value, once |-> TRUE]
Over(type, field, value) == [uniontype |-> type, field |-> field, value |-> value, once |-> FALSE]

Attribute == [
  FIXED       |-> Once("DCLNUM", "base", 1),
  FLOAT       |-> Once("DCLNUM", "base", 0),
  DECIMAL     |-> Once("DCLNUM", "type", 0),
  BINARY      |-> Once("DCLNUM", "type", 1),
  REAL        |-> Once("DCLNUM", "domain", 0),
  COMPLEX     |-> Once("DCLNUM", "domain", 1),
  PRECISION5  |-> Over("DCLNUM", "precision", 5),
  PRECISION9  |-> Over("DCLNUM", "precision", 9),
  AREA        |-> Over("DCLCHAR", "chartype", 0),
  BIT         |-> Over("DCLCHAR", "chartype", 1),
  CHARACTER   |-> Over("DCLCHAR", "chartype", 2),
  GRAPHIC     |-> Over("DCLCHAR", "chartype", 3),
  PICTURE     |-> Over("DCLCHAR", "chartype", 4),
  WIDECHAR    |-> Over("DCLCHAR", "chartype", 5),
  DATE        |-> Over("DCLCHAR", "chartype", 6),
  AUTOMATIC   |-> Over("UNKNOWN", "storageclass", 0),
  BASED       |-> Over("UNKNOWN", "storageclass", 1),
  CONTROLLED  |-> Once("UNKNOWN", "storageclass", 2),
  DEFINED     |-> Once("UNKNOWN", "storageclass", 3),
  STATIC      |-> Over("UNKNOWN", "storageclass", 4),
  PARAMETER   |-> Over("UNKNOWN", "storageclass", 5),
  INTERNAL    |-> Once("UNKNOWN", "internal", 0),
  EXTERNAL    |-> Once("UNKNOWN", "internal", 1),
  REDUCIBLE   |-> Once("DCLPGM", "reducible", 0),
  IRREDUCIBLE |-> Once("DCLPGM", "reducible", 1)]

AttributeLists == Seq(DOMAIN Attribute)

ASSUME VocabularyAssumption ==
  \A v \in Vocabularies :
    /\ v.names # {} /\ v.levels \subseteq Nat \cup {-1} /\ -1 \in v.levels
    /\ v.attributes \subseteq AttributeLists /\ v.factors \subseteq AttributeLists
    /\ v.length \in Nat /\ v.depth \in Nat

DeclareElement == [name: UNION {v.names : v \in Vocabularies}, dclAttr: Nat, structureLevel: Int,
                   structureParent: Nat, structureSibling: Nat, structureFirstChild: Nat]

newDeclareElement(name, attr, level) ==
  [name |-> name, dclAttr |-> attr, structureLevel |-> level,
   structureParent |-> NULL, structureSibling |-> NULL, structureFirstChild |-> NULL]

(* d < 0 means that there is nothing to set. *)
SetTo(v, d) == IF d < 0 THEN v ELSE d
Taken(v, d) == d >= 0 /\ v # -1

(* What the options behind a name or a parenthesis say. *)
newDclOptionList == [uniontype |-> "UNKNOWN", set |-> [f \in Storage \cup Typed |-> -1], ok |-> TRUE]

dcloption(dol, name) ==
  LET a == Attribute[name]
  IN  IF \/ ~dol.ok
         \/ dol.uniontype # a.uniontype /\ "UNKNOWN" \notin {dol.uniontype, a.uniontype}
         \/ a.once /\ Taken(dol.set[a.field], a.value)
      THEN [dol EXCEPT !.ok = FALSE]
      ELSE [dol EXCEPT !.set[a.field] = SetTo(@, a.value),
                       !.uniontype = IF a.uniontype = "UNKNOWN" THEN @ ELSE a.uniontype]

dcloptionlist(names) == FoldLeft(dcloption, newDclOptionList, names)

(* Its records on the heap. *)
Allocate_Untyped(h, dol) ==
  [list  |-> Append(h.list, [uniontype |-> dol.uniontype,
                             own       |-> [f \in Storage |-> dol.set[f]],
                             union     |-> NULL]),
   union |-> h.union]

Allocate(h, dol) ==
  LET typed == dol.uniontype # "UNKNOWN"
  IN  [list  |-> Append(h.list, [uniontype |-> dol.uniontype,
                                 own       |-> [f \in Storage |-> dol.set[f]],
                                 union     |-> IF typed THEN Len(h.union) + 1 ELSE NULL]),
       union |-> IF typed THEN Append(h.union, [f \in Typed |-> dol.set[f]]) ELSE h.union]

-----------------------------------------------------------------------------
(* The parts of setDclElementAttr for two records of the same type. *)
Conflicting_ButBase(x, y) == \E f \in Tristate \ {"base"} : Taken(x[f], y[f])
Conflicting(x, y) == \E f \in Tristate : Taken(x[f], y[f])

Combined_OldLast(x, y) == [f \in Typed |-> SetTo(y[f], x[f])]
Combined(x, y) == [f \in Typed |-> SetTo(x[f], y[f])]

(* The attributes of new are added to those of old.  What an error leaves   *)
(* half done is never read again, because the parse ends.                   *)
setDclElementAttr(h, old, new) ==
  LET o == h.list[old]
      n == h.list[new]
      own == [h EXCEPT !.list[old].own = [f \in Storage |-> SetTo(@[f], n.own[f])]]
      Failed == [heap |-> h, ok |-> FALSE]
      Ok(result) == [heap |-> result, ok |-> TRUE]
  IN  IF Taken(o.own["internal"], n.own["internal"]) THEN Failed
      ELSE IF n.uniontype = "UNKNOWN" THEN Ok(own)
      ELSE IF o.uniontype = "UNKNOWN"
      THEN Ok([own EXCEPT !.list[old].uniontype = n.uniontype, !.list[old].union = n.union])
      ELSE IF o.uniontype # n.uniontype \/ Conflicting(h.union[o.union], h.union[n.union]) THEN Failed
      ELSE Ok([own EXCEPT !.union[o.union] = Combined(@, h.union[n.union])])

(* Whether the element before has the record too, so that the factor has    *)
(* been added to it already.                                                *)
Reused_Never(r, attr) == FALSE
Reused(r, attr) == attr = r.prev

(* One round of the loop of mergeDeclareElements: the factor dol, or NULL,   *)
(* counts for element i too.                                                 *)
Merge1(r, i, dol, level) ==
  LET attr == r.elem[i].dclAttr
      old  == r.heap.list[attr]
      new  == r.heap.list[dol]
      Known(list) == list.uniontype # "UNKNOWN"
      done == IF dol = NULL \/ attr = NULL THEN [heap |-> r.heap, ok |-> TRUE]
              ELSE IF ~Known(old) /\ Known(new)
              THEN [heap |-> [r.heap EXCEPT !.list[attr].uniontype = new.uniontype,
                                            !.list[attr].union = new.union], ok |-> TRUE]
              ELSE IF Known(old) /\ Known(new) /\ old.uniontype # new.uniontype
              THEN [heap |-> r.heap, ok |-> FALSE]
              ELSE IF Reused(r, attr) THEN [heap |-> r.heap, ok |-> TRUE]
              ELSE setDclElementAttr(r.heap, attr, dol)
      own  == IF attr = NULL THEN dol ELSE attr
  IN  IF ~r.ok THEN r
      ELSE [elem |-> [r.elem EXCEPT ![i].dclAttr = own,
                                    ![i].structureLevel = IF @ = -1 THEN level ELSE @],
            heap |-> done.heap, prev |-> own, ok |-> done.ok]

mergeDeclareElements(h, first, dol, level) ==
  FoldLeft(LAMBDA r, i : Merge1(r, i, dol, level),
           [elem |-> elem, heap |-> h, prev |-> NULL, ok |-> TRUE],
           [k \in 1..(Len(elem) - first + 1) |-> first + k - 1])

-----------------------------------------------------------------------------
(* The levels of structures. *)

(* The innermost p among the parents with a level that is not larger than   *)
(* that of w.  w becomes its sibling, and gets its parent.                  *)
findStructureParent_Smaller(e, p, w) ==
  LET Reach[q \in 0..Len(e)] ==
        IF q = NULL \/ e[q].structureLevel < e[w].structureLevel THEN q ELSE Reach[e[q].structureParent]
  IN  Reach[p]

findStructureParent(e, p, w) ==
  LET Reach[q \in 0..Len(e)] ==
        IF q = NULL \/ e[q].structureLevel <= e[w].structureLevel THEN q ELSE Reach[e[q].structureParent]
  IN  Reach[p]

CheckLevel(r, w) ==
  LET e == r.elem
      p == findStructureParent(e, r.prev, w)
  IN  IF ~r.ok THEN r
      ELSE IF e[w].structureLevel < 1 THEN [r EXCEPT !.prev = NULL]
      ELSE IF e[w].structureLevel = 1 THEN [r EXCEPT !.prev = w]
      ELSE IF r.prev = NULL THEN [r EXCEPT !.ok = FALSE]
      ELSE [r EXCEPT !.prev = w,
                     !.elem = IF e[r.prev].structureLevel < e[w].structureLevel
                              THEN [e EXCEPT ![r.prev].structureFirstChild = w,
                                             ![w].structureParent = r.prev]
                              ELSE IF p = NULL THEN e
                              ELSE [e EXCEPT ![p].structureSibling = IF @ = NULL THEN w ELSE @,
                                             ![w].structureParent = e[p].structureParent]]

checkStructureLevels ==
  FoldLeft(CheckLevel, [elem |-> elem, prev |-> NULL, ok |-> TRUE], [i \in DOMAIN elem |-> i])

(* Whether the list has the name among the members of the parent, or, for   *)
(* NULL, outside of structures.                                             *)
findDclName_Level1(list, name, parent) ==
  \E i \in DOMAIN list :
    /\ list[i].name = name
    /\ IF parent # NULL THEN list[i].structureParent = parent ELSE list[i].structureLevel = 1

findDclName(list, name, parent) ==
  \E i \in DOMAIN list :
    /\ list[i].name = name
    /\ IF parent # NULL THEN list[i].structureParent = parent ELSE list[i].structureLevel <= 1

(* A duplicate is reported and ends the loop. *)
AddElement(r, work) ==
  IF r.end THEN r
  ELSE IF findDclName(r.list, work.name, work.structureParent) THEN [r EXCEPT !.end = TRUE]
  ELSE [r EXCEPT !.list = Append(@, work)]

addDclDeclareElementList(list, e) == FoldLeft(AddElement, [list |-> list, end |-> FALSE], e)

-----------------------------------------------------------------------------
Init ==
  /\ vocabulary \in Vocabularies
  /\ elem = << >> /\ open = << >>
  /\ heap = [list |-> << >>, union |-> << >>]
  /\ parser = "reading"
  /\ dcl = << >> /\ written = << >>

(* dclnamebase.  Options without a type, STATIC say, are thrown away.  Of    *)
(* the options that are in error nothing is kept.                            *)
Name(name, level, names) ==
  LET dol  == dcloptionlist(names)
      kept == dol.ok /\ dol.uniontype # "UNKNOWN"
  IN  /\ parser = "reading" /\ Len(elem) < vocabulary.length
      /\ heap' = IF kept THEN Allocate(heap, dol) ELSE heap
      /\ elem' = Append(elem, newDeclareElement(name, IF kept THEN Len(heap'.list) ELSE NULL, level))
      /\ written' = Append(written, names)
      /\ parser' = IF dol.ok THEN "reading" ELSE "conflict"
      /\ UNCHANGED << vocabulary, open, dcl >>

OpenParenthesis(level) ==
  /\ parser = "reading" /\ Len(elem) < vocabulary.length /\ Len(open) < vocabulary.depth
  /\ open' = Append(open, [first |-> Len(elem) + 1, level |-> level])
  /\ UNCHANGED << vocabulary, elem, heap, parser, dcl, written >>

(* dclterm: ")" and a factor, which may be empty. *)
CloseParenthesis(names) ==
  /\ parser = "reading" /\ open # << >>
  /\ LET p   == Last(open)
         dol == dcloptionlist(names)
         h   == IF names = << >> THEN heap ELSE Allocate(heap, dol)
         r   == mergeDeclareElements(h, p.first, IF names = << >> THEN NULL ELSE Len(h.list), p.level)
     IN  /\ p.first <= Len(elem)
         /\ open' = Front(open)
         /\ IF dol.ok
            THEN /\ elem' = r.elem /\ heap' = r.heap
                 /\ parser' = IF r.ok THEN "reading" ELSE "conflict"
            ELSE /\ parser' = "conflict"
                 /\ UNCHANGED << elem, heap >>
         /\ written' = [i \in DOMAIN written |->
                          IF i >= p.first THEN written[i] \o names ELSE written[i]]
  /\ UNCHANGED << vocabulary, dcl >>

(* ")" and CELL or UNION: the level of the parenthesis is not used. *)
CloseCell ==
  /\ parser = "reading" /\ open # << >>
  /\ Last(open).first <= Len(elem) /\ Last(open).level # -1
  /\ open' = Front(open)
  /\ UNCHANGED << vocabulary, elem, heap, parser, dcl, written >>

(* dclstmt. *)
EndOfDeclare ==
  LET r == checkStructureLevels
      d == addDclDeclareElementList(dcl, r.elem)
  IN  /\ parser = "reading" /\ open = << >> /\ elem # << >>
      /\ elem' = r.elem
      /\ IF r.ok
         THEN dcl' = d.list /\ parser' = IF d.end THEN "duplicate" ELSE "declared"
         ELSE dcl' = dcl /\ parser' = "levels"
      /\ UNCHANGED << vocabulary, open, heap, written >>

Next ==
  \/ \E name \in vocabulary.names, level \in vocabulary.levels, names \in vocabulary.attributes :
       Name(name, level, names)
  \/ \E level \in vocabulary.levels : OpenParenthesis(level)
  \/ \E names \in vocabulary.factors : CloseParenthesis(names)
  \/ CloseCell
  \/ EndOfDeclare

Spec == Init /\ [][Next]_vars

-----------------------------------------------------------------------------
(* Type invariant. *)
TypeOK ==
  /\ vocabulary \in Vocabularies
  /\ elem \in Seq(DeclareElement)
  /\ open \in Seq([first: Nat, level: Int])
  /\ \A i \in DOMAIN elem : elem[i].dclAttr \in 0..Len(heap.list)
  /\ \A i \in DOMAIN heap.list :
       /\ heap.list[i].uniontype \in UnionType
       /\ heap.list[i].union \in 0..Len(heap.union)
       /\ heap.list[i].union = NULL <=> heap.list[i].uniontype = "UNKNOWN"
  /\ parser \in {"reading", "conflict", "levels", "duplicate", "declared"}
  /\ dcl \in Seq(DeclareElement)
  /\ written \in Seq(AttributeLists) /\ Len(written) = Len(elem)

(* What a declaration says, for one field of element i: the values in the   *)
(* text, and the value on the heap.                                         *)
Written(i, f) == {j \in DOMAIN written[i] : Attribute[written[i][j]].field = f}
ValueAt(i, j) == Attribute[written[i][j]].value

ValueOf(i, f) ==
  LET list == heap.list[elem[i].dclAttr]
  IN  IF elem[i].dclAttr = NULL THEN -1
      ELSE IF f \in Storage THEN list.own[f]
      ELSE IF list.union = NULL THEN -1
      ELSE heap.union[list.union][f]

(* Each name has the attributes of type that stand behind it and behind the *)
(* parentheses around it, the outermost where they differ, and no others,   *)
(* however the names share records.  An attribute of storage may get lost,  *)
(* but never comes from elsewhere.                                          *)
AttributesRight ==
  parser # "conflict" =>
    \A i \in DOMAIN elem :
      /\ \A f \in Typed :
           \/ Written(i, f) = {} /\ ValueOf(i, f) = -1
           \/ \E j \in Written(i, f) : /\ \A k \in Written(i, f) : k <= j
                                       /\ ValueOf(i, f) = ValueAt(i, j)
      /\ \A f \in Storage : ValueOf(i, f) \in {-1} \cup {ValueAt(i, j) : j \in Written(i, f)}

(* Two attributes that cannot stand together. *)
Contradiction(a, b) ==
  \/ a.field = b.field /\ b.once
  \/ a.uniontype # b.uniontype /\ "UNKNOWN" \notin {a.uniontype, b.uniontype}

Contradictory(i, fields) ==
  \E j, k \in DOMAIN written[i] :
    LET a == Attribute[written[i][j]]
        b == Attribute[written[i][k]]
    IN  j < k /\ {a.field, b.field} \subseteq fields /\ Contradiction(a, b)

(* A declaration that goes on has no name with contradictory types. *)
ContradictionsFound ==
  parser # "conflict" => \A i \in DOMAIN elem : ~Contradictory(i, Typed)

(* Two names share a record, and the name before the second has another     *)
(* pointer: mergeDeclareElements, which looks for sharing only there, adds   *)
(* the factor to the record twice.                                           *)
SharedUnseen ==
  \E i, j \in DOMAIN elem :
    LET x == elem[i].dclAttr
        y == elem[j].dclAttr
    IN  /\ i < j /\ x # NULL /\ y # NULL /\ elem[j - 1].dclAttr # y
        /\ x = y \/ (heap.list[x].union # NULL /\ heap.list[x].union = heap.list[y].union)

(* The attributes end the parse only for a contradiction in the text, or    *)
(* for names that share a record unseen.                                    *)
ConflictsJustified ==
  parser = "conflict" =>
    \/ \E i \in DOMAIN elem : Contradictory(i, Storage \cup Typed)
    \/ SharedUnseen

(* The structures of the text. *)
Level(i) == elem[i].structureLevel
Parents(w) == {p \in 1..(w - 1) : Level(p) < Level(w) /\ \A k \in p..(w - 1) : Level(k) >= Level(p) /\ Level(k) >= 1
                                  /\ (k > p => Level(k) >= Level(w))}
Siblings(w) == {v \in (w + 1)..Len(elem) : Level(v) = Level(w) /\ \A k \in w..v : Level(k) >= Level(w)}

(* Every level that an element comes back to is that of an element before. *)
LevelsMeet ==
  \A w \in DOMAIN elem :
    (Level(w) > 1 /\ w > 1 /\ Level(w - 1) >= Level(w)) =>
      \E v \in 1..(w - 1) : Level(v) = Level(w) /\ \A k \in v..w : Level(k) >= Level(w)

(* With levels like that, each member of a structure is below the last      *)
(* element before it that has a smaller level, the first member is the      *)
(* first child, and the sibling is the next member of the same structure.   *)
StructuresRight ==
  parser \in {"declared", "duplicate"} /\ LevelsMeet =>
    \A w \in DOMAIN elem :
      /\ elem[w].structureParent # NULL <=> Level(w) > 1
      /\ Level(w) > 1 =>
           /\ elem[w].structureParent \in Parents(w)
           /\ elem[elem[w].structureParent].structureFirstChild = elem[w].structureParent + 1
           /\ \/ elem[w].structureSibling = NULL /\ Siblings(w) = {}
              \/ /\ elem[w].structureSibling \in Siblings(w)
                 /\ \A v \in Siblings(w) : elem[w].structureSibling <= v

(* A name is declared at most once in a structure and at most once outside  *)
(* of structures; nothing is left out without a message.                    *)
NamesUnique ==
  /\ LevelsMeet =>
       \A i, j \in DOMAIN dcl :
         i # j /\ dcl[i].name = dcl[j].name => dcl[i].structureParent # dcl[j].structureParent
  /\ parser = "declared" => dcl = elem
  /\ parser = "duplicate" =>
       \E i, j \in DOMAIN elem :
         i < j /\ elem[i].name = elem[j].name /\ elem[i].structureParent = elem[j].structureParent

-----------------------------------------------------------------------------
(* What the comment "dcl (a ctl,n) fixed" in mergeDeclareElements says: a    *)
(* name with an attribute of storage alone keeps it when the parenthesis    *)
(* that the name stands in gives it a type.                                 *)
StorageKept ==
  parser = "declared" =>
    \A i \in DOMAIN elem, f \in Storage :
      /\ Written(i, f) # {}
      /\ \E g \in Typed : Written(i, g) # {} /\ \A j \in Written(i, f), k \in Written(i, g) : j < k
      => ValueOf(i, f) # -1

=============================================================================
