-------------------------- MODULE DeclarationsProofs ---------------------------
(***************************************************************************)
(* Proofs about DECLARE statements: what the attributes of the names are   *)
(* when names share records, when the parse ends for them, how the names   *)
(* are linked to structures, and which of them a scope gets - for every    *)
(* nesting of parentheses, any number of names, any levels and any lists   *)
(* of attributes.                                                          *)
(*                                                                         *)
(* The functions of the parser that go through a list are folds.  Each is  *)
(* taken apart into its rounds (FoldFacts), an invariant of the rounds     *)
(* gives what the function returns, and the steps of the specification     *)
(* follow from that.  The order is that of the module: options of one      *)
(* place, records, the merge of a factor, levels, names of the scope.      *)
(***************************************************************************)
EXTENDS Declarations, SequenceTheorems, FoldFacts, TLAPS

-----------------------------------------------------------------------------
(* The table of attributes, and the options of one place. *)

(* What a row of the table of attributes may be. *)
AttributeOK(a) ==
  /\ a.uniontype \in UnionType /\ a.value \in Nat
  /\ \/ a.field \in Storage /\ a.uniontype = "UNKNOWN"
     \/ a.field \in Typed /\ a.uniontype # "UNKNOWN"
  /\ a.field \in Tristate \cup {"internal"} => a.once
  /\ a.once => a.field \in Tristate \cup Storage

(* Such a row for an attribute that may stand once. *)
LEMMA OnceOK ==
  ASSUME NEW type, NEW field, NEW value \in Nat, type \in UnionType,
         \/ field \in Storage /\ type = "UNKNOWN"
         \/ field \in Tristate /\ type # "UNKNOWN"
  PROVE  AttributeOK(Once(type, field, value))
<1> DEFINE a == Once(type, field, value)
<1>1. a.uniontype = type /\ a.field = field /\ a.value = value
  BY DEF Once
<1>2. a.once
  BY Zenon DEF Once
<1> HIDE DEF a
<1>3. Tristate \subseteq Typed
  BY DEF Tristate, Typed
<1> QED BY <1>1, <1>2, <1>3 DEF AttributeOK, a

(* Such a row for an attribute that replaces the first. *)
LEMMA OverOK ==
  ASSUME NEW type, NEW field, NEW value \in Nat, type \in UnionType,
         \/ field = "storageclass" /\ type = "UNKNOWN"
         \/ field \in Typed \ Tristate /\ type # "UNKNOWN"
  PROVE  AttributeOK(Over(type, field, value))
<1> DEFINE a == Over(type, field, value)
<1>1. a.uniontype = type /\ a.field = field /\ a.value = value
  BY DEF Over
<1>2. ~a.once
  BY Zenon DEF Over
<1>3. field \notin Tristate \cup {"internal"} /\ "storageclass" \in Storage
  BY DEF Storage, Tristate, Typed
<1> HIDE DEF a
<1> QED BY <1>1, <1>2, <1>3 DEF AttributeOK, a

(* All rows of the table are of that shape. *)
LEMMA AttributeTable == \A n \in DOMAIN Attribute : AttributeOK(Attribute[n])
<1>n. UnionType = {"UNKNOWN", "DCLNUM", "DCLPGM", "DCLCHAR"}
  BY DEF UnionType
<1>t. /\ {"storageclass", "internal"} \subseteq Storage
      /\ {"domain", "base", "type", "reducible"} \subseteq Tristate
      /\ {"precision", "chartype"} \subseteq Typed \ Tristate
  BY DEF Storage, Tristate, Typed
<1>1. AttributeOK(Attribute["FIXED"])
  <2>1. Attribute["FIXED"] = Once("DCLNUM", "base", 1)
    BY DEF Attribute
  <2>2. AttributeOK(Once("DCLNUM", "base", 1))
    BY <1>n, <1>t, OnceOK
  <2> QED BY <2>1, <2>2
<1>2. AttributeOK(Attribute["FLOAT"])
  <2>1. Attribute["FLOAT"] = Once("DCLNUM", "base", 0)
    BY DEF Attribute
  <2>2. AttributeOK(Once("DCLNUM", "base", 0))
    BY <1>n, <1>t, OnceOK
  <2> QED BY <2>1, <2>2
<1>3. AttributeOK(Attribute["DECIMAL"])
  <2>1. Attribute["DECIMAL"] = Once("DCLNUM", "type", 0)
    BY DEF Attribute
  <2>2. AttributeOK(Once("DCLNUM", "type", 0))
    BY <1>n, <1>t, OnceOK
  <2> QED BY <2>1, <2>2
<1>4. AttributeOK(Attribute["BINARY"])
  <2>1. Attribute["BINARY"] = Once("DCLNUM", "type", 1)
    BY DEF Attribute
  <2>2. AttributeOK(Once("DCLNUM", "type", 1))
    BY <1>n, <1>t, OnceOK
  <2> QED BY <2>1, <2>2
<1>5. AttributeOK(Attribute["REAL"])
  <2>1. Attribute["REAL"] = Once("DCLNUM", "domain", 0)
    BY DEF Attribute
  <2>2. AttributeOK(Once("DCLNUM", "domain", 0))
    BY <1>n, <1>t, OnceOK
  <2> QED BY <2>1, <2>2
<1>6. AttributeOK(Attribute["COMPLEX"])
  <2>1. Attribute["COMPLEX"] = Once("DCLNUM", "domain", 1)
    BY DEF Attribute
  <2>2. AttributeOK(Once("DCLNUM", "domain", 1))
    BY <1>n, <1>t, OnceOK
  <2> QED BY <2>1, <2>2
<1>7. AttributeOK(Attribute["PRECISION5"])
  <2>1. Attribute["PRECISION5"] = Over("DCLNUM", "precision", 5)
    BY DEF Attribute
  <2>2. AttributeOK(Over("DCLNUM", "precision", 5))
    BY <1>n, <1>t, OverOK
  <2> QED BY <2>1, <2>2
<1>8. AttributeOK(Attribute["PRECISION9"])
  <2>1. Attribute["PRECISION9"] = Over("DCLNUM", "precision", 9)
    BY DEF Attribute
  <2>2. AttributeOK(Over("DCLNUM", "precision", 9))
    BY <1>n, <1>t, OverOK
  <2> QED BY <2>1, <2>2
<1>9. AttributeOK(Attribute["AREA"])
  <2>1. Attribute["AREA"] = Over("DCLCHAR", "chartype", 0)
    BY DEF Attribute
  <2>2. AttributeOK(Over("DCLCHAR", "chartype", 0))
    BY <1>n, <1>t, OverOK
  <2> QED BY <2>1, <2>2
<1>10. AttributeOK(Attribute["BIT"])
  <2>1. Attribute["BIT"] = Over("DCLCHAR", "chartype", 1)
    BY DEF Attribute
  <2>2. AttributeOK(Over("DCLCHAR", "chartype", 1))
    BY <1>n, <1>t, OverOK
  <2> QED BY <2>1, <2>2
<1>11. AttributeOK(Attribute["CHARACTER"])
  <2>1. Attribute["CHARACTER"] = Over("DCLCHAR", "chartype", 2)
    BY DEF Attribute
  <2>2. AttributeOK(Over("DCLCHAR", "chartype", 2))
    BY <1>n, <1>t, OverOK
  <2> QED BY <2>1, <2>2
<1>12. AttributeOK(Attribute["GRAPHIC"])
  <2>1. Attribute["GRAPHIC"] = Over("DCLCHAR", "chartype", 3)
    BY DEF Attribute
  <2>2. AttributeOK(Over("DCLCHAR", "chartype", 3))
    BY <1>n, <1>t, OverOK
  <2> QED BY <2>1, <2>2
<1>13. AttributeOK(Attribute["PICTURE"])
  <2>1. Attribute["PICTURE"] = Over("DCLCHAR", "chartype", 4)
    BY DEF Attribute
  <2>2. AttributeOK(Over("DCLCHAR", "chartype", 4))
    BY <1>n, <1>t, OverOK
  <2> QED BY <2>1, <2>2
<1>14. AttributeOK(Attribute["WIDECHAR"])
  <2>1. Attribute["WIDECHAR"] = Over("DCLCHAR", "chartype", 5)
    BY DEF Attribute
  <2>2. AttributeOK(Over("DCLCHAR", "chartype", 5))
    BY <1>n, <1>t, OverOK
  <2> QED BY <2>1, <2>2
<1>15. AttributeOK(Attribute["DATE"])
  <2>1. Attribute["DATE"] = Over("DCLCHAR", "chartype", 6)
    BY DEF Attribute
  <2>2. AttributeOK(Over("DCLCHAR", "chartype", 6))
    BY <1>n, <1>t, OverOK
  <2> QED BY <2>1, <2>2
<1>16. AttributeOK(Attribute["AUTOMATIC"])
  <2>1. Attribute["AUTOMATIC"] = Over("UNKNOWN", "storageclass", 0)
    BY DEF Attribute
  <2>2. AttributeOK(Over("UNKNOWN", "storageclass", 0))
    BY <1>n, <1>t, OverOK
  <2> QED BY <2>1, <2>2
<1>17. AttributeOK(Attribute["BASED"])
  <2>1. Attribute["BASED"] = Over("UNKNOWN", "storageclass", 1)
    BY DEF Attribute
  <2>2. AttributeOK(Over("UNKNOWN", "storageclass", 1))
    BY <1>n, <1>t, OverOK
  <2> QED BY <2>1, <2>2
<1>18. AttributeOK(Attribute["CONTROLLED"])
  <2>1. Attribute["CONTROLLED"] = Once("UNKNOWN", "storageclass", 2)
    BY DEF Attribute
  <2>2. AttributeOK(Once("UNKNOWN", "storageclass", 2))
    BY <1>n, <1>t, OnceOK
  <2> QED BY <2>1, <2>2
<1>19. AttributeOK(Attribute["DEFINED"])
  <2>1. Attribute["DEFINED"] = Once("UNKNOWN", "storageclass", 3)
    BY DEF Attribute
  <2>2. AttributeOK(Once("UNKNOWN", "storageclass", 3))
    BY <1>n, <1>t, OnceOK
  <2> QED BY <2>1, <2>2
<1>20. AttributeOK(Attribute["STATIC"])
  <2>1. Attribute["STATIC"] = Over("UNKNOWN", "storageclass", 4)
    BY DEF Attribute
  <2>2. AttributeOK(Over("UNKNOWN", "storageclass", 4))
    BY <1>n, <1>t, OverOK
  <2> QED BY <2>1, <2>2
<1>21. AttributeOK(Attribute["PARAMETER"])
  <2>1. Attribute["PARAMETER"] = Over("UNKNOWN", "storageclass", 5)
    BY DEF Attribute
  <2>2. AttributeOK(Over("UNKNOWN", "storageclass", 5))
    BY <1>n, <1>t, OverOK
  <2> QED BY <2>1, <2>2
<1>22. AttributeOK(Attribute["INTERNAL"])
  <2>1. Attribute["INTERNAL"] = Once("UNKNOWN", "internal", 0)
    BY DEF Attribute
  <2>2. AttributeOK(Once("UNKNOWN", "internal", 0))
    BY <1>n, <1>t, OnceOK
  <2> QED BY <2>1, <2>2
<1>23. AttributeOK(Attribute["EXTERNAL"])
  <2>1. Attribute["EXTERNAL"] = Once("UNKNOWN", "internal", 1)
    BY DEF Attribute
  <2>2. AttributeOK(Once("UNKNOWN", "internal", 1))
    BY <1>n, <1>t, OnceOK
  <2> QED BY <2>1, <2>2
<1>24. AttributeOK(Attribute["REDUCIBLE"])
  <2>1. Attribute["REDUCIBLE"] = Once("DCLPGM", "reducible", 0)
    BY DEF Attribute
  <2>2. AttributeOK(Once("DCLPGM", "reducible", 0))
    BY <1>n, <1>t, OnceOK
  <2> QED BY <2>1, <2>2
<1>25. AttributeOK(Attribute["IRREDUCIBLE"])
  <2>1. Attribute["IRREDUCIBLE"] = Once("DCLPGM", "reducible", 1)
    BY DEF Attribute
  <2>2. AttributeOK(Once("DCLPGM", "reducible", 1))
    BY <1>n, <1>t, OnceOK
  <2> QED BY <2>1, <2>2
<1>a. DOMAIN Attribute = {"FIXED", "FLOAT", "DECIMAL", "BINARY", "REAL", "COMPLEX", "PRECISION5", "PRECISION9",
                          "AREA", "BIT", "CHARACTER", "GRAPHIC", "PICTURE", "WIDECHAR", "DATE",
                          "AUTOMATIC", "BASED", "CONTROLLED", "DEFINED", "STATIC", "PARAMETER",
                          "INTERNAL", "EXTERNAL", "REDUCIBLE", "IRREDUCIBLE"}
  BY DEF Attribute
<1> QED BY <1>a, <1>1, <1>2, <1>3, <1>4, <1>5, <1>6, <1>7, <1>8, <1>9, <1>10, <1>11, <1>12,
           <1>13, <1>14, <1>15, <1>16, <1>17, <1>18, <1>19, <1>20, <1>21, <1>22, <1>23, <1>24, <1>25

(* The options behind a name or a parenthesis. *)
Options == [uniontype: UnionType, set: [Storage \cup Typed -> Int], ok: BOOLEAN]

(* The attribute a cannot be added to the options d. *)
Clashing(d, a) ==
  \/ d.uniontype # a.uniontype /\ "UNKNOWN" \notin {d.uniontype, a.uniontype}
  \/ a.once /\ Taken(d.set[a.field], a.value)

(* One attribute more (dcloption). *)
LEMMA OptionRound ==
  ASSUME NEW d \in Options, NEW name \in DOMAIN Attribute
  PROVE  LET a == Attribute[name]
             e == dcloption(d, name)
         IN  /\ e \in Options
             /\ ~d.ok \/ Clashing(d, a) => ~e.ok
             /\ d.ok /\ ~Clashing(d, a) =>
                  /\ e.ok
                  /\ e.uniontype = IF a.uniontype = "UNKNOWN" THEN d.uniontype ELSE a.uniontype
                  /\ \A f \in Storage \cup Typed : e.set[f] = IF f = a.field THEN a.value ELSE d.set[f]
<1> DEFINE a == Attribute[name]
           e == dcloption(d, name)
           u == IF a.uniontype = "UNKNOWN" THEN d.uniontype ELSE a.uniontype
           s == [d.set EXCEPT ![a.field] = a.value]
           good == [d EXCEPT !.set = s, !.uniontype = u]
           bad == [d EXCEPT !.ok = FALSE]
<1>1. AttributeOK(a)
  BY AttributeTable
<1>2. e = IF ~d.ok \/ Clashing(d, a) THEN bad ELSE good
  <2> DEFINE v == SetTo(d.set[a.field], a.value)
             w == [d.set EXCEPT ![a.field] = v]
  <2>1. v = a.value
    <3>1. a.value \in Nat
      BY <1>1 DEF AttributeOK
    <3> HIDE DEF a
    <3> QED BY <3>1 DEF SetTo
  <2>2. e = IF ~d.ok \/ Clashing(d, a) THEN bad
            ELSE [d EXCEPT !.set[a.field] = v, !.uniontype = u]
    BY DEF dcloption, Clashing
  <2>3. [d EXCEPT !.set[a.field] = v, !.uniontype = u] = [d EXCEPT !.set = w, !.uniontype = u]
    <3> HIDE DEF a, u, v
    <3> QED OBVIOUS
  <2>4. w = s
    BY <2>1
  <2> HIDE DEF a, u, v, w, e, s
  <2> QED BY <2>2, <2>3, <2>4
<1> HIDE DEF a, e
<1>3. u \in UnionType /\ s \in [Storage \cup Typed -> Int]
      /\ \A f \in Storage \cup Typed : s[f] = IF f = a.field THEN a.value ELSE d.set[f]
  BY <1>1 DEF AttributeOK, Options
<1> HIDE DEF u, s
<1>4. bad \in Options /\ ~bad.ok
  BY DEF Options
<1>5. good \in Options /\ good.uniontype = u /\ good.set = s /\ (d.ok => good.ok)
  BY <1>3 DEF Options
<1> HIDE DEF good, bad
<1>6. CASE ~d.ok \/ Clashing(d, a)
  <2>1. e = bad
    BY <1>2, <1>6
  <2> QED BY <1>4, <1>6, <2>1 DEF a, e
<1>7. CASE d.ok /\ ~Clashing(d, a)
  <2>1. e = good
    BY <1>2, <1>7
  <2> QED BY <1>3, <1>5, <1>7, <2>1 DEF a, e, u
<1> QED BY <1>6, <1>7

(* The attribute at a place of a list. *)
AttributeAt(w, j) == Attribute[w[j]]

(* What the first n attributes of a list say of a field. *)
ValueTo(w, n, f, v) ==
  \/ v = -1 /\ \A j \in 1..n : AttributeAt(w, j).field # f
  \/ \E j \in 1..n : /\ AttributeAt(w, j).field = f /\ AttributeAt(w, j).value = v
                     /\ \A k \in 1..n : AttributeAt(w, k).field = f => k <= j

(* Their type, when it is the only one. *)
TypeTo(w, n, t) ==
  /\ t \in UnionType
  /\ \A j \in 1..n : AttributeAt(w, j).uniontype \in {"UNKNOWN", t}
  /\ t = "UNKNOWN" \/ \E j \in 1..n : AttributeAt(w, j).uniontype = t

(* Two of the first n attributes cannot stand together. *)
ContradictionTo(w, n) ==
  \E j, k \in 1..n : j < k /\ Contradiction(AttributeAt(w, j), AttributeAt(w, k))

(* The options d for the first n attributes of a list. *)
OptionsTo(w, n, d) ==
  IF d.ok THEN /\ \A f \in Storage \cup Typed : ValueTo(w, n, f, d.set[f])
               /\ TypeTo(w, n, d.uniontype) /\ ~ContradictionTo(w, n)
          ELSE ContradictionTo(w, n)

(* All attributes of a list are in the table. *)
LEMMA AttributesFacts ==
  ASSUME NEW w \in AttributeLists
  PROVE  /\ Len(w) \in Nat /\ DOMAIN w = 1..Len(w)
         /\ \A j \in 1..Len(w) : w[j] \in DOMAIN Attribute /\ AttributeOK(AttributeAt(w, j))
<1>1. \A j \in 1..Len(w) : w[j] \in DOMAIN Attribute
  BY DEF AttributeLists
<1> QED BY <1>1, AttributeTable DEF AttributeLists, AttributeAt

(* A field has a value, or nothing is said of it. *)
LEMMA ValueIs ==
  ASSUME NEW w \in AttributeLists, NEW n \in 0..Len(w), NEW f, NEW v, ValueTo(w, n, f, v)
  PROVE  /\ v \in Nat \cup {-1}
         /\ v = -1 <=> \A j \in 1..n : AttributeAt(w, j).field # f
<1>1. \A j \in 1..n : AttributeAt(w, j).value \in Nat
  BY AttributesFacts DEF AttributeOK
<1> QED BY <1>1 DEF ValueTo

(* The last value counts. *)
LEMMA ValueNext ==
  ASSUME NEW w, NEW n \in Nat, NEW f, NEW v, ValueTo(w, n, f, v)
  PROVE  ValueTo(w, n + 1, f, IF AttributeAt(w, n + 1).field = f THEN AttributeAt(w, n + 1).value ELSE v)
<1>1. \A j \in 1..(n + 1) : j \in 1..n \/ j = n + 1
  OBVIOUS
<1>2. n + 1 \in 1..(n + 1) /\ \A j \in 1..n : j \in 1..(n + 1) /\ j <= n + 1
  OBVIOUS
<1>3. CASE AttributeAt(w, n + 1).field = f
  <2>1. \A k \in 1..(n + 1) : k <= n + 1
    OBVIOUS
  <2> QED BY <1>2, <1>3, <2>1 DEF ValueTo
<1>4. CASE AttributeAt(w, n + 1).field # f
  <2>1. CASE v = -1 /\ \A j \in 1..n : AttributeAt(w, j).field # f
    BY <1>1, <1>4, <2>1 DEF ValueTo
  <2>2. ASSUME NEW j \in 1..n, AttributeAt(w, j).field = f, AttributeAt(w, j).value = v,
               \A k \in 1..n : AttributeAt(w, k).field = f => k <= j
        PROVE  ValueTo(w, n + 1, f, v)
    <3>1. \A k \in 1..(n + 1) : AttributeAt(w, k).field = f => k <= j
      BY <1>1, <1>4, <2>2
    <3> QED BY <1>2, <2>2, <3>1 DEF ValueTo
  <2> QED BY <1>4, <2>1, <2>2 DEF ValueTo
<1> QED BY <1>3, <1>4

(* One attribute more keeps the options right. *)
LEMMA OptionsNext ==
  ASSUME NEW w \in AttributeLists, NEW n \in Nat, n + 1 <= Len(w), NEW d \in Options, OptionsTo(w, n, d)
  PROVE  OptionsTo(w, n + 1, dcloption(d, w[n + 1]))
<1> DEFINE a == AttributeAt(w, n + 1)
           e == dcloption(d, w[n + 1])
<1>1. /\ Len(w) \in Nat /\ n \in 0..Len(w) /\ n + 1 \in 1..Len(w) /\ w[n + 1] \in DOMAIN Attribute
      /\ AttributeOK(a) /\ \A j \in 1..(n + 1) : AttributeOK(AttributeAt(w, j))
      /\ \A j \in 1..(n + 1) : j \in 1..n \/ j = n + 1
      /\ n + 1 \in 1..(n + 1) /\ \A j \in 1..n : j \in 1..(n + 1) /\ j < n + 1
  <2>1. Len(w) \in Nat
    BY AttributesFacts
  <2>2. n + 1 \in 1..Len(w) /\ \A j \in 1..(n + 1) : j \in 1..Len(w)
    BY <2>1
  <2> QED BY <2>1, <2>2, AttributesFacts
<1>2. /\ e \in Options
      /\ ~d.ok \/ Clashing(d, a) => ~e.ok
      /\ d.ok /\ ~Clashing(d, a) =>
           /\ e.ok
           /\ e.uniontype = IF a.uniontype = "UNKNOWN" THEN d.uniontype ELSE a.uniontype
           /\ \A f \in Storage \cup Typed : e.set[f] = IF f = a.field THEN a.value ELSE d.set[f]
  BY <1>1, OptionRound DEF AttributeAt
<1>w. a = AttributeAt(w, n + 1)
  OBVIOUS
<1> HIDE DEF a, e
<1>3. ContradictionTo(w, n) => ContradictionTo(w, n + 1)
  BY <1>1 DEF ContradictionTo
<1>4. CASE ~d.ok
  BY <1>2, <1>3, <1>4 DEF OptionsTo, e
<1>5. CASE d.ok /\ Clashing(d, a)
  <2>1. \E j \in 1..n : Contradiction(AttributeAt(w, j), a)
    <3>1. CASE d.uniontype # a.uniontype /\ "UNKNOWN" \notin {d.uniontype, a.uniontype}
      <4>1. PICK j \in 1..n : AttributeAt(w, j).uniontype = d.uniontype
        BY <1>5, <3>1 DEF OptionsTo, TypeTo
      <4> QED BY <3>1, <4>1 DEF Contradiction
    <3>2. CASE a.once /\ Taken(d.set[a.field], a.value)
      <4>1. a.field \in Storage \cup Typed
        BY <1>1 DEF AttributeOK
      <4>2. ValueTo(w, n, a.field, d.set[a.field]) /\ d.set[a.field] # -1
        BY <1>5, <3>2, <4>1 DEF OptionsTo, Taken
      <4>3. PICK j \in 1..n : AttributeAt(w, j).field = a.field
        BY <4>2 DEF ValueTo
      <4> QED BY <3>2, <4>3 DEF Contradiction
    <3> QED BY <1>5, <3>1, <3>2 DEF Clashing
  <2>2. PICK j \in 1..n : Contradiction(AttributeAt(w, j), a)
    BY <2>1
  <2>3. j \in 1..(n + 1) /\ n + 1 \in 1..(n + 1) /\ j < n + 1
    BY <1>1
  <2>4. ContradictionTo(w, n + 1)
    BY <1>w, <2>2, <2>3 DEF ContradictionTo
  <2> QED BY <1>2, <1>5, <2>4 DEF OptionsTo, e
<1>6. CASE d.ok /\ ~Clashing(d, a)
  <2>1. ASSUME NEW f \in Storage \cup Typed PROVE ValueTo(w, n + 1, f, e.set[f])
    <3>1. ValueTo(w, n, f, d.set[f])
      BY <1>6 DEF OptionsTo
    <3>2. e.set[f] = IF a.field = f THEN a.value ELSE d.set[f]
      BY <1>2, <1>6
    <3> QED BY <1>w, <3>1, <3>2, ValueNext
  <2>2. TypeTo(w, n + 1, e.uniontype)
    <3>1. TypeTo(w, n, d.uniontype)
      BY <1>6 DEF OptionsTo
    <3>2. d.uniontype = a.uniontype \/ d.uniontype = "UNKNOWN" \/ a.uniontype = "UNKNOWN"
      BY <1>6 DEF Clashing
    <3>3. e.uniontype = IF a.uniontype = "UNKNOWN" THEN d.uniontype ELSE a.uniontype
      BY <1>2, <1>6
    <3>4. a.uniontype \in UnionType
      BY <1>1 DEF AttributeOK
    <3> QED BY <1>1, <1>w, <3>1, <3>2, <3>3, <3>4 DEF TypeTo
  <2>3. ASSUME NEW j \in 1..n PROVE ~Contradiction(AttributeAt(w, j), a)
    <3> DEFINE b == AttributeAt(w, j)
    <3>1. ~(b.field = a.field /\ a.once)
      <4> SUFFICES ASSUME b.field = a.field, a.once PROVE FALSE
        OBVIOUS
      <4>1. a.field \in Storage \cup Typed /\ a.value \in Nat
        BY <1>1 DEF AttributeOK
      <4>2. ValueTo(w, n, a.field, d.set[a.field])
        BY <1>6, <4>1 DEF OptionsTo
      <4>3. d.set[a.field] # -1
        BY <1>1, <4>2, ValueIs
      <4> QED BY <1>6, <4>1, <4>3 DEF Clashing, Taken
    <3>2. b.uniontype = a.uniontype \/ "UNKNOWN" \in {b.uniontype, a.uniontype}
      <4>1. b.uniontype \in {"UNKNOWN", d.uniontype}
        BY <1>6 DEF OptionsTo, TypeTo
      <4> QED BY <1>6, <4>1 DEF Clashing
    <3> QED BY <3>1, <3>2 DEF Contradiction
  <2>4. ~ContradictionTo(w, n + 1)
    <3> SUFFICES ASSUME NEW j \in 1..(n + 1), NEW k \in 1..(n + 1), j < k,
                        Contradiction(AttributeAt(w, j), AttributeAt(w, k))
                 PROVE  FALSE
      BY DEF ContradictionTo
    <3>1. j \in 1..n
      OBVIOUS
    <3>2. k \in 1..n \/ k = n + 1
      BY <1>1
    <3>3. k # n + 1
      BY <1>w, <2>3, <3>1
    <3>4. ContradictionTo(w, n)
      BY <3>1, <3>2, <3>3 DEF ContradictionTo
    <3> QED BY <1>6, <3>4 DEF OptionsTo
  <2> QED BY <1>2, <1>6, <2>1, <2>2, <2>4 DEF OptionsTo, e
<1> QED BY <1>4, <1>5, <1>6

(* An empty list says nothing. *)
LEMMA NoOptions ==
  /\ newDclOptionList \in Options
  /\ \A w : OptionsTo(w, 0, newDclOptionList)
<1> DEFINE d == newDclOptionList
<1>1. d.uniontype = "UNKNOWN" /\ \A f \in Storage \cup Typed : d.set[f] = -1
  BY DEF newDclOptionList
<1>2. d.ok
  BY Zenon DEF newDclOptionList
<1>3. d \in Options
  BY DEF newDclOptionList, Options, UnionType
<1> HIDE DEF d
<1>4. ASSUME NEW w PROVE OptionsTo(w, 0, d)
  <2>1. 1..0 = {}
    OBVIOUS
  <2> QED BY <1>1, <1>2, <1>3, <2>1 DEF OptionsTo, ValueTo, TypeTo, ContradictionTo, Options
<1> QED BY <1>3, <1>4 DEF d

(* The states of dcloptionlist. *)
LEMMA OptionsFold ==
  ASSUME NEW names \in AttributeLists
  PROVE  \E acc \in [0..Len(names) -> Options] :
           /\ acc[0] = newDclOptionList
           /\ \A k \in 1..Len(names) : acc[k] = dcloption(acc[k - 1], names[k])
           /\ dcloptionlist(names) = acc[Len(names)]
<1> DEFINE T == Options
           n == Len(names)
           base == newDclOptionList
           F == [p \in T \X (1..n) |-> dcloption(p[1], names[p[2]])]
           Eq(g) == g = [s \in SUBSET (DOMAIN names) |->
                           IF s = {} THEN base ELSE dcloption(g[s \ {Max(s)}], names[Max(s)])]
           h == CHOOSE g : Eq(g)
<1>1. n \in Nat /\ DOMAIN names = 1..n /\ \A i \in 1..n : names[i] \in DOMAIN Attribute
  BY AttributesFacts
<1>2. F \in [T \X (1..n) -> T]
  <2>1. \A r \in T, i \in 1..n : dcloption(r, names[i]) \in T
    BY <1>1, OptionRound
  <2> HIDE DEF T
  <2> QED BY <2>1
<1>b. base \in T
  BY NoOptions
<1> HIDE DEF base
<1>3. \E g : Eq(g)
  <2>1. PICK g \in [SUBSET (1..n) -> T] : FoldEquation(g, n, F, base)
    <3> HIDE DEF T, F
    <3> QED BY <1>1, <1>2, <1>b, FoldExists
  <2> HIDE DEF T
  <2> QED BY <1>1, <2>1 DEF FoldEquation
<1>4. Eq(h)
  <2> HIDE DEF Eq
  <2> QED BY <1>3
<1>5. dcloptionlist(names) = h[DOMAIN names]
  BY DEF dcloptionlist, FoldLeft, MapThenFoldSet, base
<1>6. Solves(h, DOMAIN names, T, n, F, base)
  <2> HIDE DEF h, T
  <2> QED BY <1>1, <1>4 DEF Solves
<1>7. PICK acc : Steps(acc, T, n, F, base, h[DOMAIN names])
  <2>1. n \in Nat
    BY <1>1
  <2> HIDE DEF h, F, T, n
  <2> QED BY <1>2, <1>6, <1>b, <2>1, FoldSteps
<1>8. \A k \in 1..n : acc[k] = dcloption(acc[k - 1], names[k])
  <2>1. \A k \in 1..n : k - 1 \in 0..n
    BY <1>1
  <2> HIDE DEF T, n
  <2> QED BY <1>7, <2>1 DEF Steps
<1> HIDE DEF h
<1> QED BY <1>5, <1>7, <1>8 DEF Steps, base

(* dcloptionlist gives what the list says, or is in error for a              *)
(* contradiction in it.                                                      *)
LEMMA OptionsOf ==
  ASSUME NEW names \in AttributeLists
  PROVE  dcloptionlist(names) \in Options /\ OptionsTo(names, Len(names), dcloptionlist(names))
<1>1. PICK acc \in [0..Len(names) -> Options] :
        /\ acc[0] = newDclOptionList
        /\ \A k \in 1..Len(names) : acc[k] = dcloption(acc[k - 1], names[k])
        /\ dcloptionlist(names) = acc[Len(names)]
  BY OptionsFold
<1> DEFINE n == Len(names)
           S == {k \in Nat : k <= n => OptionsTo(names, k, acc[k])}
<1>2. n \in Nat
  BY AttributesFacts
<1>3. 0 \in S
  BY <1>1, NoOptions
<1>4. ASSUME NEW k \in Nat, k \in S PROVE k + 1 \in S
  <2> SUFFICES ASSUME k + 1 <= n PROVE OptionsTo(names, k + 1, acc[k + 1])
    OBVIOUS
  <2>1. k + 1 \in 1..n /\ (k + 1) - 1 = k /\ k \in 0..n /\ OptionsTo(names, k, acc[k])
    BY <1>2, <1>4
  <2>2. acc[k + 1] = dcloption(acc[k], names[k + 1]) /\ acc[k] \in Options
    <3> HIDE DEF S
    <3> QED BY <1>1, <2>1
  <2> HIDE DEF S
  <2> QED BY <2>1, <2>2, OptionsNext
<1>5. Nat \subseteq S
  <2> HIDE DEF S
  <2> QED BY <1>3, <1>4, NatSetInduction
<1>6. n \in S /\ n \in 0..n
  <2> HIDE DEF S
  <2> QED BY <1>2, <1>5
<1> QED BY <1>1, <1>2, <1>6

-----------------------------------------------------------------------------
(* Records on the heap. *)

(* What is on the heap. *)
ListRecords == [uniontype: UnionType, own: [Storage -> Int], union: Nat]
UnionRecords == [Typed -> Int]
Heaps == [list: Seq(ListRecords), union: Seq(UnionRecords)]

(* Each record has fields of its type, if it has a type, in the union it     *)
(* points to.                                                                *)
HeapOK(h) ==
  /\ h \in Heaps
  /\ \A a \in 1..Len(h.list) :
       /\ h.list[a].union \in 0..Len(h.union)
       /\ h.list[a].union = NULL <=> h.list[a].uniontype = "UNKNOWN"

(* What the record of an element says. *)
TypeAt(h, a) == IF a = NULL THEN "UNKNOWN" ELSE h.list[a].uniontype
UnionAt(h, a) == IF a = NULL THEN NULL ELSE h.list[a].union
OwnAt(h, a, f) == IF a = NULL THEN -1 ELSE h.list[a].own[f]
FieldAt(h, a, f) == IF UnionAt(h, a) = NULL THEN -1 ELSE h.union[UnionAt(h, a)][f]

(* The parts of a heap. *)
LEMMA HeapFacts ==
  ASSUME NEW h, HeapOK(h)
  PROVE  /\ Len(h.list) \in Nat /\ Len(h.union) \in Nat
         /\ \A a \in 1..Len(h.list) :
              /\ h.list[a] \in ListRecords /\ h.list[a].uniontype \in UnionType
              /\ h.list[a].union \in 0..Len(h.union) /\ h.list[a].own \in [Storage -> Int]
              /\ h.list[a].union = NULL <=> h.list[a].uniontype = "UNKNOWN"
         /\ \A u \in 1..Len(h.union) : h.union[u] \in UnionRecords
<1>1. h.list \in Seq(ListRecords) /\ h.union \in Seq(UnionRecords)
  BY DEF HeapOK, Heaps
<1>2. \A a \in 1..Len(h.list) : h.list[a] \in ListRecords
  BY <1>1
<1> QED BY <1>1, <1>2 DEF HeapOK, ListRecords

(* What the record of an element may say. *)
LEMMA AtFacts ==
  ASSUME NEW h, HeapOK(h), NEW a \in 0..Len(h.list)
  PROVE  /\ TypeAt(h, a) \in UnionType /\ UnionAt(h, a) \in 0..Len(h.union)
         /\ UnionAt(h, a) = NULL <=> TypeAt(h, a) = "UNKNOWN"
         /\ \A f \in Storage : OwnAt(h, a, f) \in Int
         /\ \A f \in Typed : FieldAt(h, a, f) \in Int
<1>1. CASE a = NULL
  BY <1>1, HeapFacts DEF TypeAt, UnionAt, OwnAt, FieldAt, NULL, UnionType
<1>2. CASE a # NULL
  <2>1. a \in 1..Len(h.list)
    BY <1>2, HeapFacts DEF NULL
  <2> DEFINE l == h.list[a]
  <2>2. /\ l.uniontype \in UnionType /\ l.union \in 0..Len(h.union) /\ l.own \in [Storage -> Int]
        /\ l.union = NULL <=> l.uniontype = "UNKNOWN"
    BY <2>1, HeapFacts
  <2>3. TypeAt(h, a) = l.uniontype /\ UnionAt(h, a) = l.union /\ \A f \in Storage : OwnAt(h, a, f) = l.own[f]
    BY <1>2 DEF TypeAt, UnionAt, OwnAt
  <2> HIDE DEF l
  <2>4. \A f \in Typed : FieldAt(h, a, f) \in Int
    <3> SUFFICES ASSUME NEW f \in Typed, l.union # NULL PROVE h.union[l.union][f] \in Int
      BY <2>3 DEF FieldAt
    <3> DEFINE u == l.union
    <3>1. u \in 1..Len(h.union)
      BY <2>2, HeapFacts DEF NULL
    <3> HIDE DEF u
    <3>2. h.union[u] \in UnionRecords
      BY <3>1, HeapFacts
    <3> QED BY <3>2 DEF UnionRecords, u
  <2> QED BY <2>2, <2>3, <2>4
<1> QED BY <1>1, <1>2

-----------------------------------------------------------------------------
(* The three ways in which a record changes. *)
OwnSet(h, a, o) == [h EXCEPT !.list[a].own = o]
TypeSet(h, a, t, u) == [h EXCEPT !.list[a].uniontype = t, !.list[a].union = u]
FieldsSet(h, u, v) == [h EXCEPT !.union[u] = v]

(* An element of a sequence replaced. *)
LEMMA SeqSet ==
  ASSUME NEW S, NEW s \in Seq(S), NEW a \in 1..Len(s), NEW l \in S
  PROVE  LET t == [s EXCEPT ![a] = l]
         IN  /\ t \in Seq(S) /\ Len(t) = Len(s)
             /\ \A b \in 1..Len(s) : t[b] = IF b = a THEN l ELSE s[b]
<1> DEFINE t == [s EXCEPT ![a] = l]
           n == Len(s)
<1>1. n \in Nat /\ DOMAIN s = 1..n /\ \A b \in 1..n : s[b] \in S
  OBVIOUS
<1> HIDE DEF n
<1>2. t = [b \in 1..n |-> IF b = a THEN l ELSE s[b]]
  BY <1>1
<1>3. t \in [1..n -> S] /\ \A b \in 1..n : t[b] = IF b = a THEN l ELSE s[b]
  BY <1>1, <1>2
<1> HIDE DEF t
<1>4. t \in Seq(S) /\ Len(t) = n
  BY <1>1, <1>3
<1> QED BY <1>3, <1>4 DEF t, n

(* A record replaced. *)
LEMMA ListSet ==
  ASSUME NEW h, HeapOK(h), NEW a \in 1..Len(h.list), NEW l \in ListRecords,
         l.union \in 0..Len(h.union), l.union = NULL <=> l.uniontype = "UNKNOWN"
  PROVE  LET g == [h EXCEPT !.list = [h.list EXCEPT ![a] = l]]
         IN  /\ HeapOK(g) /\ Len(g.list) = Len(h.list) /\ g.union = h.union
             /\ \A b \in 1..Len(h.list) : g.list[b] = IF b = a THEN l ELSE h.list[b]
<1> DEFINE s == h.list
           t == [s EXCEPT ![a] = l]
           g == [h EXCEPT !.list = t]
<1>1. s \in Seq(ListRecords) /\ h.union \in Seq(UnionRecords) /\ h \in Heaps
  BY DEF HeapOK, Heaps
<1>2. t \in Seq(ListRecords) /\ Len(t) = Len(s) /\ \A b \in 1..Len(s) : t[b] = IF b = a THEN l ELSE s[b]
  <2> HIDE DEF s
  <2> QED BY <1>1, SeqSet DEF s
<1>3. g.list = t /\ g.union = h.union /\ g \in Heaps
  <2> HIDE DEF t, s
  <2> QED BY <1>1, <1>2 DEF Heaps
<1> HIDE DEF g, t
<1>4. HeapOK(g)
  BY <1>2, <1>3, HeapFacts DEF HeapOK
<1> QED BY <1>2, <1>3, <1>4 DEF g, t, s

(* What OwnSet changes. *)
LEMMA OwnSetIs ==
  ASSUME NEW h, HeapOK(h), NEW a \in 1..Len(h.list), NEW o \in [Storage -> Int]
  PROVE  LET g == OwnSet(h, a, o)
         IN  /\ HeapOK(g) /\ Len(g.list) = Len(h.list) /\ Len(g.union) = Len(h.union)
             /\ \A b \in 0..Len(h.list) :
                  /\ TypeAt(g, b) = TypeAt(h, b) /\ UnionAt(g, b) = UnionAt(h, b)
                  /\ \A f \in Typed : FieldAt(g, b, f) = FieldAt(h, b, f)
                  /\ \A f \in Storage : OwnAt(g, b, f) = IF b = a THEN o[f] ELSE OwnAt(h, b, f)
<1> DEFINE k == h.list[a]
           l == [k EXCEPT !.own = o]
           g == OwnSet(h, a, o)
<1>1. k \in ListRecords /\ k.union \in 0..Len(h.union) /\ (k.union = NULL <=> k.uniontype = "UNKNOWN")
  BY HeapFacts
<1>2. g = [h EXCEPT !.list = [h.list EXCEPT ![a] = l]]
  BY DEF OwnSet
<1> HIDE DEF k, g
<1>3. l \in ListRecords /\ l.union = k.union /\ l.uniontype = k.uniontype /\ l.own = o
  BY <1>1 DEF ListRecords
<1> HIDE DEF l
<1>4. /\ HeapOK(g) /\ Len(g.list) = Len(h.list) /\ g.union = h.union
      /\ \A b \in 1..Len(h.list) : g.list[b] = IF b = a THEN l ELSE h.list[b]
  BY <1>1, <1>2, <1>3, ListSet
<1>5. ASSUME NEW b \in 0..Len(h.list)
      PROVE  /\ TypeAt(g, b) = TypeAt(h, b) /\ UnionAt(g, b) = UnionAt(h, b)
             /\ \A f \in Storage : OwnAt(g, b, f) = IF b = a THEN o[f] ELSE OwnAt(h, b, f)
  <2>1. b = 0 \/ b \in 1..Len(h.list)
    BY HeapFacts
  <2>2. a # 0
    BY HeapFacts
  <2> QED BY <1>3, <1>4, <2>1, <2>2 DEF TypeAt, UnionAt, OwnAt, NULL, k
<1>6. \A b \in 0..Len(h.list), f \in Typed : FieldAt(g, b, f) = FieldAt(h, b, f)
  BY <1>4, <1>5 DEF FieldAt
<1> QED BY <1>4, <1>5, <1>6 DEF g

(* What TypeSet changes. *)
LEMMA TypeSetIs ==
  ASSUME NEW h, HeapOK(h), NEW a \in 1..Len(h.list), NEW t \in UnionType \ {"UNKNOWN"}, NEW u \in 1..Len(h.union)
  PROVE  LET g == TypeSet(h, a, t, u)
         IN  /\ HeapOK(g) /\ Len(g.list) = Len(h.list) /\ Len(g.union) = Len(h.union)
             /\ \A b \in 0..Len(h.list) :
                  /\ TypeAt(g, b) = IF b = a THEN t ELSE TypeAt(h, b)
                  /\ UnionAt(g, b) = IF b = a THEN u ELSE UnionAt(h, b)
                  /\ \A f \in Typed : FieldAt(g, b, f) = IF b = a THEN h.union[u][f] ELSE FieldAt(h, b, f)
                  /\ \A f \in Storage : OwnAt(g, b, f) = OwnAt(h, b, f)
<1> DEFINE k == h.list[a]
           l == [k EXCEPT !.uniontype = t, !.union = u]
           g == TypeSet(h, a, t, u)
<1>1. k \in ListRecords /\ Len(h.union) \in Nat
  BY HeapFacts
<1>2. g = [h EXCEPT !.list = [h.list EXCEPT ![a] = l]]
  <2> DEFINE s == h.list
             l1 == [k EXCEPT !.uniontype = t]
             s1 == [s EXCEPT ![a] = l1]
             g1 == [h EXCEPT !.list = s1]
             s2 == [s1 EXCEPT ![a] = [s1[a] EXCEPT !.union = u]]
             s3 == [s EXCEPT ![a] = l]
  <2>1. g = [g1 EXCEPT !.list = [g1.list EXCEPT ![a] = [g1.list[a] EXCEPT !.union = u]]]
    BY DEF TypeSet
  <2>2. a \in DOMAIN s /\ DOMAIN h = {"list", "union"}
    BY DEF HeapOK, Heaps
  <2>3. g1.list = s1 /\ s1[a] = l1
    BY <2>2
  <2>4. [l1 EXCEPT !.union = u] = l
    OBVIOUS
  <2>5. s2 = [s1 EXCEPT ![a] = l]
    BY <2>3, <2>4
  <2>6. [s1 EXCEPT ![a] = l] = s3
    <3> HIDE DEF l, l1, s
    <3> QED OBVIOUS
  <2>7. g = [g1 EXCEPT !.list = s2]
    <3> HIDE DEF s1, g1, g
    <3> QED BY <2>1, <2>3
  <2> HIDE DEF s2, s3, g
  <2>8. [g1 EXCEPT !.list = s3] = [h EXCEPT !.list = s3]
    <3> HIDE DEF s1
    <3> QED BY <2>2
  <2>9. g = [h EXCEPT !.list = s3]
    BY <2>5, <2>6, <2>7, <2>8
  <2> QED BY <2>9 DEF s3
<1>u. u \in Nat /\ u \in 0..Len(h.union) /\ u # 0
  BY <1>1
<1> HIDE DEF k, g
<1>3. l \in ListRecords /\ l.union = u /\ l.uniontype = t /\ l.own = k.own
  BY <1>1, <1>u DEF ListRecords
<1> HIDE DEF l
<1>4. /\ HeapOK(g) /\ Len(g.list) = Len(h.list) /\ g.union = h.union
      /\ \A b \in 1..Len(h.list) : g.list[b] = IF b = a THEN l ELSE h.list[b]
  BY <1>2, <1>3, <1>u, ListSet DEF NULL
<1>5. ASSUME NEW b \in 0..Len(h.list)
      PROVE  /\ TypeAt(g, b) = IF b = a THEN t ELSE TypeAt(h, b)
             /\ UnionAt(g, b) = IF b = a THEN u ELSE UnionAt(h, b)
             /\ \A f \in Storage : OwnAt(g, b, f) = OwnAt(h, b, f)
  <2>1. b = 0 \/ b \in 1..Len(h.list)
    BY HeapFacts
  <2>2. a # 0
    BY HeapFacts
  <2> QED BY <1>3, <1>4, <2>1, <2>2 DEF TypeAt, UnionAt, OwnAt, NULL, k
<1>6. \A b \in 0..Len(h.list), f \in Typed : FieldAt(g, b, f) = IF b = a THEN h.union[u][f] ELSE FieldAt(h, b, f)
  BY <1>4, <1>5, <1>u DEF FieldAt, NULL
<1> QED BY <1>4, <1>5, <1>6 DEF g

(* What FieldsSet changes: the fields of all records that point to u. *)
LEMMA FieldsSetIs ==
  ASSUME NEW h, HeapOK(h), NEW u \in 1..Len(h.union), NEW v \in UnionRecords
  PROVE  LET g == FieldsSet(h, u, v)
         IN  /\ HeapOK(g) /\ Len(g.list) = Len(h.list) /\ Len(g.union) = Len(h.union)
             /\ \A b \in 0..Len(h.list) :
                  /\ TypeAt(g, b) = TypeAt(h, b) /\ UnionAt(g, b) = UnionAt(h, b)
                  /\ \A f \in Typed : FieldAt(g, b, f) = IF UnionAt(h, b) = u THEN v[f] ELSE FieldAt(h, b, f)
                  /\ \A f \in Storage : OwnAt(g, b, f) = OwnAt(h, b, f)
<1> DEFINE s == h.union
           t == [s EXCEPT ![u] = v]
           g == FieldsSet(h, u, v)
<1>1. s \in Seq(UnionRecords) /\ h.list \in Seq(ListRecords) /\ h \in Heaps
  BY DEF HeapOK, Heaps
<1>2. t \in Seq(UnionRecords) /\ Len(t) = Len(s) /\ \A b \in 1..Len(s) : t[b] = IF b = u THEN v ELSE s[b]
  <2> HIDE DEF s
  <2> QED BY <1>1, SeqSet DEF s
<1>a. g = [h EXCEPT !.union = t]
  BY DEF FieldsSet
<1>3. g.union = t /\ g.list = h.list /\ g \in Heaps
  <2> HIDE DEF t, s, g
  <2> QED BY <1>1, <1>2, <1>a DEF Heaps
<1> HIDE DEF g, t
<1>4. HeapOK(g)
  BY <1>2, <1>3, HeapFacts DEF HeapOK
<1>5. \A b \in 0..Len(h.list) :
         /\ TypeAt(g, b) = TypeAt(h, b) /\ UnionAt(g, b) = UnionAt(h, b)
         /\ \A f \in Storage : OwnAt(g, b, f) = OwnAt(h, b, f)
  BY <1>3 DEF TypeAt, UnionAt, OwnAt
<1>6. ASSUME NEW b \in 0..Len(h.list), NEW f \in Typed
      PROVE  FieldAt(g, b, f) = IF UnionAt(h, b) = u THEN v[f] ELSE FieldAt(h, b, f)
  <2> DEFINE x == UnionAt(h, b)
  <2>1. x \in 0..Len(s) /\ Len(s) \in Nat
    BY AtFacts, HeapFacts
  <2>2. UnionAt(g, b) = x
    BY <1>5
  <2> HIDE DEF x, s
  <2>3. x = NULL \/ x \in 1..Len(s)
    BY <2>1 DEF NULL
  <2>4. u # NULL
    BY DEF NULL
  <2> QED BY <1>2, <1>3, <2>2, <2>3, <2>4 DEF FieldAt, x, s
<1> QED BY <1>2, <1>3, <1>4, <1>5, <1>6 DEF g, s

-----------------------------------------------------------------------------
(* One round of mergeDeclareElements. *)

(* The result of an operation on the heap. *)
LEMMA Results ==
  ASSUME NEW h
  PROVE  /\ [heap |-> h, ok |-> TRUE].heap = h /\ [heap |-> h, ok |-> TRUE].ok
         /\ [heap |-> h, ok |-> FALSE].heap = h /\ ~[heap |-> h, ok |-> FALSE].ok
<1>1. [heap |-> h, ok |-> TRUE].heap = h /\ [heap |-> h, ok |-> FALSE].heap = h
  OBVIOUS
<1>2. [heap |-> h, ok |-> TRUE].ok /\ ~[heap |-> h, ok |-> FALSE].ok
  BY Zenon
<1> QED BY <1>1, <1>2

(* Two records that are of different types. *)
TypesDiffer(h, a, d) ==
  TypeAt(h, a) # TypeAt(h, d) /\ TypeAt(h, a) # "UNKNOWN" /\ TypeAt(h, d) # "UNKNOWN"

(* Two records with a field that may be set once. *)
FieldsConflict(h, a, d) == \E f \in Tristate : Taken(FieldAt(h, a, f), FieldAt(h, d, f))
(* Two records with INTERNAL or EXTERNAL. *)
InternalConflict(h, a, d) == Taken(OwnAt(h, a, "internal"), OwnAt(h, d, "internal"))

(* Element a takes what d says; others change only when they share its record. *)
Took(h, g, a, d) ==
  /\ ~TypesDiffer(h, a, d) /\ ~FieldsConflict(h, a, d)
  /\ HeapOK(g) /\ Len(g.list) = Len(h.list)
  /\ TypeAt(g, a) = IF TypeAt(h, a) = "UNKNOWN" THEN TypeAt(h, d) ELSE TypeAt(h, a)
  /\ UnionAt(g, a) = IF UnionAt(h, a) = NULL THEN UnionAt(h, d) ELSE UnionAt(h, a)
  /\ \A f \in Typed : FieldAt(g, a, f) = SetTo(FieldAt(h, a, f), FieldAt(h, d, f))
  /\ \A f \in Storage : OwnAt(g, a, f) \in {OwnAt(h, a, f), SetTo(OwnAt(h, a, f), OwnAt(h, d, f))}
  /\ \A b \in 0..Len(h.list) : b # a =>
       /\ TypeAt(g, b) = TypeAt(h, b) /\ UnionAt(g, b) = UnionAt(h, b)
       /\ \A f \in Storage : OwnAt(g, b, f) = OwnAt(h, b, f)
       /\ \A f \in Typed :
            FieldAt(g, b, f) = IF UnionAt(h, b) # NULL /\ UnionAt(h, b) = UnionAt(h, a)
                               THEN SetTo(FieldAt(h, b, f), FieldAt(h, d, f)) ELSE FieldAt(h, b, f)

(* What SetTo gives. *)
LEMMA SetToFacts ==
  /\ \A v \in Int, d \in Int : SetTo(v, d) \in Int
  /\ \A v \in Int : SetTo(v, -1) = v /\ SetTo(v, v) = v /\ SetTo(-1, v) \in {-1, v}
  /\ \A v, d \in Int : d >= -1 => SetTo(-1, d) = d /\ SetTo(SetTo(v, d), d) = SetTo(v, d)
BY DEF SetTo

(* The fields of all records are -1 or more. *)
Signed(h) == \A b \in 0..Len(h.list) : \A f \in Typed : FieldAt(h, b, f) >= -1

(* A record without a type has no fields. *)
LEMMA UnknownFields ==
  ASSUME NEW h, HeapOK(h), NEW a \in 0..Len(h.list), TypeAt(h, a) = "UNKNOWN"
  PROVE  UnionAt(h, a) = NULL /\ \A f \in Typed : FieldAt(h, a, f) = -1
BY AtFacts DEF FieldAt

(* A record without a type takes the type and the union of another. *)
LEMMA TookType ==
  ASSUME NEW h, HeapOK(h), Signed(h), NEW a \in 1..Len(h.list), NEW d \in 1..Len(h.list),
         TypeAt(h, a) = "UNKNOWN", TypeAt(h, d) # "UNKNOWN"
  PROVE  Took(h, TypeSet(h, a, TypeAt(h, d), UnionAt(h, d)), a, d)
<1> DEFINE t == TypeAt(h, d)
           u == UnionAt(h, d)
           g == TypeSet(h, a, t, u)
           m == Len(h.list)
<1>1. m \in Nat /\ a \in 0..m /\ d \in 0..m /\ Len(h.union) \in Nat
  BY HeapFacts
<1>2. /\ t \in UnionType \ {"UNKNOWN"} /\ u \in 0..Len(h.union) /\ u # NULL
      /\ \A f \in Typed : FieldAt(h, d, f) \in Int
  BY <1>1, AtFacts
<1>3. u \in 1..Len(h.union)
  <2> HIDE DEF u
  <2> QED BY <1>1, <1>2 DEF NULL
<1>4. UnionAt(h, a) = NULL /\ \A f \in Typed : FieldAt(h, a, f) = -1
  BY <1>1, UnknownFields
<1>f. \A f \in Typed : FieldAt(h, d, f) = h.union[u][f] /\ FieldAt(h, d, f) >= -1
  BY <1>1, <1>2 DEF FieldAt, Signed
<1> HIDE DEF t, u
<1>5. /\ HeapOK(g) /\ Len(g.list) = m
      /\ \A b \in 0..m :
           /\ TypeAt(g, b) = IF b = a THEN t ELSE TypeAt(h, b)
           /\ UnionAt(g, b) = IF b = a THEN u ELSE UnionAt(h, b)
           /\ \A f \in Typed : FieldAt(g, b, f) = IF b = a THEN h.union[u][f] ELSE FieldAt(h, b, f)
           /\ \A f \in Storage : OwnAt(g, b, f) = OwnAt(h, b, f)
  BY <1>2, <1>3, TypeSetIs
<1> HIDE DEF g, m
<1>6. \A f \in Typed : FieldAt(g, a, f) = SetTo(FieldAt(h, a, f), FieldAt(h, d, f))
  <2> SUFFICES ASSUME NEW f \in Typed
               PROVE  FieldAt(g, a, f) = SetTo(FieldAt(h, a, f), FieldAt(h, d, f))
    OBVIOUS
  <2>1. FieldAt(g, a, f) = FieldAt(h, d, f)
    BY <1>1, <1>5, <1>f
  <2>2. FieldAt(h, a, f) = -1 /\ FieldAt(h, d, f) \in Int /\ FieldAt(h, d, f) >= -1
    BY <1>2, <1>4, <1>f
  <2>3. SetTo(-1, FieldAt(h, d, f)) = FieldAt(h, d, f)
    BY <2>2, SetToFacts
  <2> QED BY <2>1, <2>2, <2>3
<1>7. ~FieldsConflict(h, a, d)
  <2>1. Tristate \subseteq Typed
    BY DEF Tristate, Typed
  <2> QED BY <1>4, <2>1 DEF FieldsConflict, Taken
<1> QED BY <1>1, <1>2, <1>4, <1>5, <1>6, <1>7 DEF Took, TypesDiffer, g, t, u, m

(* The storage attributes of d are added to those of a. *)
OwnSum(h, a, d) == [f \in Storage |-> SetTo(h.list[a].own[f], h.list[d].own[f])]

(* The attributes of storage of two records. *)
LEMMA OwnSumIs ==
  ASSUME NEW h, HeapOK(h), NEW a \in 1..Len(h.list), NEW d \in 1..Len(h.list)
  PROVE  /\ OwnSum(h, a, d) \in [Storage -> Int]
         /\ \A f \in Storage : OwnSum(h, a, d)[f] = SetTo(OwnAt(h, a, f), OwnAt(h, d, f))
<1>1. a # NULL /\ d # NULL
  BY HeapFacts DEF NULL
<1>2. h.list[a].own \in [Storage -> Int] /\ h.list[d].own \in [Storage -> Int]
  BY HeapFacts
<1>3. \A f \in Storage : SetTo(h.list[a].own[f], h.list[d].own[f]) \in Int
  BY <1>2, SetToFacts
<1> QED BY <1>1, <1>3 DEF OwnSum, OwnAt

(* A record takes the attributes of storage of another one. *)
LEMMA TookOwn ==
  ASSUME NEW h, HeapOK(h), NEW a \in 1..Len(h.list), NEW d \in 1..Len(h.list),
         TypeAt(h, d) = "UNKNOWN"
  PROVE  Took(h, OwnSet(h, a, OwnSum(h, a, d)), a, d)
<1> DEFINE o == OwnSum(h, a, d)
           g == OwnSet(h, a, o)
           m == Len(h.list)
<1>a. a \in 0..m /\ d \in 0..m
  BY HeapFacts
<1>2. UnionAt(h, d) = NULL /\ \A f \in Typed : FieldAt(h, d, f) = -1
  BY <1>a, UnknownFields
<1>3. o \in [Storage -> Int] /\ \A f \in Storage : o[f] = SetTo(OwnAt(h, a, f), OwnAt(h, d, f))
  BY OwnSumIs
<1> HIDE DEF o
<1>4. /\ HeapOK(g) /\ Len(g.list) = m
      /\ \A b \in 0..m :
           /\ TypeAt(g, b) = TypeAt(h, b) /\ UnionAt(g, b) = UnionAt(h, b)
           /\ \A f \in Typed : FieldAt(g, b, f) = FieldAt(h, b, f)
           /\ \A f \in Storage : OwnAt(g, b, f) = IF b = a THEN o[f] ELSE OwnAt(h, b, f)
  BY <1>3, OwnSetIs
<1>5. \A b \in 0..m, f \in Typed : FieldAt(h, b, f) \in Int
  BY AtFacts
<1>6. \A b \in 0..m, f \in Typed : SetTo(FieldAt(h, b, f), FieldAt(h, d, f)) = FieldAt(h, b, f)
  BY <1>2, <1>5, SetToFacts
<1>7. ~FieldsConflict(h, a, d)
  <2>1. Tristate \subseteq Typed
    BY DEF Tristate, Typed
  <2> QED BY <1>2, <2>1 DEF FieldsConflict, Taken
<1>u. UnionAt(h, a) = NULL <=> TypeAt(h, a) = "UNKNOWN"
  BY <1>a, AtFacts
<1> HIDE DEF g, m
<1> QED BY <1>a, <1>2, <1>3, <1>4, <1>6, <1>7, <1>u DEF Took, TypesDiffer, g, o, m

(* A record takes the fields of another one of the same type. *)
LEMMA TookFields ==
  ASSUME NEW h, HeapOK(h), NEW a \in 1..Len(h.list), NEW d \in 1..Len(h.list),
         TypeAt(h, a) = TypeAt(h, d), TypeAt(h, d) # "UNKNOWN", ~FieldsConflict(h, a, d)
  PROVE  Took(h, FieldsSet(OwnSet(h, a, OwnSum(h, a, d)), UnionAt(h, a),
                           Combined(h.union[UnionAt(h, a)], h.union[UnionAt(h, d)])), a, d)
<1> DEFINE o == OwnSum(h, a, d)
           k == OwnSet(h, a, o)
           m == Len(h.list)
           u == UnionAt(h, a)
           x == UnionAt(h, d)
           v == Combined(h.union[u], h.union[x])
           g == FieldsSet(k, u, v)
<1>a. m \in Nat /\ a \in 0..m /\ d \in 0..m /\ Len(h.union) \in Nat
  BY HeapFacts
<1>2. u \in 0..Len(h.union) /\ u # NULL /\ x \in 0..Len(h.union) /\ x # NULL
  BY <1>a, AtFacts
<1>3. u \in 1..Len(h.union) /\ x \in 1..Len(h.union)
  <2> HIDE DEF u, x
  <2> QED BY <1>a, <1>2 DEF NULL
<1>4. h.union[u] \in UnionRecords /\ h.union[x] \in UnionRecords
  <2> HIDE DEF u, x
  <2> QED BY <1>3, HeapFacts
<1>5. \A f \in Typed : FieldAt(h, d, f) = h.union[x][f]
  BY <1>2 DEF FieldAt
<1>6. \A b \in 0..m : UnionAt(h, b) = u => \A f \in Typed : FieldAt(h, b, f) = h.union[u][f]
  BY <1>2 DEF FieldAt
<1> HIDE DEF u, x
<1>7. v \in UnionRecords /\ \A f \in Typed : v[f] = SetTo(h.union[u][f], h.union[x][f])
  <2>1. \A f \in Typed : SetTo(h.union[u][f], h.union[x][f]) \in Int
    BY <1>4, SetToFacts DEF UnionRecords
  <2> QED BY <2>1 DEF Combined, UnionRecords
<1>8. o \in [Storage -> Int] /\ \A f \in Storage : o[f] = SetTo(OwnAt(h, a, f), OwnAt(h, d, f))
  BY OwnSumIs
<1> HIDE DEF o, v
<1>9. /\ HeapOK(k) /\ Len(k.list) = m /\ Len(k.union) = Len(h.union)
      /\ \A b \in 0..m :
           /\ TypeAt(k, b) = TypeAt(h, b) /\ UnionAt(k, b) = UnionAt(h, b)
           /\ \A f \in Typed : FieldAt(k, b, f) = FieldAt(h, b, f)
           /\ \A f \in Storage : OwnAt(k, b, f) = IF b = a THEN o[f] ELSE OwnAt(h, b, f)
  BY <1>8, OwnSetIs
<1> HIDE DEF k, m
<1>10. /\ HeapOK(g) /\ Len(g.list) = Len(k.list)
       /\ \A b \in 0..Len(k.list) :
            /\ TypeAt(g, b) = TypeAt(k, b) /\ UnionAt(g, b) = UnionAt(k, b)
            /\ \A f \in Typed : FieldAt(g, b, f) = IF UnionAt(k, b) = u THEN v[f] ELSE FieldAt(k, b, f)
            /\ \A f \in Storage : OwnAt(g, b, f) = OwnAt(k, b, f)
  BY <1>3, <1>7, <1>9, FieldsSetIs
<1> HIDE DEF g
<1>11. \A b \in 0..m : \A f \in Typed :
         FieldAt(g, b, f) = IF UnionAt(h, b) = u THEN SetTo(FieldAt(h, b, f), FieldAt(h, d, f)) ELSE FieldAt(h, b, f)
  BY <1>5, <1>6, <1>7, <1>9, <1>10
<1> QED BY <1>a, <1>2, <1>8, <1>9, <1>10, <1>11 DEF Took, TypesDiffer, g, k, o, m, u, x, v

(* setDclElementAttr, by its effect. *)
LEMMA SetAttr ==
  ASSUME NEW h, HeapOK(h), NEW a \in 1..Len(h.list), NEW d \in 1..Len(h.list),
         TypeAt(h, d) = "UNKNOWN" \/ TypeAt(h, a) = TypeAt(h, d)
  PROVE  LET s == setDclElementAttr(h, a, d)
         IN  \/ s.ok /\ Took(h, s.heap, a, d)
             \/ ~s.ok /\ s.heap = h /\ (InternalConflict(h, a, d) \/ FieldsConflict(h, a, d))
<1> DEFINE o == h.list[a]
           n == h.list[d]
           own == OwnSet(h, a, OwnSum(h, a, d))
           Fail == [heap |-> h, ok |-> FALSE]
           Good(g) == [heap |-> g, ok |-> TRUE]
           all == FieldsSet(own, UnionAt(h, a), Combined(h.union[UnionAt(h, a)], h.union[UnionAt(h, d)]))
           s == setDclElementAttr(h, a, d)
<1>1. a # NULL /\ d # NULL /\ a \in 0..Len(h.list) /\ d \in 0..Len(h.list)
  BY HeapFacts DEF NULL
<1>2. /\ TypeAt(h, a) = o.uniontype /\ TypeAt(h, d) = n.uniontype
      /\ UnionAt(h, a) = o.union /\ UnionAt(h, d) = n.union
      /\ \A f \in Storage : OwnAt(h, a, f) = o.own[f] /\ OwnAt(h, d, f) = n.own[f]
  BY <1>1 DEF TypeAt, UnionAt, OwnAt
<1>3. InternalConflict(h, a, d) <=> Taken(o.own["internal"], n.own["internal"])
  <2>1. "internal" \in Storage
    BY DEF Storage
  <2> QED BY <1>2, <2>1 DEF InternalConflict
<1>4. [h EXCEPT !.list[a].own = [f \in Storage |-> SetTo(@[f], n.own[f])]] = own
  BY DEF OwnSet, OwnSum
<1>5. [own EXCEPT !.union[o.union] = Combined(@, h.union[n.union])] = all
  <2>1. own.union = h.union
    <3> "union" \in DOMAIN h
      BY DEF HeapOK, Heaps
    <3> QED BY DEF OwnSet
  <2> HIDE DEF own
  <2>2. [own EXCEPT !.union[o.union] = Combined(@, h.union[n.union])]
          = [own EXCEPT !.union[o.union] = Combined(own.union[o.union], h.union[n.union])]
    OBVIOUS
  <2> QED BY <1>2, <2>1, <2>2 DEF FieldsSet
<1>6. s = IF Taken(o.own["internal"], n.own["internal"]) THEN Fail
          ELSE IF n.uniontype = "UNKNOWN" THEN Good(own)
          ELSE IF o.uniontype = "UNKNOWN"
          THEN Good([own EXCEPT !.list[a].uniontype = n.uniontype, !.list[a].union = n.union])
          ELSE IF o.uniontype # n.uniontype \/ Conflicting(h.union[o.union], h.union[n.union]) THEN Fail
          ELSE Good(all)
  <2> HIDE DEF own, all
  <2> QED BY <1>4, <1>5 DEF setDclElementAttr
<1>7. /\ \A g : Good(g).heap = g /\ Good(g).ok
      /\ Fail.heap = h /\ ~Fail.ok
  BY Results
<1> HIDE DEF s, Fail, Good
<1>8. CASE InternalConflict(h, a, d)
  <2>1. s = Fail
    BY <1>3, <1>6, <1>8
  <2> QED BY <1>7, <1>8, <2>1 DEF s
<1>9. CASE ~InternalConflict(h, a, d) /\ TypeAt(h, d) = "UNKNOWN"
  <2>1. s = Good(own)
    BY <1>2, <1>3, <1>6, <1>9
  <2>2. Took(h, own, a, d)
    BY <1>9, TookOwn
  <2> HIDE DEF own
  <2> QED BY <1>7, <2>1, <2>2 DEF s
<1>10. CASE ~InternalConflict(h, a, d) /\ TypeAt(h, d) # "UNKNOWN"
  <2>1. TypeAt(h, a) = TypeAt(h, d)
    BY <1>10
  <2>2. o.union # NULL /\ n.union # NULL
    BY <1>1, <1>2, <1>10, <2>1, AtFacts
  <2>3. Conflicting(h.union[o.union], h.union[n.union]) <=> FieldsConflict(h, a, d)
    <3>1. \A f : FieldAt(h, a, f) = h.union[o.union][f] /\ FieldAt(h, d, f) = h.union[n.union][f]
      BY <1>2, <2>2 DEF FieldAt
    <3> QED BY <3>1 DEF Conflicting, FieldsConflict
  <2>4. CASE FieldsConflict(h, a, d)
    <3>1. s = Fail
      BY <1>2, <1>3, <1>6, <1>10, <2>1, <2>3, <2>4
    <3> QED BY <1>7, <2>4, <3>1 DEF s
  <2>5. CASE ~FieldsConflict(h, a, d)
    <3> HIDE DEF own
    <3>1. s = Good(all)
      <4> HIDE DEF all, own
      <4> QED BY <1>2, <1>3, <1>6, <1>10, <2>1, <2>3, <2>5
    <3>2. Took(h, all, a, d)
      BY <1>10, <2>1, <2>5, TookFields DEF own
    <3> HIDE DEF all
    <3> QED BY <1>7, <3>1, <3>2 DEF s
  <2> QED BY <2>4, <2>5
<1> QED BY <1>8, <1>9, <1>10

-----------------------------------------------------------------------------
(* The states of the loop of mergeDeclareElements. *)
MergeStates(n, m) ==
  {r \in [elem: Seq(DeclareElement), heap: Heaps, prev: 0..m, ok: BOOLEAN] :
     /\ Len(r.elem) = n /\ HeapOK(r.heap) /\ Signed(r.heap) /\ Len(r.heap.list) = m
     /\ \A i \in 1..n : r.elem[i].dclAttr \in 0..m}

(* What a round does to the heap. *)
Done(r, attr, dol) ==
  LET old  == r.heap.list[attr]
      new  == r.heap.list[dol]
      Known(list) == list.uniontype # "UNKNOWN"
  IN  IF dol = NULL \/ attr = NULL THEN [heap |-> r.heap, ok |-> TRUE]
      ELSE IF ~Known(old) /\ Known(new)
      THEN [heap |-> [r.heap EXCEPT !.list[attr].uniontype = new.uniontype,
                                    !.list[attr].union = new.union], ok |-> TRUE]
      ELSE IF Known(old) /\ Known(new) /\ old.uniontype # new.uniontype
      THEN [heap |-> r.heap, ok |-> FALSE]
      ELSE IF Reused(r, attr) THEN [heap |-> r.heap, ok |-> TRUE]
      ELSE setDclElementAttr(r.heap, attr, dol)

(* What a round does to the heap, by its effect. *)
LEMMA DoneIs ==
  ASSUME NEW r, HeapOK(r.heap), Signed(r.heap), NEW a \in 1..Len(r.heap.list), NEW d \in 1..Len(r.heap.list)
  PROVE  LET s == Done(r, a, d)
             h == r.heap
         IN  \/ s.ok /\ Took(h, s.heap, a, d)
             \/ s.ok /\ s.heap = h /\ a = r.prev /\ ~TypesDiffer(h, a, d)
                /\ ~(TypeAt(h, a) = "UNKNOWN" /\ TypeAt(h, d) # "UNKNOWN")
             \/ ~s.ok /\ s.heap = h
                /\ (TypesDiffer(h, a, d)
                    \/ (a # r.prev /\ (InternalConflict(h, a, d) \/ FieldsConflict(h, a, d))))
<1> DEFINE h == r.heap
           Fail == [heap |-> h, ok |-> FALSE]
           Good(g) == [heap |-> g, ok |-> TRUE]
           k == TypeSet(h, a, TypeAt(h, d), UnionAt(h, d))
           s == Done(r, a, d)
           p == a = r.prev
<1>1. a # NULL /\ d # NULL
  BY HeapFacts DEF NULL
<1>2. TypeAt(h, a) = h.list[a].uniontype /\ TypeAt(h, d) = h.list[d].uniontype /\ UnionAt(h, d) = h.list[d].union
  BY <1>1 DEF TypeAt, UnionAt
<1>3. [h EXCEPT !.list[a].uniontype = h.list[d].uniontype, !.list[a].union = h.list[d].union] = k
  BY <1>2 DEF TypeSet
<1>4. s = IF TypeAt(h, a) = "UNKNOWN" /\ TypeAt(h, d) # "UNKNOWN" THEN Good(k)
          ELSE IF TypesDiffer(h, a, d) THEN Fail
          ELSE IF a = r.prev THEN Good(h)
          ELSE setDclElementAttr(h, a, d)
  <2> HIDE DEF k
  <2> QED BY <1>1, <1>2, <1>3 DEF Done, TypesDiffer, Reused
<1>5. /\ \A g : Good(g).heap = g /\ Good(g).ok
      /\ Fail.heap = h /\ ~Fail.ok
  BY Results
<1> HIDE DEF s, Fail, Good
<1>6. CASE TypeAt(h, a) = "UNKNOWN" /\ TypeAt(h, d) # "UNKNOWN"
  <2>1. Took(h, k, a, d)
    BY <1>6, TookType
  <2> HIDE DEF k, h
  <2> QED BY <1>4, <1>5, <1>6, <2>1 DEF s, h
<1>7. CASE TypesDiffer(h, a, d)
  <2>1. s = Fail
    <3> HIDE DEF k, h
    <3> QED BY <1>4, <1>7 DEF TypesDiffer
  <2> QED BY <1>5, <1>7, <2>1 DEF s
<1>8. CASE ~(TypeAt(h, a) = "UNKNOWN" /\ TypeAt(h, d) # "UNKNOWN") /\ ~TypesDiffer(h, a, d)
  <2>1. CASE a = r.prev
    <3>1. s = Good(h)
      <4> HIDE DEF k, h
      <4> QED BY <1>4, <1>8, <2>1
    <3> QED BY <1>5, <1>8, <2>1, <3>1 DEF s
  <2>2. CASE a # r.prev
    <3>1. s = setDclElementAttr(h, a, d)
      <4> HIDE DEF k, h
      <4> QED BY <1>4, <1>8, <2>2
    <3>2. TypeAt(h, d) = "UNKNOWN" \/ TypeAt(h, a) = TypeAt(h, d)
      BY <1>8 DEF TypesDiffer
    <3> HIDE DEF k, h
    <3>3. \/ s.ok /\ Took(h, s.heap, a, d)
          \/ ~s.ok /\ s.heap = h /\ (InternalConflict(h, a, d) \/ FieldsConflict(h, a, d))
      BY <3>1, <3>2, SetAttr DEF h
    <3> QED BY <2>2, <3>3 DEF s, h
  <2> QED BY <2>1, <2>2
<1> QED BY <1>6, <1>7, <1>8

(* An element that a factor and the level of a parenthesis are given to. *)
Given(e, dol, level) ==
  [e EXCEPT !.dclAttr = IF @ = NULL THEN dol ELSE @, !.structureLevel = IF @ = -1 THEN level ELSE @]

(* Only the record and the level of the element may change. *)
LEMMA GivenIs ==
  ASSUME NEW e \in DeclareElement, NEW dol \in Nat, NEW level \in Int
  PROVE  LET g == Given(e, dol, level)
         IN  /\ g \in DeclareElement /\ g.name = e.name
             /\ g.dclAttr = IF e.dclAttr = NULL THEN dol ELSE e.dclAttr
             /\ g.structureLevel = IF e.structureLevel = -1 THEN level ELSE e.structureLevel
             /\ g.structureParent = e.structureParent /\ g.structureSibling = e.structureSibling
             /\ g.structureFirstChild = e.structureFirstChild
BY DEF Given, DeclareElement

(* The elements when element i is given a record and a level. *)
GivenTo(s, i, dol, level) ==
  [s EXCEPT ![i].dclAttr = IF s[i].dclAttr = NULL THEN dol ELSE s[i].dclAttr,
            ![i].structureLevel = IF @ = -1 THEN level ELSE @]

(* The assignments of Merge1 to an element, one after the other, give that. *)
LEMMA GivenAt ==
  ASSUME NEW s \in Seq(DeclareElement), NEW i \in 1..Len(s), NEW dol, NEW level
  PROVE  GivenTo(s, i, dol, level) = [s EXCEPT ![i] = Given(s[i], dol, level)]
<1> DEFINE k == s[i]
           x == IF k.dclAttr = NULL THEN dol ELSE k.dclAttr
           k1 == [k EXCEPT !.dclAttr = x]
           s1 == [s EXCEPT ![i] = k1]
           y == IF k.structureLevel = -1 THEN level ELSE k.structureLevel
           l == [k EXCEPT !.dclAttr = x, !.structureLevel = y]
           t == [s EXCEPT ![i].dclAttr = x, ![i].structureLevel = IF @ = -1 THEN level ELSE @]
<1>1. t = [s1 EXCEPT ![i] = [s1[i] EXCEPT !.structureLevel = IF s1[i].structureLevel = -1 THEN level ELSE s1[i].structureLevel]]
  OBVIOUS
<1>2. s1[i] = k1
  OBVIOUS
<1>3. k1.structureLevel = k.structureLevel
  <2>1. k \in DeclareElement
    OBVIOUS
  <2> HIDE DEF k, x
  <2> QED BY <2>1 DEF DeclareElement
<1>4. t = [s1 EXCEPT ![i] = [k1 EXCEPT !.structureLevel = y]]
  <2> HIDE DEF t, s1, k1, k
  <2> QED BY <1>1, <1>2, <1>3
<1>5. [k1 EXCEPT !.structureLevel = y] = l
  <2> HIDE DEF k, x, y
  <2> QED OBVIOUS
<1>6. [s1 EXCEPT ![i] = l] = [s EXCEPT ![i] = l]
  <2> HIDE DEF k1, l
  <2> QED OBVIOUS
<1>7. l = Given(k, dol, level)
  BY DEF Given
<1>8. t = [s EXCEPT ![i] = Given(k, dol, level)]
  <2> HIDE DEF t, s1, k1, l, k, y
  <2> QED BY <1>4, <1>5, <1>6, <1>7
<1> QED BY <1>8 DEF GivenTo

(* A round that is made, and how it ends. *)
RoundEnds(r, s, a, dol) ==
  IF a = NULL \/ dol = NULL THEN s.ok /\ s.heap = r.heap
  ELSE \/ s.ok /\ Took(r.heap, s.heap, a, dol)
       \/ s.ok /\ s.heap = r.heap /\ a = r.prev /\ ~TypesDiffer(r.heap, a, dol)
          /\ ~(TypeAt(r.heap, a) = "UNKNOWN" /\ TypeAt(r.heap, dol) # "UNKNOWN")
       \/ ~s.ok /\ s.heap = r.heap
          /\ (TypesDiffer(r.heap, a, dol)
              \/ (a # r.prev /\ (InternalConflict(r.heap, a, dol) \/ FieldsConflict(r.heap, a, dol))))

(* The values stay -1 or larger. *)
LEMMA TookSigned ==
  ASSUME NEW h, HeapOK(h), Signed(h), NEW a \in 1..Len(h.list), NEW d \in 1..Len(h.list), NEW g, Took(h, g, a, d)
  PROVE  Signed(g)
<1>1. Len(g.list) = Len(h.list) /\ a \in 0..Len(h.list) /\ d \in 0..Len(h.list)
  BY HeapFacts DEF Took
<1>2. ASSUME NEW b \in 0..Len(h.list), NEW f \in Typed PROVE FieldAt(g, b, f) >= -1
  <2>1. /\ FieldAt(h, b, f) \in Int /\ FieldAt(h, b, f) >= -1
        /\ FieldAt(h, d, f) \in Int /\ FieldAt(h, d, f) >= -1
    BY <1>1, AtFacts DEF Signed
  <2>2. FieldAt(g, b, f) \in {FieldAt(h, b, f), SetTo(FieldAt(h, b, f), FieldAt(h, d, f))}
    BY <1>1 DEF Took
  <2> QED BY <2>1, <2>2 DEF SetTo
<1> QED BY <1>1, <1>2 DEF Signed

(* One round of mergeDeclareElements. *)
LEMMA Round ==
  ASSUME NEW n \in Nat, NEW m \in Nat, NEW r \in MergeStates(n, m), NEW i \in 1..n,
         NEW dol \in 0..m, NEW level \in Int
  PROVE  LET s == Merge1(r, i, dol, level)
             a == r.elem[i].dclAttr
         IN  /\ s \in MergeStates(n, m)
             /\ ~r.ok => s = r
             /\ r.ok => /\ s.elem = [r.elem EXCEPT ![i] = Given(r.elem[i], dol, level)]
                        /\ s.prev = IF a = NULL THEN dol ELSE a
                        /\ RoundEnds(r, s, a, dol)
<1> DEFINE a == r.elem[i].dclAttr
           own == IF a = NULL THEN dol ELSE a
           done == Done(r, a, dol)
           x == [r.elem EXCEPT ![i] = Given(r.elem[i], dol, level)]
           s == Merge1(r, i, dol, level)
           t == [elem |-> x, heap |-> done.heap, prev |-> own, ok |-> done.ok]
<1>1. /\ r.elem \in Seq(DeclareElement) /\ Len(r.elem) = n /\ HeapOK(r.heap) /\ Signed(r.heap)
      /\ Len(r.heap.list) = m /\ r.prev \in 0..m /\ \A j \in 1..n : r.elem[j].dclAttr \in 0..m
  BY DEF MergeStates
<1>2. s = IF ~r.ok THEN r ELSE t
  <2>1. x = [r.elem EXCEPT ![i].dclAttr = IF r.elem[i].dclAttr = NULL THEN dol ELSE r.elem[i].dclAttr,
                           ![i].structureLevel = IF @ = -1 THEN level ELSE @]
    <3> DEFINE z == r.elem
    <3>1. z \in Seq(DeclareElement) /\ i \in 1..Len(z)
      BY <1>1
    <3> HIDE DEF z
    <3>2. GivenTo(z, i, dol, level) = [z EXCEPT ![i] = Given(z[i], dol, level)]
      BY <3>1, GivenAt
    <3> QED BY <3>2 DEF z, GivenTo
  <2> HIDE DEF x
  <2> QED BY <2>1 DEF Merge1, Done
<1>3. t.elem = x /\ t.heap = done.heap /\ t.prev = own
  OBVIOUS
<1>4. t.ok <=> done.ok
  BY Zenon
<1>5. /\ x \in Seq(DeclareElement) /\ Len(x) = n /\ \A j \in 1..n : x[j].dclAttr \in 0..m
  <2> DEFINE e == r.elem[i]
             g == Given(e, dol, level)
  <2>1. e \in DeclareElement /\ e.dclAttr \in 0..m
    BY <1>1
  <2>d. dol \in Nat
    OBVIOUS
  <2> HIDE DEF e
  <2>2. g \in DeclareElement /\ g.dclAttr = IF e.dclAttr = NULL THEN dol ELSE e.dclAttr
    BY <2>1, <2>d, GivenIs
  <2> HIDE DEF g
  <2>3. /\ [r.elem EXCEPT ![i] = g] \in Seq(DeclareElement) /\ Len([r.elem EXCEPT ![i] = g]) = n
        /\ \A j \in 1..n : [r.elem EXCEPT ![i] = g][j] = IF j = i THEN g ELSE r.elem[j]
    BY <1>1, <2>2, SeqSet
  <2> QED BY <1>1, <2>1, <2>2, <2>3 DEF g, e
<1>6. a \in 0..m /\ own \in 0..m
  BY <1>1
<1>7. RoundEnds(r, t, a, dol) /\ HeapOK(done.heap) /\ Signed(done.heap) /\ Len(done.heap.list) = m /\ done.ok \in BOOLEAN
  <2>1. CASE a = NULL \/ dol = NULL
    <3>1. done = [heap |-> r.heap, ok |-> TRUE]
      BY <2>1 DEF Done
    <3>2. done.heap = r.heap /\ done.ok /\ done.ok \in BOOLEAN
      <4> HIDE DEF done
      <4>1. done.heap = r.heap
        BY <3>1
      <4>2. done.ok /\ done.ok \in BOOLEAN
        BY <3>1, Zenon
      <4> QED BY <4>1, <4>2
    <3> HIDE DEF done, t, a
    <3> QED BY <1>1, <1>3, <1>4, <2>1, <3>2 DEF RoundEnds
  <2>2. CASE a # NULL /\ dol # NULL
    <3>1. a \in 1..m /\ dol \in 1..m
      <4> HIDE DEF a
      <4> QED BY <1>6, <2>2 DEF NULL
    <3> HIDE DEF a
    <3>2. LET h == r.heap
          IN  \/ done.ok /\ Took(h, done.heap, a, dol)
              \/ done.ok /\ done.heap = h /\ a = r.prev /\ ~TypesDiffer(h, a, dol)
                 /\ ~(TypeAt(h, a) = "UNKNOWN" /\ TypeAt(h, dol) # "UNKNOWN")
              \/ ~done.ok /\ done.heap = h
                 /\ (TypesDiffer(h, a, dol)
                     \/ (a # r.prev /\ (InternalConflict(h, a, dol) \/ FieldsConflict(h, a, dol))))
      BY <1>1, <3>1, DoneIs
    <3>3. done.ok \in BOOLEAN
      <4>1. \A b : [heap |-> r.heap, ok |-> b].ok = b
        BY Zenon
      <4>2. \A h, o, d : setDclElementAttr(h, o, d).ok \in BOOLEAN
        <5> SUFFICES ASSUME NEW h, NEW o, NEW d PROVE setDclElementAttr(h, o, d).ok \in BOOLEAN
          OBVIOUS
        <5> QED BY Zenon DEF setDclElementAttr
      <4> QED BY <4>1, <4>2, Zenon DEF Done
    <3> HIDE DEF done, t
    <3>4. HeapOK(done.heap) /\ Signed(done.heap) /\ Len(done.heap.list) = m
      BY <1>1, <3>1, <3>2, TookSigned DEF Took
    <3>5. RoundEnds(r, t, a, dol)
      BY <1>3, <1>4, <2>2, <3>2 DEF RoundEnds
    <3> QED BY <3>3, <3>4, <3>5
  <2> QED BY <2>1, <2>2
<1>8. t \in MergeStates(n, m)
  <2>1. done.heap \in Heaps
    BY <1>7 DEF HeapOK
  <2> HIDE DEF x, own, done
  <2>2. t \in [elem: Seq(DeclareElement), heap: Heaps, prev: 0..m, ok: BOOLEAN]
    BY <1>5, <1>6, <1>7, <2>1
  <2> HIDE DEF t
  <2> QED BY <1>3, <1>5, <1>7, <2>2 DEF MergeStates
<1> HIDE DEF s, t, x, done
<1>9. CASE ~r.ok
  BY <1>2, <1>9 DEF s
<1>10. CASE r.ok
  <2>1. s = t
    BY <1>2, <1>10
  <2> QED BY <1>3, <1>7, <1>8, <1>10, <2>1 DEF s, x, own
<1> QED BY <1>9, <1>10

-----------------------------------------------------------------------------
(* The rounds of mergeDeclareElements. *)

(* The state before the first round. *)
MergeStart(e, h) == [elem |-> e, heap |-> h, prev |-> NULL, ok |-> TRUE]

(* The states of the loop, for the elements from first on. *)
MergeRounds(acc, e, h, first, dol, level, result) ==
  LET n == Len(e)
      m == n - first + 1
  IN  /\ acc \in [0..m -> MergeStates(n, Len(h.list))]
      /\ acc[0] = MergeStart(e, h) /\ acc[m] = result
      /\ \A k \in 1..m : acc[k] = Merge1(acc[k - 1], first + k - 1, dol, level)

(* The pointers of the elements are places in the heap. *)
Pointing(e, h) == e \in Seq(DeclareElement) /\ \A i \in 1..Len(e) : e[i].dclAttr \in 0..Len(h.list)

(* It is a state of the loop. *)
LEMMA MergeStartIs ==
  ASSUME NEW e, NEW h, HeapOK(h), Signed(h), Pointing(e, h)
  PROVE  LET r == MergeStart(e, h)
         IN  r \in MergeStates(Len(e), Len(h.list)) /\ r.elem = e /\ r.heap = h /\ r.prev = NULL /\ r.ok
<1> DEFINE r == MergeStart(e, h)
<1>1. r.elem = e /\ r.heap = h /\ r.prev = NULL
  BY DEF MergeStart
<1>2. r.ok
  BY Zenon DEF MergeStart
<1>3. NULL \in 0..Len(h.list)
  BY HeapFacts DEF NULL
<1>4. r \in [elem: Seq(DeclareElement), heap: Heaps, prev: 0..Len(h.list), ok: BOOLEAN]
  BY <1>3 DEF MergeStart, Pointing, HeapOK
<1> HIDE DEF r
<1>5. r \in MergeStates(Len(e), Len(h.list))
  BY <1>1, <1>4 DEF MergeStates, Pointing
<1> QED BY <1>1, <1>2, <1>5 DEF r

(* The states of mergeDeclareElements. *)
LEMMA MergeFold ==
  ASSUME NEW h, HeapOK(h), Signed(h), Pointing(elem, h), NEW first \in 1..Len(elem),
         NEW dol \in 0..Len(h.list), NEW level \in Int
  PROVE  \E acc : MergeRounds(acc, elem, h, first, dol, level, mergeDeclareElements(h, first, dol, level))
<1> DEFINE N == Len(elem)
           M == Len(h.list)
           T == MergeStates(N, M)
           n == N - first + 1
           seq == [k \in 1..n |-> first + k - 1]
           base == MergeStart(elem, h)
           F == [p \in T \X (1..n) |-> Merge1(p[1], seq[p[2]], dol, level)]
           Eq(g) == g = [s \in SUBSET (DOMAIN seq) |->
                           IF s = {} THEN base ELSE Merge1(g[s \ {Max(s)}], seq[Max(s)], dol, level)]
           f == CHOOSE g : Eq(g)
<1>0. N \in Nat /\ M \in Nat
  BY HeapFacts DEF Pointing
<1>1. n \in Nat /\ DOMAIN seq = 1..n /\ \A k \in 1..n : seq[k] = first + k - 1 /\ seq[k] \in 1..N
  BY <1>0
<1>2. F \in [T \X (1..n) -> T]
  <2>1. \A r \in T, k \in 1..n : Merge1(r, seq[k], dol, level) \in T
    <3> SUFFICES ASSUME NEW r \in T, NEW k \in 1..n PROVE Merge1(r, seq[k], dol, level) \in T
      OBVIOUS
    <3>1. seq[k] \in 1..N
      BY <1>1
    <3> HIDE DEF seq, N, M
    <3> QED BY <1>0, <3>1, Round DEF M
  <2> HIDE DEF T, seq
  <2> QED BY <2>1
<1>b. base \in T
  BY MergeStartIs
<1> HIDE DEF base, N, M
<1>3. \E g : Eq(g)
  <2>1. PICK g \in [SUBSET (1..n) -> T] : FoldEquation(g, n, F, base)
    <3> HIDE DEF T, F
    <3> QED BY <1>1, <1>2, <1>b, FoldExists
  <2>2. \A s \in SUBSET (1..n) : s # {} =>
            Max(s) \in 1..n /\ g[s] = Merge1(g[s \ {Max(s)}], seq[Max(s)], dol, level)
    <3> SUFFICES ASSUME NEW s \in SUBSET (1..n), s # {}
                 PROVE  Max(s) \in 1..n /\ g[s] = Merge1(g[s \ {Max(s)}], seq[Max(s)], dol, level)
      OBVIOUS
    <3>1. Max(s) \in s /\ g[s] = F[<< g[s \ {Max(s)}], Max(s) >>]
      <4> HIDE DEF T, seq, n, F
      <4> QED BY <2>1 DEF FoldEquation
    <3>2. Max(s) \in 1..n
      BY <3>1
    <3>3. s \ {Max(s)} \in SUBSET (1..n)
      OBVIOUS
    <3>4. g[s \ {Max(s)}] \in T
      <4> HIDE DEF T, n
      <4> QED BY <3>3
    <3> HIDE DEF T, seq, n
    <3> QED BY <3>1, <3>2, <3>4
  <2>3. g = [s \in SUBSET (1..n) |-> g[s]] /\ g[{}] = base
    <3> HIDE DEF T, n
    <3> QED BY <2>1 DEF FoldEquation
  <2>4. Eq(g)
    <3> HIDE DEF T, seq, n
    <3> QED BY <1>1, <2>2, <2>3
  <2> HIDE DEF Eq
  <2> QED BY <2>4
<1>4. Eq(f)
  <2> HIDE DEF Eq
  <2> QED BY <1>3
<1>5. mergeDeclareElements(h, first, dol, level) = f[DOMAIN seq]
  BY DEF mergeDeclareElements, FoldLeft, MapThenFoldSet, base, MergeStart, N
<1>6. Solves(f, DOMAIN seq, T, n, F, base)
  <2> HIDE DEF f, T, seq
  <2> QED BY <1>1, <1>4 DEF Solves
<1>7. PICK acc : Steps(acc, T, n, F, base, f[DOMAIN seq])
  <2>1. n \in Nat
    BY <1>1
  <2> HIDE DEF f, F, T, n, seq
  <2> QED BY <1>2, <1>6, <1>b, <2>1, FoldSteps
<1>8. \A k \in 1..n : acc[k] = Merge1(acc[k - 1], first + k - 1, dol, level)
  <2>1. \A k \in 1..n : k - 1 \in 0..n
    BY <1>1
  <2>2. \A k \in 1..n : acc[k - 1] \in T /\ acc[k] = F[<< acc[k - 1], k >>]
    <3> HIDE DEF F, T, n
    <3> QED BY <1>7, <2>1 DEF Steps
  <2> HIDE DEF T, n, seq
  <2> QED BY <1>1, <2>2
<1> HIDE DEF f, F, seq
<1> QED BY <1>5, <1>7, <1>8 DEF Steps, MergeRounds, N, M, base

-----------------------------------------------------------------------------
(* Attributes of the text, one list behind another. *)

(* Two of the first n attributes that have to do with the type cannot stand  *)
(* together.                                                                 *)
TypedContradiction(w, n) ==
  \E j, k \in 1..n : /\ j < k /\ AttributeAt(w, j).field \in Typed /\ AttributeAt(w, k).field \in Typed
                     /\ Contradiction(AttributeAt(w, j), AttributeAt(w, k))

(* x has the n attributes of w and then the m attributes of u. *)
Joins(x, w, n, u, m) ==
  /\ n \in Nat /\ m \in Nat
  /\ \A j \in 1..n : j \in 1..(n + m) /\ AttributeAt(x, j) = AttributeAt(w, j)
  /\ \A k \in 1..m : n + k \in 1..(n + m) /\ AttributeAt(x, n + k) = AttributeAt(u, k)
  /\ \A j \in 1..(n + m) : j \in 1..n \/ (j - n \in 1..m /\ j = n + (j - n))

(* A list behind another one. *)
LEMMA Join ==
  ASSUME NEW w \in AttributeLists, NEW u \in AttributeLists
  PROVE  /\ w \o u \in AttributeLists /\ Len(w \o u) = Len(w) + Len(u)
         /\ Joins(w \o u, w, Len(w), u, Len(u))
<1> DEFINE n == Len(w)
           m == Len(u)
           x == w \o u
<1>1. n \in Nat /\ m \in Nat
  BY AttributesFacts
<1>2. x \in AttributeLists /\ Len(x) = n + m
  BY DEF AttributeLists
<1>3. \A j \in 1..n : x[j] = w[j]
  BY DEF AttributeLists
<1>4. \A k \in 1..m : x[n + k] = u[k]
  BY DEF AttributeLists
<1> HIDE DEF n, m, x
<1>5. Joins(x, w, n, u, m)
  BY <1>1, <1>3, <1>4 DEF Joins, AttributeAt
<1> QED BY <1>2, <1>5 DEF n, m, x

(* The values that both lists say. *)
LEMMA JoinValue ==
  ASSUME NEW x, NEW w, NEW n, NEW u, NEW m, Joins(x, w, n, u, m), NEW f, NEW v, NEW d,
         ValueTo(w, n, f, v), ValueTo(u, m, f, d), d \in Nat \cup {-1},
         d = -1 <=> \A k \in 1..m : AttributeAt(u, k).field # f
  PROVE  ValueTo(x, n + m, f, SetTo(v, d))
<1>1. CASE d = -1
  <2>1. SetTo(v, d) = v
    BY <1>1 DEF SetTo
  <2>2. \A k \in 1..(n + m) : AttributeAt(x, k).field = f => k \in 1..n /\ AttributeAt(w, k).field = f
    <3> SUFFICES ASSUME NEW k \in 1..(n + m), AttributeAt(x, k).field = f
                 PROVE  k \in 1..n /\ AttributeAt(w, k).field = f
      OBVIOUS
    <3>1. CASE k \in 1..n
      BY <3>1 DEF Joins
    <3>2. CASE k - n \in 1..m /\ k = n + (k - n)
      <4>1. AttributeAt(x, k) = AttributeAt(u, k - n)
        BY <3>2 DEF Joins
      <4> QED BY <1>1, <3>2, <4>1
    <3> QED BY <3>1, <3>2 DEF Joins
  <2>3. CASE v = -1 /\ \A j \in 1..n : AttributeAt(w, j).field # f
    BY <2>1, <2>2, <2>3 DEF ValueTo
  <2>4. ASSUME NEW j \in 1..n, AttributeAt(w, j).field = f, AttributeAt(w, j).value = v,
               \A k \in 1..n : AttributeAt(w, k).field = f => k <= j
        PROVE  ValueTo(x, n + m, f, v)
    <3>1. j \in 1..(n + m) /\ AttributeAt(x, j) = AttributeAt(w, j)
      BY DEF Joins
    <3>2. \A k \in 1..(n + m) : AttributeAt(x, k).field = f => k <= j
      BY <2>2, <2>4
    <3> QED BY <2>4, <3>1, <3>2 DEF ValueTo
  <2> QED BY <2>1, <2>3, <2>4 DEF ValueTo
<1>2. CASE d # -1
  <2>1. SetTo(v, d) = d
    BY <1>2 DEF SetTo
  <2>2. PICK j \in 1..m : /\ AttributeAt(u, j).field = f /\ AttributeAt(u, j).value = d
                          /\ \A k \in 1..m : AttributeAt(u, k).field = f => k <= j
    BY <1>2 DEF ValueTo
  <2>3. n + j \in 1..(n + m) /\ AttributeAt(x, n + j) = AttributeAt(u, j)
    BY DEF Joins
  <2>4. ASSUME NEW k \in 1..(n + m), AttributeAt(x, k).field = f PROVE k <= n + j
    <3>0. n \in Nat /\ m \in Nat
      BY DEF Joins
    <3>1. CASE k \in 1..n
      BY <3>0, <3>1
    <3>2. CASE k - n \in 1..m /\ k = n + (k - n)
      <4>1. AttributeAt(x, k) = AttributeAt(u, k - n)
        BY <3>2 DEF Joins
      <4>2. k - n <= j
        BY <2>2, <2>4, <3>2, <4>1
      <4> QED BY <3>0, <4>2
    <3> QED BY <3>1, <3>2 DEF Joins
  <2> QED BY <2>1, <2>2, <2>3, <2>4 DEF ValueTo
<1> QED BY <1>1, <1>2

(* The type that both lists say. *)
LEMMA JoinType ==
  ASSUME NEW x, NEW w, NEW n, NEW u, NEW m, Joins(x, w, n, u, m), NEW t, NEW d,
         TypeTo(w, n, t), TypeTo(u, m, d), t = d \/ t = "UNKNOWN" \/ d = "UNKNOWN"
  PROVE  TypeTo(x, n + m, IF t = "UNKNOWN" THEN d ELSE t)
<1> DEFINE s == IF t = "UNKNOWN" THEN d ELSE t
<1>1. s \in UnionType
  BY DEF TypeTo
<1>2. ASSUME NEW j \in 1..(n + m) PROVE AttributeAt(x, j).uniontype \in {"UNKNOWN", s}
  <2>1. CASE j \in 1..n
    BY <2>1 DEF Joins, TypeTo
  <2>2. CASE j - n \in 1..m /\ j = n + (j - n)
    <3>1. AttributeAt(x, j) = AttributeAt(u, j - n)
      BY <2>2 DEF Joins
    <3> QED BY <2>2, <3>1 DEF TypeTo
  <2> QED BY <2>1, <2>2 DEF Joins
<1>3. s = "UNKNOWN" \/ \E j \in 1..(n + m) : AttributeAt(x, j).uniontype = s
  BY DEF TypeTo, Joins
<1> HIDE DEF s
<1> QED BY <1>1, <1>2, <1>3 DEF TypeTo, s

(* No contradiction in either list and none between them. *)
LEMMA JoinTyped ==
  ASSUME NEW x, NEW w, NEW n, NEW u, NEW m, Joins(x, w, n, u, m),
         ~TypedContradiction(w, n), ~TypedContradiction(u, m),
         \A j \in 1..n, k \in 1..m :
           ~(AttributeAt(w, j).field \in Typed /\ AttributeAt(u, k).field \in Typed
             /\ Contradiction(AttributeAt(w, j), AttributeAt(u, k)))
  PROVE  ~TypedContradiction(x, n + m)
<1> SUFFICES ASSUME NEW j \in 1..(n + m), NEW k \in 1..(n + m), j < k,
                    AttributeAt(x, j).field \in Typed, AttributeAt(x, k).field \in Typed,
                    Contradiction(AttributeAt(x, j), AttributeAt(x, k))
             PROVE  FALSE
  BY DEF TypedContradiction
<1>0. n \in Nat /\ m \in Nat
  BY DEF Joins
<1>1. CASE k \in 1..n
  <2>1. j \in 1..n
    BY <1>0, <1>1
  <2>2. AttributeAt(x, j) = AttributeAt(w, j) /\ AttributeAt(x, k) = AttributeAt(w, k)
    BY <1>1, <2>1 DEF Joins
  <2> QED BY <1>1, <2>1, <2>2 DEF TypedContradiction
<1>2. CASE k - n \in 1..m /\ k = n + (k - n)
  <2>1. AttributeAt(x, k) = AttributeAt(u, k - n)
    BY <1>2 DEF Joins
  <2>2. CASE j \in 1..n
    <3>1. AttributeAt(x, j) = AttributeAt(w, j)
      BY <2>2 DEF Joins
    <3> QED BY <1>2, <2>1, <2>2, <3>1
  <2>3. CASE j - n \in 1..m /\ j = n + (j - n)
    <3>1. AttributeAt(x, j) = AttributeAt(u, j - n)
      BY <2>3 DEF Joins
    <3>2. j - n < k - n
      BY <1>0
    <3> QED BY <1>2, <2>1, <2>3, <3>1, <3>2 DEF TypedContradiction
  <2> QED BY <2>2, <2>3 DEF Joins
<1> QED BY <1>1, <1>2 DEF Joins

(* A contradiction in the second list or between both. *)
LEMMA JoinContradiction ==
  ASSUME NEW x, NEW w, NEW n, NEW u, NEW m, Joins(x, w, n, u, m),
         \/ ContradictionTo(u, m)
         \/ \E j \in 1..n, k \in 1..m : Contradiction(AttributeAt(w, j), AttributeAt(u, k))
  PROVE  ContradictionTo(x, n + m)
<1>0. n \in Nat /\ m \in Nat
  BY DEF Joins
<1>1. CASE ContradictionTo(u, m)
  <2>1. PICK j \in 1..m, k \in 1..m : j < k /\ Contradiction(AttributeAt(u, j), AttributeAt(u, k))
    BY <1>1 DEF ContradictionTo
  <2>2. /\ n + j \in 1..(n + m) /\ AttributeAt(x, n + j) = AttributeAt(u, j)
        /\ n + k \in 1..(n + m) /\ AttributeAt(x, n + k) = AttributeAt(u, k)
    BY DEF Joins
  <2>3. n + j < n + k
    BY <1>0, <2>1
  <2> QED BY <2>1, <2>2, <2>3 DEF ContradictionTo
<1>2. ASSUME NEW j \in 1..n, NEW k \in 1..m, Contradiction(AttributeAt(w, j), AttributeAt(u, k))
      PROVE  ContradictionTo(x, n + m)
  <2>1. /\ j \in 1..(n + m) /\ AttributeAt(x, j) = AttributeAt(w, j)
        /\ n + k \in 1..(n + m) /\ AttributeAt(x, n + k) = AttributeAt(u, k)
    BY DEF Joins
  <2>2. j < n + k
    BY <1>0
  <2> QED BY <1>2, <2>1, <2>2 DEF ContradictionTo
<1> QED BY <1>1, <1>2

(* A contradiction in the first list. *)
LEMMA ContradictionKept ==
  ASSUME NEW x, NEW w, NEW n, NEW u, NEW m, Joins(x, w, n, u, m), ContradictionTo(w, n)
  PROVE  ContradictionTo(x, n + m)
BY DEF ContradictionTo, Joins

(* The record b has what the options d say. *)
Says(g, b, d) ==
  /\ TypeAt(g, b) = d.uniontype
  /\ \A f \in Typed : FieldAt(g, b, f) = d.set[f]
  /\ \A f \in Storage : OwnAt(g, b, f) \in {-1, d.set[f]}

(* The record a has what the attributes w of a name say. *)
NameRight(w, h, a) ==
  /\ \A f \in Typed : ValueTo(w, Len(w), f, FieldAt(h, a, f))
  /\ TypeTo(w, Len(w), TypeAt(h, a))
  /\ \A f \in Storage : OwnAt(h, a, f) = -1 \/ \E j \in 1..Len(w) : AttributeAt(w, j).field = f /\ AttributeAt(w, j).value = OwnAt(h, a, f)
  /\ ~TypedContradiction(w, Len(w))

(* The options of a list that is not in error. *)
LEMMA OptionFacts ==
  ASSUME NEW u \in AttributeLists, NEW d \in Options, OptionsTo(u, Len(u), d), d.ok
  PROVE  /\ \A f \in Storage \cup Typed :
              /\ ValueTo(u, Len(u), f, d.set[f]) /\ d.set[f] \in Nat \cup {-1}
              /\ d.set[f] = -1 <=> \A j \in 1..Len(u) : AttributeAt(u, j).field # f
         /\ TypeTo(u, Len(u), d.uniontype) /\ d.uniontype \in UnionType
         /\ ~ContradictionTo(u, Len(u)) /\ ~TypedContradiction(u, Len(u))
         /\ d.uniontype = "UNKNOWN" => \A f \in Typed : d.set[f] = -1
<1> DEFINE n == Len(u)
<1>1. n \in 0..n /\ \A j \in 1..n : AttributeOK(AttributeAt(u, j))
  BY AttributesFacts
<1>2. \A f \in Storage \cup Typed : ValueTo(u, n, f, d.set[f])
  BY DEF OptionsTo
<1>3. \A f \in Storage \cup Typed :
         /\ d.set[f] \in Nat \cup {-1}
         /\ d.set[f] = -1 <=> \A j \in 1..n : AttributeAt(u, j).field # f
  <2> HIDE DEF n
  <2> QED BY <1>1, <1>2, ValueIs DEF n
<1>4. TypeTo(u, n, d.uniontype) /\ d.uniontype \in UnionType /\ ~ContradictionTo(u, n)
  BY DEF OptionsTo, Options
<1> HIDE DEF n
<1>5. ~TypedContradiction(u, n)
  BY <1>4 DEF TypedContradiction, ContradictionTo
<1>6. d.uniontype = "UNKNOWN" => \A f \in Typed : d.set[f] = -1
  <2> SUFFICES ASSUME d.uniontype = "UNKNOWN", NEW f \in Typed PROVE \A j \in 1..n : AttributeAt(u, j).field # f
    BY <1>3
  <2>1. \A j \in 1..n : AttributeAt(u, j).uniontype = "UNKNOWN"
    BY <1>4 DEF TypeTo
  <2>2. Storage \cap Typed = {}
    BY DEF Storage, Typed
  <2> QED BY <1>1, <2>1, <2>2 DEF AttributeOK
<1> QED BY <1>2, <1>3, <1>4, <1>5, <1>6 DEF n

(* A record with the options of a list is right for it. *)
LEMMA NewRight ==
  ASSUME NEW u \in AttributeLists, NEW d \in Options, OptionsTo(u, Len(u), d), d.ok,
         NEW g, NEW b, Says(g, b, d)
  PROVE  NameRight(u, g, b)
<1>1. ASSUME NEW f \in Storage, OwnAt(g, b, f) # -1
      PROVE  \E j \in 1..Len(u) : AttributeAt(u, j).field = f /\ AttributeAt(u, j).value = OwnAt(g, b, f)
  <2>1. OwnAt(g, b, f) = d.set[f]
    BY <1>1 DEF Says
  <2>2. ValueTo(u, Len(u), f, d.set[f])
    BY OptionFacts
  <2> QED BY <1>1, <2>1, <2>2 DEF ValueTo
<1> QED BY <1>1, OptionFacts DEF NameRight, Says

(* A record to which a list of options was added is right for both lists. *)
LEMMA JoinRight ==
  ASSUME NEW w \in AttributeLists, NEW u \in AttributeLists, NEW d \in Options, OptionsTo(u, Len(u), d), d.ok,
         NEW h, NEW a, NameRight(w, h, a), NEW g, NEW b,
         \A f \in Typed : FieldAt(g, b, f) = SetTo(FieldAt(h, a, f), d.set[f]),
         TypeAt(g, b) = IF TypeAt(h, a) = "UNKNOWN" THEN d.uniontype ELSE TypeAt(h, a),
         \A f \in Storage : OwnAt(g, b, f) \in {-1, OwnAt(h, a, f), d.set[f]},
         TypeAt(h, a) = d.uniontype \/ TypeAt(h, a) = "UNKNOWN" \/ d.uniontype = "UNKNOWN",
         \A f \in Tristate : ~Taken(FieldAt(h, a, f), d.set[f])
  PROVE  NameRight(w \o u, g, b)
<1> DEFINE x == w \o u
           n == Len(w)
           m == Len(u)
<1>1. x \in AttributeLists /\ Len(x) = n + m /\ Joins(x, w, n, u, m)
  BY Join
<1>2. /\ n \in 0..n /\ \A j \in 1..n : AttributeOK(AttributeAt(w, j))
      /\ m \in 0..m /\ \A j \in 1..m : AttributeOK(AttributeAt(u, j))
  BY AttributesFacts
<1>3. /\ \A f \in Storage \cup Typed :
              /\ ValueTo(u, m, f, d.set[f]) /\ d.set[f] \in Nat \cup {-1}
              /\ d.set[f] = -1 <=> \A j \in 1..m : AttributeAt(u, j).field # f
      /\ TypeTo(u, m, d.uniontype) /\ ~TypedContradiction(u, m)
  BY OptionFacts
<1>4. /\ \A f \in Typed : ValueTo(w, n, f, FieldAt(h, a, f))
      /\ TypeTo(w, n, TypeAt(h, a)) /\ ~TypedContradiction(w, n)
      /\ \A f \in Storage : OwnAt(h, a, f) = -1 \/ \E j \in 1..n : AttributeAt(w, j).field = f /\ AttributeAt(w, j).value = OwnAt(h, a, f)
  BY DEF NameRight
<1>c. \A f \in Typed : FieldAt(h, a, f) = -1 => \A j \in 1..n : AttributeAt(w, j).field # f
  BY <1>2, <1>4, ValueIs
<1> HIDE DEF x, n, m
<1>5. \A f \in Typed : ValueTo(x, n + m, f, FieldAt(g, b, f))
  BY <1>1, <1>3, <1>4, JoinValue
<1>6. TypeTo(x, n + m, TypeAt(g, b))
  BY <1>1, <1>3, <1>4, JoinType
<1>7. ASSUME NEW f \in Storage, OwnAt(g, b, f) # -1
      PROVE  \E j \in 1..(n + m) : AttributeAt(x, j).field = f /\ AttributeAt(x, j).value = OwnAt(g, b, f)
  <2>1. CASE OwnAt(g, b, f) = OwnAt(h, a, f)
    <3>1. PICK j \in 1..n : AttributeAt(w, j).field = f /\ AttributeAt(w, j).value = OwnAt(h, a, f)
      BY <1>4, <1>7, <2>1
    <3> QED BY <1>1, <2>1, <3>1 DEF Joins
  <2>2. CASE OwnAt(g, b, f) = d.set[f]
    <3>1. PICK j \in 1..m : AttributeAt(u, j).field = f /\ AttributeAt(u, j).value = d.set[f]
      BY <1>3, <1>7, <2>2 DEF ValueTo
    <3> QED BY <1>1, <2>2, <3>1 DEF Joins
  <2> QED BY <1>7, <2>1, <2>2
<1>8. ASSUME NEW j \in 1..n, NEW k \in 1..m, AttributeAt(w, j).field \in Typed, AttributeAt(u, k).field \in Typed,
             Contradiction(AttributeAt(w, j), AttributeAt(u, k))
      PROVE  FALSE
  <2>1. CASE AttributeAt(w, j).field = AttributeAt(u, k).field /\ AttributeAt(u, k).once
    <3> DEFINE f == AttributeAt(u, k).field
    <3>1. f \in Tristate
      <4>1. Storage \cap Typed = {}
        BY DEF Storage, Typed
      <4> QED BY <1>2, <1>8, <2>1, <4>1 DEF AttributeOK
    <3>2. FieldAt(h, a, f) # -1
      BY <1>8, <1>c, <2>1
    <3>3. d.set[f] # -1 /\ d.set[f] \in Nat \cup {-1}
      BY <1>3, <1>8
    <3> HIDE DEF f
    <3>4. d.set[f] >= 0
      BY <3>3
    <3> QED BY <3>1, <3>2, <3>4 DEF Taken
  <2>2. CASE /\ AttributeAt(w, j).uniontype # AttributeAt(u, k).uniontype
             /\ "UNKNOWN" \notin {AttributeAt(w, j).uniontype, AttributeAt(u, k).uniontype}
    BY <1>3, <1>4, <2>2 DEF TypeTo
  <2> QED BY <1>8, <2>1, <2>2 DEF Contradiction
<1>9. ~TypedContradiction(x, n + m)
  BY <1>1, <1>3, <1>4, <1>8, JoinTyped
<1> QED BY <1>1, <1>5, <1>6, <1>7, <1>9 DEF NameRight, x

-----------------------------------------------------------------------------
(* New records. *)

(* h becomes g by a record for the options d, which no other record shares. *)
Allocated(h, g, d) ==
  LET n == Len(h.list) + 1
  IN  /\ HeapOK(g) /\ Signed(g) /\ Len(g.list) = n /\ Says(g, n, d)
      /\ \A b \in 0..Len(h.list) :
           /\ TypeAt(g, b) = TypeAt(h, b) /\ UnionAt(g, b) = UnionAt(h, b)
           /\ \A f \in Storage : OwnAt(g, b, f) = OwnAt(h, b, f)
           /\ \A f \in Typed : FieldAt(g, b, f) = FieldAt(h, b, f)
           /\ UnionAt(g, n) # NULL => UnionAt(g, b) # UnionAt(g, n)

(* An element behind a sequence. *)
LEMMA AppendIs ==
  ASSUME NEW S, NEW s \in Seq(S), NEW l \in S
  PROVE  LET t == Append(s, l)
         IN  /\ t \in Seq(S) /\ Len(t) = Len(s) + 1 /\ t[Len(s) + 1] = l
             /\ \A b \in 1..Len(s) : t[b] = s[b]
OBVIOUS

(* The fields of options. *)
LEMMA NewUnion ==
  ASSUME NEW d \in Options
  PROVE  [f \in Typed |-> d.set[f]] \in UnionRecords /\ [f \in Storage |-> d.set[f]] \in [Storage -> Int]
BY DEF Options, UnionRecords

(* Allocate gives such a heap. *)
LEMMA AllocateIs ==
  ASSUME NEW h, HeapOK(h), Signed(h), NEW d \in Options,
         d.uniontype = "UNKNOWN" => \A f \in Typed : d.set[f] = -1,
         \A f \in Storage \cup Typed : d.set[f] \in Nat \cup {-1}
  PROVE  Allocated(h, Allocate(h, d), d)
<1> DEFINE N == Len(h.list)
           U == Len(h.union)
           n == N + 1
           typed == d.uniontype # "UNKNOWN"
           u == IF typed THEN U + 1 ELSE NULL
           own == [f \in Storage |-> d.set[f]]
           l == [uniontype |-> d.uniontype, own |-> own, union |-> u]
           v == [f \in Typed |-> d.set[f]]
           list == Append(h.list, l)
           union == IF typed THEN Append(h.union, v) ELSE h.union
           g == Allocate(h, d)
<1>1. g = [list |-> list, union |-> union]
  BY DEF Allocate
<1>2. /\ N \in Nat /\ U \in Nat /\ n \in Nat /\ h.list \in Seq(ListRecords) /\ h.union \in Seq(UnionRecords)
      /\ v \in UnionRecords /\ own \in [Storage -> Int] /\ u \in Nat
  BY HeapFacts, NewUnion DEF HeapOK, Heaps, NULL
<1>3. l \in ListRecords
  <2> HIDE DEF own, u
  <2> QED BY <1>2 DEF ListRecords, Options
<1>4. l.uniontype = d.uniontype /\ l.own = own /\ l.union = u
  OBVIOUS
<1>v. (\A f \in Typed : v[f] = d.set[f]) /\ (\A f \in Storage : own[f] = d.set[f])
  OBVIOUS
<1> HIDE DEF l, v, own
<1>5. /\ list \in Seq(ListRecords) /\ Len(list) = n /\ list[n] = l
      /\ \A b \in 1..N : list[b] = h.list[b]
  BY <1>2, <1>3, AppendIs
<1>6. /\ union \in Seq(UnionRecords) /\ Len(union) = (IF typed THEN U + 1 ELSE U)
      /\ typed => union[U + 1] = v
      /\ \A b \in 1..U : union[b] = h.union[b]
  BY <1>2, AppendIs
<1> HIDE DEF list, union
<1>7. g.list = list /\ g.union = union /\ g \in Heaps
  BY <1>1, <1>5, <1>6 DEF Heaps
<1> HIDE DEF g
<1>8. /\ \A a \in 1..N : h.list[a].union \in 0..U /\ (h.list[a].union = NULL <=> h.list[a].uniontype = "UNKNOWN")
  BY HeapFacts
<1>9. \A a \in 1..n : a \in 1..N \/ a = n
  BY <1>2
<1>10. u \in 0..Len(union) /\ (u = NULL <=> d.uniontype = "UNKNOWN") /\ \A x \in 0..U : x \in 0..Len(union) /\ (u # NULL => x # u)
  BY <1>2, <1>6 DEF NULL
<1> HIDE DEF u, U, N, n, typed
<1>11. HeapOK(g)
  BY <1>4, <1>5, <1>7, <1>8, <1>9, <1>10 DEF HeapOK
<1>12. ASSUME NEW b \in 0..N
       PROVE  /\ TypeAt(g, b) = TypeAt(h, b) /\ UnionAt(g, b) = UnionAt(h, b)
              /\ \A f \in Storage : OwnAt(g, b, f) = OwnAt(h, b, f)
  <2>1. b = NULL \/ b \in 1..N
    BY <1>2 DEF NULL
  <2> QED BY <1>5, <1>7, <2>1 DEF TypeAt, UnionAt, OwnAt
<1>13. ASSUME NEW b \in 0..N PROVE UnionAt(h, b) \in 0..U
  BY AtFacts DEF N, U
<1>14. ASSUME NEW b \in 0..N, NEW f \in Typed PROVE FieldAt(g, b, f) = FieldAt(h, b, f)
  <2>1. UnionAt(h, b) = NULL \/ UnionAt(h, b) \in 1..U
    BY <1>2, <1>13 DEF NULL
  <2> QED BY <1>6, <1>7, <1>12, <2>1 DEF FieldAt
<1>15. n # NULL /\ n \in Nat
  BY <1>2 DEF NULL, n
<1>16. TypeAt(g, n) = d.uniontype /\ UnionAt(g, n) = u /\ \A f \in Storage : OwnAt(g, n, f) = d.set[f]
  BY <1>4, <1>5, <1>7, <1>15, <1>v DEF TypeAt, UnionAt, OwnAt
<1>17. ASSUME NEW f \in Typed PROVE FieldAt(g, n, f) = d.set[f]
  <2>1. CASE typed
    <3>1. u = U + 1
      BY <2>1 DEF u
    <3>2. u # NULL
      BY <1>10, <2>1 DEF typed
    <3> QED BY <1>6, <1>7, <1>16, <1>v, <2>1, <3>1, <3>2 DEF FieldAt
  <2>2. CASE ~typed
    BY <1>10, <1>16, <2>2 DEF FieldAt, typed
  <2> QED BY <2>1, <2>2
<1>18. Signed(g)
  <2> SUFFICES ASSUME NEW b \in 0..n, NEW f \in Typed PROVE FieldAt(g, b, f) >= -1
    BY <1>5, <1>7 DEF Signed
  <2>1. CASE b \in 0..N
    BY <1>14, <2>1 DEF Signed, N
  <2>2. CASE b = n
    <3>1. d.set[f] \in Nat \cup {-1}
      OBVIOUS
    <3> QED BY <1>17, <2>2, <3>1
  <2>3. b \in 0..N \/ b = n
    BY <1>2 DEF n
  <2> QED BY <2>1, <2>2, <2>3
<1>19. Says(g, n, d)
  BY <1>16, <1>17 DEF Says
<1>20. Len(g.list) = n
  BY <1>5, <1>7
<1>21. \A b \in 0..N : UnionAt(g, n) # NULL => UnionAt(g, b) # UnionAt(g, n)
  BY <1>10, <1>12, <1>13, <1>16
<1> QED BY <1>11, <1>12, <1>14, <1>18, <1>19, <1>20, <1>21 DEF Allocated, g, N, n

-----------------------------------------------------------------------------
(* Records that are shared while a factor is added to them. *)

(* What the record b has when d is added to it. *)
TypeSum(h, b, d) == IF TypeAt(h, b) = "UNKNOWN" THEN TypeAt(h, d) ELSE TypeAt(h, b)
UnionSum(h, b, d) == IF UnionAt(h, b) = NULL THEN UnionAt(h, d) ELSE UnionAt(h, b)
FieldSum(h, b, d, f) == SetTo(FieldAt(h, b, f), FieldAt(h, d, f))
StorageSum(h, b, d, f) == SetTo(OwnAt(h, b, f), OwnAt(h, d, f))

(* The record d can be added to b. *)
Compatible(h, b, d) == ~TypesDiffer(h, b, d) /\ ~FieldsConflict(h, b, d)

(* Two elements share their record, or what it points to. *)
Shares(h, a, b) == a # NULL /\ b # NULL /\ (a = b \/ (UnionAt(h, a) # NULL /\ UnionAt(h, a) = UnionAt(h, b)))

(* The record b says the same on both heaps. *)
Same(h, g, b) ==
  /\ TypeAt(g, b) = TypeAt(h, b) /\ UnionAt(g, b) = UnionAt(h, b)
  /\ \A f \in Storage : OwnAt(g, b, f) = OwnAt(h, b, f)

SameFields(h, g, b) == \A f \in Typed : FieldAt(g, b, f) = FieldAt(h, b, f)

(* The record b while d is added to the records A, from h to g. *)
Adding(h, g, d, A, b) ==
  /\ \A f \in Storage : OwnAt(g, b, f) \in {OwnAt(h, b, f), StorageSum(h, b, d, f)}
  /\ UnionAt(g, b) \in {UnionAt(h, b), UnionSum(h, b, d)}
  /\ TypeAt(g, b) \in {TypeAt(h, b), TypeSum(h, b, d)}
  /\ \A f \in Typed : FieldAt(g, b, f) \in {FieldAt(h, b, f), FieldSum(h, b, d, f)}
  /\ b \notin A => Same(h, g, b)
  /\ b \in A => /\ Compatible(h, b, d) /\ TypeAt(g, b) = TypeSum(h, b, d)
                /\ \A f \in Typed : FieldAt(g, b, f) = FieldSum(h, b, d, f)
  /\ SameFields(h, g, b) \/ \E c \in A : Shares(g, c, b)

(* The heap g while d is added to the records A of h: these say what they    *)
(* should, records that share nothing with them are as before, and so is d.  *)
HeapInv(h, g, d, A) ==
  /\ HeapOK(g) /\ Signed(g) /\ Len(g.list) = Len(h.list)
  /\ Same(h, g, d) /\ SameFields(h, g, d)
  /\ A \subseteq 1..Len(h.list)
  /\ \A b \in 0..Len(h.list) : b # d => Adding(h, g, d, A, b)

(* Nothing is added yet. *)
LEMMA HeapStart ==
  ASSUME NEW h, HeapOK(h), Signed(h), NEW d
  PROVE  HeapInv(h, h, d, {})
BY DEF HeapInv, Adding, Same, SameFields

(* What is added once is added. *)
LEMMA Sums ==
  ASSUME NEW v \in Int, NEW d \in Int, d >= -1, NEW x \in {v, SetTo(v, d)}
  PROVE  SetTo(x, d) = SetTo(v, d) /\ SetTo(d, d) = d
BY DEF SetTo

(* One record more. *)
LEMMA HeapStep ==
  ASSUME NEW h, HeapOK(h), Signed(h), NEW d \in 1..Len(h.list), NEW A, NEW r, HeapInv(h, r, d, A),
         NEW a \in 1..Len(h.list), a # d, NEW g, Took(r, g, a, d),
         \A f \in Storage : OwnAt(h, d, f) >= -1
  PROVE  HeapInv(h, g, d, A \cup {a})
<1> DEFINE m == Len(h.list)
           B == A \cup {a}
<1>1. m \in Nat /\ a \in 0..m /\ d \in 0..m /\ Len(r.list) = m /\ a # NULL /\ d # NULL
  BY HeapFacts DEF HeapInv, NULL
<1>2. HeapOK(g) /\ Signed(g) /\ Len(g.list) = m
  BY <1>1, TookSigned DEF HeapInv, Took
<1> HIDE DEF m
<1>3. /\ ~TypesDiffer(r, a, d) /\ ~FieldsConflict(r, a, d)
      /\ TypeAt(g, a) = IF TypeAt(r, a) = "UNKNOWN" THEN TypeAt(r, d) ELSE TypeAt(r, a)
      /\ UnionAt(g, a) = IF UnionAt(r, a) = NULL THEN UnionAt(r, d) ELSE UnionAt(r, a)
      /\ \A f \in Typed : FieldAt(g, a, f) = SetTo(FieldAt(r, a, f), FieldAt(r, d, f))
      /\ \A f \in Storage : OwnAt(g, a, f) \in {OwnAt(r, a, f), SetTo(OwnAt(r, a, f), OwnAt(r, d, f))}
  BY DEF Took
<1>4. \A b \in 0..m : b # a =>
       /\ Same(r, g, b)
       /\ \A f \in Typed :
            FieldAt(g, b, f) = IF UnionAt(r, b) # NULL /\ UnionAt(r, b) = UnionAt(r, a)
                               THEN SetTo(FieldAt(r, b, f), FieldAt(r, d, f)) ELSE FieldAt(r, b, f)
  BY <1>1 DEF Took, Same
<1>5. /\ Same(h, r, d) /\ SameFields(h, r, d)
      /\ \A b \in 0..m : b # d => Adding(h, r, d, A, b)
  BY DEF HeapInv, m
<1>6. \A b \in 0..m : (\A f \in Typed : FieldAt(h, b, f) \in Int /\ FieldAt(h, b, f) >= -1)
                      /\ (\A f \in Storage : OwnAt(h, b, f) \in Int)
  BY AtFacts DEF Signed, m
<1>7. Same(h, g, d) /\ SameFields(h, g, d)
  <2>1. Same(h, g, d)
    BY <1>1, <1>4, <1>5 DEF Same
  <2>2. \A f \in Typed : SetTo(FieldAt(h, d, f), FieldAt(h, d, f)) = FieldAt(h, d, f)
    BY <1>1, <1>6 DEF SetTo
  <2>3. SameFields(h, g, d)
    BY <1>1, <1>4, <1>5, <2>2 DEF SameFields
  <2> QED BY <2>1, <2>3
<1>8. \A b \in 0..m : UnionAt(r, b) # NULL => UnionAt(g, b) = UnionAt(r, b)
  BY <1>3, <1>4 DEF Same
<1>9. Adding(h, r, d, A, a)
  BY <1>1, <1>5
<1>10. Adding(h, g, d, B, a)
  <2>1. \A f \in Typed : FieldAt(g, a, f) = FieldSum(h, a, d, f)
    <3> SUFFICES ASSUME NEW f \in Typed PROVE FieldAt(g, a, f) = FieldSum(h, a, d, f)
      OBVIOUS
    <3>1. FieldAt(r, a, f) \in {FieldAt(h, a, f), SetTo(FieldAt(h, a, f), FieldAt(h, d, f))}
      BY <1>9 DEF Adding, FieldSum
    <3>2. FieldAt(r, d, f) = FieldAt(h, d, f)
      BY <1>5 DEF SameFields
    <3> QED BY <1>1, <1>3, <1>6, <3>1, <3>2, Sums DEF FieldSum
  <2>2. TypeAt(g, a) = TypeSum(h, a, d)
    BY <1>3, <1>5, <1>9 DEF Adding, TypeSum, Same
  <2>3. UnionAt(g, a) \in {UnionAt(h, a), UnionSum(h, a, d)}
    BY <1>3, <1>5, <1>9 DEF Adding, UnionSum, Same
  <2>4. \A f \in Storage : OwnAt(g, a, f) \in {OwnAt(h, a, f), StorageSum(h, a, d, f)}
    <3> SUFFICES ASSUME NEW f \in Storage PROVE OwnAt(g, a, f) \in {OwnAt(h, a, f), StorageSum(h, a, d, f)}
      OBVIOUS
    <3>1. OwnAt(r, a, f) \in {OwnAt(h, a, f), SetTo(OwnAt(h, a, f), OwnAt(h, d, f))}
      BY <1>9 DEF Adding, StorageSum
    <3>2. OwnAt(r, d, f) = OwnAt(h, d, f)
      BY <1>5 DEF Same
    <3> QED BY <1>1, <1>3, <1>6, <3>1, <3>2, Sums DEF StorageSum
  <2>5. Compatible(h, a, d)
    <3>1. ~TypesDiffer(h, a, d)
      BY <1>3, <1>5, <1>9 DEF Adding, TypeSum, Same, TypesDiffer
    <3>2. ~FieldsConflict(h, a, d)
      <4> SUFFICES ASSUME NEW f \in Tristate, Taken(FieldAt(h, a, f), FieldAt(h, d, f)) PROVE FALSE
        BY DEF FieldsConflict
      <4>1. f \in Typed
        BY DEF Tristate, Typed
      <4>2. FieldAt(r, a, f) \in {FieldAt(h, a, f), SetTo(FieldAt(h, a, f), FieldAt(h, d, f))}
        BY <1>9, <4>1 DEF Adding, FieldSum
      <4>3. FieldAt(r, d, f) = FieldAt(h, d, f)
        BY <1>5, <4>1 DEF SameFields
      <4>4. Taken(FieldAt(r, a, f), FieldAt(r, d, f))
        BY <1>1, <1>6, <4>1, <4>2, <4>3 DEF Taken, SetTo
      <4> QED BY <1>3, <4>4 DEF FieldsConflict
    <3> QED BY <3>1, <3>2 DEF Compatible
  <2>6. a \in B /\ Shares(g, a, a)
    BY <1>1 DEF Shares
  <2> QED BY <2>1, <2>2, <2>3, <2>4, <2>5, <2>6 DEF Adding
<1>11. ASSUME NEW b \in 0..m, b # d, b # a PROVE Adding(h, g, d, B, b)
  <2>1. Adding(h, r, d, A, b) /\ Same(r, g, b)
    BY <1>4, <1>5, <1>11
  <2> DEFINE shared == UnionAt(r, b) # NULL /\ UnionAt(r, b) = UnionAt(r, a)
  <2>2. \A f \in Typed : FieldAt(g, b, f) = IF shared THEN SetTo(FieldAt(r, b, f), FieldAt(h, d, f)) ELSE FieldAt(r, b, f)
    BY <1>4, <1>5, <1>11 DEF SameFields
  <2>3. shared => Shares(g, a, b)
    <3> SUFFICES ASSUME shared PROVE Shares(g, a, b)
      OBVIOUS
    <3>1. UnionAt(g, b) = UnionAt(r, b) /\ UnionAt(g, a) = UnionAt(r, a)
      BY <1>1, <1>8
    <3>2. b # NULL
      BY DEF UnionAt
    <3> QED BY <1>1, <3>1, <3>2 DEF Shares
  <2>4. \A c \in A : Shares(r, c, b) => Shares(g, c, b)
    <3>1. \A c \in A : c \in 0..m
      BY DEF HeapInv, m
    <3> QED BY <1>8, <3>1 DEF Shares
  <2> HIDE DEF shared
  <2>5. \A f \in Typed : SetTo(FieldAt(r, b, f), FieldAt(h, d, f)) = FieldSum(h, b, d, f)
    <3> SUFFICES ASSUME NEW f \in Typed PROVE SetTo(FieldAt(r, b, f), FieldAt(h, d, f)) = FieldSum(h, b, d, f)
      OBVIOUS
    <3>1. FieldAt(r, b, f) \in {FieldAt(h, b, f), SetTo(FieldAt(h, b, f), FieldAt(h, d, f))}
      BY <2>1 DEF Adding, FieldSum
    <3> QED BY <1>1, <1>6, <3>1, Sums DEF FieldSum
  <2>6. \A f \in Typed : FieldAt(g, b, f) \in {FieldAt(h, b, f), FieldSum(h, b, d, f)}
    BY <2>1, <2>2, <2>5 DEF Adding
  <2>7. b \in A => \A f \in Typed : FieldAt(g, b, f) = FieldSum(h, b, d, f)
    BY <2>1, <2>2, <2>5 DEF Adding
  <2>8. SameFields(h, g, b) \/ \E c \in B : Shares(g, c, b)
    BY <2>1, <2>2, <2>3, <2>4 DEF Adding, SameFields
  <2>9. b \in A <=> b \in B
    BY <1>11
  <2>10. b \notin A => Same(h, g, b)
    BY <2>1 DEF Adding, Same
  <2>11. /\ \A f \in Storage : OwnAt(g, b, f) \in {OwnAt(h, b, f), StorageSum(h, b, d, f)}
         /\ UnionAt(g, b) \in {UnionAt(h, b), UnionSum(h, b, d)}
         /\ TypeAt(g, b) \in {TypeAt(h, b), TypeSum(h, b, d)}
         /\ b \in A => Compatible(h, b, d) /\ TypeAt(g, b) = TypeSum(h, b, d)
    BY <2>1 DEF Adding, Same
  <2> HIDE DEF B
  <2> QED BY <2>6, <2>7, <2>8, <2>9, <2>10, <2>11 DEF Adding
<1>12. A \cup {a} \subseteq 1..m
  BY DEF HeapInv, m
<1> QED BY <1>2, <1>7, <1>10, <1>11, <1>12 DEF HeapInv, m

(* The elements after k rounds from first on. *)
Elements(e, x, first, k, dol, level) ==
  \A i \in 1..Len(e) : x[i] = IF i \in first..(first + k - 1) THEN Given(e[i], dol, level) ELSE e[i]

(* The records of the elements that k rounds went through. *)
Records(e, first, k) == {e[i].dclAttr : i \in first..(first + k - 1)} \ {NULL}

(* Without a factor the heap stays as it is. *)
HeapPart(h, g, d, A) == IF d = NULL THEN g = h ELSE HeapInv(h, g, d, A)

(* After k rounds: the elements have records and levels, and the factor is   *)
(* added to the records.                                                     *)
MergeInv(r, e, h, first, k, dol, level) ==
  /\ r.ok
  /\ Elements(e, r.elem, first, k, dol, level)
  /\ HeapPart(h, r.heap, dol, Records(e, first, k))
  /\ r.prev = IF k = 0 THEN NULL ELSE r.elem[first + k - 1].dclAttr

(* Round k ended the parse: the types differ, or a field is set that may be  *)
(* set once and the record was not seen before.                              *)
MergeFailed(r, e, h, first, k, dol, level) ==
  LET i == first + k - 1
      a == e[i].dclAttr
  IN  /\ ~r.ok
      /\ Elements(e, r.elem, first, k, dol, level)
      /\ dol # NULL /\ HeapInv(h, r.heap, dol, Records(e, first, k - 1))
      /\ a # NULL
      /\ \/ TypesDiffer(r.heap, a, dol)
         \/ /\ k = 1 \/ r.elem[i - 1].dclAttr # a
            /\ InternalConflict(r.heap, a, dol) \/ FieldsConflict(r.heap, a, dol)

(* The records of one round more. *)
LEMMA RecordsNext ==
  ASSUME NEW e, NEW first \in Nat, NEW k \in Nat
  PROVE  Records(e, first, k + 1) = Records(e, first, k) \cup ({e[first + k].dclAttr} \ {NULL})
<1>1. first..(first + (k + 1) - 1) = (first..(first + k - 1)) \cup {first + k}
  OBVIOUS
<1> QED BY <1>1 DEF Records

(* The elements of one round more. *)
LEMMA ElementsNext ==
  ASSUME NEW e \in Seq(DeclareElement), NEW x \in Seq(DeclareElement), Len(x) = Len(e),
         NEW first \in Nat, NEW k \in Nat, NEW dol, NEW level,
         Elements(e, x, first, k, dol, level), first + k \in 1..Len(e)
  PROVE  /\ x[first + k] = e[first + k]
         /\ \A y : y = [x EXCEPT ![first + k] = Given(x[first + k], dol, level)] =>
                     Elements(e, y, first, k + 1, dol, level)
<1> DEFINE i == first + k
           n == Len(e)
<1>1. n \in Nat /\ DOMAIN x = 1..n /\ i \in 1..n /\ i \notin first..(first + k - 1)
  OBVIOUS
<1>2. \A j \in 1..n : j \in first..(first + (k + 1) - 1) <=> j = i \/ j \in first..(first + k - 1)
  BY <1>1
<1> HIDE DEF n, i
<1>3. x[i] = e[i]
  BY <1>1 DEF Elements, n
<1>4. ASSUME NEW y, y = [x EXCEPT ![i] = Given(x[i], dol, level)] PROVE Elements(e, y, first, k + 1, dol, level)
  <2>1. \A j \in 1..n : y[j] = IF j = i THEN Given(e[i], dol, level) ELSE x[j]
    BY <1>1, <1>3, <1>4
  <2> QED BY <1>2, <2>1 DEF Elements, n
<1> QED BY <1>3, <1>4 DEF i

(* mergeDeclareElements goes through all the names of the parenthesis, or    *)
(* ends at the first conflict.                                               *)
LEMMA MergeOutcome ==
  ASSUME NEW h, HeapOK(h), Signed(h), Pointing(elem, h), NEW first \in 1..Len(elem),
         NEW dol \in 0..Len(h.list), NEW level \in Int,
         dol # NULL => \A i \in 1..Len(elem) : elem[i].dclAttr # dol,
         \A f \in Storage : OwnAt(h, dol, f) >= -1
  PROVE  LET r == mergeDeclareElements(h, first, dol, level)
             m == Len(elem) - first + 1
         IN  /\ r \in MergeStates(Len(elem), Len(h.list))
             /\ \/ MergeInv(r, elem, h, first, m, dol, level)
                \/ \E k \in 1..m : MergeFailed(r, elem, h, first, k, dol, level)
<1> DEFINE n == Len(elem)
           N == Len(h.list)
           m == n - first + 1
           res == mergeDeclareElements(h, first, dol, level)
           P(r, k) == \/ MergeInv(r, elem, h, first, k, dol, level)
                      \/ \E j \in 1..k : MergeFailed(r, elem, h, first, j, dol, level)
<1>0. n \in Nat /\ N \in Nat /\ m \in Nat /\ first \in Nat /\ elem \in Seq(DeclareElement)
      /\ \A i \in 1..n : elem[i].dclAttr \in 0..N
  BY HeapFacts DEF Pointing
<1>d. dol \in Nat
  BY <1>0
<1>1. PICK acc : MergeRounds(acc, elem, h, first, dol, level, res)
  BY MergeFold
<1> HIDE DEF res
<1>2. /\ acc \in [0..m -> MergeStates(n, N)]
      /\ acc[0] = MergeStart(elem, h) /\ acc[m] = res
      /\ \A k \in 1..m : acc[k] = Merge1(acc[k - 1], first + k - 1, dol, level)
  BY <1>1 DEF MergeRounds
<1> DEFINE S == {k \in Nat : k <= m => P(acc[k], k)}
<1>3. 0 \in S
  <2> DEFINE r == acc[0]
  <2>1. r.elem = elem /\ r.heap = h /\ r.prev = NULL /\ r.ok
    BY <1>2, MergeStartIs
  <2>2. first..(first + 0 - 1) = {}
    BY <1>0
  <2>3. Records(elem, first, 0) = {} /\ Elements(elem, elem, first, 0, dol, level)
    BY <2>2 DEF Records, Elements
  <2>4. HeapPart(h, h, dol, {})
    BY HeapStart DEF HeapPart
  <2> HIDE DEF r
  <2>5. MergeInv(r, elem, h, first, 0, dol, level)
    BY <2>1, <2>3, <2>4 DEF MergeInv
  <2>6. P(r, 0)
    BY <2>5
  <2> HIDE DEF P
  <2> QED BY <2>6 DEF r
<1>4. ASSUME NEW k \in Nat, k \in S PROVE k + 1 \in S
  <2> SUFFICES ASSUME k + 1 <= m PROVE P(acc[k + 1], k + 1)
    <3> HIDE DEF P, m
    <3> QED BY DEF S
  <2> DEFINE r == acc[k]
             s == acc[k + 1]
             i == first + k
             a == r.elem[i].dclAttr
             b == elem[i].dclAttr
             q == Given(r.elem[i], dol, level)
  <2>1. k + 1 \in 1..m /\ k \in 0..m /\ i \in 1..n /\ k <= m /\ (k + 1) - 1 = k /\ first + (k + 1) - 1 = i /\ k + 1 # 0
    BY <1>0
  <2>2. P(r, k)
    <3> HIDE DEF P
    <3> QED BY <1>4, <2>1
  <2>3. r \in MergeStates(n, N) /\ s = Merge1(r, i, dol, level)
    <3> HIDE DEF n, N, m, P, S
    <3> QED BY <1>2, <2>1
  <2>4. /\ ~r.ok => s = r
        /\ r.ok => /\ s.elem = [r.elem EXCEPT ![i] = q]
                   /\ s.prev = IF a = NULL THEN dol ELSE a
                   /\ RoundEnds(r, s, a, dol)
    <3> HIDE DEF n, P, S, r, s, i
    <3>1. dol \in 0..N
      OBVIOUS
    <3> HIDE DEF N
    <3> QED BY <1>0, <2>1, <2>3, <3>1, Round
  <2>5. r.elem \in Seq(DeclareElement) /\ Len(r.elem) = n /\ HeapOK(r.heap) /\ Signed(r.heap) /\ Len(r.heap.list) = N
    BY <2>3 DEF MergeStates
  <2>6. CASE \E j \in 1..k : MergeFailed(r, elem, h, first, j, dol, level)
    <3>1. PICK j \in 1..k : MergeFailed(r, elem, h, first, j, dol, level)
      BY <2>6
    <3>2. ~r.ok
      BY <3>1 DEF MergeFailed
    <3>3. s = r /\ j \in 1..(k + 1)
      BY <2>4, <3>2
    <3> HIDE DEF r, s, m
    <3> QED BY <3>1, <3>3 DEF s
  <2>7. CASE MergeInv(r, elem, h, first, k, dol, level)
    <3> HIDE DEF P, S
    <3>1. /\ r.ok /\ Elements(elem, r.elem, first, k, dol, level)
          /\ HeapPart(h, r.heap, dol, Records(elem, first, k))
          /\ r.prev = IF k = 0 THEN NULL ELSE r.elem[first + k - 1].dclAttr
      BY <2>7 DEF MergeInv
    <3>2. r.elem[i] = elem[i] /\ Elements(elem, s.elem, first, k + 1, dol, level) /\ s.elem[i] = q
      <4> DEFINE x == r.elem
                 y == s.elem
      <4>1. x \in Seq(DeclareElement) /\ Len(x) = Len(elem) /\ Elements(elem, x, first, k, dol, level) /\ first + k \in 1..Len(elem)
            /\ y = [x EXCEPT ![first + k] = Given(x[first + k], dol, level)]
        <5> HIDE DEF r, s
        <5> QED BY <2>1, <2>4, <2>5, <3>1
      <4> HIDE DEF x, y, r, s, n
      <4>2. x[first + k] = elem[first + k] /\ Elements(elem, y, first, k + 1, dol, level)
        BY <1>0, <4>1, ElementsNext
      <4>3. y[first + k] = Given(x[first + k], dol, level)
        BY <4>1
      <4> QED BY <4>2, <4>3 DEF x, y
    <3>3. a = b /\ b \in 0..N
      BY <1>0, <2>1, <3>2
    <3>4. s.elem[i].dclAttr = IF b = NULL THEN dol ELSE b
      <4> DEFINE e == elem[i]
      <4>1. e \in DeclareElement /\ s.elem[i] = Given(e, dol, level) /\ dol \in Nat
        <5> HIDE DEF s, r
        <5> QED BY <1>0, <2>1, <3>2
      <4> HIDE DEF e, s
      <4>2. Given(e, dol, level).dclAttr = IF e.dclAttr = NULL THEN dol ELSE e.dclAttr
        BY <4>1, GivenIs
      <4> QED BY <4>1, <4>2 DEF e
    <3>5. Records(elem, first, k + 1) = Records(elem, first, k) \cup ({b} \ {NULL})
      <4>1. first \in Nat
        BY <1>0
      <4>2. Records(elem, first, k + 1) = Records(elem, first, k) \cup ({elem[first + k].dclAttr} \ {NULL})
        <5> HIDE DEF n, N, m, r, s
        <5> QED BY <4>1, RecordsNext
      <4> QED BY <4>2
    <3>6. RoundEnds(r, s, b, dol) /\ s.prev = IF b = NULL THEN dol ELSE b
      <4> HIDE DEF r, s, a, b
      <4> QED BY <2>4, <3>1, <3>3
    <3>7. dol # NULL => b # dol
      BY <2>1
    <3> DEFINE A == Records(elem, first, k)
               B == Records(elem, first, k + 1)
    <3> HIDE DEF r, s, a, b, i, A, B, n, m, N, q
    <3>8. CASE b = NULL \/ dol = NULL
      <4>1. s.ok /\ s.heap = r.heap
        BY <3>6, <3>8 DEF RoundEnds
      <4>2. b = NULL => B = A
        BY <3>5 DEF A, B
      <4>3. HeapPart(h, s.heap, dol, B)
        BY <3>1, <3>8, <4>1, <4>2 DEF HeapPart, A
      <4>4. MergeInv(s, elem, h, first, k + 1, dol, level)
        BY <2>1, <3>2, <3>4, <3>6, <4>1, <4>3 DEF MergeInv, B
      <4> QED BY <4>4 DEF P, s
    <3>9. CASE b # NULL /\ dol # NULL
      <4>0. b \in 1..N /\ dol \in 1..N /\ B = A \cup {b} /\ HeapInv(h, r.heap, dol, A)
        <5>1. dol \in 0..N
          BY DEF N
        <5> QED BY <1>0, <3>1, <3>3, <3>5, <3>9, <5>1 DEF NULL, A, B, HeapPart
      <4>1. CASE s.ok /\ Took(r.heap, s.heap, b, dol)
        <5>1. HeapInv(h, s.heap, dol, A \cup {b})
          BY <3>7, <3>9, <4>0, <4>1, HeapStep DEF N
        <5>2. MergeInv(s, elem, h, first, k + 1, dol, level)
          BY <2>1, <3>2, <3>4, <3>6, <3>9, <4>0, <4>1, <5>1 DEF MergeInv, HeapPart, B
        <5> QED BY <5>2 DEF P, s
      <4>2. CASE s.ok /\ s.heap = r.heap /\ b = r.prev
        <5>1. k # 0 /\ b = r.elem[first + k - 1].dclAttr
          BY <3>1, <3>9, <4>2
        <5>2. first + k - 1 \in 1..n /\ first + k - 1 \in first..(first + k - 1)
          BY <1>0, <2>1, <5>1 DEF m
        <5>3. b \in A
          <6> DEFINE e == elem[first + k - 1]
          <6>1. e \in DeclareElement /\ dol \in Nat
            <7>1. e \in DeclareElement
              BY <1>0, <5>2 DEF n
            <7> QED BY <1>d, <7>1
          <6>2. r.elem[first + k - 1] = Given(e, dol, level)
            BY <3>1, <5>2 DEF Elements, n
          <6> HIDE DEF e
          <6>3. Given(e, dol, level).dclAttr = IF e.dclAttr = NULL THEN dol ELSE e.dclAttr
            BY <6>1, GivenIs
          <6>4. b = e.dclAttr
            BY <3>7, <3>9, <5>1, <6>2, <6>3
          <6> QED BY <3>9, <5>2, <6>4 DEF A, Records, e
        <5>4. B = A
          BY <4>0, <5>3
        <5>5. MergeInv(s, elem, h, first, k + 1, dol, level)
          BY <2>1, <3>2, <3>4, <3>6, <3>9, <4>0, <4>2, <5>4 DEF MergeInv, HeapPart, B
        <5> QED BY <5>5 DEF P, s
      <4>3. CASE ~s.ok /\ s.heap = r.heap
                 /\ (TypesDiffer(r.heap, b, dol)
                     \/ (b # r.prev /\ (InternalConflict(r.heap, b, dol) \/ FieldsConflict(r.heap, b, dol))))
        <5>1. k # 0 => s.elem[i - 1].dclAttr = r.prev
          <6> SUFFICES ASSUME k # 0 PROVE s.elem[i - 1].dclAttr = r.prev
            OBVIOUS
          <6>1. i - 1 = first + k - 1 /\ i - 1 # i /\ i - 1 \in 1..n
            BY <1>0, <2>1 DEF i
          <6>2. s.elem[i - 1] = r.elem[i - 1]
            BY <2>1, <2>4, <2>5, <3>1, <6>1
          <6> QED BY <3>1, <6>1, <6>2
        <5>2. k + 1 = 1 \/ s.elem[i - 1].dclAttr # b \/ b = r.prev
          BY <5>1
        <5>3. MergeFailed(s, elem, h, first, k + 1, dol, level)
          BY <2>1, <3>2, <3>9, <4>0, <4>3, <5>2 DEF MergeFailed, A, b
        <5> QED BY <5>3 DEF P, s
      <4> QED BY <3>6, <3>9, <4>1, <4>2, <4>3 DEF RoundEnds
    <3> QED BY <3>8, <3>9
  <2> QED BY <2>2, <2>6, <2>7
<1>5. m \in S
  <2> HIDE DEF S, m
  <2> QED BY <1>0, <1>3, <1>4, NatSetInduction
<1>6. P(acc[m], m) /\ acc[m] \in MergeStates(n, N)
  <2>1. m <= m /\ m \in 0..m
    BY <1>0
  <2> HIDE DEF P, m, n, N
  <2> QED BY <1>2, <1>5, <2>1
<1> QED BY <1>2, <1>6 DEF res

-----------------------------------------------------------------------------
(* Names, and the parentheses around them. *)

(* The records of all names say what the text says. *)
AllRight(x, h, w) == \A i \in 1..Len(x) : NameRight(w[i], h, x[i].dclAttr)

(* Names before an open parenthesis share nothing with the names behind it. *)
Separate(x, h, o) ==
  \A p \in 1..Len(o) : \A i, j \in 1..Len(x) :
    i < o[p].first /\ o[p].first <= j => ~Shares(h, x[i].dclAttr, x[j].dclAttr)

(* An open parenthesis. *)
OpenRecords == [first: Nat, level: Int]

(* The parentheses open one after another. *)
OpensOK(o, n) ==
  /\ o \in Seq(OpenRecords)
  /\ \A p \in 1..Len(o) : 1 <= o[p].first /\ o[p].first <= n + 1
  /\ \A p, q \in 1..Len(o) : p <= q => o[p].first <= o[q].first

(* No structures yet. *)
Unlinked(x) ==
  \A i \in 1..Len(x) :
    x[i].structureParent = NULL /\ x[i].structureSibling = NULL /\ x[i].structureFirstChild = NULL

(* A name with a contradiction in the text. *)
Contradictions(w) == \E i \in 1..Len(w) : ContradictionTo(w[i], Len(w[i]))

(* SharedUnseen, for any elements and heap. *)
Unseen(x, h) ==
  \E i, j \in 1..Len(x) :
    i < j /\ x[j - 1].dclAttr # x[j].dclAttr /\ Shares(h, x[i].dclAttr, x[j].dclAttr)

(* A record that says the same is right as before. *)
LEMMA RightKept ==
  ASSUME NEW h, NEW g, NEW a, Same(h, g, a), SameFields(h, g, a), NEW w, NameRight(w, h, a)
  PROVE  NameRight(w, g, a)
BY DEF Same, SameFields, NameRight

(* Records that stay the same share as before. *)
LEMMA SharesKept ==
  ASSUME NEW h, NEW g, NEW a, NEW b, Same(h, g, a), Same(h, g, b)
  PROVE  Shares(g, a, b) <=> Shares(h, a, b)
BY DEF Same, Shares

(* One name more. *)
LEMMA OpensNext ==
  ASSUME NEW o, NEW n \in Nat, OpensOK(o, n)
  PROVE  OpensOK(o, n + 1)
<1>1. \A p \in 1..Len(o) : o[p].first <= n + 1 => o[p].first <= (n + 1) + 1
  <2> SUFFICES ASSUME NEW p \in 1..Len(o) PROVE o[p].first <= n + 1 => o[p].first <= (n + 1) + 1
    OBVIOUS
  <2>1. o[p] \in OpenRecords
    BY DEF OpensOK
  <2>2. o[p].first \in Nat
    BY <2>1 DEF OpenRecords
  <2> QED BY <2>2
<1> QED BY <1>1 DEF OpensOK

(* A name with a record that is right and that it shares with no other name. *)
LEMMA NamePart ==
  ASSUME NEW x, NEW h, NEW w \in Seq(AttributeLists), NEW o, HeapOK(h), Pointing(x, h), Len(w) = Len(x),
         OpensOK(o, Len(x)), AllRight(x, h, w), Separate(x, h, o), Unlinked(x),
         NEW e \in DeclareElement, NEW names \in AttributeLists, NEW g, HeapOK(g), Len(h.list) <= Len(g.list),
         \A b \in 0..Len(h.list) : /\ Same(h, g, b) /\ SameFields(h, g, b)
                                   /\ ~Shares(g, b, e.dclAttr) /\ ~Shares(g, e.dclAttr, b),
         e.dclAttr \in 0..Len(g.list), NameRight(names, g, e.dclAttr)
  PROVE  LET y == Append(x, e)
             v == Append(w, names)
         IN  /\ Pointing(y, g) /\ AllRight(y, g, v) /\ Separate(y, g, o)
             /\ OpensOK(o, Len(y)) /\ v \in Seq(AttributeLists) /\ Len(v) = Len(y) /\ Len(y) = Len(x) + 1
             /\ y[Len(y)] = e /\ \A i \in 1..Len(x) : y[i] = x[i]
<1> DEFINE n == Len(x)
           y == Append(x, e)
           v == Append(w, names)
<1>1. x \in Seq(DeclareElement) /\ n \in Nat /\ \A i \in 1..n : x[i].dclAttr \in 0..Len(h.list)
  BY DEF Pointing
<1>2. /\ y \in Seq(DeclareElement) /\ Len(y) = n + 1 /\ y[n + 1] = e /\ \A i \in 1..n : y[i] = x[i]
  BY <1>1, AppendIs
<1>3. /\ v \in Seq(AttributeLists) /\ Len(v) = n + 1 /\ v[n + 1] = names /\ \A i \in 1..n : v[i] = w[i]
  BY AppendIs
<1> HIDE DEF y, v, n
<1>4. \A i \in 1..(n + 1) : i \in 1..n \/ i = n + 1
  BY <1>1
<1>5. Len(h.list) \in Nat /\ Len(g.list) \in Nat
  BY HeapFacts
<1>6. Pointing(y, g)
  <2>1. \A i \in 1..n : x[i].dclAttr \in 0..Len(g.list)
    BY <1>1, <1>5
  <2> QED BY <1>2, <1>4, <2>1 DEF Pointing
<1>7. \A i \in 1..n : NameRight(w[i], g, x[i].dclAttr)
  BY <1>1, RightKept DEF AllRight, n
<1>8. AllRight(y, g, v)
  BY <1>2, <1>3, <1>4, <1>7 DEF AllRight
<1>9. ASSUME NEW p \in 1..Len(o), NEW i \in 1..(n + 1), NEW j \in 1..(n + 1), i < o[p].first, o[p].first <= j
      PROVE  ~Shares(g, y[i].dclAttr, y[j].dclAttr)
  <2>1. i # n + 1 \/ j # n + 1
    <3>1. o[p] \in OpenRecords
      BY DEF OpensOK
    <3>2. o[p].first \in Nat
      BY <3>1 DEF OpenRecords
    <3> QED BY <1>1, <1>9, <3>2
  <2>2. CASE i \in 1..n /\ j \in 1..n
    <3>1. ~Shares(h, x[i].dclAttr, x[j].dclAttr)
      BY <1>9, <2>2 DEF Separate, n
    <3>2. y[i] = x[i] /\ y[j] = x[j]
      BY <1>2, <2>2
    <3>3. x[i].dclAttr \in 0..Len(h.list) /\ x[j].dclAttr \in 0..Len(h.list)
      BY <1>1, <2>2
    <3>4. Same(h, g, x[i].dclAttr) /\ Same(h, g, x[j].dclAttr)
      BY <3>3
    <3>5. ~Shares(g, x[i].dclAttr, x[j].dclAttr)
      BY <3>1, <3>4, SharesKept
    <3> QED BY <3>2, <3>5
  <2>3. CASE i = n + 1 /\ j \in 1..n
    BY <1>1, <1>2, <2>3
  <2>4. CASE i \in 1..n /\ j = n + 1
    BY <1>1, <1>2, <2>4
  <2> QED BY <1>4, <2>1, <2>2, <2>3, <2>4
<1>10. Separate(y, g, o)
  BY <1>2, <1>9 DEF Separate
<1>11. OpensOK(o, n + 1)
  BY <1>1, OpensNext DEF n
<1> QED BY <1>2, <1>3, <1>6, <1>8, <1>10, <1>11 DEF y, v, n

(* A new record is shared with none. *)
LEMMA AllocatedFresh ==
  ASSUME NEW h, HeapOK(h), NEW d, NEW g, Allocated(h, g, d)
  PROVE  LET n == Len(h.list) + 1
         IN  /\ HeapOK(g) /\ Signed(g) /\ Len(g.list) = n /\ Says(g, n, d) /\ n \in 1..Len(g.list)
             /\ Len(h.list) <= Len(g.list)
             /\ \A b \in 0..Len(h.list) :
                  /\ Same(h, g, b) /\ SameFields(h, g, b) /\ b # n
                  /\ ~Shares(g, b, n) /\ ~Shares(g, n, b)
                  /\ UnionAt(g, n) # NULL => UnionAt(g, b) # UnionAt(g, n)
<1> DEFINE N == Len(h.list)
<1>1. N \in Nat
  BY HeapFacts
<1> HIDE DEF N
<1>2. /\ HeapOK(g) /\ Signed(g) /\ Len(g.list) = N + 1 /\ Says(g, N + 1, d)
      /\ \A b \in 0..N : /\ Same(h, g, b) /\ SameFields(h, g, b)
                         /\ UnionAt(g, N + 1) # NULL => UnionAt(g, b) # UnionAt(g, N + 1)
  BY DEF Allocated, Same, SameFields, N
<1>3. \A b \in 0..N : b # N + 1
  BY <1>1
<1>4. N + 1 \in 1..(N + 1) /\ N <= N + 1
  BY <1>1
<1>5. \A b \in 0..N : ~Shares(g, b, N + 1) /\ ~Shares(g, N + 1, b)
  BY <1>2, <1>3 DEF Shares
<1> QED BY <1>2, <1>3, <1>4, <1>5 DEF N

(* The factor d at the record dol, which no element has yet. *)
Factor(x, h, dol, d) ==
  /\ dol \in 1..Len(h.list) /\ Says(h, dol, d)
  /\ \A i \in 1..Len(x) : /\ x[i].dclAttr # dol
                          /\ UnionAt(h, dol) # NULL => UnionAt(h, x[i].dclAttr) # UnionAt(h, dol)

(* A record that shares nothing with those the factor is added to. *)
LEMMA Outside ==
  ASSUME NEW h, HeapOK(h), NEW dol \in 1..Len(h.list), NEW g, NEW A, HeapInv(h, g, dol, A),
         NEW a \in 0..Len(h.list), a # dol, a \notin A,
         \A c \in A : c # dol /\ ~Shares(h, a, c),
         UnionAt(h, dol) # NULL => UnionAt(h, a) # UnionAt(h, dol)
  PROVE  Same(h, g, a) /\ SameFields(h, g, a)
<1>1. Adding(h, g, dol, A, a) /\ Same(h, g, a)
  BY DEF HeapInv, Adding
<1>2. ASSUME NEW c \in A, Shares(g, c, a) PROVE FALSE
  <2>1. c \in 0..Len(h.list) /\ c # dol /\ c # a /\ ~Shares(h, a, c)
    <3>1. A \subseteq 1..Len(h.list)
      BY DEF HeapInv
    <3>2. Len(h.list) \in Nat
      BY HeapFacts
    <3> QED BY <3>1, <3>2
  <2>2. UnionAt(g, c) \in {UnionAt(h, c), UnionSum(h, c, dol)}
    BY <2>1 DEF HeapInv, Adding
  <2>3. UnionAt(g, c) = UnionAt(h, a) /\ UnionAt(h, a) # NULL /\ c # NULL /\ a # NULL
    BY <1>1, <1>2, <2>1 DEF Shares, Same
  <2>4. UnionAt(h, c) # UnionAt(h, a)
    BY <2>1, <2>3 DEF Shares
  <2> QED BY <2>2, <2>3, <2>4 DEF UnionSum
<1> QED BY <1>1, <1>2 DEF Adding

(* A record that the factor is added to. *)
LEMMA Inside ==
  ASSUME NEW w \in AttributeLists, NEW names \in AttributeLists,
         NEW d \in Options, OptionsTo(names, Len(names), d), d.ok,
         NEW h, HeapOK(h), NEW dol \in 1..Len(h.list), Says(h, dol, d), NEW g, NEW A, HeapInv(h, g, dol, A),
         NEW a \in 0..Len(h.list), a # dol, a = NULL \/ a \in A, NameRight(w, h, a)
  PROVE  NameRight(w \o names, g, IF a = NULL THEN dol ELSE a)
<1>1. /\ \A f \in Typed : d.set[f] \in Nat \cup {-1}
      /\ TypeAt(h, dol) = d.uniontype
      /\ \A f \in Typed : FieldAt(h, dol, f) = d.set[f]
      /\ \A f \in Storage : OwnAt(h, dol, f) \in {-1, d.set[f]} /\ d.set[f] \in Nat \cup {-1}
  BY OptionFacts DEF Says
<1>2. Tristate \subseteq Typed
  BY DEF Tristate, Typed
<1>3. CASE a = NULL
  <2>1. /\ \A f \in Typed : FieldAt(h, a, f) = -1
        /\ TypeAt(h, a) = "UNKNOWN"
    BY <1>3 DEF FieldAt, UnionAt, TypeAt
  <2>2. Same(h, g, dol) /\ SameFields(h, g, dol)
    BY DEF HeapInv
  <2>3. \A f \in Typed : FieldAt(g, dol, f) = SetTo(FieldAt(h, a, f), d.set[f])
    BY <1>1, <2>1, <2>2 DEF SameFields, SetTo
  <2>4. /\ TypeAt(g, dol) = d.uniontype
        /\ \A f \in Storage : OwnAt(g, dol, f) \in {-1, d.set[f]}
    BY <1>1, <2>2 DEF Same
  <2>5. \A f \in Tristate : ~Taken(FieldAt(h, a, f), d.set[f])
    BY <1>2, <2>1 DEF Taken
  <2>6. NameRight(w \o names, g, dol)
    BY <2>1, <2>3, <2>4, <2>5, JoinRight
  <2> QED BY <1>3, <2>6
<1>4. CASE a # NULL
  <2>1. Adding(h, g, dol, A, a) /\ a \in A
    BY <1>4 DEF HeapInv
  <2>2. /\ Compatible(h, a, dol) /\ TypeAt(g, a) = TypeSum(h, a, dol)
        /\ \A f \in Typed : FieldAt(g, a, f) = SetTo(FieldAt(h, a, f), d.set[f])
    BY <1>1, <2>1 DEF Adding, FieldSum
  <2>3. ASSUME NEW f \in Storage PROVE OwnAt(g, a, f) \in {-1, OwnAt(h, a, f), d.set[f]}
    <3>1. OwnAt(g, a, f) \in {OwnAt(h, a, f), SetTo(OwnAt(h, a, f), OwnAt(h, dol, f))}
      BY <2>1 DEF Adding, StorageSum
    <3> QED BY <1>1, <3>1 DEF SetTo
  <2>4. \A f \in Tristate : ~Taken(FieldAt(h, a, f), d.set[f])
    BY <1>1, <1>2, <2>2 DEF Compatible, FieldsConflict
  <2>5. /\ TypeAt(g, a) = IF TypeAt(h, a) = "UNKNOWN" THEN d.uniontype ELSE TypeAt(h, a)
        /\ TypeAt(h, a) = d.uniontype \/ TypeAt(h, a) = "UNKNOWN" \/ d.uniontype = "UNKNOWN"
    BY <1>1, <2>2 DEF TypeSum, Compatible, TypesDiffer
  <2>6. NameRight(w \o names, g, a)
    BY <2>2, <2>3, <2>4, <2>5, JoinRight
  <2> QED BY <1>4, <2>6
<1> QED BY <1>3, <1>4

(* The attributes in the text when names is added from first on. *)
WrittenWith(w, first, names) == [i \in DOMAIN w |-> IF i >= first THEN w[i] \o names ELSE w[i]]

(* The names from first on, and no others, have more attributes. *)
LEMMA WrittenWithIs ==
  ASSUME NEW w \in Seq(AttributeLists), NEW first \in Nat, NEW names \in AttributeLists
  PROVE  LET v == WrittenWith(w, first, names)
         IN  /\ v \in Seq(AttributeLists) /\ Len(v) = Len(w)
             /\ \A i \in 1..Len(w) : v[i] = IF i >= first THEN w[i] \o names ELSE w[i]
<1> DEFINE n == Len(w)
           v == WrittenWith(w, first, names)
<1>1. n \in Nat /\ DOMAIN w = 1..n /\ \A i \in 1..n : w[i] \in AttributeLists
  OBVIOUS
<1>2. \A i \in 1..n : w[i] \o names \in AttributeLists
  BY <1>1, Join
<1> HIDE DEF n
<1>3. v \in [1..n -> AttributeLists] /\ \A i \in 1..n : v[i] = IF i >= first THEN w[i] \o names ELSE w[i]
  BY <1>1, <1>2 DEF WrittenWith
<1> HIDE DEF v
<1>4. v \in Seq(AttributeLists) /\ Len(v) = n
  BY <1>1, <1>3
<1> QED BY <1>3, <1>4 DEF v, n

(* What is known when the factor of a parenthesis is added. *)
Closing(x, h, w, o, dol, d, names) ==
  /\ HeapOK(h) /\ Signed(h) /\ Pointing(x, h)
  /\ w \in Seq(AttributeLists) /\ Len(w) = Len(x)
  /\ OpensOK(o, Len(x)) /\ Len(o) \in 1..Len(o) /\ o[Len(o)].first \in 1..Len(x)
  /\ AllRight(x, h, w) /\ Separate(x, h, o)
  /\ names \in AttributeLists /\ d \in Options /\ OptionsTo(names, Len(names), d) /\ d.ok
  /\ IF dol = NULL THEN names = << >> ELSE Factor(x, h, dol, d)

(* All rounds go through the names from first to the last one. *)
LEMMA RecordsIs ==
  ASSUME NEW x, NEW n \in Nat, NEW first \in 1..n, NEW i \in 1..n, NEW N,
         \A j \in 1..n : x[j].dclAttr \in 0..N
  PROVE  /\ (i \in first..(first + (n - first + 1) - 1)) <=> i >= first
         /\ i >= first => x[i].dclAttr = NULL \/ x[i].dclAttr \in Records(x, first, n - first + 1)
         /\ \A c \in Records(x, first, n - first + 1) :
              c # NULL /\ \E j \in 1..n : j >= first /\ c = x[j].dclAttr
<1>1. first + (n - first + 1) - 1 = n
  OBVIOUS
<1>2. \A j \in first..n : j \in 1..n /\ j >= first
  OBVIOUS
<1> QED BY <1>1, <1>2 DEF Records

(* The names before the parenthesis keep their attributes. *)
LEMMA Unshared ==
  ASSUME NEW x, NEW h, NEW w, NEW o, NEW dol, NEW d, NEW names, Closing(x, h, w, o, dol, d, names),
         dol # NULL, NEW g,
         HeapInv(h, g, dol, Records(x, o[Len(o)].first, Len(x) - o[Len(o)].first + 1)),
         NEW i \in 1..Len(x), i < o[Len(o)].first
  PROVE  Same(h, g, x[i].dclAttr) /\ SameFields(h, g, x[i].dclAttr)
<1> DEFINE n == Len(x)
           N == Len(h.list)
           first == o[Len(o)].first
           A == Records(x, first, n - first + 1)
           a == x[i].dclAttr
<1>a. HeapOK(h) /\ first \in 1..n /\ x \in Seq(DeclareElement) /\ \A j \in 1..n : x[j].dclAttr \in 0..N
  BY DEF Closing, Pointing
<1>b. Factor(x, h, dol, d)
  BY DEF Closing
<1>c. /\ dol \in 1..N
      /\ \A j \in 1..n : x[j].dclAttr # dol /\ (UnionAt(h, dol) # NULL => UnionAt(h, x[j].dclAttr) # UnionAt(h, dol))
  BY <1>b DEF Factor
<1>1. /\ HeapOK(h) /\ dol \in 1..N /\ n \in Nat /\ first \in 1..n
      /\ \A j \in 1..n : x[j].dclAttr \in 0..N
      /\ \A j \in 1..n : x[j].dclAttr # dol /\ (UnionAt(h, dol) # NULL => UnionAt(h, x[j].dclAttr) # UnionAt(h, dol))
  <2> HIDE DEF N, first
  <2> QED BY <1>a, <1>c
<1>2. \A j \in 1..n : j >= first => ~Shares(h, a, x[j].dclAttr)
  BY DEF Closing, Separate
<1> HIDE DEF n, N, first, a
<1>3. \A c \in A : c # NULL /\ \E j \in 1..n : j >= first /\ c = x[j].dclAttr
  BY <1>1, RecordsIs DEF n
<1>4. \A c \in A : c # dol /\ ~Shares(h, a, c)
  BY <1>1, <1>2, <1>3
<1>5. a \notin A
  BY <1>3, <1>4 DEF Shares
<1>6. a \in 0..N /\ a # dol /\ (UnionAt(h, dol) # NULL => UnionAt(h, a) # UnionAt(h, dol)) /\ i \in 1..n
  BY <1>1 DEF a, n
<1>7. HeapInv(h, g, dol, A)
  BY DEF A, n, first
<1> HIDE DEF A
<1>8. Same(h, g, a) /\ SameFields(h, g, a)
  BY <1>1, <1>4, <1>5, <1>6, <1>7, Outside DEF N
<1> QED BY <1>8 DEF a

(* The parentheses around the innermost one. *)
LEMMA FrontOpen ==
  ASSUME NEW o, NEW n, OpensOK(o, n), Len(o) \in 1..Len(o)
  PROVE  /\ OpensOK(Front(o), n) /\ \A p \in 1..Len(Front(o)) : p \in 1..Len(o) /\ Front(o)[p] = o[p]
         /\ o[Len(o)] \in OpenRecords
         /\ \A p \in 1..Len(o) : o[p] \in OpenRecords /\ o[p].first \in Nat /\ o[p].first <= o[Len(o)].first
<1> DEFINE m == Len(o)
           f == Front(o)
<1>1. o \in Seq(OpenRecords) /\ m \in Nat /\ m \in 1..m /\ \A p \in 1..m : o[p] \in OpenRecords
  BY DEF OpensOK
<1>2. f = SubSeq(o, 1, m - 1)
  BY DEF Front
<1>3. f \in Seq(OpenRecords) /\ Len(f) = m - 1 /\ \A p \in 1..(m - 1) : f[p] = o[p]
  <2> DEFINE k == m - 1
  <2>1. k \in Nat /\ \A p \in 1..k : o[p] \in OpenRecords
    BY <1>1
  <2>2. f = SubSeq(o, 1, k)
    BY <1>2
  <2> HIDE DEF f, k, m
  <2>3. SubSeq(o, 1, k) \in Seq(OpenRecords) /\ Len(SubSeq(o, 1, k)) = k
    BY <2>1, SubSeqProperties
  <2>4. \A p \in 1..k : SubSeq(o, 1, k)[p] = o[p]
    BY <2>1, SubSeqProperties
  <2> QED BY <2>2, <2>3, <2>4 DEF k
<1> HIDE DEF f, m
<1>4. \A p \in 1..(m - 1) : p \in 1..m
  BY <1>1
<1>5. OpensOK(f, n)
  BY <1>3, <1>4 DEF OpensOK, m
<1>6. \A p \in 1..m : o[p].first \in Nat /\ o[p].first <= o[m].first
  <2>1. \A p \in 1..m : p <= m
    BY <1>1
  <2> QED BY <1>1, <2>1 DEF OpensOK, m, OpenRecords
<1> QED BY <1>1, <1>3, <1>4, <1>5, <1>6 DEF f, m

(* When the factor was added to all the names, all the records are right,    *)
(* and what the parentheses around separate is still separate.               *)
LEMMA CloseRight ==
  ASSUME NEW x, NEW h, NEW w, NEW o, NEW dol \in Nat, NEW d, NEW names, Closing(x, h, w, o, dol, d, names),
         NEW level \in Int, NEW y, Len(y) = Len(x), NEW g,
         Elements(x, y, o[Len(o)].first, Len(x) - o[Len(o)].first + 1, dol, level),
         HeapPart(h, g, dol, Records(x, o[Len(o)].first, Len(x) - o[Len(o)].first + 1))
  PROVE  /\ AllRight(y, g, WrittenWith(w, o[Len(o)].first, names))
         /\ Separate(y, g, Front(o)) /\ OpensOK(Front(o), Len(y))
<1> DEFINE n == Len(x)
           N == Len(h.list)
           first == o[Len(o)].first
           m == n - first + 1
           A == Records(x, first, m)
           v == WrittenWith(w, first, names)
<1>1. /\ HeapOK(h) /\ N \in Nat /\ n \in Nat /\ first \in 1..n /\ first \in Nat /\ m \in Nat
      /\ x \in Seq(DeclareElement) /\ w \in Seq(AttributeLists) /\ Len(w) = n /\ names \in AttributeLists
      /\ \A j \in 1..n : x[j].dclAttr \in 0..N
  BY HeapFacts DEF Closing, Pointing
<1>2. \A i \in 1..n : NameRight(w[i], h, x[i].dclAttr)
  BY DEF Closing, AllRight
<1>i. Elements(x, y, first, m, dol, level) /\ HeapPart(h, g, dol, A)
  OBVIOUS
<1>f. OpensOK(Front(o), n) /\ \A p \in 1..Len(Front(o)) : p \in 1..Len(o) /\ Front(o)[p] = o[p]
  BY FrontOpen DEF Closing
<1> HIDE DEF A, m, n, first
<1>3. \A i \in 1..n : v[i] = IF i >= first THEN w[i] \o names ELSE w[i]
  BY <1>1, WrittenWithIs
<1> HIDE DEF v
<1>4. \A i \in 1..n : (i \in first..(first + m - 1)) <=> i >= first
  BY <1>1, RecordsIs DEF m
<1>5. \A i \in 1..n : y[i].dclAttr = IF i >= first /\ x[i].dclAttr = NULL THEN dol ELSE x[i].dclAttr
  <2> SUFFICES ASSUME NEW i \in 1..n
               PROVE  y[i].dclAttr = IF i >= first /\ x[i].dclAttr = NULL THEN dol ELSE x[i].dclAttr
    OBVIOUS
  <2>1. y[i].dclAttr = IF i \in first..(first + m - 1) /\ x[i].dclAttr = NULL THEN dol ELSE x[i].dclAttr
    <3>1. i \in 1..Len(x)
      BY DEF n
    <3>2. x \in Seq(DeclareElement) /\ first \in Nat /\ m \in Nat /\ dol \in Nat /\ level \in Int
      BY <1>1
    <3>3. Elements(x, y, first, m, dol, level)
      BY <1>i
    <3>4. y[i] = IF i \in first..(first + m - 1) THEN Given(x[i], dol, level) ELSE x[i]
      BY <3>1, <3>3 DEF Elements
    <3>5. x[i] \in DeclareElement
      BY <3>1, <3>2
    <3>6. Given(x[i], dol, level).dclAttr = IF x[i].dclAttr = NULL THEN dol ELSE x[i].dclAttr
      BY <3>2, <3>5, GivenIs
    <3> QED BY <3>4, <3>6
  <2> QED BY <1>4, <2>1
<1>6. \A i \in 1..n : i >= first => x[i].dclAttr = NULL \/ x[i].dclAttr \in A
  BY <1>1, RecordsIs DEF A, m
<1>7. CASE dol = NULL
  <2>1. g = h /\ names = << >>
    BY <1>7, <1>i DEF HeapPart, Closing
  <2>2. \A i \in 1..n : y[i].dclAttr = x[i].dclAttr
    BY <1>5, <1>7
  <2>3. \A i \in 1..n : v[i] = w[i]
    <3>1. \A i \in 1..n : w[i] \in Seq(DOMAIN Attribute)
      BY <1>1 DEF AttributeLists
    <3>2. \A i \in 1..n : w[i] \o << >> = w[i]
      BY <3>1
    <3> QED BY <1>3, <2>1, <3>2
  <2>4. AllRight(y, g, v)
    BY <1>2, <2>1, <2>2, <2>3 DEF AllRight, n
  <2>5. \A p \in 1..Len(o) : \A i, j \in 1..n : i < o[p].first /\ o[p].first <= j => ~Shares(g, y[i].dclAttr, y[j].dclAttr)
    BY <2>1, <2>2 DEF Closing, Separate, n
  <2>6. Separate(y, g, Front(o))
    BY <1>f, <2>5 DEF Separate, n
  <2> QED BY <1>f, <2>4, <2>6 DEF v, first, n
<1>8. CASE dol # NULL
  <2>1. HeapInv(h, g, dol, A) /\ dol \in 1..N /\ Says(h, dol, d)
        /\ \A i \in 1..n : x[i].dclAttr # dol /\ (UnionAt(h, dol) # NULL => UnionAt(h, x[i].dclAttr) # UnionAt(h, dol))
    BY <1>8, <1>i DEF HeapPart, Closing, Factor, n
  <2>2. \A i \in 1..n : i < first => Same(h, g, x[i].dclAttr) /\ SameFields(h, g, x[i].dclAttr)
    BY <1>8, <2>1, Unshared DEF A, m, n, first
  <2>3. ASSUME NEW i \in 1..n PROVE NameRight(v[i], g, y[i].dclAttr)
    <3>0. w[i] \in AttributeLists /\ NameRight(w[i], h, x[i].dclAttr)
      BY <1>1, <1>2
    <3>1. CASE i < first
      <4>1. v[i] = w[i] /\ y[i].dclAttr = x[i].dclAttr
        BY <1>1, <1>3, <1>5, <3>1
      <4> QED BY <2>2, <3>0, <3>1, <4>1, RightKept
    <3>2. CASE i >= first
      <4>1. v[i] = w[i] \o names /\ y[i].dclAttr = IF x[i].dclAttr = NULL THEN dol ELSE x[i].dclAttr
        BY <1>3, <1>5, <3>2
      <4>2. x[i].dclAttr \in 0..N /\ x[i].dclAttr # dol /\ (x[i].dclAttr = NULL \/ x[i].dclAttr \in A)
        BY <1>1, <1>6, <2>1, <3>2
      <4>3. d \in Options /\ OptionsTo(names, Len(names), d) /\ d.ok
        BY DEF Closing
      <4>4. NameRight(w[i] \o names, g, IF x[i].dclAttr = NULL THEN dol ELSE x[i].dclAttr)
        BY <1>1, <2>1, <3>0, <4>2, <4>3, Inside DEF N
      <4> QED BY <4>1, <4>4
    <3> QED BY <1>1, <3>1, <3>2
  <2>4. \A p \in 1..Len(o) : o[p].first \in Nat /\ o[p].first <= first
    BY FrontOpen DEF Closing, first
  <2>5. ASSUME NEW p \in 1..Len(o), NEW i \in 1..n, NEW j \in 1..n, i < o[p].first, o[p].first <= j
        PROVE  ~Shares(g, y[i].dclAttr, y[j].dclAttr)
    <3>1. i < first /\ ~Shares(h, x[i].dclAttr, x[j].dclAttr)
      BY <1>1, <2>4, <2>5 DEF Closing, Separate, n
    <3>2. y[i].dclAttr = x[i].dclAttr /\ Same(h, g, x[i].dclAttr)
      BY <1>1, <1>5, <2>2, <3>1
    <3>3. CASE j < first
      <4>1. y[j].dclAttr = x[j].dclAttr /\ Same(h, g, x[j].dclAttr)
        BY <1>1, <1>5, <2>2, <3>3
      <4> QED BY <3>1, <3>2, <4>1, SharesKept
    <3>4. CASE j >= first
      <4> DEFINE a == x[i].dclAttr
                 b == x[j].dclAttr
                 c == y[j].dclAttr
      <4>1. c = IF b = NULL THEN dol ELSE b
        BY <1>5, <3>4
      <4>2. /\ a # dol /\ b # dol /\ a \in 0..N /\ b \in 0..N
            /\ UnionAt(h, dol) # NULL => UnionAt(h, a) # UnionAt(h, dol)
        BY <1>1, <2>1
      <4>3. UnionAt(g, a) = UnionAt(h, a) /\ UnionAt(g, dol) = UnionAt(h, dol)
        BY <2>1, <3>2 DEF Same, HeapInv
      <4>4. UnionAt(g, b) \in {UnionAt(h, b), IF UnionAt(h, b) = NULL THEN UnionAt(h, dol) ELSE UnionAt(h, b)}
        BY <2>1, <4>2 DEF HeapInv, Adding, UnionSum, N
      <4>5. ~Shares(h, a, b)
        BY <3>1
      <4> HIDE DEF a, b, c
      <4>6. ~Shares(g, a, c)
        BY <4>1, <4>2, <4>3, <4>4, <4>5 DEF Shares, UnionAt
      <4> QED BY <3>2, <4>6 DEF a, b, c
    <3> QED BY <1>1, <3>3, <3>4
  <2>6. AllRight(y, g, v)
    BY <2>3 DEF AllRight, n
  <2>7. Separate(y, g, Front(o))
    BY <1>f, <2>5 DEF Separate, n
  <2> QED BY <1>f, <2>6, <2>7 DEF v, first, n
<1> QED BY <1>7, <1>8

(* A conflict of records that no name before has is one of the text. *)
LEMMA TextConflict ==
  ASSUME NEW w \in AttributeLists, NEW names \in AttributeLists, NEW f \in Tristate \cup {"internal"},
         \E j \in 1..Len(w) : AttributeAt(w, j).field = f,
         \E k \in 1..Len(names) : AttributeAt(names, k).field = f
  PROVE  \E j \in 1..Len(w), k \in 1..Len(names) : Contradiction(AttributeAt(w, j), AttributeAt(names, k))
<1>1. \A k \in 1..Len(names) : AttributeOK(AttributeAt(names, k))
  BY AttributesFacts
<1> QED BY <1>1 DEF AttributeOK, Contradiction

(* When the merge ends the parse, the text has a contradiction, or names     *)
(* share a record unseen.                                                    *)
LEMMA CloseConflict ==
  ASSUME NEW x, NEW h, NEW w, NEW o, NEW dol \in Nat, NEW d, NEW names, Closing(x, h, w, o, dol, d, names),
         NEW level \in Int, NEW r, Len(r.elem) = Len(x), NEW k \in 1..(Len(x) - o[Len(o)].first + 1),
         MergeFailed(r, x, h, o[Len(o)].first, k, dol, level)
  PROVE  Contradictions(WrittenWith(w, o[Len(o)].first, names)) \/ Unseen(r.elem, r.heap)
<1> DEFINE n == Len(x)
           N == Len(h.list)
           first == o[Len(o)].first
           i == first + k - 1
           a == x[i].dclAttr
           y == r.elem
           g == r.heap
           A == Records(x, first, k - 1)
           v == WrittenWith(w, first, names)
           l == w[i]
<1>a. /\ HeapOK(h) /\ first \in 1..n
      /\ x \in Seq(DeclareElement) /\ w \in Seq(AttributeLists) /\ Len(w) = n /\ names \in AttributeLists
      /\ \A j \in 1..n : x[j].dclAttr \in 0..N
  BY DEF Closing, Pointing
<1>b. N \in Nat /\ n \in Nat
  BY <1>a, HeapFacts
<1>c. k \in 1..(n - first + 1)
  OBVIOUS
<1>d. first \in Nat /\ k \in Nat /\ i \in 1..n
  <2> HIDE DEF first, n
  <2> QED BY <1>a, <1>b, <1>c
<1>1. /\ HeapOK(h) /\ N \in Nat /\ n \in Nat /\ first \in 1..n /\ first \in Nat /\ k \in Nat /\ i \in 1..n
      /\ x \in Seq(DeclareElement) /\ w \in Seq(AttributeLists) /\ Len(w) = n /\ names \in AttributeLists
      /\ \A j \in 1..n : x[j].dclAttr \in 0..N
  BY <1>a, <1>b, <1>d
<1>2. i >= first /\ l \in AttributeLists /\ i \in first..(first + k - 1)
      /\ \A j \in first..(first + (k - 1) - 1) : j \in first..(first + k - 1) /\ j \in 1..n /\ j < i /\ i - 1 \in 1..n
  <2>1. l \in AttributeLists
    <3> HIDE DEF i
    <3> QED BY <1>1
  <2> HIDE DEF first, n, l
  <2>2. i >= first /\ i \in first..(first + k - 1)
    BY <1>1
  <2>3. \A j \in first..(first + (k - 1) - 1) : j \in first..(first + k - 1) /\ j \in 1..n /\ j < i /\ i - 1 \in 1..n
    BY <1>1
  <2> QED BY <2>1, <2>2, <2>3
<1>3. /\ Elements(x, y, first, k, dol, level)
      /\ dol # NULL /\ HeapInv(h, g, dol, A) /\ a # NULL
      /\ \/ TypesDiffer(g, a, dol)
         \/ /\ k = 1 \/ y[i - 1].dclAttr # a
            /\ InternalConflict(g, a, dol) \/ FieldsConflict(g, a, dol)
  BY DEF MergeFailed
<1>4. /\ d \in Options /\ OptionsTo(names, Len(names), d) /\ d.ok
      /\ dol \in 1..N /\ Says(h, dol, d) /\ a # dol
  BY <1>1, <1>3 DEF Closing, Factor
<1>5. NameRight(l, h, a)
  BY <1>1 DEF Closing, AllRight
<1>6. v \in Seq(AttributeLists) /\ Len(v) = n /\ v[i] = l \o names
  <2> HIDE DEF i, n
  <2>1. i >= first /\ i \in 1..Len(w)
    BY <1>1, <1>2
  <2> HIDE DEF first
  <2> QED BY <1>1, <2>1, WrittenWithIs
<1>e. \A j \in 1..n : y[j].dclAttr = IF j \in first..(first + k - 1) /\ x[j].dclAttr = NULL THEN dol ELSE x[j].dclAttr
  <2> SUFFICES ASSUME NEW j \in 1..n
               PROVE  y[j].dclAttr = IF j \in first..(first + k - 1) /\ x[j].dclAttr = NULL THEN dol ELSE x[j].dclAttr
    OBVIOUS
  <2>1. j \in 1..Len(x)
    OBVIOUS
  <2>2. x \in Seq(DeclareElement) /\ first \in Nat /\ k \in Nat /\ dol \in Nat /\ level \in Int
    BY <1>1
  <2>3. Elements(x, y, first, k, dol, level)
    BY <1>3
  <2> HIDE DEF first, y, n
  <2>4. y[j] = IF j \in first..(first + k - 1) THEN Given(x[j], dol, level) ELSE x[j]
    BY <2>1, <2>3 DEF Elements
  <2>5. x[j] \in DeclareElement
    BY <2>1, <2>2
  <2>6. Given(x[j], dol, level).dclAttr = IF x[j].dclAttr = NULL THEN dol ELSE x[j].dclAttr
    BY <2>2, <2>5, GivenIs
  <2> QED BY <2>4, <2>6
<1>y. Len(y) = n
  OBVIOUS
<1> HIDE DEF v, l, y, n, N, g
<1>7. y[i].dclAttr = a
  BY <1>1, <1>2, <1>3, <1>e
<1>8. (\E j \in 1..Len(l), q \in 1..Len(names) : Contradiction(AttributeAt(l, j), AttributeAt(names, q)))
        => Contradictions(v)
  <2> SUFFICES ASSUME \E j \in 1..Len(l), q \in 1..Len(names) : Contradiction(AttributeAt(l, j), AttributeAt(names, q))
               PROVE  Contradictions(v)
    OBVIOUS
  <2> HIDE DEF i
  <2>1. Joins(l \o names, l, Len(l), names, Len(names)) /\ Len(l \o names) = Len(l) + Len(names)
    BY <1>1, <1>2, Join
  <2>2. ContradictionTo(l \o names, Len(l) + Len(names))
    BY <2>1, JoinContradiction
  <2> QED BY <1>1, <1>6, <2>1, <2>2 DEF Contradictions
<1>9. /\ TypeAt(g, dol) = d.uniontype
      /\ \A f \in Typed : FieldAt(g, dol, f) = d.set[f]
      /\ \A f \in Storage : OwnAt(g, dol, f) \in {-1, d.set[f]}
  BY <1>3, <1>4 DEF HeapInv, Same, SameFields, Says
<1>10. /\ \A f \in Storage \cup Typed :
            d.set[f] = -1 <=> \A j \in 1..Len(names) : AttributeAt(names, j).field # f
       /\ TypeTo(names, Len(names), d.uniontype)
  <2>1. names \in AttributeLists /\ d \in Options /\ OptionsTo(names, Len(names), d) /\ d.ok
    BY <1>1, <1>4
  <2> HIDE DEF i, A, a
  <2>2. \A f \in Storage \cup Typed :
            d.set[f] = -1 <=> \A j \in 1..Len(names) : AttributeAt(names, j).field # f
    BY <2>1, OptionFacts
  <2>3. TypeTo(names, Len(names), d.uniontype)
    BY <2>1, OptionFacts
  <2> QED BY <2>2, <2>3
<1>11. /\ \A f \in Typed : ValueTo(l, Len(l), f, FieldAt(h, a, f))
       /\ TypeTo(l, Len(l), TypeAt(h, a))
       /\ \A f \in Storage : OwnAt(h, a, f) = -1 \/ \E j \in 1..Len(l) : AttributeAt(l, j).field = f
  BY <1>5 DEF NameRight
<1>12. a \in 0..N
  BY <1>1
<1> HIDE DEF a
<1>13. Adding(h, g, dol, A, a)
  BY <1>3, <1>4, <1>12 DEF HeapInv, N
<1>14. ASSUME NEW c \in A, Shares(g, c, a), k = 1 \/ y[i - 1].dclAttr # a PROVE Unseen(y, g)
  <2>1. PICK j \in first..(first + (k - 1) - 1) : c = x[j].dclAttr
    BY DEF Records, A
  <2>2. c # NULL
    BY DEF Records, A
  <2>3. y[j].dclAttr = c
    BY <1>2, <1>e, <2>1, <2>2
  <2>4. j \in 1..n /\ i \in 1..n /\ j < i /\ i - 1 \in 1..n /\ k # 1
    <3>1. j \in 1..n /\ j < i /\ i - 1 \in 1..n
      BY <1>2, <2>1
    <3>2. i \in 1..n /\ first \in Nat
      BY <1>1
    <3>3. k # 1
      <4> HIDE DEF first
      <4> QED BY <2>1, <3>2
    <3> QED BY <3>1, <3>2, <3>3
  <2> HIDE DEF i
  <2>5. /\ j \in 1..Len(y) /\ i \in 1..Len(y) /\ j < i /\ y[i - 1].dclAttr # y[i].dclAttr
        /\ Shares(g, y[j].dclAttr, y[i].dclAttr)
    BY <1>14, <1>7, <1>y, <2>3, <2>4
  <2> QED BY <2>5 DEF Unseen
<1> HIDE DEF A, i, first
<1>15. CASE TypesDiffer(g, a, dol)
  <2>1. /\ TypeAt(h, a) # d.uniontype /\ TypeAt(h, a) # "UNKNOWN" /\ d.uniontype # "UNKNOWN"
    BY <1>4, <1>9, <1>13, <1>15 DEF TypesDiffer, Adding, TypeSum, Says
  <2>2. PICK j \in 1..Len(l) : AttributeAt(l, j).uniontype = TypeAt(h, a)
    BY <1>11, <2>1 DEF TypeTo
  <2>3. PICK q \in 1..Len(names) : AttributeAt(names, q).uniontype = d.uniontype
    BY <1>10, <2>1 DEF TypeTo
  <2>4. Contradiction(AttributeAt(l, j), AttributeAt(names, q))
    BY <2>1, <2>2, <2>3 DEF Contradiction
  <2>5. Contradictions(v)
    BY <1>8, <2>4
  <2> QED BY <2>5 DEF v, first
<1>16. CASE (k = 1 \/ y[i - 1].dclAttr # a) /\ InternalConflict(g, a, dol)
  <2> DEFINE f == "internal"
  <2>1. f \in Storage /\ f \in Tristate \cup {"internal"}
    BY DEF Storage
  <2>2. OwnAt(g, a, f) # -1 /\ OwnAt(g, dol, f) >= 0
    BY <1>16 DEF InternalConflict, Taken
  <2> HIDE DEF f
  <2>3. \E q \in 1..Len(names) : AttributeAt(names, q).field = f
    BY <1>9, <1>10, <2>1, <2>2
  <2>4. CASE a \in A
    <3>1. Shares(g, a, a)
      BY <1>3 DEF Shares, a
    <3> QED BY <1>14, <1>16, <2>4, <3>1 DEF y, g
  <2>5. CASE a \notin A
    <3>1. OwnAt(h, a, f) # -1
      BY <1>13, <2>1, <2>2, <2>5 DEF Adding, Same
    <3>2. \E j \in 1..Len(l) : AttributeAt(l, j).field = f
      BY <1>11, <2>1, <3>1
    <3>3. Contradictions(v)
      BY <1>1, <1>2, <1>8, <2>1, <2>3, <3>2, TextConflict DEF f
    <3> QED BY <3>3 DEF v, first
  <2> QED BY <2>4, <2>5
<1>17. CASE (k = 1 \/ y[i - 1].dclAttr # a) /\ FieldsConflict(g, a, dol)
  <2>1. PICK f \in Tristate : FieldAt(g, a, f) # -1 /\ FieldAt(g, dol, f) >= 0
    BY <1>17 DEF FieldsConflict, Taken
  <2>2. f \in Typed
    BY DEF Tristate, Typed
  <2>3. \E q \in 1..Len(names) : AttributeAt(names, q).field = f
    BY <1>9, <1>10, <2>1, <2>2
  <2>4. CASE FieldAt(h, a, f) = -1
    <3>1. ~SameFields(h, g, a)
      BY <2>1, <2>2, <2>4 DEF SameFields
    <3>2. \E c \in A : Shares(g, c, a)
      BY <1>13, <3>1 DEF Adding
    <3> QED BY <1>14, <1>17, <3>2 DEF y, g
  <2>5. CASE FieldAt(h, a, f) # -1
    <3>1. ValueTo(l, Len(l), f, FieldAt(h, a, f))
      BY <1>11, <2>2
    <3>2. \E j \in 1..Len(l) : AttributeAt(l, j).field = f
      BY <2>5, <3>1 DEF ValueTo
    <3>3. Contradictions(v)
      BY <1>1, <1>2, <1>8, <2>3, <3>2, TextConflict
    <3> QED BY <3>3 DEF v, first
  <2> QED BY <2>4, <2>5
<1>18. TypesDiffer(g, a, dol) \/ ((k = 1 \/ y[i - 1].dclAttr # a) /\ (InternalConflict(g, a, dol) \/ FieldsConflict(g, a, dol)))
  BY <1>3 DEF a
<1> QED BY <1>15, <1>16, <1>17, <1>18

-----------------------------------------------------------------------------
(* The way to the parents. *)

(* Parents stand before their elements. *)
Backward(e) == \A q \in 1..Len(e) : e[q].structureParent \in 0..(q - 1)

(* g is the way to the parents up to element k. *)
ReachEq(g, e, k, w) ==
  g = [q \in 0..k |-> IF q = NULL \/ e[q].structureLevel <= e[w].structureLevel THEN q ELSE g[e[q].structureParent]]

(* There is such a way, because parents stand before. *)
LEMMA ReachExists ==
  ASSUME NEW e, NEW n \in Nat, \A q \in 1..n : e[q].structureParent \in 0..(q - 1), NEW w
  PROVE  \E g : ReachEq(g, e, n, w)
<1> DEFINE P(k) == \E g : ReachEq(g, e, k, w)
           S == {k \in Nat : k <= n => P(k)}
           R(g, q) == IF q = NULL \/ e[q].structureLevel <= e[w].structureLevel THEN q ELSE g[e[q].structureParent]
<1>1. 0 \in S
  <2> DEFINE g == [q \in 0..0 |-> q]
  <2>1. \A q \in 0..0 : q = NULL
    BY DEF NULL
  <2>2. g = [q \in 0..0 |-> R(g, q)]
    BY <2>1
  <2>3. P(0)
    BY <2>2 DEF ReachEq
  <2> QED BY <2>3
<1>2. ASSUME NEW k \in Nat, k \in S PROVE k + 1 \in S
  <2> SUFFICES ASSUME k + 1 <= n PROVE P(k + 1)
    <3> HIDE DEF P
    <3> QED OBVIOUS
  <2>1. PICK g : ReachEq(g, e, k, w)
    BY <1>2
  <2> DEFINE v == [q \in 0..(k + 1) |-> IF q <= k THEN g[q] ELSE R(g, k + 1)]
  <2>2. \A q \in 0..k : v[q] = g[q]
    OBVIOUS
  <2>3. v[k + 1] = R(g, k + 1)
    OBVIOUS
  <2>4. v = [q \in 0..(k + 1) |-> v[q]]
    OBVIOUS
  <2>a. \A q \in 0..k : g[q] = R(g, q)
    BY <2>1 DEF ReachEq
  <2>b. \A q \in 1..(k + 1) : e[q].structureParent \in 0..k /\ (q \in 1..n)
    OBVIOUS
  <2> HIDE DEF v
  <2>5. ASSUME NEW q \in 0..(k + 1) PROVE v[q] = R(v, q)
    <3>1. CASE q = NULL
      <4>1. q \in 0..k
        BY <3>1 DEF NULL
      <4> QED BY <2>2, <2>a, <3>1, <4>1
    <3>2. CASE q # NULL
      <4>1. q \in 1..(k + 1)
        BY <3>2 DEF NULL
      <4>2. v[e[q].structureParent] = g[e[q].structureParent]
        BY <2>2, <2>b, <4>1
      <4>3. q \in 0..k \/ q = k + 1
        BY <4>1
      <4> QED BY <2>2, <2>3, <2>a, <4>2, <4>3
    <3> QED BY <3>1, <3>2
  <2>6. v = [q \in 0..(k + 1) |-> R(v, q)]
    <3> HIDE DEF R
    <3> QED BY <2>4, <2>5
  <2> QED BY <2>6 DEF ReachEq
<1>3. n \in S
  <2> HIDE DEF S
  <2> QED BY <1>1, <1>2, NatSetInduction
<1> QED BY <1>3

(* findStructureParent looks at the element, and then at its parent. *)
LEMMA FindIs ==
  ASSUME NEW e, Len(e) \in Nat, Backward(e), NEW w
  PROVE  /\ findStructureParent(e, NULL, w) = NULL
         /\ \A q \in 1..Len(e) :
              findStructureParent(e, q, w) =
                IF e[q].structureLevel <= e[w].structureLevel THEN q ELSE findStructureParent(e, e[q].structureParent, w)
<1> DEFINE n == Len(e)
           Eq(g) == g = [q \in 0..n |-> IF q = NULL \/ e[q].structureLevel <= e[w].structureLevel THEN q
                                        ELSE g[e[q].structureParent]]
           f == CHOOSE g : Eq(g)
<1>1. \E g : Eq(g)
  <2>1. \A q \in 1..n : e[q].structureParent \in 0..(q - 1)
    BY DEF Backward
  <2> HIDE DEF n
  <2>2. PICK g : ReachEq(g, e, n, w)
    BY <2>1, ReachExists DEF n
  <2> QED BY <2>2 DEF ReachEq
<1>2. Eq(f)
  <2> HIDE DEF Eq
  <2> QED BY <1>1
<1>3. \A p : findStructureParent(e, p, w) = f[p]
  BY DEF findStructureParent
<1> HIDE DEF f
<1>4. \A q \in 0..n : f[q] = IF q = NULL \/ e[q].structureLevel <= e[w].structureLevel THEN q ELSE f[e[q].structureParent]
  BY <1>2
<1>5. \A q \in 1..n : q \in 0..n /\ q # NULL
  BY DEF NULL
<1>6. NULL \in 0..n
  BY DEF NULL
<1> HIDE DEF n
<1>7. f[NULL] = NULL
  BY <1>4, <1>6
<1> QED BY <1>3, <1>4, <1>5, <1>7 DEF n

-----------------------------------------------------------------------------
(* Links. *)

(* An element with another link. *)
WithFirst(k, v) == [k EXCEPT !.structureFirstChild = v]
WithParent(k, v) == [k EXCEPT !.structureParent = v]
WithSibling(k, v) == [k EXCEPT !.structureSibling = v]

(* Two elements that differ only in their links. *)
Plain(k, l) == k.name = l.name /\ k.dclAttr = l.dclAttr /\ k.structureLevel = l.structureLevel

(* What they change. *)
LEMMA WithIs ==
  ASSUME NEW k \in DeclareElement, NEW v \in Nat
  PROVE  /\ LET l == WithFirst(k, v)
            IN  /\ l \in DeclareElement /\ Plain(l, k) /\ l.structureFirstChild = v
                /\ l.structureParent = k.structureParent /\ l.structureSibling = k.structureSibling
         /\ LET l == WithParent(k, v)
            IN  /\ l \in DeclareElement /\ Plain(l, k) /\ l.structureParent = v
                /\ l.structureFirstChild = k.structureFirstChild /\ l.structureSibling = k.structureSibling
         /\ LET l == WithSibling(k, v)
            IN  /\ l \in DeclareElement /\ Plain(l, k) /\ l.structureSibling = v
                /\ l.structureFirstChild = k.structureFirstChild /\ l.structureParent = k.structureParent
BY DEF WithFirst, WithParent, WithSibling, Plain, DeclareElement

(* The changes of CheckLevel: a first child, and a sibling. *)
LinkChild(e, a, w) == [e EXCEPT ![a].structureFirstChild = w, ![w].structureParent = a]

LinkSibling(e, p, w) ==
  [e EXCEPT ![p].structureSibling = IF @ = NULL THEN w ELSE @, ![w].structureParent = e[p].structureParent]

(* Two elements of a sequence replaced. *)
LEMMA SetTwice ==
  ASSUME NEW s \in Seq(DeclareElement), NEW a \in 1..Len(s), NEW b \in 1..Len(s), a # b,
         NEW k \in DeclareElement, NEW l \in DeclareElement
  PROVE  LET t == [[s EXCEPT ![a] = k] EXCEPT ![b] = l]
         IN  /\ t \in Seq(DeclareElement) /\ Len(t) = Len(s)
             /\ \A i \in 1..Len(s) : t[i] = IF i = b THEN l ELSE IF i = a THEN k ELSE s[i]
<1> DEFINE u == [s EXCEPT ![a] = k]
           t == [u EXCEPT ![b] = l]
<1>1. u \in Seq(DeclareElement) /\ Len(u) = Len(s) /\ \A i \in 1..Len(s) : u[i] = IF i = a THEN k ELSE s[i]
  BY SeqSet
<1> HIDE DEF u
<1>2. t \in Seq(DeclareElement) /\ Len(t) = Len(u) /\ \A i \in 1..Len(u) : t[i] = IF i = b THEN l ELSE u[i]
  BY <1>1, SeqSet
<1> QED BY <1>1, <1>2 DEF u

(* What LinkChild changes. *)
LEMMA LinkChildIs ==
  ASSUME NEW e \in Seq(DeclareElement), NEW a \in 1..Len(e), NEW w \in 1..Len(e), a # w
  PROVE  LET y == LinkChild(e, a, w)
         IN  /\ y \in Seq(DeclareElement) /\ Len(y) = Len(e)
             /\ \A i \in 1..Len(e) :
                  /\ Plain(y[i], e[i])
                  /\ y[i].structureParent = IF i = w THEN a ELSE e[i].structureParent
                  /\ y[i].structureSibling = e[i].structureSibling
                  /\ y[i].structureFirstChild = IF i = a THEN w ELSE e[i].structureFirstChild
<1> DEFINE n == Len(e)
           k == WithFirst(e[a], w)
           l == WithParent(e[w], a)
           u == [e EXCEPT ![a] = k]
           t == [u EXCEPT ![w] = l]
           y == LinkChild(e, a, w)
<1>1. n \in Nat /\ e[a] \in DeclareElement /\ e[w] \in DeclareElement /\ a \in Nat /\ w \in Nat
      /\ \A i \in 1..n : e[i] \in DeclareElement
  OBVIOUS
<1>2. y = t
  <2>1. y = [u EXCEPT ![w] = WithParent(u[w], a)]
    BY DEF LinkChild, WithFirst, WithParent
  <2>2. u[w] = e[w]
    OBVIOUS
  <2> HIDE DEF u, y
  <2> QED BY <2>1, <2>2
<1>3. /\ k \in DeclareElement /\ Plain(k, e[a]) /\ k.structureFirstChild = w
      /\ k.structureParent = e[a].structureParent /\ k.structureSibling = e[a].structureSibling
  BY <1>1, WithIs
<1>4. /\ l \in DeclareElement /\ Plain(l, e[w]) /\ l.structureParent = a
      /\ l.structureFirstChild = e[w].structureFirstChild /\ l.structureSibling = e[w].structureSibling
  BY <1>1, WithIs
<1> HIDE DEF k, l, y
<1>5. /\ t \in Seq(DeclareElement) /\ Len(t) = n
      /\ \A i \in 1..n : t[i] = IF i = w THEN l ELSE IF i = a THEN k ELSE e[i]
  BY <1>3, <1>4, SetTwice
<1> HIDE DEF t, n
<1> QED BY <1>2, <1>3, <1>4, <1>5 DEF Plain, y, n

(* What LinkSibling changes. *)
LEMMA LinkSiblingIs ==
  ASSUME NEW e \in Seq(DeclareElement), NEW p \in 1..Len(e), NEW w \in 1..Len(e), p # w
  PROVE  LET y == LinkSibling(e, p, w)
         IN  /\ y \in Seq(DeclareElement) /\ Len(y) = Len(e)
             /\ \A i \in 1..Len(e) :
                  /\ Plain(y[i], e[i])
                  /\ y[i].structureParent = IF i = w THEN e[p].structureParent ELSE e[i].structureParent
                  /\ y[i].structureSibling = IF i = p /\ e[p].structureSibling = NULL THEN w ELSE e[i].structureSibling
                  /\ y[i].structureFirstChild = e[i].structureFirstChild
<1> DEFINE n == Len(e)
           v == IF e[p].structureSibling = NULL THEN w ELSE e[p].structureSibling
           q == e[p].structureParent
           k == WithSibling(e[p], v)
           l == WithParent(e[w], q)
           u == [e EXCEPT ![p] = k]
           t == [u EXCEPT ![w] = l]
           y == LinkSibling(e, p, w)
<1>1. n \in Nat /\ e[p] \in DeclareElement /\ e[w] \in DeclareElement /\ w \in Nat
      /\ \A i \in 1..n : e[i] \in DeclareElement
  OBVIOUS
<1>v. v \in Nat /\ q \in Nat
  BY <1>1 DEF DeclareElement
<1>2. y = t
  <2>1. y = [u EXCEPT ![w] = WithParent(u[w], q)]
    BY DEF LinkSibling, WithSibling, WithParent
  <2>2. u[w] = e[w]
    OBVIOUS
  <2> HIDE DEF u, y, q
  <2> QED BY <2>1, <2>2
<1>3. /\ k \in DeclareElement /\ Plain(k, e[p]) /\ k.structureSibling = v
      /\ k.structureParent = e[p].structureParent /\ k.structureFirstChild = e[p].structureFirstChild
  <2> HIDE DEF v
  <2> QED BY <1>1, <1>v, WithIs
<1>4. /\ l \in DeclareElement /\ Plain(l, e[w]) /\ l.structureParent = q
      /\ l.structureFirstChild = e[w].structureFirstChild /\ l.structureSibling = e[w].structureSibling
  <2> HIDE DEF q
  <2> QED BY <1>1, <1>v, WithIs
<1> HIDE DEF k, l, y
<1>5. /\ t \in Seq(DeclareElement) /\ Len(t) = n
      /\ \A i \in 1..n : t[i] = IF i = w THEN l ELSE IF i = p THEN k ELSE e[i]
  BY <1>3, <1>4, SetTwice
<1> HIDE DEF t, n
<1> QED BY <1>2, <1>3, <1>4, <1>5 DEF Plain, y, n

(* The levels of elements. *)
LevelsOf(e) == [i \in 1..Len(e) |-> e[i].structureLevel]

(* Parents, Siblings up to element m and LevelsMeet, of the levels alone. *)
ParentsAt(l, w) ==
  {p \in 1..(w - 1) : l[p] < l[w] /\ \A k \in p..(w - 1) : l[k] >= l[p] /\ l[k] >= 1 /\ (k > p => l[k] >= l[w])}
SiblingsUpTo(l, w, m) == {v \in (w + 1)..m : l[v] = l[w] /\ \A k \in w..v : l[k] >= l[w]}
Meet(l, n) ==
  \A w \in 1..n :
    (l[w] > 1 /\ w > 1 /\ l[w - 1] >= l[w]) =>
      \E v \in 1..(w - 1) : l[v] = l[w] /\ \A k \in v..w : l[k] >= l[w]

(* s is the first sibling up to element m. *)
FirstSibling(l, w, m, s) ==
  \/ s = NULL /\ SiblingsUpTo(l, w, m) = {}
  \/ s \in SiblingsUpTo(l, w, m) /\ \A v \in SiblingsUpTo(l, w, m) : s <= v

(* The first k elements are linked to structures. *)
Linked(e, l, k) ==
  \A w \in 1..k :
    /\ e[w].structureParent # NULL <=> l[w] > 1
    /\ l[w] > 1 => /\ e[w].structureParent \in ParentsAt(l, w)
                   /\ e[e[w].structureParent].structureFirstChild = e[w].structureParent + 1
                   /\ FirstSibling(l, w, k, e[w].structureSibling)

(* One number more. *)
LEMMA OneMore ==
  ASSUME NEW k \in Nat, NEW u \in 1..k
  PROVE  \A v : v \in (u + 1)..(k + 1) <=> v \in (u + 1)..k \/ v = k + 1
<1>1. \A v \in (u + 1)..(k + 1) : v \in (u + 1)..k \/ v = k + 1
  OBVIOUS
<1>2. \A v \in (u + 1)..k : v \in (u + 1)..(k + 1)
  OBVIOUS
<1>3. k + 1 \in (u + 1)..(k + 1)
  OBVIOUS
<1> QED BY <1>1, <1>2, <1>3, Zenon

(* The next sibling is the first one that comes. *)
LEMMA SiblingNext ==
  ASSUME NEW n \in Nat, NEW l \in [1..n -> Int], NEW k \in Nat, k + 1 <= n, NEW u \in 1..k,
         NEW s, FirstSibling(l, u, k, s),
         k + 1 \in SiblingsUpTo(l, u, k + 1) => SiblingsUpTo(l, u, k) # {}
  PROVE  FirstSibling(l, u, k + 1, s)
<1>1. \A v : v \in (u + 1)..(k + 1) <=> v \in (u + 1)..k \/ v = k + 1
  BY OneMore
<1>2. \A v \in (u + 1)..k : v <= k + 1 /\ v \in Int
  OBVIOUS
<1>3. SiblingsUpTo(l, u, k) \subseteq SiblingsUpTo(l, u, k + 1)
  BY <1>1 DEF SiblingsUpTo
<1>4. \A v \in SiblingsUpTo(l, u, k + 1) : v \in SiblingsUpTo(l, u, k) \/ v = k + 1
  BY <1>1 DEF SiblingsUpTo
<1>5. CASE s = NULL /\ SiblingsUpTo(l, u, k) = {}
  BY <1>4, <1>5 DEF FirstSibling
<1>6. CASE s \in SiblingsUpTo(l, u, k) /\ \A v \in SiblingsUpTo(l, u, k) : s <= v
  <2>1. s <= k + 1
    BY <1>2, <1>6 DEF SiblingsUpTo
  <2>2. s \in SiblingsUpTo(l, u, k + 1) /\ \A v \in SiblingsUpTo(l, u, k + 1) : s <= v
    BY <1>3, <1>4, <1>6, <2>1
  <2> QED BY <2>2 DEF FirstSibling
<1> QED BY <1>5, <1>6 DEF FirstSibling

(* Element k + 1 is the first sibling. *)
LEMMA SiblingNew ==
  ASSUME NEW n \in Nat, NEW l \in [1..n -> Int], NEW k \in Nat, k + 1 <= n, NEW u \in 1..k,
         SiblingsUpTo(l, u, k) = {}, l[k + 1] = l[u], \A j \in u..k : l[j] >= l[u]
  PROVE  FirstSibling(l, u, k + 1, k + 1)
<1>1. \A v : v \in (u + 1)..(k + 1) <=> v \in (u + 1)..k \/ v = k + 1
  BY OneMore
<1>2. \A v \in SiblingsUpTo(l, u, k + 1) : v \in SiblingsUpTo(l, u, k) \/ v = k + 1
  BY <1>1 DEF SiblingsUpTo
<1>3. \A j \in u..(k + 1) : j \in u..k \/ j = k + 1
  OBVIOUS
<1>4. k + 1 \in 1..n /\ u \in 1..n
  OBVIOUS
<1>5. l[k + 1] >= l[u]
  BY <1>4
<1>6. k + 1 \in SiblingsUpTo(l, u, k + 1)
  BY <1>1, <1>3, <1>5 DEF SiblingsUpTo
<1> QED BY <1>2, <1>6 DEF FirstSibling

(* An element has no sibling as long as it is the last one. *)
LEMMA NoSibling ==
  ASSUME NEW l, NEW k \in Nat
  PROVE  FirstSibling(l, k + 1, k + 1, NULL)
<1>1. ((k + 1) + 1)..(k + 1) = {}
  OBVIOUS
<1> QED BY <1>1 DEF FirstSibling, SiblingsUpTo

(* The way to the parents from k leads to v, the last element whose level is not larger. *)
LEMMA FindLast ==
  ASSUME NEW e, Len(e) \in Nat, Backward(e), NEW l, l = LevelsOf(e), l \in [1..Len(e) -> Int],
         NEW w \in 1..Len(e), NEW k \in 1..Len(e), NEW v \in 1..k,
         l[v] <= l[w], \A j \in (v + 1)..k : l[j] > l[w],
         \A q \in (v + 1)..k : e[q].structureParent \in ParentsAt(l, q)
  PROVE  findStructureParent(e, k, w) = v
<1> DEFINE n == Len(e)
           S == {m \in Nat : \A q \in v..k : q - v <= m => findStructureParent(e, q, w) = v}
<1>1. n \in Nat /\ \A q \in v..k : q \in 1..n /\ q \in Int
  OBVIOUS
<1>2. \A q \in 1..n : e[q].structureLevel = l[q] /\ l[q] \in Int
  BY DEF LevelsOf
<1>3. \A q \in 1..n : findStructureParent(e, q, w) =
                        IF l[q] <= l[w] THEN q ELSE findStructureParent(e, e[q].structureParent, w)
  BY <1>2, FindIs
<1> HIDE DEF n
<1>4. findStructureParent(e, v, w) = v
  <2>1. v \in v..k
    OBVIOUS
  <2> QED BY <1>1, <1>3, <2>1
<1>5. 0 \in S
  <2>1. \A q \in v..k : q - v <= 0 => q = v
    OBVIOUS
  <2> QED BY <1>4, <2>1
<1>6. ASSUME NEW m \in Nat, m \in S PROVE m + 1 \in S
  <2> SUFFICES ASSUME NEW q \in v..k, q - v <= m + 1 PROVE findStructureParent(e, q, w) = v
    OBVIOUS
  <2>1. CASE q = v
    BY <1>4, <2>1
  <2>2. CASE q # v
    <3> DEFINE p == e[q].structureParent
    <3>1. q \in (v + 1)..k /\ q \in 1..n /\ v \in 1..n /\ w \in 1..n
      BY <1>1, <2>2 DEF n
    <3>2. p \in ParentsAt(l, q) /\ l[q] > l[w]
      BY <3>1
    <3> HIDE DEF p
    <3>3. p \in 1..(q - 1) /\ l[p] < l[q] /\ \A j \in p..(q - 1) : j > p => l[j] >= l[q]
      BY <3>2 DEF ParentsAt
    <3>4. p >= v
      <4> SUFFICES ASSUME p < v PROVE FALSE
        BY <3>3
      <4>1. v \in p..(q - 1) /\ v > p
        BY <3>1, <3>3
      <4>2. l[v] >= l[q]
        BY <3>3, <4>1
      <4> QED BY <1>2, <3>1, <3>2, <4>2
    <3>5. p \in v..k /\ p - v <= m
      BY <3>3, <3>4
    <3>6. findStructureParent(e, p, w) = v
      BY <1>6, <3>5
    <3>7. ~(l[q] <= l[w])
      BY <1>2, <3>1, <3>2
    <3> QED BY <1>3, <3>1, <3>6, <3>7 DEF p
  <2> QED BY <2>1, <2>2
<1>7. k - v \in S /\ k \in v..k
  <2>1. k - v \in Nat /\ k \in v..k
    OBVIOUS
  <2> HIDE DEF S
  <2> QED BY <1>5, <1>6, <2>1, NatSetInduction
<1> QED BY <1>7

(* An element outside of structures, or a new structure. *)
LEMMA LinkedAlone ==
  ASSUME NEW n \in Nat, NEW l \in [1..n -> Int], NEW k \in Nat, k + 1 <= n, NEW e,
         Linked(e, l, k), l[k + 1] <= 1, e[k + 1].structureParent = NULL
  PROVE  Linked(e, l, k + 1)
<1>1. SUFFICES ASSUME NEW u \in 1..(k + 1)
               PROVE  /\ e[u].structureParent # NULL <=> l[u] > 1
                      /\ l[u] > 1 => /\ e[u].structureParent \in ParentsAt(l, u)
                                     /\ e[e[u].structureParent].structureFirstChild = e[u].structureParent + 1
                                     /\ FirstSibling(l, u, k + 1, e[u].structureSibling)
  BY DEF Linked
<1>2. k + 1 \in 1..n /\ l[k + 1] \in Int
  OBVIOUS
<1>3. CASE u = k + 1
  BY <1>2, <1>3
<1>4. CASE u \in 1..k
  <2>1. l[u] > 1 => k + 1 \notin SiblingsUpTo(l, u, k + 1)
    BY <1>2 DEF SiblingsUpTo
  <2>2. l[u] > 1 /\ FirstSibling(l, u, k, e[u].structureSibling) => FirstSibling(l, u, k + 1, e[u].structureSibling)
    BY <1>4, <2>1, SiblingNext
  <2> QED BY <1>4, <2>2 DEF Linked
<1>5. u = k + 1 \/ u \in 1..k
  OBVIOUS
<1> QED BY <1>3, <1>4, <1>5

(* The element before has a smaller level, and gets its first child. *)
LEMMA LinkedChild ==
  ASSUME NEW n \in Nat, NEW l \in [1..n -> Int], NEW k \in 1..n, k + 1 <= n, NEW e, NEW y,
         Linked(e, l, k), l[k] >= 1, l[k] < l[k + 1], e[k + 1].structureSibling = NULL,
         \A i \in 1..n : /\ y[i].structureParent = IF i = k + 1 THEN k ELSE e[i].structureParent
                         /\ y[i].structureSibling = e[i].structureSibling
                         /\ y[i].structureFirstChild = IF i = k THEN k + 1 ELSE e[i].structureFirstChild
  PROVE  Linked(y, l, k + 1)
<1>1. SUFFICES ASSUME NEW u \in 1..(k + 1)
               PROVE  /\ y[u].structureParent # NULL <=> l[u] > 1
                      /\ l[u] > 1 => /\ y[u].structureParent \in ParentsAt(l, u)
                                     /\ y[y[u].structureParent].structureFirstChild = y[u].structureParent + 1
                                     /\ FirstSibling(l, u, k + 1, y[u].structureSibling)
  BY DEF Linked
<1>2. k + 1 \in 1..n /\ l[k + 1] \in Int /\ l[k] \in Int /\ k \in 1..n /\ k # NULL /\ k \in Nat
  BY DEF NULL
<1>3. CASE u = k + 1
  <2>1. y[u].structureParent = k /\ y[k].structureFirstChild = k + 1
    BY <1>2, <1>3
  <2>2. y[u].structureSibling = NULL
    BY <1>2, <1>3
  <2>3. FirstSibling(l, u, k + 1, NULL)
    BY <1>2, <1>3, NoSibling
  <2>4. k \in ParentsAt(l, u)
    <3>1. u - 1 = k
      BY <1>2, <1>3
    <3>2. \A j \in k..k : j = k
      OBVIOUS
    <3>3. k \in 1..k /\ l[k] >= l[k] /\ ~(k > k)
      BY <1>2
    <3> QED BY <1>2, <1>3, <3>1, <3>2, <3>3 DEF ParentsAt
  <2>5. l[u] > 1
    BY <1>2, <1>3
  <2> QED BY <1>2, <2>1, <2>2, <2>3, <2>4, <2>5
<1>4. CASE u \in 1..k
  <2>1. k + 1 \notin SiblingsUpTo(l, u, k + 1)
    <3>1. k \in u..(k + 1)
      BY <1>4
    <3> QED BY <1>2, <3>1 DEF SiblingsUpTo
  <2>2. FirstSibling(l, u, k, e[u].structureSibling) => FirstSibling(l, u, k + 1, e[u].structureSibling)
    BY <1>2, <1>4, <2>1, SiblingNext
  <2>3. y[u].structureParent = e[u].structureParent /\ y[u].structureSibling = e[u].structureSibling
    BY <1>2, <1>4
  <2>4. ASSUME NEW p \in ParentsAt(l, u)
        PROVE  y[p].structureFirstChild = e[p].structureFirstChild
    <3>1. p \in 1..(u - 1)
      BY DEF ParentsAt
    <3>2. p \in 1..n /\ p # k
      BY <1>2, <1>4, <3>1
    <3> QED BY <3>2
  <2> QED BY <1>4, <2>2, <2>3, <2>4 DEF Linked
<1>5. u = k + 1 \/ u \in 1..k
  OBVIOUS
<1> QED BY <1>3, <1>4, <1>5

(* The element that comes after the members of an element v of the same level. *)
LEMMA LinkedSibling ==
  ASSUME NEW n \in Nat, NEW l \in [1..n -> Int], NEW k \in 1..n, k + 1 <= n, NEW e, NEW y, NEW v \in 1..k,
         Linked(e, l, k), l[v] = l[k + 1], l[k + 1] > 1, \A j \in (v + 1)..k : l[j] > l[k + 1],
         e[k + 1].structureSibling = NULL,
         \A i \in 1..n : /\ y[i].structureParent = IF i = k + 1 THEN e[v].structureParent ELSE e[i].structureParent
                         /\ y[i].structureSibling = IF i = v /\ e[v].structureSibling = NULL THEN k + 1
                                                    ELSE e[i].structureSibling
                         /\ y[i].structureFirstChild = e[i].structureFirstChild
  PROVE  Linked(y, l, k + 1)
<1>1. SUFFICES ASSUME NEW u \in 1..(k + 1)
               PROVE  /\ y[u].structureParent # NULL <=> l[u] > 1
                      /\ l[u] > 1 => /\ y[u].structureParent \in ParentsAt(l, u)
                                     /\ y[y[u].structureParent].structureFirstChild = y[u].structureParent + 1
                                     /\ FirstSibling(l, u, k + 1, y[u].structureSibling)
  BY DEF Linked
<1>2. k + 1 \in 1..n /\ l[k + 1] \in Int /\ l[v] \in Int /\ v \in 1..n /\ k \in Nat /\ v \in Nat /\ k + 1 # v
  OBVIOUS
<1>p. ASSUME NEW q \in 1..n, NEW p \in ParentsAt(l, q)
      PROVE  y[p].structureFirstChild = e[p].structureFirstChild
  <2>1. p \in 1..(q - 1)
    BY DEF ParentsAt
  <2>2. p \in 1..n
    BY <2>1
  <2> QED BY <2>2
<1>3. /\ e[v].structureParent # NULL /\ e[v].structureParent \in ParentsAt(l, v)
      /\ e[e[v].structureParent].structureFirstChild = e[v].structureParent + 1
      /\ FirstSibling(l, v, k, e[v].structureSibling)
  BY <1>2 DEF Linked
<1>4. CASE u = k + 1
  <2> DEFINE p == e[v].structureParent
  <2>1. y[u].structureParent = p /\ y[u].structureSibling = NULL
    BY <1>2, <1>4
  <2>2. FirstSibling(l, u, k + 1, NULL)
    BY <1>2, <1>4, NoSibling
  <2>3. p \in ParentsAt(l, v) /\ p # NULL /\ y[p].structureFirstChild = p + 1
    BY <1>2, <1>3, <1>p
  <2>5. l[u] > 1 /\ l[u] = l[v]
    BY <1>4
  <2> HIDE DEF p
  <2>4. p \in ParentsAt(l, u)
    <3>1. /\ p \in 1..(v - 1) /\ l[p] < l[v]
          /\ \A j \in p..(v - 1) : l[j] >= l[p] /\ l[j] >= 1 /\ (j > p => l[j] >= l[v])
      BY <2>3 DEF ParentsAt
    <3>2. p \in 1..n /\ p \in 1..(u - 1) /\ l[p] \in Int
      BY <1>2, <1>4, <3>1
    <3>3. ASSUME NEW j \in p..(u - 1)
          PROVE  l[j] >= l[p] /\ l[j] >= 1 /\ (j > p => l[j] >= l[u])
      <4>1. j \in p..(v - 1) \/ j = v \/ j \in (v + 1)..k
        BY <1>2, <1>4, <3>1
      <4>2. j \in 1..n /\ l[j] \in Int
        BY <1>2, <1>4, <3>1
      <4>3. CASE j \in p..(v - 1)
        BY <2>5, <3>1, <4>3
      <4>4. CASE j = v
        BY <1>2, <2>5, <3>1, <3>2, <4>4
      <4>5. CASE j \in (v + 1)..k
        BY <1>2, <1>4, <2>5, <3>1, <3>2, <4>2, <4>5
      <4> QED BY <4>1, <4>3, <4>4, <4>5
    <3> QED BY <2>5, <3>1, <3>2, <3>3 DEF ParentsAt
  <2> QED BY <2>1, <2>2, <2>3, <2>4, <2>5
<1>5. CASE u = v
  <2>1. SiblingsUpTo(l, v, k) = {}
    <3>1. \A j \in (v + 1)..k : l[j] # l[v]
      <4>1. \A j \in (v + 1)..k : j \in 1..n
        BY <1>2
      <4> QED BY <1>2, <4>1
    <3> QED BY <3>1 DEF SiblingsUpTo
  <2>2. e[v].structureSibling = NULL
    BY <1>3, <2>1 DEF FirstSibling
  <2>3. y[v].structureSibling = k + 1 /\ y[v].structureParent = e[v].structureParent
    BY <1>2, <2>2
  <2>4. \A j \in v..k : l[j] >= l[v]
    <3>1. \A j \in v..k : (j = v \/ j \in (v + 1)..k) /\ j \in 1..n
      BY <1>2
    <3> QED BY <1>2, <3>1
  <2>5. FirstSibling(l, v, k + 1, k + 1)
    BY <1>2, <2>1, <2>4, SiblingNew
  <2> QED BY <1>2, <1>3, <1>5, <1>p, <2>3, <2>5
<1>6. CASE u \in 1..k /\ u # v
  <2>1. l[u] > 1 /\ k + 1 \in SiblingsUpTo(l, u, k + 1) => SiblingsUpTo(l, u, k) # {}
    <3> SUFFICES ASSUME k + 1 \in SiblingsUpTo(l, u, k + 1) PROVE v \in SiblingsUpTo(l, u, k)
      OBVIOUS
    <3>1. l[u] = l[k + 1] /\ \A j \in u..(k + 1) : l[j] >= l[u]
      BY DEF SiblingsUpTo
    <3>2. ~(u \in (v + 1)..k)
      BY <1>2, <3>1
    <3>3. v \in (u + 1)..k
      BY <1>2, <1>6, <3>2
    <3>4. \A j \in u..v : j \in u..(k + 1)
      BY <1>2, <1>6
    <3> QED BY <3>1, <3>3, <3>4 DEF SiblingsUpTo
  <2>2. l[u] > 1 /\ FirstSibling(l, u, k, e[u].structureSibling) => FirstSibling(l, u, k + 1, e[u].structureSibling)
    BY <1>2, <1>6, <2>1, SiblingNext
  <2>3. y[u].structureParent = e[u].structureParent /\ y[u].structureSibling = e[u].structureSibling
    <3>1. u \in 1..n /\ u # k + 1 /\ u # v
      BY <1>2, <1>6
    <3> QED BY <3>1
  <2>4. u \in 1..n
    BY <1>2, <1>6
  <2>5. /\ e[u].structureParent # NULL <=> l[u] > 1
        /\ l[u] > 1 => /\ e[u].structureParent \in ParentsAt(l, u)
                       /\ e[e[u].structureParent].structureFirstChild = e[u].structureParent + 1
                       /\ FirstSibling(l, u, k, e[u].structureSibling)
    BY <1>6 DEF Linked
  <2> QED BY <1>p, <2>2, <2>3, <2>4, <2>5
<1>7. u = k + 1 \/ u = v \/ (u \in 1..k /\ u # v)
  OBVIOUS
<1> QED BY <1>4, <1>5, <1>6, <1>7

-----------------------------------------------------------------------------
(* The rounds of checkStructureLevels. *)

(* The way to the parents leads to an element before, or to none. *)
LEMMA FindIn ==
  ASSUME NEW e, Len(e) \in Nat, Backward(e), NEW w, NEW p \in 0..Len(e)
  PROVE  findStructureParent(e, p, w) \in 0..p
<1> DEFINE n == Len(e)
           S == {m \in Nat : \A q \in 0..n : q <= m => findStructureParent(e, q, w) \in 0..q}
<1>1. /\ findStructureParent(e, NULL, w) = NULL
      /\ \A q \in 1..n : findStructureParent(e, q, w) =
                           IF e[q].structureLevel <= e[w].structureLevel THEN q
                           ELSE findStructureParent(e, e[q].structureParent, w)
  BY FindIs
<1>2. \A q \in 1..n : e[q].structureParent \in 0..(q - 1)
  BY DEF Backward
<1> HIDE DEF n
<1>n. n \in Nat
  BY DEF n
<1>3. 0 \in S
  <2>1. \A q \in 0..n : q <= 0 => q = NULL
    BY DEF NULL
  <2>2. NULL \in 0..NULL
    BY DEF NULL
  <2> QED BY <1>1, <2>1, <2>2
<1>4. ASSUME NEW m \in Nat, m \in S PROVE m + 1 \in S
  <2> SUFFICES ASSUME NEW q \in 0..n, q <= m + 1 PROVE findStructureParent(e, q, w) \in 0..q
    OBVIOUS
  <2>1. CASE q = 0
    <3>1. NULL \in 0..0
      BY DEF NULL
    <3> QED BY <1>1, <2>1, <3>1 DEF NULL
  <2>2. CASE q # 0
    <3> DEFINE a == e[q].structureParent
    <3>1. q \in 1..n /\ q \in 0..q
      BY <2>2
    <3>2. a \in 0..(q - 1)
      BY <1>2, <3>1
    <3>3. findStructureParent(e, q, w) = q \/ findStructureParent(e, q, w) = findStructureParent(e, a, w)
      BY <1>1, <3>1
    <3> HIDE DEF a
    <3>4. a \in 0..n /\ a <= m /\ \A z \in 0..a : z \in 0..q
      BY <1>n, <3>2
    <3>5. findStructureParent(e, a, w) \in 0..a
      BY <1>4, <3>4
    <3> QED BY <3>1, <3>3, <3>4, <3>5
  <2> QED BY <2>1, <2>2
<1>5. p \in S
  <2>1. p \in Nat
    BY <1>n DEF n
  <2> HIDE DEF S
  <2> QED BY <1>3, <1>4, <2>1, NatSetInduction
<1>6. p \in 0..n /\ p <= p
  BY <1>n DEF n
<1> QED BY <1>5, <1>6

(* The states of checkStructureLevels. *)
LevelStates == [elem: Seq(DeclareElement), prev: Nat, ok: BOOLEAN]

(* CheckLevel, case by case. *)
LEMMA CheckLevelIs ==
  ASSUME NEW r \in LevelStates, NEW w \in 1..Len(r.elem), NEW p, p = findStructureParent(r.elem, r.prev, w)
  PROVE  LET c == CheckLevel(r, w)
             e == r.elem
         IN  /\ c.elem \in Seq(DeclareElement) => c \in LevelStates
             /\ ~r.ok => c = r
             /\ r.ok /\ e[w].structureLevel < 1 => c.elem = e /\ c.prev = NULL
             /\ r.ok /\ e[w].structureLevel = 1 => c.elem = e /\ c.prev = w
             /\ r.ok /\ e[w].structureLevel > 1 /\ r.prev = NULL => c.elem = e /\ ~c.ok /\ c.prev = NULL
             /\ r.ok /\ e[w].structureLevel > 1 /\ r.prev # NULL =>
                  /\ c.prev = w
                  /\ c.elem = IF e[r.prev].structureLevel < e[w].structureLevel THEN LinkChild(e, r.prev, w)
                              ELSE IF p = NULL THEN e ELSE LinkSibling(e, p, w)
<1> DEFINE e == r.elem
           x == IF e[r.prev].structureLevel < e[w].structureLevel THEN LinkChild(e, r.prev, w)
                ELSE IF p = NULL THEN e ELSE LinkSibling(e, p, w)
           c == CheckLevel(r, w)
<1>0. e \in Seq(DeclareElement)
  BY DEF LevelStates
<1>1. e[w].structureLevel \in Int
  <2>1. w \in 1..Len(e)
    OBVIOUS
  <2> HIDE DEF e
  <2>2. e[w] \in DeclareElement
    BY <1>0, <2>1
  <2> QED BY <2>2 DEF DeclareElement
<1>2. c = IF ~r.ok THEN r
          ELSE IF e[w].structureLevel < 1 THEN [r EXCEPT !.prev = NULL]
          ELSE IF e[w].structureLevel = 1 THEN [r EXCEPT !.prev = w]
          ELSE IF r.prev = NULL THEN [r EXCEPT !.ok = FALSE]
          ELSE [r EXCEPT !.prev = w, !.elem = x]
  BY DEF CheckLevel, LinkChild, LinkSibling
<1> HIDE DEF x, c
<1>3. [r EXCEPT !.prev = NULL].elem = e /\ [r EXCEPT !.prev = NULL].prev = NULL
  BY DEF LevelStates
<1>4. [r EXCEPT !.prev = w].elem = e /\ [r EXCEPT !.prev = w].prev = w
  BY DEF LevelStates
<1>5. [r EXCEPT !.ok = FALSE].elem = e /\ ~[r EXCEPT !.ok = FALSE].ok /\ [r EXCEPT !.ok = FALSE].prev = r.prev
  BY DEF LevelStates
<1>6. [r EXCEPT !.prev = w, !.elem = x].elem = x /\ [r EXCEPT !.prev = w, !.elem = x].prev = w
  BY DEF LevelStates
<1>7. ~r.ok => c = r
  BY <1>2
<1>8. r.ok /\ e[w].structureLevel < 1 => c.elem = e /\ c.prev = NULL
  BY <1>2, <1>3
<1>9. r.ok /\ e[w].structureLevel = 1 => c.elem = e /\ c.prev = w
  <2>1. e[w].structureLevel = 1 => ~(e[w].structureLevel < 1)
    BY <1>1
  <2> QED BY <1>2, <1>4, <2>1
<1>10. e[w].structureLevel > 1 => ~(e[w].structureLevel < 1) /\ e[w].structureLevel # 1
  BY <1>1
<1>11. r.ok /\ e[w].structureLevel > 1 /\ r.prev = NULL => c.elem = e /\ ~c.ok /\ c.prev = NULL
  BY <1>2, <1>5, <1>10
<1>12. r.ok /\ e[w].structureLevel > 1 /\ r.prev # NULL => c.prev = w /\ c.elem = x
  BY <1>2, <1>6, <1>10
<1>13. c.elem \in Seq(DeclareElement) => c \in LevelStates
  <2>1. NULL \in Nat /\ w \in Nat
    BY <1>0 DEF NULL
  <2>2. [r EXCEPT !.prev = NULL] \in LevelStates /\ [r EXCEPT !.prev = w] \in LevelStates
    BY <2>1 DEF LevelStates
  <2>3. [r EXCEPT !.ok = FALSE] \in LevelStates
    BY DEF LevelStates
  <2>4. x \in Seq(DeclareElement) => [r EXCEPT !.prev = w, !.elem = x] \in LevelStates
    BY <2>1 DEF LevelStates
  <2> QED BY <1>2, <1>6, <2>2, <2>3, <2>4
<1> QED BY <1>7, <1>8, <1>9, <1>11, <1>12, <1>13 DEF c, x

(* The elements of a, with other links. *)
SamePlain(x, a) ==
  x \in Seq(DeclareElement) /\ Len(x) = Len(a) /\ \A i \in 1..Len(a) : Plain(x[i], a[i])

(* An element without links. *)
NoLinks(k) == k.structureParent = NULL /\ k.structureSibling = NULL /\ k.structureFirstChild = NULL

(* They have the same levels. *)
LEMMA SameLevels ==
  ASSUME NEW a \in Seq(DeclareElement), NEW x, SamePlain(x, a)
  PROVE  /\ LevelsOf(x) = LevelsOf(a) /\ LevelsOf(a) \in [1..Len(a) -> Int]
         /\ \A i \in 1..Len(a) : x[i].structureLevel = LevelsOf(a)[i]
<1>1. Len(a) \in Nat /\ Len(x) = Len(a) /\ \A i \in 1..Len(a) : a[i] \in DeclareElement
  BY DEF SamePlain
<1>2. \A i \in 1..Len(a) : a[i].structureLevel \in Int
  BY <1>1 DEF DeclareElement
<1>3. \A i \in 1..Len(a) : x[i].structureLevel = a[i].structureLevel
  BY DEF SamePlain, Plain
<1> QED BY <1>1, <1>2, <1>3 DEF LevelsOf

(* When the levels meet, the way from k leads to the element of the same level. *)
LEMMA MeetLast ==
  ASSUME NEW e, Len(e) \in Nat, Backward(e), NEW l, l = LevelsOf(e), l \in [1..Len(e) -> Int],
         NEW k \in 1..Len(e), k + 1 <= Len(e), Linked(e, l, k), Meet(l, Len(e)),
         l[k + 1] > 1, l[k] >= l[k + 1]
  PROVE  \E v \in 1..k : /\ l[v] = l[k + 1] /\ \A j \in (v + 1)..k : l[j] > l[k + 1]
                         /\ findStructureParent(e, k, k + 1) = v
<1> DEFINE n == Len(e)
           T == {j \in 1..k : l[j] <= l[k + 1]}
<1>1. k + 1 \in 1..n /\ n \in Nat /\ k \in Nat /\ \A j \in 1..k : j \in 1..n /\ l[j] \in Int
  OBVIOUS
<1>2. PICK z \in 1..k : l[z] = l[k + 1] /\ \A j \in z..(k + 1) : l[j] >= l[k + 1]
  <2>1. k + 1 > 1 /\ (k + 1) - 1 = k
    BY <1>1
  <2> HIDE DEF n
  <2> QED BY <1>1, <2>1 DEF Meet, n
<1>3. T \in SUBSET Nat /\ z \in T /\ \A j \in T : j <= k
  BY <1>1, <1>2
<1>4. PICK v \in T : \A j \in T : j <= v
  <2> HIDE DEF T
  <2> QED BY <1>1, <1>3, Greatest
<1>5. v \in 1..k /\ l[v] <= l[k + 1] /\ z <= v
  BY <1>3, <1>4
<1>6. l[v] = l[k + 1]
  <2>1. v \in z..(k + 1)
    BY <1>1, <1>5
  <2> QED BY <1>1, <1>2, <1>5, <2>1
<1>7. \A j \in (v + 1)..k : l[j] > l[k + 1]
  <2>1. \A j \in (v + 1)..k : j \in 1..k /\ ~(j <= v)
    BY <1>5
  <2>2. \A j \in (v + 1)..k : ~(l[j] <= l[k + 1])
    BY <1>4, <2>1
  <2> QED BY <1>1, <2>1, <2>2
<1>8. \A q \in (v + 1)..k : e[q].structureParent \in ParentsAt(l, q)
  <2>1. \A q \in (v + 1)..k : q \in 1..k
    BY <1>5
  <2>2. \A q \in (v + 1)..k : l[q] > 1
    BY <1>1, <1>7, <2>1
  <2> QED BY <2>1, <2>2 DEF Linked
<1>9. findStructureParent(e, k, k + 1) = v
  <2> HIDE DEF n, T
  <2> QED BY <1>1, <1>5, <1>7, <1>8, FindLast DEF n
<1> QED BY <1>5, <1>6, <1>7, <1>9

(* After k elements: the others have no links yet, and when the levels meet  *)
(* the k elements are linked to structures.                                  *)
LevelInv(a, r, k) ==
  /\ r \in LevelStates
  /\ SamePlain(r.elem, a)
  /\ Backward(r.elem)
  /\ \A i \in (k + 1)..Len(a) : NoLinks(r.elem[i])
  /\ \A i \in 1..Len(a) : LevelsOf(a)[i] <= 1 => r.elem[i].structureParent = NULL
  /\ r.ok => r.prev = IF k >= 1 /\ LevelsOf(a)[k] >= 1 THEN k ELSE NULL
  /\ r.ok /\ Meet(LevelsOf(a), Len(a)) => Linked(r.elem, LevelsOf(a), k)

(* An element that gets no links. *)
LEMMA LevelStepAlone ==
  ASSUME NEW a \in Seq(DeclareElement), NEW k \in Nat, k + 1 <= Len(a), NEW r, LevelInv(a, r, k),
         NEW c, c \in LevelStates, c.elem = r.elem, LevelsOf(a)[k + 1] <= 1 \/ ~c.ok, r.ok,
         c.ok => c.prev = IF LevelsOf(a)[k + 1] >= 1 THEN k + 1 ELSE NULL
  PROVE  LevelInv(a, c, k + 1)
<1> DEFINE n == Len(a)
           l == LevelsOf(a)
<1>1. n \in Nat /\ k + 1 \in 1..n /\ k + 1 \in (k + 1)..n /\ k + 1 >= 1 /\ l \in [1..n -> Int]
  <2>1. l \in [1..n -> Int]
    BY SameLevels DEF LevelInv
  <2> QED BY <2>1
<1>2. \A i \in ((k + 1) + 1)..n : i \in (k + 1)..n
  BY <1>1
<1>3. r.elem[k + 1].structureParent = NULL
  BY <1>1 DEF LevelInv, NoLinks
<1>4. c.ok /\ Meet(l, n) => Linked(c.elem, l, k + 1)
  <2> SUFFICES ASSUME c.ok, Meet(l, n) PROVE Linked(r.elem, l, k + 1)
    OBVIOUS
  <2>1. Linked(r.elem, l, k) /\ l[k + 1] <= 1
    BY DEF LevelInv
  <2> HIDE DEF l, n
  <2> QED BY <1>1, <1>3, <2>1, LinkedAlone DEF n
<1>5. c.ok => c.prev = IF k + 1 >= 1 /\ l[k + 1] >= 1 THEN k + 1 ELSE NULL
  BY <1>1
<1>6. /\ SamePlain(c.elem, a) /\ Backward(c.elem)
      /\ \A i \in (k + 1)..n : NoLinks(c.elem[i])
      /\ \A i \in 1..n : l[i] <= 1 => c.elem[i].structureParent = NULL
  BY DEF LevelInv
<1>7. \A i \in ((k + 1) + 1)..n : NoLinks(c.elem[i])
  BY <1>2, <1>6
<1> HIDE DEF l, n
<1> QED BY <1>4, <1>5, <1>6, <1>7 DEF LevelInv, l, n

(* An element that gets links, and gives links to elements before. *)
LEMMA LevelStepLinked ==
  ASSUME NEW a \in Seq(DeclareElement), NEW k \in Nat, k + 1 <= Len(a), NEW r, LevelInv(a, r, k),
         LevelsOf(a)[k + 1] > 1, r.ok,
         NEW c, c \in LevelStates, c.prev = k + 1,
         Len(c.elem) = Len(a), \A i \in 1..Len(a) : Plain(c.elem[i], r.elem[i]),
         \A i \in 1..Len(a) : i # k + 1 => c.elem[i].structureParent = r.elem[i].structureParent,
         c.elem[k + 1].structureParent \in 0..k,
         \A i \in ((k + 1) + 1)..Len(a) : NoLinks(c.elem[i]),
         Meet(LevelsOf(a), Len(a)) => Linked(c.elem, LevelsOf(a), k + 1)
  PROVE  LevelInv(a, c, k + 1)
<1> DEFINE n == Len(a)
           l == LevelsOf(a)
<1>1. n \in Nat /\ k + 1 \in 1..n /\ k + 1 >= 1 /\ l \in [1..n -> Int] /\ ~(l[k + 1] <= 1) /\ l[k + 1] >= 1
  <2>1. l \in [1..n -> Int]
    BY SameLevels DEF LevelInv
  <2> HIDE DEF l
  <2>2. k + 1 \in 1..n /\ l[k + 1] > 1
    BY DEF l
  <2> QED BY <2>1, <2>2
<1>2. SamePlain(c.elem, a)
  <2>1. c.elem \in Seq(DeclareElement)
    BY DEF LevelStates
  <2>2. \A i \in 1..n : Plain(r.elem[i], a[i])
    BY DEF LevelInv, SamePlain
  <2>3. \A i \in 1..n : Plain(c.elem[i], a[i])
    BY <2>2 DEF Plain
  <2> QED BY <2>1, <2>3 DEF SamePlain
<1>3. Backward(c.elem)
  <2>1. \A i \in 1..n : r.elem[i].structureParent \in 0..(i - 1)
    BY DEF LevelInv, Backward, SamePlain
  <2>2. (k + 1) - 1 = k
    OBVIOUS
  <2>3. \A i \in 1..n : c.elem[i].structureParent \in 0..(i - 1)
    BY <2>1, <2>2
  <2> QED BY <2>3 DEF Backward
<1>4. \A i \in 1..n : l[i] <= 1 => c.elem[i].structureParent = NULL
  BY <1>1 DEF LevelInv
<1>5. c.prev = IF k + 1 >= 1 /\ l[k + 1] >= 1 THEN k + 1 ELSE NULL
  BY <1>1
<1> HIDE DEF l
<1> QED BY <1>2, <1>3, <1>4, <1>5 DEF LevelInv, l

(* An element with a larger level than the one before. *)
LEMMA LevelChild ==
  ASSUME NEW a \in Seq(DeclareElement), NEW k \in Nat, k + 1 <= Len(a), NEW r, LevelInv(a, r, k),
         LevelsOf(a)[k + 1] > 1, r.ok, k >= 1, LevelsOf(a)[k] >= 1, LevelsOf(a)[k] < LevelsOf(a)[k + 1],
         NEW c, c \in LevelStates, c.prev = k + 1, c.elem = LinkChild(r.elem, k, k + 1)
  PROVE  LevelInv(a, c, k + 1)
<1> DEFINE n == Len(a)
           l == LevelsOf(a)
           e == r.elem
           y == c.elem
<1>1. n \in Nat /\ k + 1 \in 1..n /\ k \in 1..n /\ k # k + 1 /\ k \in 0..k /\ k + 1 \in (k + 1)..n
  OBVIOUS
<1>2. e \in Seq(DeclareElement) /\ Len(e) = n /\ l \in [1..n -> Int]
  BY SameLevels DEF LevelInv, SamePlain
<1>3. /\ y \in Seq(DeclareElement) /\ Len(y) = n
      /\ \A i \in 1..n :
           /\ Plain(y[i], e[i])
           /\ y[i].structureParent = IF i = k + 1 THEN k ELSE e[i].structureParent
           /\ y[i].structureSibling = e[i].structureSibling
           /\ y[i].structureFirstChild = IF i = k THEN k + 1 ELSE e[i].structureFirstChild
  <2>1. y = LinkChild(e, k, k + 1)
    OBVIOUS
  <2>2. k \in 1..Len(e) /\ k + 1 \in 1..Len(e) /\ k # k + 1
    BY <1>1, <1>2
  <2> HIDE DEF y, e, n
  <2>3. /\ LinkChild(e, k, k + 1) \in Seq(DeclareElement) /\ Len(LinkChild(e, k, k + 1)) = Len(e)
        /\ \A i \in 1..Len(e) :
             /\ Plain(LinkChild(e, k, k + 1)[i], e[i])
             /\ LinkChild(e, k, k + 1)[i].structureParent = IF i = k + 1 THEN k ELSE e[i].structureParent
             /\ LinkChild(e, k, k + 1)[i].structureSibling = e[i].structureSibling
             /\ LinkChild(e, k, k + 1)[i].structureFirstChild = IF i = k THEN k + 1 ELSE e[i].structureFirstChild
    BY <1>2, <2>2, LinkChildIs, SMTT(60)
  <2> QED BY <1>2, <2>1, <2>3
<1>4. \A i \in (k + 1)..n : NoLinks(e[i])
  BY DEF LevelInv
<1> HIDE DEF y, n
<1>5. \A i \in ((k + 1) + 1)..n : NoLinks(y[i])
  <2>1. \A i \in ((k + 1) + 1)..n : i \in 1..n /\ i \in (k + 1)..n /\ i # k + 1 /\ i # k
    BY <1>1
  <2> QED BY <1>3, <1>4, <2>1 DEF NoLinks
<1>6. Meet(l, n) => Linked(y, l, k + 1)
  <2> SUFFICES ASSUME Meet(l, n) PROVE Linked(y, l, k + 1)
    OBVIOUS
  <2>1. Linked(e, l, k)
    BY DEF LevelInv, n
  <2>2. e[k + 1].structureSibling = NULL
    BY <1>1, <1>4 DEF NoLinks
  <2>3. l[k] >= 1 /\ l[k] < l[k + 1] /\ k + 1 <= n
    BY DEF n
  <2>4. /\ k + 1 <= n /\ k \in 1..n
        /\ \A i \in 1..n :
             /\ y[i].structureParent = IF i = k + 1 THEN k ELSE e[i].structureParent
             /\ y[i].structureSibling = e[i].structureSibling
             /\ y[i].structureFirstChild = IF i = k THEN k + 1 ELSE e[i].structureFirstChild
    BY <1>1, <1>3, <2>3
  <2> HIDE DEF l, e
  <2> QED BY <1>1, <1>2, <2>1, <2>2, <2>3, <2>4, LinkedChild, ZenonT(60)
<1>7. y[k + 1].structureParent \in 0..k /\ \A i \in 1..n : i # k + 1 => y[i].structureParent = e[i].structureParent
  BY <1>1, <1>3
<1>8. Len(y) = n /\ \A i \in 1..n : Plain(y[i], e[i])
  BY <1>3
<1> QED BY <1>5, <1>6, <1>7, <1>8, LevelStepLinked DEF n, y

(* An element with a level that is not larger. *)
LEMMA LevelSibling ==
  ASSUME NEW a \in Seq(DeclareElement), NEW k \in Nat, k + 1 <= Len(a), NEW r, LevelInv(a, r, k),
         LevelsOf(a)[k + 1] > 1, r.ok, k >= 1, LevelsOf(a)[k] >= LevelsOf(a)[k + 1],
         NEW p, p = findStructureParent(r.elem, k, k + 1),
         NEW c, c \in LevelStates, c.prev = k + 1,
         c.elem = IF p = NULL THEN r.elem ELSE LinkSibling(r.elem, p, k + 1)
  PROVE  LevelInv(a, c, k + 1)
<1> DEFINE n == Len(a)
           l == LevelsOf(a)
           e == r.elem
           y == c.elem
<1>1. n \in Nat /\ k + 1 \in 1..n /\ k \in 1..n /\ k \in 0..n /\ k + 1 \in (k + 1)..n /\ NULL \in 0..k
  BY DEF NULL
<1>2. /\ e \in Seq(DeclareElement) /\ Len(e) = n /\ l \in [1..n -> Int] /\ l = LevelsOf(e) /\ Backward(e)
      /\ SamePlain(e, a)
  BY SameLevels DEF LevelInv, SamePlain
<1>3. p \in 0..k
  BY <1>1, <1>2, FindIn
<1>4. \A i \in (k + 1)..n : NoLinks(e[i])
  BY DEF LevelInv
<1>m. Meet(l, n) => \E v \in 1..k : l[v] = l[k + 1] /\ (\A j \in (v + 1)..k : l[j] > l[k + 1]) /\ p = v
  <2> SUFFICES ASSUME Meet(l, n)
               PROVE  \E v \in 1..k : l[v] = l[k + 1] /\ (\A j \in (v + 1)..k : l[j] > l[k + 1]) /\ p = v
    OBVIOUS
  <2>1. Linked(e, l, k)
    BY DEF LevelInv
  <2>2. l[k + 1] > 1 /\ l[k] >= l[k + 1] /\ k + 1 <= n /\ p = findStructureParent(e, k, k + 1)
    OBVIOUS
  <2>3. k \in 1..Len(e) /\ k + 1 <= Len(e) /\ Meet(l, Len(e)) /\ Len(e) \in Nat /\ l \in [1..Len(e) -> Int]
    BY <1>1, <1>2, <2>2
  <2>4. l[k + 1] > 1 /\ l[k] >= l[k + 1]
    BY <2>2
  <2>5. l = LevelsOf(e) /\ Backward(e)
    BY <1>2
  <2> HIDE DEF l, e, n
  <2>6. \E v \in 1..k : /\ l[v] = l[k + 1] /\ \A j \in (v + 1)..k : l[j] > l[k + 1]
                        /\ findStructureParent(e, k, k + 1) = v
    BY <2>1, <2>3, <2>4, <2>5, MeetLast, ZenonT(60)
  <2> QED BY <2>2, <2>6
<1>5. CASE p = NULL
  <2>1. y = e
    BY <1>5
  <2>2. ~Meet(l, n)
    <3> HIDE DEF l, n
    <3>1. \A v \in 1..k : v # NULL
      BY DEF NULL
    <3> QED BY <1>m, <1>5, <3>1
  <2>3. \A i \in ((k + 1) + 1)..n : i \in (k + 1)..n
    BY <1>1
  <2>4. \A i \in ((k + 1) + 1)..n : NoLinks(y[i])
    BY <1>4, <2>1, <2>3
  <2>5. y[k + 1].structureParent \in 0..k
    BY <1>1, <1>4, <2>1 DEF NoLinks
  <2>6. Len(y) = n /\ \A i \in 1..n : Plain(y[i], e[i]) /\ y[i].structureParent = e[i].structureParent
    BY <1>2, <2>1 DEF Plain
  <2> QED BY <2>2, <2>4, <2>5, <2>6, LevelStepLinked
<1>6. CASE p # NULL
  <2>1. p \in 1..k /\ p \in 1..n /\ p # k + 1
    BY <1>1, <1>3, <1>6 DEF NULL
  <2>2. y = LinkSibling(e, p, k + 1)
    BY <1>6
  <2>3. /\ y \in Seq(DeclareElement) /\ Len(y) = n
        /\ \A i \in 1..n :
             /\ Plain(y[i], e[i])
             /\ y[i].structureParent = IF i = k + 1 THEN e[p].structureParent ELSE e[i].structureParent
             /\ y[i].structureSibling = IF i = p /\ e[p].structureSibling = NULL THEN k + 1 ELSE e[i].structureSibling
             /\ y[i].structureFirstChild = e[i].structureFirstChild
    <3>2. p \in 1..Len(e) /\ k + 1 \in 1..Len(e) /\ p # k + 1
      BY <1>1, <1>2, <2>1
    <3> DEFINE z == LinkSibling(e, p, k + 1)
    <3> HIDE DEF y, e, n
    <3>3. /\ z \in Seq(DeclareElement) /\ Len(z) = Len(e)
          /\ \A i \in 1..Len(e) :
               /\ Plain(z[i], e[i])
               /\ z[i].structureParent = IF i = k + 1 THEN e[p].structureParent ELSE e[i].structureParent
               /\ z[i].structureSibling = IF i = p /\ e[p].structureSibling = NULL THEN k + 1 ELSE e[i].structureSibling
               /\ z[i].structureFirstChild = e[i].structureFirstChild
      BY <1>2, <3>2, LinkSiblingIs, SMTT(60)
    <3> HIDE DEF z
    <3>4. y = z
      BY <2>2 DEF z
    <3> QED BY <1>2, <3>3, <3>4
  <2> HIDE DEF y, n
  <2>5. \A i \in ((k + 1) + 1)..n : NoLinks(y[i])
    <3>1. \A i \in ((k + 1) + 1)..n : i \in 1..n /\ i \in (k + 1)..n /\ i # k + 1 /\ i # p
      BY <1>1, <2>1
    <3> QED BY <1>4, <2>3, <3>1 DEF NoLinks
  <2>6. Meet(l, n) => Linked(y, l, k + 1)
    <3> SUFFICES ASSUME Meet(l, n) PROVE Linked(y, l, k + 1)
      OBVIOUS
    <3>1. Linked(e, l, k)
      BY DEF LevelInv, n
    <3>2. e[k + 1].structureSibling = NULL
      BY <1>1, <1>4 DEF NoLinks
    <3>3. l[k + 1] > 1 /\ k + 1 <= n
      BY DEF n
    <3> HIDE DEF l, e
    <3>4. l[p] = l[k + 1] /\ \A j \in (p + 1)..k : l[j] > l[k + 1]
      BY <1>m
    <3>5. \A i \in 1..n :
            /\ y[i].structureParent = IF i = k + 1 THEN e[p].structureParent ELSE e[i].structureParent
            /\ y[i].structureSibling = IF i = p /\ e[p].structureSibling = NULL THEN k + 1
                                       ELSE e[i].structureSibling
            /\ y[i].structureFirstChild = e[i].structureFirstChild
      BY <2>3
    <3>6. n \in Nat /\ l \in [1..n -> Int] /\ k \in 1..n /\ p \in 1..k
      BY <1>1, <1>2, <2>1
    <3> QED BY <2>1, <3>1, <3>2, <3>3, <3>4, <3>5, <3>6, LinkedSibling, ZenonT(60)
  <2>7. y[k + 1].structureParent \in 0..k
    <3>1. e[p].structureParent \in 0..(p - 1)
      BY <1>2, <2>1 DEF Backward
    <3>2. \A i \in 0..(p - 1) : i \in 0..k
      BY <2>1
    <3> QED BY <1>1, <2>3, <3>1, <3>2
  <2>8. Len(y) = n /\ \A i \in 1..n : Plain(y[i], e[i])
    BY <2>3
  <2>9. \A i \in 1..n : i # k + 1 => y[i].structureParent = e[i].structureParent
    BY <2>3
  <2> QED BY <2>5, <2>6, <2>7, <2>8, <2>9, LevelStepLinked DEF n, y
<1> QED BY <1>5, <1>6

(* One element more (CheckLevel). *)
LEMMA LevelStep ==
  ASSUME NEW a \in Seq(DeclareElement), NEW k \in Nat, k + 1 <= Len(a), NEW r, LevelInv(a, r, k)
  PROVE  LevelInv(a, CheckLevel(r, k + 1), k + 1)
<1> DEFINE n == Len(a)
           l == LevelsOf(a)
           e == r.elem
           w == k + 1
           p == findStructureParent(e, r.prev, w)
           c == CheckLevel(r, w)
<1>1. n \in Nat /\ w \in 1..n /\ l \in [1..n -> Int] /\ l[w] \in Int
  <2>1. l \in [1..n -> Int] /\ w \in 1..n
    BY SameLevels DEF LevelInv
  <2> HIDE DEF l
  <2> QED BY <2>1
<1>2. /\ r \in LevelStates /\ e \in Seq(DeclareElement) /\ Len(e) = n /\ Backward(e)
      /\ e[w].structureLevel = l[w]
  BY <1>1, SameLevels DEF LevelInv, SamePlain
<1>3. /\ c.elem \in Seq(DeclareElement) => c \in LevelStates
      /\ ~r.ok => c = r
      /\ r.ok /\ l[w] < 1 => c.elem = e /\ c.prev = NULL
      /\ r.ok /\ l[w] = 1 => c.elem = e /\ c.prev = w
      /\ r.ok /\ l[w] > 1 /\ r.prev = NULL => c.elem = e /\ ~c.ok /\ c.prev = NULL
      /\ r.ok /\ l[w] > 1 /\ r.prev # NULL =>
           /\ c.prev = w
           /\ c.elem = IF e[r.prev].structureLevel < l[w] THEN LinkChild(e, r.prev, w)
                       ELSE IF p = NULL THEN e ELSE LinkSibling(e, p, w)
  <2>1. w \in 1..Len(r.elem)
    BY <1>1, <1>2
  <2> HIDE DEF w, c, l, n
  <2> QED BY <1>2, <2>1, CheckLevelIs DEF c
<1>4. CASE ~r.ok
  <2>1. c = r
    BY <1>3, <1>4
  <2>2. \A i \in ((k + 1) + 1)..n : i \in (k + 1)..n
    BY <1>1
  <2>3. \A i \in ((k + 1) + 1)..n : NoLinks(r.elem[i])
    BY <2>2 DEF LevelInv
  <2>4. LevelInv(a, r, k + 1)
    BY <1>4, <2>3 DEF LevelInv
  <2> QED BY <2>1, <2>4
<1>5. CASE r.ok /\ l[w] <= 1
  <2>1. l[w] < 1 \/ l[w] = 1
    BY <1>1, <1>5
  <2>2. c.elem = e /\ c.prev = IF l[w] >= 1 THEN w ELSE NULL
    <3>1. l[w] < 1 => ~(l[w] >= 1)
      BY <1>1
    <3>2. l[w] = 1 => l[w] >= 1
      BY <1>1
    <3> QED BY <1>3, <1>5, <2>1, <3>1, <3>2
  <2>3. c \in LevelStates
    BY <1>2, <1>3, <2>2
  <2> HIDE DEF c
  <2> QED BY <1>5, <2>2, <2>3, LevelStepAlone DEF c
<1>6. CASE r.ok /\ l[w] > 1 /\ r.prev = NULL
  <2>1. c.elem = e /\ ~c.ok
    BY <1>3, <1>6
  <2>2. c \in LevelStates
    BY <1>2, <1>3, <2>1
  <2> HIDE DEF c
  <2> QED BY <1>6, <2>1, <2>2, LevelStepAlone DEF c
<1>7. CASE r.ok /\ l[w] > 1 /\ r.prev # NULL
  <2>1. k >= 1 /\ l[k] >= 1 /\ r.prev = k
    BY <1>7 DEF LevelInv
  <2>2. k \in 1..n /\ k # w
    BY <1>1, <2>1
  <2>3. e[k].structureLevel = l[k] /\ l[k] \in Int
    <3>1. e[k].structureLevel = l[k]
      BY <2>2, SameLevels DEF LevelInv
    <3> HIDE DEF l, n
    <3> QED BY <1>1, <2>2, <3>1
  <2>4. c.prev = w /\ c.elem = IF l[k] < l[w] THEN LinkChild(e, k, w)
                               ELSE IF p = NULL THEN e ELSE LinkSibling(e, p, w)
    BY <1>3, <1>7, <2>1, <2>3
  <2>5. p = findStructureParent(e, k, w)
    BY <2>1
  <2> HIDE DEF p, c
  <2>6. p \in 0..k
    BY <1>1, <1>2, <2>2, <2>5, FindIn
  <2>7. c \in LevelStates
    <3>1. LinkChild(e, k, w) \in Seq(DeclareElement)
      BY <1>1, <1>2, <2>2, LinkChildIs
    <3>2. p # NULL => LinkSibling(e, p, w) \in Seq(DeclareElement)
      <4>1. p # NULL => p \in 1..n /\ p # w
        BY <1>1, <2>2, <2>6 DEF NULL
      <4> QED BY <1>1, <1>2, <4>1, LinkSiblingIs
    <3> QED BY <1>2, <1>3, <2>4, <3>1, <3>2
  <2>8. CASE l[k] < l[w]
    <3>1. c.elem = LinkChild(e, k, w)
      BY <2>4, <2>8
    <3> QED BY <1>7, <2>1, <2>4, <2>7, <2>8, <3>1, LevelChild DEF c
  <2>9. CASE ~(l[k] < l[w])
    <3>1. c.elem = IF p = NULL THEN e ELSE LinkSibling(e, p, w)
      BY <2>4, <2>9
    <3>2. l[k] >= l[w]
      BY <1>1, <2>3, <2>9
    <3> QED BY <1>7, <2>1, <2>4, <2>5, <2>7, <3>1, <3>2, LevelSibling DEF c
  <2> QED BY <2>8, <2>9
<1>8. l[w] <= 1 \/ l[w] > 1
  BY <1>1
<1> QED BY <1>4, <1>5, <1>6, <1>7, <1>8

(* g is the fold of CheckLevel over sets of the elements 1..m. *)
LevelEq(g, base, m) ==
  g = [s \in SUBSET (1..m) |-> IF s = {} THEN base ELSE CheckLevel(g[s \ {Max(s)}], Max(s))]

(* There is such a fold: CheckLevel need not be given a state of the parser, *)
(* so FoldExists cannot be used.                                             *)
LEMMA LevelFoldExists ==
  ASSUME NEW n \in Nat, NEW base
  PROVE  \E g : LevelEq(g, base, n)
<1> DEFINE P(m) == \E g : LevelEq(g, base, m)
           S == {m \in Nat : P(m)}
<1>1. 0 \in S
  <2> DEFINE g == [s \in SUBSET (1..0) |-> base]
  <2>1. \A s \in SUBSET (1..0) : s = {}
    OBVIOUS
  <2>2. g = [s \in SUBSET (1..0) |-> IF s = {} THEN base ELSE CheckLevel(g[s \ {Max(s)}], Max(s))]
    BY <2>1
  <2> QED BY <2>2 DEF LevelEq
<1>2. ASSUME NEW m \in Nat, m \in S PROVE m + 1 \in S
  <2>1. PICK g : LevelEq(g, base, m)
    BY <1>2
  <2> DEFINE h == [s \in SUBSET (1..(m + 1)) |->
                     IF m + 1 \in s THEN CheckLevel(g[s \ {m + 1}], m + 1) ELSE g[s]]
             R(v, s) == IF s = {} THEN base ELSE CheckLevel(v[s \ {Max(s)}], Max(s))
  <2>2. \A s \in SUBSET (1..(m + 1)) : m + 1 \notin s => s \in SUBSET (1..m)
    OBVIOUS
  <2>3. \A s \in SUBSET (1..(m + 1)) : s \ {m + 1} \in SUBSET (1..m)
    OBVIOUS
  <2>4. \A s \in SUBSET (1..m) : g[s] = R(g, s)
    BY <2>1 DEF LevelEq
  <2>5. \A s \in SUBSET (1..m) : h[s] = g[s]
    <3>1. \A s \in SUBSET (1..m) : s \in SUBSET (1..(m + 1)) /\ m + 1 \notin s
      OBVIOUS
    <3> QED BY <3>1
  <2>6. ASSUME NEW s \in SUBSET (1..(m + 1)) PROVE h[s] = R(h, s)
    <3>1. CASE m + 1 \in s
      <4>1. Max(s) = m + 1
        BY <3>1, MaxIs
      <4>2. h[s \ {m + 1}] = g[s \ {m + 1}]
        BY <2>3, <2>5
      <4>3. h[s] = CheckLevel(g[s \ {m + 1}], m + 1)
        BY <3>1
      <4> HIDE DEF h
      <4> QED BY <3>1, <4>1, <4>2, <4>3
    <3>2. CASE m + 1 \notin s
      <4>1. s \in SUBSET (1..m) /\ s \ {Max(s)} \in SUBSET (1..m)
        BY <2>2, <3>2
      <4>2. h[s] = g[s] /\ h[s \ {Max(s)}] = g[s \ {Max(s)}] /\ g[s] = R(g, s)
        <5> HIDE DEF h, R
        <5> QED BY <2>4, <2>5, <4>1
      <4> HIDE DEF h
      <4> QED BY <4>2
    <3> QED BY <3>1, <3>2
  <2>7. h = [s \in SUBSET (1..(m + 1)) |-> h[s]]
    OBVIOUS
  <2>8. LevelEq(h, base, m + 1)
    <3> HIDE DEF h
    <3>1. h = [s \in SUBSET (1..(m + 1)) |-> R(h, s)]
      <4> HIDE DEF R
      <4> QED BY <2>6, <2>7
    <3> QED BY <3>1 DEF LevelEq
  <2> QED BY <2>8
<1>3. n \in S
  <2> HIDE DEF S
  <2> QED BY <1>1, <1>2, NatSetInduction
<1> QED BY <1>3

(* The states of checkStructureLevels, from the first to the last. *)
LevelSteps(acc, a, v) ==
  /\ acc[0] = [elem |-> a, prev |-> NULL, ok |-> TRUE]
  /\ \A k \in Nat : k + 1 <= Len(a) => acc[k + 1] = CheckLevel(acc[k], k + 1)
  /\ acc[Len(a)] = v

(* There are such states. *)
LEMMA LevelFold ==
  ASSUME elem \in Seq(DeclareElement)
  PROVE  \E acc : LevelSteps(acc, elem, checkStructureLevels)
<1> DEFINE n == Len(elem)
           seq == [i \in DOMAIN elem |-> i]
           base == [elem |-> elem, prev |-> NULL, ok |-> TRUE]
           Eq(g) == g = [s \in SUBSET (DOMAIN seq) |->
                           IF s = {} THEN base ELSE CheckLevel(g[s \ {Max(s)}], seq[Max(s)])]
           f == CHOOSE g : Eq(g)
           acc == [k \in 0..n |-> f[1..k]]
<1>1. n \in Nat /\ DOMAIN seq = 1..n /\ \A k \in 1..n : seq[k] = k
  OBVIOUS
<1> HIDE DEF base, n, seq
<1>m. ASSUME NEW s \in SUBSET (1..n), s # {} PROVE Max(s) \in s
  <2>1. s \in SUBSET Nat /\ \A x \in s : x <= n
    BY <1>1
  <2>2. PICK x \in s : \A y \in s : y <= x
    BY <1>1, <1>m, <2>1, Greatest
  <2>3. s \in SUBSET Int
    BY <2>1
  <2> QED BY <2>2, <2>3, MaxIs
<1>2. \E g : Eq(g)
  <2>1. PICK g : LevelEq(g, base, n)
    BY <1>1, LevelFoldExists
  <2>2. \A s \in SUBSET (1..n) : s # {} => seq[Max(s)] = Max(s)
    BY <1>1, <1>m
  <2>3. g = [s \in SUBSET (1..n) |-> IF s = {} THEN base ELSE CheckLevel(g[s \ {Max(s)}], Max(s))]
    BY <2>1 DEF LevelEq
  <2>4. g = [s \in SUBSET (1..n) |-> IF s = {} THEN base ELSE CheckLevel(g[s \ {Max(s)}], seq[Max(s)])]
    BY <2>2, <2>3
  <2> QED BY <1>1, <2>4
<1>3. Eq(f)
  <2> HIDE DEF Eq
  <2> QED BY <1>2
<1>4. checkStructureLevels = f[1..n]
  <2>1. checkStructureLevels = f[DOMAIN seq]
    BY DEF checkStructureLevels, FoldLeft, MapThenFoldSet, base, seq
  <2> QED BY <1>1, <2>1
<1> HIDE DEF f
<1>5. \A s \in SUBSET (1..n) : f[s] = IF s = {} THEN base ELSE CheckLevel(f[s \ {Max(s)}], seq[Max(s)])
  BY <1>1, <1>3
<1>6. acc[0] = base
  <2>1. 1..0 = {} /\ 0 \in 0..n
    BY <1>1
  <2> QED BY <1>5, <2>1
<1>7. ASSUME NEW k \in Nat, k + 1 <= n PROVE acc[k + 1] = CheckLevel(acc[k], k + 1)
  <2> DEFINE s == 1..(k + 1)
  <2>1. s \in SUBSET (1..n) /\ k + 1 \in s
    BY <1>1, <1>7
  <2>2. Max(s) = k + 1
    <3>1. s \in SUBSET Int /\ \A x \in s : x <= k + 1
      OBVIOUS
    <3> HIDE DEF s
    <3> QED BY <2>1, <3>1, MaxIs
  <2>3. s \ {k + 1} = 1..k
    OBVIOUS
  <2>4. acc[k + 1] = f[s] /\ acc[k] = f[1..k]
    BY <1>1, <1>7
  <2>5. k + 1 \in 1..n
    BY <1>1, <1>7
  <2> HIDE DEF s, acc
  <2>6. f[s] = CheckLevel(f[s \ {Max(s)}], seq[Max(s)])
    BY <1>5, <2>1
  <2> QED BY <1>1, <2>2, <2>3, <2>4, <2>5, <2>6
<1>8. acc[n] = f[1..n]
  BY <1>1
<1> HIDE DEF acc
<1>9. LevelSteps(acc, elem, checkStructureLevels)
  BY <1>4, <1>6, <1>7, <1>8 DEF LevelSteps, n, base
<1> QED BY <1>9

(* What checkStructureLevels has done when it was given elements without links. *)
LEMMA LevelsDone ==
  ASSUME elem \in Seq(DeclareElement), \A i \in 1..Len(elem) : NoLinks(elem[i])
  PROVE  LevelInv(elem, checkStructureLevels, Len(elem))
<1> DEFINE n == Len(elem)
           l == LevelsOf(elem)
<1>1. PICK acc : LevelSteps(acc, elem, checkStructureLevels)
  BY LevelFold
<1>n. n \in Nat
  OBVIOUS
<1> DEFINE S == {k \in Nat : k <= n => LevelInv(elem, acc[k], k)}
<1>2. 0 \in S
  <2> DEFINE r == [elem |-> elem, prev |-> NULL, ok |-> TRUE]
  <2>1. r \in LevelStates
    BY DEF LevelStates, NULL
  <2>2. r.elem = elem /\ r.prev = NULL
    OBVIOUS
  <2> HIDE DEF r
  <2>3. SamePlain(r.elem, elem)
    BY <2>2 DEF SamePlain, Plain
  <2>4. Backward(r.elem)
    <3>1. \A q \in 1..n : elem[q].structureParent \in 0..(q - 1)
      BY DEF NoLinks, NULL
    <3> QED BY <2>2, <3>1 DEF Backward
  <2>5. Linked(r.elem, l, 0)
    <3>1. \A w \in 1..0 : FALSE
      OBVIOUS
    <3> QED BY <3>1 DEF Linked
  <2>6. \A i \in (0 + 1)..n : i \in 1..n
    OBVIOUS
  <2>7. ~(0 >= 1)
    OBVIOUS
  <2>8. LevelInv(elem, r, 0)
    BY <2>1, <2>2, <2>3, <2>4, <2>5, <2>6, <2>7 DEF LevelInv, NoLinks
  <2> QED BY <1>1, <2>8 DEF LevelSteps, r
<1>3. ASSUME NEW k \in Nat, k \in S PROVE k + 1 \in S
  <2> SUFFICES ASSUME k + 1 <= n PROVE LevelInv(elem, acc[k + 1], k + 1)
    OBVIOUS
  <2>1. LevelInv(elem, acc[k], k)
    BY <1>3
  <2>2. acc[k + 1] = CheckLevel(acc[k], k + 1)
    BY <1>1 DEF LevelSteps
  <2> QED BY <2>1, <2>2, LevelStep
<1>4. n \in S
  <2> HIDE DEF S
  <2> QED BY <1>n, <1>2, <1>3, NatSetInduction
<1> QED BY <1>1, <1>n, <1>4 DEF LevelSteps

-----------------------------------------------------------------------------
(* The rounds of addDclDeclareElementList. *)

(* The states of addDclDeclareElementList. *)
AddStates == [list: Seq(DeclareElement), end: BOOLEAN]

(* AddElement, case by case. *)
LEMMA AddElementIs ==
  ASSUME NEW r \in AddStates, NEW w \in DeclareElement
  PROVE  LET c == AddElement(r, w)
             known == findDclName(r.list, w.name, w.structureParent)
         IN  /\ c \in AddStates
             /\ r.end => c = r
             /\ ~r.end /\ known => c.end /\ c.list = r.list
             /\ ~r.end /\ ~known => ~c.end /\ c.list = Append(r.list, w)
<1> DEFINE c == AddElement(r, w)
           known == findDclName(r.list, w.name, w.structureParent)
<1>1. c = IF r.end THEN r ELSE IF known THEN [r EXCEPT !.end = TRUE] ELSE [r EXCEPT !.list = Append(r.list, w)]
  BY DEF AddElement
<1>2. [r EXCEPT !.end = TRUE] \in AddStates /\ [r EXCEPT !.end = TRUE].end /\ [r EXCEPT !.end = TRUE].list = r.list
  BY DEF AddStates
<1>3. Append(r.list, w) \in Seq(DeclareElement)
  <2>1. r.list \in Seq(DeclareElement)
    BY DEF AddStates
  <2> QED BY <2>1, AppendProperties
<1>4. /\ [r EXCEPT !.list = Append(r.list, w)] \in AddStates
      /\ [r EXCEPT !.list = Append(r.list, w)].list = Append(r.list, w)
  <2> DEFINE x == Append(r.list, w)
  <2>1. x \in Seq(DeclareElement)
    BY <1>3
  <2> HIDE DEF x
  <2>2. [r EXCEPT !.list = x] \in AddStates /\ [r EXCEPT !.list = x].list = x
    BY <2>1 DEF AddStates
  <2> QED BY <2>2 DEF x
<1>5. ~r.end => ~[r EXCEPT !.list = Append(r.list, w)].end
  BY DEF AddStates
<1> HIDE DEF c, known
<1> QED BY <1>1, <1>2, <1>4, <1>5 DEF c, known

(* These states, from the first to the last. *)
AddSteps(acc, e, v) ==
  /\ acc[0] = [list |-> << >>, end |-> FALSE]
  /\ \A k \in Nat : k + 1 <= Len(e) => acc[k + 1] = AddElement(acc[k], e[k + 1])
  /\ acc[Len(e)] = v

(* There are such states. *)
LEMMA AddFold ==
  ASSUME NEW e \in Seq(DeclareElement)
  PROVE  \E acc : AddSteps(acc, e, addDclDeclareElementList(<< >>, e))
<1> DEFINE T == AddStates
           n == Len(e)
           base == [list |-> << >>, end |-> FALSE]
           F == [p \in T \X (1..n) |-> AddElement(p[1], e[p[2]])]
           Eq(g) == g = [s \in SUBSET (DOMAIN e) |->
                           IF s = {} THEN base ELSE AddElement(g[s \ {Max(s)}], e[Max(s)])]
           f == CHOOSE g : Eq(g)
<1>1. n \in Nat /\ DOMAIN e = 1..n /\ \A k \in 1..n : e[k] \in DeclareElement
  OBVIOUS
<1> HIDE DEF n
<1>2. F \in [T \X (1..n) -> T]
  <2>1. \A r \in T, k \in 1..n : AddElement(r, e[k]) \in T
    BY <1>1, AddElementIs
  <2> HIDE DEF T
  <2> QED BY <2>1
<1>b. base \in T
  <2>1. << >> \in Seq(DeclareElement)
    OBVIOUS
  <2> QED BY <2>1 DEF AddStates
<1> HIDE DEF base
<1>3. \E g : Eq(g)
  <2>1. PICK g \in [SUBSET (1..n) -> T] : FoldEquation(g, n, F, base)
    <3> HIDE DEF T, F
    <3> QED BY <1>1, <1>2, <1>b, FoldExists
  <2>2. \A s \in SUBSET (1..n) : s # {} => Max(s) \in 1..n /\ g[s] = AddElement(g[s \ {Max(s)}], e[Max(s)])
    <3> SUFFICES ASSUME NEW s \in SUBSET (1..n), s # {}
                 PROVE  Max(s) \in 1..n /\ g[s] = AddElement(g[s \ {Max(s)}], e[Max(s)])
      OBVIOUS
    <3>1. Max(s) \in s /\ g[s] = F[<< g[s \ {Max(s)}], Max(s) >>]
      <4> HIDE DEF T, F
      <4> QED BY <2>1 DEF FoldEquation
    <3>2. Max(s) \in 1..n
      BY <3>1
    <3>3. s \ {Max(s)} \in SUBSET (1..n)
      OBVIOUS
    <3>4. g[s \ {Max(s)}] \in T
      <4> HIDE DEF T
      <4> QED BY <3>3
    <3> HIDE DEF T
    <3> QED BY <3>1, <3>2, <3>4
  <2>3. g = [s \in SUBSET (1..n) |-> g[s]] /\ g[{}] = base
    <3> HIDE DEF T
    <3> QED BY <2>1 DEF FoldEquation
  <2>4. Eq(g)
    <3> HIDE DEF T
    <3> QED BY <1>1, <2>2, <2>3
  <2> HIDE DEF Eq
  <2> QED BY <2>4
<1>4. Eq(f)
  <2> HIDE DEF Eq
  <2> QED BY <1>3
<1>5. addDclDeclareElementList(<< >>, e) = f[DOMAIN e]
  BY DEF addDclDeclareElementList, FoldLeft, MapThenFoldSet, base
<1>6. Solves(f, DOMAIN e, T, n, F, base)
  <2> HIDE DEF f, T
  <2> QED BY <1>1, <1>4 DEF Solves
<1>7. PICK acc : Steps(acc, T, n, F, base, f[DOMAIN e])
  <2> HIDE DEF f, F, T
  <2> QED BY <1>1, <1>2, <1>6, <1>b, FoldSteps
<1>8. \A k \in Nat : k + 1 <= n => acc[k + 1] = AddElement(acc[k], e[k + 1])
  <2> SUFFICES ASSUME NEW k \in Nat, k + 1 <= n PROVE acc[k + 1] = AddElement(acc[k], e[k + 1])
    OBVIOUS
  <2>1. k \in 0..n /\ k + 1 \in 1..n /\ (k + 1) - 1 = k
    BY <1>1
  <2>2. acc[k] \in T /\ acc[k + 1] = F[<< acc[k], k + 1 >>]
    <3> HIDE DEF F, T
    <3> QED BY <1>7, <2>1 DEF Steps
  <2> HIDE DEF T
  <2> QED BY <2>1, <2>2
<1> HIDE DEF f, F, T
<1> QED BY <1>5, <1>7, <1>8 DEF Steps, AddSteps, n, base

(* Two names that are the same. *)
SameName(k, l) == k.name = l.name /\ k.structureParent = l.structureParent

(* After k elements: the list is the elements up to the first that is in it  *)
(* already; when parents are right, no name is in it twice.                  *)
AddInv(e, r, k) ==
  /\ r \in AddStates
  /\ Len(r.list) <= k
  /\ \A i \in 1..Len(r.list) : r.list[i] = e[i]
  /\ ~r.end => Len(r.list) = k
  /\ r.end => \E i, j \in 1..Len(e) : i < j /\ SameName(e[i], e[j])
  /\ (\A i \in 1..Len(e) : e[i].structureParent # NULL <=> e[i].structureLevel > 1) =>
       \A i, j \in 1..Len(r.list) : i # j => ~SameName(r.list[i], r.list[j])

(* One element more. *)
LEMMA AddStep ==
  ASSUME NEW e \in Seq(DeclareElement), \A i \in 1..Len(e) : e[i].structureLevel <= 1 => e[i].structureParent = NULL,
         NEW k \in Nat, k + 1 <= Len(e), NEW r, AddInv(e, r, k)
  PROVE  AddInv(e, AddElement(r, e[k + 1]), k + 1)
<1> DEFINE n == Len(e)
           w == e[k + 1]
           c == AddElement(r, w)
           known == findDclName(r.list, w.name, w.structureParent)
           m == Len(r.list)
           Right == \A i \in 1..n : e[i].structureParent # NULL <=> e[i].structureLevel > 1
<1>1. n \in Nat /\ k + 1 \in 1..n /\ w \in DeclareElement /\ \A i \in 1..n : e[i] \in DeclareElement
  OBVIOUS
<1>l. \A i \in 1..n : e[i].structureLevel \in Int
  BY <1>1 DEF DeclareElement
<1>2. r \in AddStates /\ r.list \in Seq(DeclareElement) /\ m \in Nat /\ m <= k /\ DOMAIN r.list = 1..m
  BY DEF AddInv, AddStates
<1>3. /\ c \in AddStates
      /\ r.end => c = r
      /\ ~r.end /\ known => c.end /\ c.list = r.list
      /\ ~r.end /\ ~known => ~c.end /\ c.list = Append(r.list, w)
  <2> HIDE DEF w
  <2> QED BY <1>1, <1>2, AddElementIs
<1>4. \A i \in 1..m : r.list[i] = e[i] /\ i \in 1..n /\ i <= k
  <2>1. \A i \in 1..m : i \in 1..n /\ i <= k
    BY <1>1, <1>2
  <2> QED BY <2>1 DEF AddInv
<1>5. /\ r.end => \E i, j \in 1..n : i < j /\ SameName(e[i], e[j])
      /\ Right => \A i, j \in 1..m : i # j => ~SameName(r.list[i], r.list[j])
  BY DEF AddInv
<1>k. known <=> \E i \in 1..m :
                  /\ e[i].name = w.name
                  /\ IF w.structureParent # NULL THEN e[i].structureParent = w.structureParent
                     ELSE e[i].structureLevel <= 1
  <2> HIDE DEF w, m
  <2> QED BY <1>2, <1>4 DEF findDclName
<1>6. CASE r.end
  <2>1. m <= k + 1
    BY <1>2
  <2> HIDE DEF n, w, m, c, Right
  <2> QED BY <1>2, <1>3, <1>4, <1>5, <1>6, <2>1 DEF AddInv, n, m, c, w, Right
<1>7. CASE ~r.end /\ known
  <2>1. m <= k + 1 /\ c.end /\ c.list = r.list
    BY <1>2, <1>3, <1>7
  <2>2. PICK i \in 1..m : /\ e[i].name = w.name
                          /\ IF w.structureParent # NULL THEN e[i].structureParent = w.structureParent
                             ELSE e[i].structureLevel <= 1
    BY <1>7, <1>k
  <2>3. i \in 1..n /\ i < k + 1
    BY <1>1, <1>4, <1>2
  <2>4. SameName(e[i], w)
    BY <2>2, <2>3 DEF SameName
  <2>5. \E x, y \in 1..n : x < y /\ SameName(e[x], e[y])
    BY <1>1, <2>3, <2>4
  <2> HIDE DEF n, w, m, c, Right, known
  <2> QED BY <1>2, <1>3, <1>4, <1>5, <2>1, <2>5 DEF AddInv, n, m, c, w, Right
<1>8. CASE ~r.end /\ ~known
  <2>1. ~c.end /\ c.list = Append(r.list, w)
    BY <1>3, <1>8
  <2>2. m = k
    BY <1>8 DEF AddInv
  <2>3. /\ Len(c.list) = k + 1 /\ c.list[k + 1] = w
        /\ \A i \in 1..m : c.list[i] = r.list[i]
    <3> HIDE DEF w, c
    <3> QED BY <1>1, <1>2, <2>1, <2>2
  <2>4. \A i \in 1..(k + 1) : i \in 1..m \/ i = k + 1
    BY <2>2
  <2>5. \A i \in 1..(k + 1) : c.list[i] = e[i]
    BY <1>4, <2>3, <2>4
  <2>6. ASSUME Right, NEW i \in 1..m PROVE ~SameName(e[i], w)
    <3>1. i \in 1..n
      BY <1>4
    <3>2. ~(e[i].structureLevel <= 1) => e[i].structureLevel > 1
      BY <1>l, <3>1
    <3> HIDE DEF w
    <3> QED BY <1>8, <1>k, <2>6, <3>1, <3>2 DEF SameName
  <2>7. ASSUME Right, NEW i \in 1..(k + 1), NEW j \in 1..(k + 1), i # j
        PROVE  ~SameName(c.list[i], c.list[j])
    <3>1. (i \in 1..m /\ j \in 1..m) \/ (i \in 1..m /\ j = k + 1) \/ (i = k + 1 /\ j \in 1..m)
      BY <2>4, <2>7
    <3> HIDE DEF c, w, m
    <3>2. i \in 1..m /\ j = k + 1 => ~SameName(c.list[i], c.list[j])
      BY <2>3, <2>5, <2>6, <2>7
    <3>3. i = k + 1 /\ j \in 1..m => ~SameName(c.list[i], c.list[j])
      BY <2>3, <2>5, <2>6, <2>7 DEF SameName
    <3>4. i \in 1..m /\ j \in 1..m => ~SameName(c.list[i], c.list[j])
      BY <1>5, <2>3, <2>7
    <3> QED BY <3>1, <3>2, <3>3, <3>4
  <2>8. k + 1 <= k + 1
    OBVIOUS
  <2> HIDE DEF n, w, m, c, Right, known
  <2> QED BY <1>3, <2>1, <2>3, <2>5, <2>7, <2>8 DEF AddInv, n, m, c, w, Right
<1> QED BY <1>6, <1>7, <1>8

(* What addDclDeclareElementList has done. *)
LEMMA AddDone ==
  ASSUME NEW e \in Seq(DeclareElement), \A i \in 1..Len(e) : e[i].structureLevel <= 1 => e[i].structureParent = NULL
  PROVE  AddInv(e, addDclDeclareElementList(<< >>, e), Len(e))
<1> DEFINE n == Len(e)
<1>1. PICK acc : AddSteps(acc, e, addDclDeclareElementList(<< >>, e))
  BY AddFold
<1>n. n \in Nat
  OBVIOUS
<1> DEFINE S == {k \in Nat : k <= n => AddInv(e, acc[k], k)}
<1>2. 0 \in S
  <2> DEFINE r == [list |-> << >>, end |-> FALSE]
  <2>1. << >> \in Seq(DeclareElement) /\ Len(<< >>) = 0 /\ 1..0 = {}
    OBVIOUS
  <2>2. r \in AddStates
    BY <2>1 DEF AddStates
  <2>3. r.list = << >> /\ ~r.end
    OBVIOUS
  <2>4. 0 <= 0
    OBVIOUS
  <2> HIDE DEF r
  <2>5. AddInv(e, r, 0)
    BY <2>1, <2>2, <2>3, <2>4 DEF AddInv
  <2> QED BY <1>1, <2>5 DEF AddSteps, r
<1>3. ASSUME NEW k \in Nat, k \in S PROVE k + 1 \in S
  <2> SUFFICES ASSUME k + 1 <= n PROVE AddInv(e, acc[k + 1], k + 1)
    OBVIOUS
  <2>1. AddInv(e, acc[k], k)
    BY <1>3
  <2>2. acc[k + 1] = AddElement(acc[k], e[k + 1])
    BY <1>1 DEF AddSteps
  <2> QED BY <2>1, <2>2, AddStep
<1>4. n \in S
  <2> HIDE DEF S
  <2> QED BY <1>n, <1>2, <1>3, NatSetInduction
<1> QED BY <1>1, <1>n, <1>4 DEF AddSteps

-----------------------------------------------------------------------------
(* The inductive invariant. *)

(* How far the statement may be. *)
Parsers == {"reading", "conflict", "levels", "duplicate", "declared"}

(* The attributes: the records say what the text says, or the parse has ended for a reason. *)
AttributesInv(x, h, w, o, p) ==
  /\ HeapOK(h) /\ Signed(h) /\ Pointing(x, h)
  /\ w \in Seq(AttributeLists) /\ Len(w) = Len(x)
  /\ OpensOK(o, Len(x))
  /\ p # "conflict" => AllRight(x, h, w)
  /\ p = "reading" => Separate(x, h, o)
  /\ p = "conflict" => Contradictions(w) \/ Unseen(x, h)

(* The structures, and the names that the scope gets. *)
StructuresInv(x, p, d) ==
  /\ d \in Seq(DeclareElement)
  /\ p \in {"reading", "conflict"} => Unlinked(x)
  /\ p \in {"reading", "conflict", "levels"} => d = << >>
  /\ p \in {"declared", "duplicate"} /\ Meet(LevelsOf(x), Len(x)) => Linked(x, LevelsOf(x), Len(x))
  /\ Meet(LevelsOf(x), Len(x)) => \A i, j \in 1..Len(d) : i # j => ~SameName(d[i], d[j])
  /\ p = "declared" => d = x
  /\ p = "duplicate" => \E i, j \in 1..Len(x) : i < j /\ SameName(x[i], x[j])

(* The inductive invariant. *)
DInv ==
  /\ vocabulary \in Vocabularies
  /\ parser \in Parsers
  /\ AttributesInv(elem, heap, written, open, parser)
  /\ StructuresInv(elem, parser, dcl)

(* Before the end of the statement nothing is added to the scope. *)
LEMMA NothingDeclared ==
  ASSUME NEW x, NEW p \in {"reading", "conflict"}, Unlinked(x)
  PROVE  StructuresInv(x, p, << >>)
<1>1. << >> \in Seq(DeclareElement) /\ 1..Len(<< >>) = {}
  OBVIOUS
<1> QED BY <1>1 DEF StructuresInv

(* A statement starts with no names. *)
LEMMA InitInv ==
  ASSUME Init
  PROVE  DInv
<1>1. elem = << >> /\ open = << >> /\ heap.list = << >> /\ heap.union = << >> /\ parser = "reading" /\ dcl = << >>
      /\ written = << >> /\ vocabulary \in Vocabularies
  BY DEF Init
<1>2. /\ << >> \in Seq(DeclareElement) /\ << >> \in Seq(OpenRecords) /\ << >> \in Seq(AttributeLists)
      /\ << >> \in Seq(ListRecords) /\ << >> \in Seq(UnionRecords) /\ Len(<< >>) = 0 /\ 1..0 = {}
  OBVIOUS
<1>3. heap \in Heaps
  BY <1>2 DEF Init, Heaps
<1>4. HeapOK(heap) /\ Signed(heap)
  <2>1. HeapOK(heap)
    BY <1>1, <1>2, <1>3 DEF HeapOK
  <2>2. \A b \in 0..0 : b = NULL
    BY DEF NULL
  <2>3. \A f \in Typed : FieldAt(heap, NULL, f) = -1
    BY DEF FieldAt, UnionAt
  <2>4. Signed(heap)
    BY <1>1, <1>2, <2>2, <2>3 DEF Signed
  <2> QED BY <2>1, <2>4
<1>5. Pointing(elem, heap) /\ AllRight(elem, heap, written) /\ Separate(elem, heap, open) /\ OpensOK(open, Len(elem))
      /\ Unlinked(elem)
  BY <1>1, <1>2 DEF Pointing, AllRight, Separate, OpensOK, Unlinked
<1>6. AttributesInv(elem, heap, written, open, parser)
  BY <1>1, <1>2, <1>4, <1>5 DEF AttributesInv
<1>7. StructuresInv(elem, parser, dcl)
  BY <1>1, <1>5, NothingDeclared
<1> QED BY <1>1, <1>6, <1>7 DEF DInv, Parsers

(* The vocabulary of a statement. *)
LEMMA VocabularyIs ==
  ASSUME NEW v \in Vocabularies
  PROVE  /\ \A level \in v.levels : level \in Int
         /\ v.attributes \subseteq AttributeLists /\ v.factors \subseteq AttributeLists
         /\ \A name \in v.names, a \in Nat, level \in v.levels :
              LET e == newDeclareElement(name, a, level)
              IN  /\ e \in DeclareElement /\ e.dclAttr = a /\ e.structureParent = NULL
                  /\ e.structureSibling = NULL /\ e.structureFirstChild = NULL
<1>1. /\ v.levels \subseteq Nat \cup {-1}
      /\ v.attributes \subseteq AttributeLists /\ v.factors \subseteq AttributeLists
  BY VocabularyAssumption
<1>2. \A level \in v.levels : level \in Int
  BY <1>1
<1>3. ASSUME NEW name \in v.names, NEW a \in Nat, NEW level \in v.levels
      PROVE  LET e == newDeclareElement(name, a, level)
             IN  /\ e \in DeclareElement /\ e.dclAttr = a /\ e.structureParent = NULL
                 /\ e.structureSibling = NULL /\ e.structureFirstChild = NULL
  <2>1. name \in UNION {x.names : x \in Vocabularies} /\ level \in Int /\ NULL \in Nat
    BY <1>2 DEF NULL
  <2> QED BY <2>1 DEF newDeclareElement, DeclareElement
<1> QED BY <1>1, <1>2, <1>3

(* The element of a name with the options d, and the heap with them. *)
LEMMA NameKept ==
  ASSUME NEW h, HeapOK(h), Signed(h), NEW names \in AttributeLists, NEW d \in Options,
         OptionsTo(names, Len(names), d), d.ok,
         NEW g, NEW a, IF d.uniontype # "UNKNOWN" THEN g = Allocate(h, d) /\ a = Len(g.list) ELSE g = h /\ a = NULL
  PROVE  /\ HeapOK(g) /\ Signed(g) /\ Len(h.list) <= Len(g.list) /\ a \in 0..Len(g.list)
         /\ \A b \in 0..Len(h.list) : Same(h, g, b) /\ SameFields(h, g, b) /\ ~Shares(g, b, a) /\ ~Shares(g, a, b)
         /\ NameRight(names, g, a)
<1>o. /\ \A f \in Storage \cup Typed : d.set[f] \in Nat \cup {-1}
      /\ d.uniontype = "UNKNOWN" => \A f \in Typed : d.set[f] = -1
  BY OptionFacts
<1>n. Len(h.list) \in Nat
  BY HeapFacts
<1>1. CASE d.uniontype # "UNKNOWN"
  <2>1. Allocated(h, g, d) /\ a = Len(g.list)
    BY <1>1, <1>o, AllocateIs
  <2>2. /\ HeapOK(g) /\ Signed(g) /\ a = Len(h.list) + 1 /\ Says(g, a, d) /\ a \in 1..Len(g.list)
        /\ Len(h.list) <= Len(g.list)
        /\ \A b \in 0..Len(h.list) :
             Same(h, g, b) /\ SameFields(h, g, b) /\ ~Shares(g, b, a) /\ ~Shares(g, a, b)
    BY <2>1, AllocatedFresh
  <2>3. NameRight(names, g, a)
    BY <2>2, NewRight
  <2>4. a \in 0..Len(g.list)
    BY <2>2
  <2> QED BY <2>2, <2>3, <2>4
<1>2. CASE d.uniontype = "UNKNOWN"
  <2>1. g = h /\ a = NULL
    BY <1>2
  <2>2. Says(h, NULL, d)
    BY <1>2, <1>o DEF Says, TypeAt, FieldAt, UnionAt, OwnAt
  <2>3. NameRight(names, h, NULL)
    BY <2>2, NewRight
  <2>4. a \in 0..Len(g.list) /\ Len(h.list) <= Len(g.list)
    BY <1>n, <2>1 DEF NULL
  <2> QED BY <2>1, <2>3, <2>4 DEF Same, SameFields, Shares
<1> QED BY <1>1, <1>2

(* A name and its attributes (dclnamebase). *)
LEMMA NameStep ==
  ASSUME DInv, NEW name \in vocabulary.names, NEW level \in vocabulary.levels, NEW names \in vocabulary.attributes,
         Name(name, level, names)
  PROVE  DInv'
<1> DEFINE dol == dcloptionlist(names)
           kept == dol.ok /\ dol.uniontype # "UNKNOWN"
           a == IF kept THEN Len(heap'.list) ELSE NULL
           e == newDeclareElement(name, a, level)
           n == Len(elem)
<1>1. /\ parser = "reading"
      /\ heap' = IF kept THEN Allocate(heap, dol) ELSE heap
      /\ elem' = Append(elem, e)
      /\ written' = Append(written, names)
      /\ parser' = IF dol.ok THEN "reading" ELSE "conflict"
      /\ vocabulary' = vocabulary /\ open' = open /\ dcl' = dcl
  BY DEF Name
<1>2. vocabulary \in Vocabularies /\ names \in AttributeLists
  BY VocabularyIs DEF DInv
<1>3. dol \in Options /\ OptionsTo(names, Len(names), dol)
  BY <1>2, OptionsOf
<1>4. /\ HeapOK(heap) /\ Signed(heap) /\ Pointing(elem, heap) /\ written \in Seq(AttributeLists) /\ Len(written) = n
      /\ OpensOK(open, n) /\ AllRight(elem, heap, written) /\ Separate(elem, heap, open) /\ Unlinked(elem)
      /\ dcl = << >>
  BY <1>1 DEF DInv, AttributesInv, StructuresInv
<1>5. elem \in Seq(DeclareElement) /\ n \in Nat /\ Len(heap.list) \in Nat
  BY <1>4, HeapFacts DEF Pointing
<1>e. a \in Nat => /\ e \in DeclareElement /\ e.dclAttr = a /\ e.structureParent = NULL
                   /\ e.structureSibling = NULL /\ e.structureFirstChild = NULL
  <2> HIDE DEF a
  <2> QED BY <1>2, VocabularyIs
<1>p. vocabulary' \in Vocabularies /\ parser' \in Parsers /\ parser' \in {"reading", "conflict"} /\ dcl' = << >>
  BY <1>1, <1>2, <1>4 DEF Parsers
<1> HIDE DEF dol, e, a, n
<1>6. CASE dol.ok
  <2>1. IF dol.uniontype # "UNKNOWN" THEN heap' = Allocate(heap, dol) /\ a = Len(heap'.list) ELSE heap' = heap /\ a = NULL
    BY <1>1, <1>6 DEF a
  <2>2. /\ HeapOK(heap') /\ Signed(heap') /\ Len(heap.list) <= Len(heap'.list) /\ a \in 0..Len(heap'.list)
        /\ \A b \in 0..Len(heap.list) : /\ Same(heap, heap', b) /\ SameFields(heap, heap', b)
                                        /\ ~Shares(heap', b, a) /\ ~Shares(heap', a, b)
        /\ NameRight(names, heap', a)
    BY <1>2, <1>3, <1>4, <1>6, <2>1, NameKept
  <2>3. a \in Nat
    BY <2>2, HeapFacts
  <2>4. e \in DeclareElement /\ e.dclAttr = a
    BY <1>e, <2>3
  <2> DEFINE y == Append(elem, e)
             v == Append(written, names)
  <2> HIDE DEF kept
  <2>5. /\ Pointing(y, heap') /\ AllRight(y, heap', v) /\ Separate(y, heap', open)
        /\ OpensOK(open, Len(y)) /\ v \in Seq(AttributeLists) /\ Len(v) = Len(y) /\ Len(y) = n + 1
        /\ y[Len(y)] = e /\ \A i \in 1..n : y[i] = elem[i]
    BY <1>2, <1>4, <2>2, <2>4, NamePart DEF n
  <2>6. elem' = y /\ written' = v /\ open' = open /\ parser' = "reading"
    BY <1>1, <1>6
  <2> HIDE DEF y, v
  <2>7. AttributesInv(y, heap', v, open, "reading")
    BY <2>2, <2>5 DEF AttributesInv
  <2>8. Unlinked(y)
    <3>1. \A i \in 1..Len(y) : i \in 1..n \/ i = Len(y)
      BY <1>5, <2>5
    <3> QED BY <1>4, <1>e, <2>3, <2>5, <3>1 DEF Unlinked, n
  <2>9. StructuresInv(y, parser', dcl')
    BY <1>p, <2>8, NothingDeclared
  <2> QED BY <1>p, <2>6, <2>7, <2>9 DEF DInv
<1>7. CASE ~dol.ok
  <2>1. heap' = heap /\ a = NULL /\ parser' = "conflict"
    BY <1>1, <1>7 DEF a
  <2>2. a \in Nat /\ NULL \in 0..Len(heap.list)
    BY <1>5, <2>1 DEF NULL
  <2>3. e \in DeclareElement /\ e.dclAttr = NULL
    BY <1>e, <2>1, <2>2
  <2> DEFINE y == Append(elem, e)
             v == Append(written, names)
  <2>4. /\ y \in Seq(DeclareElement) /\ Len(y) = n + 1 /\ y[n + 1] = e /\ \A i \in 1..n : y[i] = elem[i]
    BY <1>5, <2>3, AppendIs DEF n
  <2>5. /\ v \in Seq(AttributeLists) /\ Len(v) = n + 1 /\ v[n + 1] = names
    BY <1>2, <1>4, AppendIs
  <2>6. elem' = y /\ written' = v /\ open' = open
    BY <1>1
  <2> HIDE DEF y, v, kept
  <2>7. \A i \in 1..(n + 1) : i \in 1..n \/ i = n + 1
    BY <1>5
  <2>8. Pointing(y, heap)
    BY <1>4, <2>2, <2>3, <2>4, <2>7 DEF Pointing, n
  <2>9. Contradictions(v)
    <3>1. ContradictionTo(names, Len(names))
      BY <1>3, <1>7 DEF OptionsTo
    <3>2. n + 1 \in 1..(n + 1)
      BY <1>5
    <3> QED BY <2>5, <3>1, <3>2 DEF Contradictions
  <2>10. OpensOK(open, n + 1)
    BY <1>4, <1>5, OpensNext
  <2>11. AttributesInv(y, heap, v, open, "conflict")
    BY <1>4, <2>4, <2>5, <2>8, <2>9, <2>10 DEF AttributesInv
  <2>12. Unlinked(y)
    BY <1>4, <1>e, <2>2, <2>4, <2>7 DEF Unlinked, n
  <2>13. StructuresInv(y, parser', dcl')
    BY <1>p, <2>12, NothingDeclared
  <2> QED BY <1>p, <2>1, <2>6, <2>11, <2>13 DEF DInv
<1> QED BY <1>6, <1>7

(* A parenthesis is opened. *)
LEMMA OpenStep ==
  ASSUME DInv, NEW level \in vocabulary.levels, OpenParenthesis(level)
  PROVE  DInv'
<1> DEFINE n == Len(elem)
           q == [first |-> n + 1, level |-> level]
           m == Len(open)
           o == Append(open, q)
<1>1. /\ parser = "reading" /\ open' = o
      /\ vocabulary' = vocabulary /\ elem' = elem /\ heap' = heap /\ parser' = parser /\ dcl' = dcl /\ written' = written
  BY DEF OpenParenthesis
<1>2. /\ Pointing(elem, heap) /\ OpensOK(open, n) /\ Separate(elem, heap, open)
  BY <1>1 DEF DInv, AttributesInv
<1>3. n \in Nat /\ level \in Int
  BY <1>2, VocabularyIs DEF DInv, Pointing
<1> HIDE DEF n
<1>4. q \in OpenRecords /\ q.first = n + 1
  BY <1>3 DEF OpenRecords
<1> HIDE DEF q
<1>5. open \in Seq(OpenRecords) /\ m \in Nat /\ \A p \in 1..m : open[p].first <= n + 1
  BY <1>2 DEF OpensOK
<1>6. o \in Seq(OpenRecords) /\ Len(o) = m + 1 /\ o[m + 1] = q /\ \A p \in 1..m : o[p] = open[p]
  BY <1>4, <1>5, AppendIs
<1> HIDE DEF o, m
<1>7. \A p \in 1..(m + 1) : p \in 1..m \/ p = m + 1
  BY <1>5
<1>8. OpensOK(o, n)
  <2>1. \A p \in 1..(m + 1) : 1 <= o[p].first /\ o[p].first <= n + 1
    <3>1. 1 <= n + 1 /\ n + 1 <= n + 1
      BY <1>3
    <3> QED BY <1>2, <1>4, <1>6, <1>7, <3>1 DEF OpensOK, m
  <2>2. ASSUME NEW p \in 1..(m + 1), NEW r \in 1..(m + 1), p <= r PROVE o[p].first <= o[r].first
    <3>1. CASE r = m + 1
      BY <1>4, <1>6, <2>1, <3>1
    <3>2. CASE r \in 1..m
      <4>1. p \in 1..m
        BY <1>5, <2>2, <3>2
      <4> QED BY <1>2, <1>6, <2>2, <3>2, <4>1 DEF OpensOK, m
    <3> QED BY <1>7, <3>1, <3>2
  <2> QED BY <1>6, <2>1, <2>2 DEF OpensOK
<1>9. Separate(elem, heap, o)
  <2> SUFFICES ASSUME NEW p \in 1..(m + 1), NEW i \in 1..n, NEW j \in 1..n, i < o[p].first, o[p].first <= j
               PROVE  ~Shares(heap, elem[i].dclAttr, elem[j].dclAttr)
    BY <1>6 DEF Separate, n
  <2>1. p # m + 1
    BY <1>3, <1>4, <1>6
  <2>2. p \in 1..m
    BY <1>7, <2>1
  <2>3. o[p].first = open[p].first
    BY <1>6, <2>2
  <2> QED BY <1>2, <2>2, <2>3 DEF Separate, n, m
<1>10. AttributesInv(elem, heap, written, o, parser)
  BY <1>1, <1>8, <1>9 DEF DInv, AttributesInv, n
<1> QED BY <1>1, <1>10 DEF DInv

(* The innermost parenthesis is open behind the first of its names. *)
LEMMA LastOpen ==
  ASSUME DInv, open # << >>, Last(open).first <= Len(elem)
  PROVE  /\ Last(open) = open[Len(open)] /\ Len(open) \in 1..Len(open)
         /\ Last(open).first \in 1..Len(elem) /\ Last(open).level \in Int
         /\ OpensOK(Front(open), Len(elem))
<1>1. open \in Seq(OpenRecords) /\ Len(elem) \in Nat /\ OpensOK(open, Len(elem))
  BY DEF DInv, AttributesInv, OpensOK, Pointing
<1>2. Len(open) \in 1..Len(open)
  BY <1>1
<1>3. Last(open) = open[Len(open)]
  BY DEF Last
<1>4. open[Len(open)] \in OpenRecords
  BY <1>1, <1>2
<1>5. open[Len(open)].first \in Nat /\ open[Len(open)].level \in Int /\ 1 <= open[Len(open)].first
  BY <1>1, <1>2, <1>4 DEF OpenRecords, OpensOK
<1>6. OpensOK(Front(open), Len(elem))
  BY <1>1, <1>2, FrontOpen
<1> QED BY <1>1, <1>2, <1>3, <1>5, <1>6

(* A parenthesis is closed by CELL or UNION. *)
LEMMA CellStep ==
  ASSUME DInv, CloseCell
  PROVE  DInv'
<1>1. /\ parser = "reading" /\ open # << >> /\ Last(open).first <= Len(elem) /\ open' = Front(open)
      /\ vocabulary' = vocabulary /\ elem' = elem /\ heap' = heap /\ parser' = parser /\ dcl' = dcl /\ written' = written
  BY DEF CloseCell
<1>2. OpensOK(Front(open), Len(elem)) /\ OpensOK(open, Len(elem)) /\ Len(open) \in 1..Len(open)
  BY <1>1, LastOpen DEF DInv, AttributesInv
<1>3. \A p \in 1..Len(Front(open)) : p \in 1..Len(open) /\ Front(open)[p] = open[p]
  BY <1>2, FrontOpen
<1>4. Separate(elem, heap, Front(open))
  <2>1. Separate(elem, heap, open)
    BY <1>1 DEF DInv, AttributesInv
  <2> QED BY <1>3, <2>1 DEF Separate
<1>5. AttributesInv(elem, heap, written, Front(open), parser)
  BY <1>1, <1>2, <1>4 DEF DInv, AttributesInv
<1> QED BY <1>1, <1>5 DEF DInv

(* A factor that is in error. *)
LEMMA CloseInError ==
  ASSUME DInv, parser = "reading", NEW first \in 1..Len(elem), NEW names \in AttributeLists,
         ContradictionTo(names, Len(names)), NEW o, OpensOK(o, Len(elem))
  PROVE  /\ AttributesInv(elem, heap, WrittenWith(written, first, names), o, "conflict")
         /\ StructuresInv(elem, "conflict", dcl)
<1> DEFINE n == Len(elem)
           v == WrittenWith(written, first, names)
           l == written[first]
<1>1. /\ HeapOK(heap) /\ Signed(heap) /\ Pointing(elem, heap) /\ written \in Seq(AttributeLists) /\ Len(written) = n
      /\ Unlinked(elem) /\ dcl = << >>
  BY DEF DInv, AttributesInv, StructuresInv
<1>2. n \in Nat /\ first \in Nat /\ first >= first
  BY <1>1 DEF Pointing
<1>3. /\ v \in Seq(AttributeLists) /\ Len(v) = n
      /\ \A i \in 1..n : v[i] = IF i >= first THEN written[i] \o names ELSE written[i]
  <2> HIDE DEF v, n
  <2> QED BY <1>1, <1>2, WrittenWithIs DEF v
<1>4. l \in AttributeLists
  BY <1>1
<1> HIDE DEF v, l, n
<1>5. v[first] = l \o names /\ first \in 1..n
  BY <1>2, <1>3 DEF l, n
<1>6. Len(l \o names) = Len(l) + Len(names) /\ Joins(l \o names, l, Len(l), names, Len(names))
  BY <1>4, Join
<1>7. ContradictionTo(v[first], Len(v[first]))
  BY <1>5, <1>6, JoinContradiction
<1>8. Contradictions(v)
  BY <1>3, <1>5, <1>7 DEF Contradictions
<1> QED BY <1>1, <1>3, <1>8, NothingDeclared DEF AttributesInv, v, n

(* The records of a factor, next to those of the names. *)
LEMMA FactorKept ==
  ASSUME NEW x, NEW h, NEW w, NEW o, NEW names \in AttributeLists, NEW d \in Options,
         OptionsTo(names, Len(names), d), d.ok,
         HeapOK(h), Signed(h), Pointing(x, h), w \in Seq(AttributeLists), Len(w) = Len(x),
         OpensOK(o, Len(x)), Len(o) \in 1..Len(o), o[Len(o)].first \in 1..Len(x),
         AllRight(x, h, w), Separate(x, h, o),
         NEW g, NEW a, IF names = << >> THEN g = h /\ a = NULL ELSE g = Allocate(h, d) /\ a = Len(g.list)
  PROVE  Closing(x, g, w, o, a, d, names) /\ a \in 0..Len(g.list)
<1> DEFINE n == Len(x)
<1>n. Len(h.list) \in Nat
  BY HeapFacts
<1>1. CASE names = << >>
  <2>1. g = h /\ a = NULL /\ a \in 0..Len(g.list)
    BY <1>1, <1>n DEF NULL
  <2> QED BY <1>1, <2>1 DEF Closing
<1>2. CASE names # << >>
  <2>1. g = Allocate(h, d) /\ a = Len(g.list)
    BY <1>2
  <2>2. Allocated(h, g, d)
    BY <2>1, AllocateIs, OptionFacts
  <2>3. /\ HeapOK(g) /\ Signed(g) /\ a = Len(h.list) + 1 /\ Says(g, a, d) /\ a \in 1..Len(g.list)
        /\ Len(h.list) <= Len(g.list)
        /\ \A b \in 0..Len(h.list) :
             /\ Same(h, g, b) /\ SameFields(h, g, b) /\ b # a
             /\ UnionAt(g, a) # NULL => UnionAt(g, b) # UnionAt(g, a)
    BY <2>1, <2>2, AllocatedFresh
  <2>4. a # NULL /\ a \in 0..Len(g.list) /\ Len(g.list) \in Nat
    BY <1>n, <2>1, <2>3 DEF NULL
  <2>5. \A i \in 1..n : x[i].dclAttr \in 0..Len(h.list)
    BY DEF Pointing
  <2>6. Pointing(x, g)
    <3>1. \A b \in 0..Len(h.list) : b \in 0..Len(g.list)
      BY <1>n, <2>3, <2>4
    <3> QED BY <2>5, <3>1 DEF Pointing
  <2>7. AllRight(x, g, w)
    BY <2>3, <2>5, RightKept DEF AllRight
  <2>8. Separate(x, g, o)
    BY <2>3, <2>5, SharesKept DEF Separate
  <2>9. Factor(x, g, a, d)
    BY <2>3, <2>5 DEF Factor
  <2> QED BY <2>3, <2>4, <2>6, <2>7, <2>8, <2>9 DEF Closing
<1> QED BY <1>1, <1>2

(* The merge leaves the links alone. *)
LEMMA ElementsUnlinked ==
  ASSUME NEW x \in Seq(DeclareElement), Unlinked(x), NEW y, Len(y) = Len(x), NEW first, NEW k,
         NEW dol \in Nat, NEW level \in Int, Elements(x, y, first, k, dol, level)
  PROVE  Unlinked(y)
<1> SUFFICES ASSUME NEW i \in 1..Len(x)
             PROVE  y[i].structureParent = NULL /\ y[i].structureSibling = NULL /\ y[i].structureFirstChild = NULL
  BY DEF Unlinked
<1> DEFINE e == x[i]
<1>1. e \in DeclareElement
  OBVIOUS
<1>2. e.structureParent = NULL /\ e.structureSibling = NULL /\ e.structureFirstChild = NULL
  BY DEF Unlinked
<1>3. y[i] = Given(e, dol, level) \/ y[i] = e
  BY DEF Elements
<1> HIDE DEF e
<1>4. /\ Given(e, dol, level).structureParent = NULL /\ Given(e, dol, level).structureSibling = NULL
      /\ Given(e, dol, level).structureFirstChild = NULL
  BY <1>1, <1>2, GivenIs
<1> QED BY <1>2, <1>3, <1>4

(* A factor that is added to the names of the parenthesis. *)
LEMMA CloseMerged ==
  ASSUME NEW h, NEW dol, NEW d, NEW names, NEW o, NEW w, Closing(elem, h, w, o, dol, d, names),
         dol \in 0..Len(h.list), Unlinked(elem), NEW level \in Int,
         NEW r, r = mergeDeclareElements(h, o[Len(o)].first, dol, level)
  PROVE  LET p == IF r.ok THEN "reading" ELSE "conflict"
         IN  /\ AttributesInv(r.elem, r.heap, WrittenWith(w, o[Len(o)].first, names), Front(o), p)
             /\ Unlinked(r.elem)
<1> DEFINE n == Len(elem)
           first == o[Len(o)].first
           m == n - first + 1
           v == WrittenWith(w, first, names)
           N == Len(h.list)
<1>1. /\ HeapOK(h) /\ Signed(h) /\ Pointing(elem, h) /\ first \in 1..n /\ N \in Nat
      /\ w \in Seq(AttributeLists) /\ Len(w) = n /\ names \in AttributeLists /\ OpensOK(o, n) /\ Len(o) \in 1..Len(o)
  BY HeapFacts DEF Closing
<1>e. elem \in Seq(DeclareElement) /\ n \in Nat /\ first \in Nat
  BY <1>1 DEF Pointing
<1>d. dol \in Nat
  BY <1>1
<1>2. dol # NULL => \A i \in 1..n : elem[i].dclAttr # dol
  BY DEF Closing, Factor
<1>3. \A f \in Storage : OwnAt(h, dol, f) >= -1
  <2>1. CASE dol = NULL
    BY <2>1 DEF OwnAt
  <2>2. CASE dol # NULL
    <3>1. d \in Options /\ OptionsTo(names, Len(names), d) /\ d.ok /\ Says(h, dol, d)
      BY <2>2 DEF Closing, Factor
    <3>2. \A f \in Storage : d.set[f] \in Nat \cup {-1}
      BY <1>1, <3>1, OptionFacts
    <3>3. \A f \in Storage : OwnAt(h, dol, f) \in Nat \cup {-1}
      BY <3>1, <3>2 DEF Says
    <3> QED BY <3>3
  <2> QED BY <2>1, <2>2
<1> HIDE DEF n, first, v, N
<1>4. /\ r \in MergeStates(n, N)
      /\ \/ MergeInv(r, elem, h, first, m, dol, level)
         \/ \E k \in 1..m : MergeFailed(r, elem, h, first, k, dol, level)
  <2>1. first \in 1..Len(elem) /\ r = mergeDeclareElements(h, first, dol, level) /\ dol \in 0..Len(h.list)
    BY <1>1 DEF n, first
  <2>2. dol # NULL => \A i \in 1..Len(elem) : elem[i].dclAttr # dol
    BY <1>2 DEF n
  <2> QED BY <1>1, <1>3, <2>1, <2>2, MergeOutcome DEF n, N
<1>5. /\ Len(r.elem) = n /\ HeapOK(r.heap) /\ Signed(r.heap) /\ Pointing(r.elem, r.heap)
  BY <1>4 DEF MergeStates, Pointing
<1>6. OpensOK(Front(o), n)
  BY <1>1, FrontOpen
<1>7. v \in Seq(AttributeLists) /\ Len(v) = n
  BY <1>1, <1>e, WrittenWithIs DEF v
<1>8. CASE MergeInv(r, elem, h, first, m, dol, level)
  <2>1. Elements(elem, r.elem, first, m, dol, level) /\ HeapPart(h, r.heap, dol, Records(elem, first, m))
    BY <1>8 DEF MergeInv
  <2>2. AllRight(r.elem, r.heap, v) /\ Separate(r.elem, r.heap, Front(o))
    <3>1. /\ Len(r.elem) = Len(elem)
          /\ Elements(elem, r.elem, o[Len(o)].first, Len(elem) - o[Len(o)].first + 1, dol, level)
          /\ HeapPart(h, r.heap, dol, Records(elem, o[Len(o)].first, Len(elem) - o[Len(o)].first + 1))
      BY <1>5, <2>1 DEF n, first
    <3> QED BY <1>d, <3>1, CloseRight DEF v, first
  <2>3. Unlinked(r.elem)
    BY <1>5, <1>d, <1>e, <2>1, ElementsUnlinked DEF n
  <2>4. r.ok
    BY <1>8 DEF MergeInv
  <2>5. AttributesInv(r.elem, r.heap, v, Front(o), "reading")
    BY <1>5, <1>6, <1>7, <2>2 DEF AttributesInv
  <2> QED BY <2>3, <2>4, <2>5 DEF v, first
<1>9. ASSUME NEW k \in 1..m, MergeFailed(r, elem, h, first, k, dol, level)
      PROVE  AttributesInv(r.elem, r.heap, v, Front(o), "conflict") /\ Unlinked(r.elem) /\ ~r.ok
  <2>1. Elements(elem, r.elem, first, k, dol, level) /\ ~r.ok
    BY <1>9 DEF MergeFailed
  <2>2. Contradictions(v) \/ Unseen(r.elem, r.heap)
    <3>1. /\ Len(r.elem) = Len(elem) /\ k \in 1..(Len(elem) - o[Len(o)].first + 1)
          /\ MergeFailed(r, elem, h, o[Len(o)].first, k, dol, level)
      BY <1>5, <1>9 DEF n, first
    <3> QED BY <1>d, <3>1, CloseConflict DEF v, first
  <2>3. Unlinked(r.elem)
    BY <1>5, <1>d, <1>e, <2>1, ElementsUnlinked DEF n
  <2>4. AttributesInv(r.elem, r.heap, v, Front(o), "conflict")
    BY <1>5, <1>6, <1>7, <2>2 DEF AttributesInv
  <2> QED BY <2>1, <2>3, <2>4
<1> QED BY <1>4, <1>8, <1>9 DEF v, first

(* A parenthesis is closed and its factor added (dclterm). *)
LEMMA CloseStep ==
  ASSUME DInv, NEW names \in vocabulary.factors, CloseParenthesis(names)
  PROVE  DInv'
<1> DEFINE p == Last(open)
           dol == dcloptionlist(names)
           h == IF names = << >> THEN heap ELSE Allocate(heap, dol)
           a == IF names = << >> THEN NULL ELSE Len(h.list)
           r == mergeDeclareElements(h, p.first, a, p.level)
           v == WrittenWith(written, p.first, names)
<1>1. /\ parser = "reading" /\ open # << >> /\ p.first <= Len(elem) /\ open' = Front(open)
      /\ IF dol.ok
         THEN elem' = r.elem /\ heap' = r.heap /\ parser' = IF r.ok THEN "reading" ELSE "conflict"
         ELSE parser' = "conflict" /\ elem' = elem /\ heap' = heap
      /\ written' = v /\ vocabulary' = vocabulary /\ dcl' = dcl
  BY DEF CloseParenthesis, WrittenWith
<1>2. /\ p = open[Len(open)] /\ Len(open) \in 1..Len(open) /\ p.first \in 1..Len(elem) /\ p.level \in Int
      /\ OpensOK(Front(open), Len(elem))
  BY <1>1, LastOpen
<1>3. vocabulary \in Vocabularies /\ names \in AttributeLists
  BY VocabularyIs DEF DInv
<1>4. dol \in Options /\ OptionsTo(names, Len(names), dol)
  BY <1>3, OptionsOf
<1>5. /\ HeapOK(heap) /\ Signed(heap) /\ Pointing(elem, heap) /\ written \in Seq(AttributeLists)
      /\ Len(written) = Len(elem) /\ OpensOK(open, Len(elem))
      /\ AllRight(elem, heap, written) /\ Separate(elem, heap, open) /\ Unlinked(elem) /\ dcl = << >>
  BY <1>1 DEF DInv, AttributesInv, StructuresInv
<1>6. CASE dol.ok
  <2>1. IF names = << >> THEN h = heap /\ a = NULL ELSE h = Allocate(heap, dol) /\ a = Len(h.list)
    OBVIOUS
  <2> HIDE DEF h, a, dol
  <2>2. open[Len(open)].first \in 1..Len(elem)
    BY <1>2
  <2>3. Closing(elem, h, written, open, a, dol, names) /\ a \in 0..Len(h.list)
    BY <1>2, <1>3, <1>4, <1>5, <1>6, <2>1, <2>2, FactorKept
  <2>4. r = mergeDeclareElements(h, open[Len(open)].first, a, p.level)
    BY <1>2
  <2>5. v = WrittenWith(written, open[Len(open)].first, names)
    BY <1>2
  <2>6. elem' = r.elem /\ heap' = r.heap /\ parser' = (IF r.ok THEN "reading" ELSE "conflict")
    BY <1>1, <1>6
  <2>7. parser' \in {"reading", "conflict"}
    BY <2>6
  <2> HIDE DEF p, r, v
  <2>8. /\ AttributesInv(r.elem, r.heap, v, Front(open), IF r.ok THEN "reading" ELSE "conflict")
        /\ Unlinked(r.elem)
    BY <1>2, <1>5, <2>3, <2>4, <2>5, CloseMerged
  <2>9. AttributesInv(elem', heap', written', open', parser')
    BY <1>1, <2>6, <2>8
  <2>10. StructuresInv(elem', parser', dcl')
    BY <1>1, <1>5, <2>6, <2>7, <2>8, NothingDeclared
  <2> QED BY <1>1, <1>3, <2>7, <2>9, <2>10 DEF DInv, Parsers
<1>7. CASE ~dol.ok
  <2>1. parser' = "conflict" /\ elem' = elem /\ heap' = heap
    BY <1>1, <1>7
  <2>2. ContradictionTo(names, Len(names))
    BY <1>4, <1>7 DEF OptionsTo
  <2> HIDE DEF p, dol, r, h, a
  <2>3. /\ AttributesInv(elem, heap, v, Front(open), "conflict")
        /\ StructuresInv(elem, "conflict", dcl)
    BY <1>1, <1>2, <1>3, <2>2, CloseInError
  <2> QED BY <1>1, <1>3, <2>1, <2>3 DEF DInv, Parsers
<1> QED BY <1>6, <1>7

(* Links do not count for the attributes. *)
LEMMA PlainKept ==
  ASSUME NEW a, NEW x, SamePlain(x, a), NEW h, NEW w, Pointing(a, h), AllRight(a, h, w)
  PROVE  Pointing(x, h) /\ AllRight(x, h, w)
<1>1. x \in Seq(DeclareElement) /\ Len(x) = Len(a) /\ \A i \in 1..Len(a) : x[i].dclAttr = a[i].dclAttr
  BY DEF SamePlain, Plain
<1> QED BY <1>1 DEF Pointing, AllRight

(* The levels are checked and the names added to the scope (dclstmt). *)
LEMMA EndStep ==
  ASSUME DInv, EndOfDeclare
  PROVE  DInv'
<1> DEFINE r == checkStructureLevels
           d == addDclDeclareElementList(dcl, r.elem)
           n == Len(elem)
           l == LevelsOf(elem)
           e == r.elem
<1>1. /\ parser = "reading" /\ elem' = e
      /\ IF r.ok THEN dcl' = d.list /\ parser' = (IF d.end THEN "duplicate" ELSE "declared")
         ELSE dcl' = dcl /\ parser' = "levels"
      /\ vocabulary' = vocabulary /\ open' = open /\ heap' = heap /\ written' = written
  BY DEF EndOfDeclare
<1>2. /\ HeapOK(heap) /\ Signed(heap) /\ Pointing(elem, heap) /\ written \in Seq(AttributeLists)
      /\ Len(written) = n /\ OpensOK(open, n) /\ AllRight(elem, heap, written) /\ Unlinked(elem) /\ dcl = << >>
  BY <1>1 DEF DInv, AttributesInv, StructuresInv
<1>3. elem \in Seq(DeclareElement) /\ n \in Nat
  BY <1>2 DEF Pointing
<1>4. LevelInv(elem, r, n)
  <2>1. \A i \in 1..Len(elem) : NoLinks(elem[i])
    BY <1>2 DEF Unlinked, NoLinks
  <2> QED BY <1>3, <2>1, LevelsDone
<1>d. d = addDclDeclareElementList(<< >>, e)
  BY <1>2
<1> HIDE DEF r, d
<1>5. /\ SamePlain(e, elem) /\ e \in Seq(DeclareElement) /\ Len(e) = n
      /\ \A i \in 1..n : l[i] <= 1 => e[i].structureParent = NULL
      /\ r.ok /\ Meet(l, n) => Linked(e, l, n)
  BY <1>4 DEF LevelInv, SamePlain
<1>6. LevelsOf(e) = l /\ \A i \in 1..n : e[i].structureLevel = l[i]
  BY <1>3, <1>5, SameLevels
<1>7. Pointing(e, heap) /\ AllRight(e, heap, written)
  BY <1>2, <1>5, PlainKept
<1> HIDE DEF e, l, n
<1>8. AddInv(e, d, n)
  <2>1. \A i \in 1..Len(e) : e[i].structureLevel <= 1 => e[i].structureParent = NULL
    BY <1>5, <1>6
  <2> QED BY <1>5, <1>d, <2>1, AddDone
<1>p. parser' \in {"levels", "duplicate", "declared"}
  <2>1. r.ok => parser' \in {"duplicate", "declared"}
    BY <1>1
  <2>2. ~r.ok => parser' = "levels"
    BY <1>1
  <2> QED BY <2>1, <2>2
<1>9. AttributesInv(e, heap, written, open, parser')
  BY <1>2, <1>5, <1>7, <1>p DEF AttributesInv, n
<1>10. CASE ~r.ok
  <2>1. parser' = "levels" /\ dcl' = << >>
    BY <1>1, <1>2, <1>10
  <2>2. << >> \in Seq(DeclareElement) /\ 1..Len(<< >>) = {}
    OBVIOUS
  <2>3. StructuresInv(e, parser', dcl')
    BY <2>1, <2>2 DEF StructuresInv
  <2> QED BY <1>1, <1>9, <1>p, <2>3 DEF DInv, Parsers
<1>11. CASE r.ok
  <2> DEFINE x == d.list
  <2>1. dcl' = x /\ (d.end => parser' = "duplicate") /\ (~d.end => parser' = "declared")
    BY <1>1, <1>11
  <2>2. /\ x \in Seq(DeclareElement)
        /\ \A i \in 1..Len(x) : x[i] = e[i]
        /\ ~d.end => Len(x) = n
        /\ d.end => \E i, j \in 1..Len(e) : i < j /\ SameName(e[i], e[j])
        /\ (\A i \in 1..Len(e) : e[i].structureParent # NULL <=> e[i].structureLevel > 1) =>
             \A i, j \in 1..Len(x) : i # j => ~SameName(x[i], x[j])
    BY <1>8 DEF AddInv, AddStates
  <2> HIDE DEF x
  <2>3. Meet(LevelsOf(e), Len(e)) => Linked(e, LevelsOf(e), Len(e))
    BY <1>5, <1>6, <1>11
  <2>4. Meet(LevelsOf(e), Len(e)) => \A i, j \in 1..Len(x) : i # j => ~SameName(x[i], x[j])
    <3>1. Linked(e, l, n) => \A i \in 1..n : e[i].structureParent # NULL <=> e[i].structureLevel > 1
      BY <1>6 DEF Linked
    <3> QED BY <1>5, <1>6, <2>2, <2>3, <3>1
  <2>5. ~d.end => x = e
    BY <1>5, <2>2
  <2>6. parser' = "declared" => x = e
    BY <2>1, <2>5
  <2>7. parser' = "duplicate" => \E i, j \in 1..Len(e) : i < j /\ SameName(e[i], e[j])
    BY <2>1, <2>2
  <2>8. StructuresInv(e, parser', x)
    BY <1>p, <2>1, <2>2, <2>3, <2>4, <2>6, <2>7 DEF StructuresInv
  <2> QED BY <1>1, <1>9, <1>p, <2>1, <2>8 DEF DInv, Parsers
<1> QED BY <1>10, <1>11

(* The invariant holds for every statement. *)
THEOREM DInvHolds == Spec => []DInv
<1>1. Init => DInv
  BY InitInv
<1>2. DInv /\ [Next]_vars => DInv'
  <2> SUFFICES ASSUME DInv, [Next]_vars PROVE DInv'
    OBVIOUS
  <2>1. ASSUME NEW name \in vocabulary.names, NEW level \in vocabulary.levels, NEW names \in vocabulary.attributes,
               Name(name, level, names)
        PROVE  DInv'
    BY <2>1, NameStep
  <2>2. ASSUME NEW level \in vocabulary.levels, OpenParenthesis(level) PROVE DInv'
    BY <2>2, OpenStep
  <2>3. ASSUME NEW names \in vocabulary.factors, CloseParenthesis(names) PROVE DInv'
    BY <2>3, CloseStep
  <2>4. CASE CloseCell
    BY <2>4, CellStep
  <2>5. CASE EndOfDeclare
    BY <2>5, EndStep
  <2>6. CASE UNCHANGED vars
    BY <2>6 DEF vars, DInv
  <2> QED BY <2>1, <2>2, <2>3, <2>4, <2>5, <2>6 DEF Next
<1> QED BY <1>1, <1>2, PTL DEF Spec

-----------------------------------------------------------------------------
(* What follows from it. *)

(* The elements, the records and the open parentheses keep to their types:   *)
(* no pointer leads out of the heap, and a record has fields if and only if  *)
(* it has a type (setDclElementAttr).                                        *)
THEOREM TypeOKHolds == Spec => []TypeOK
<1>1. DInv => TypeOK
  <2> SUFFICES ASSUME DInv PROVE TypeOK
    OBVIOUS
  <2>1. /\ HeapOK(heap) /\ Pointing(elem, heap) /\ OpensOK(open, Len(elem))
        /\ written \in Seq(AttributeLists) /\ Len(written) = Len(elem) /\ dcl \in Seq(DeclareElement)
        /\ vocabulary \in Vocabularies /\ parser \in Parsers
    BY DEF DInv, AttributesInv, StructuresInv
  <2>2. elem \in Seq(DeclareElement) /\ \A i \in DOMAIN elem : elem[i].dclAttr \in 0..Len(heap.list)
    BY <2>1 DEF Pointing
  <2>3. open \in Seq([first: Nat, level: Int])
    BY <2>1 DEF OpensOK, OpenRecords
  <2>4. \A i \in DOMAIN heap.list :
          /\ heap.list[i].uniontype \in UnionType
          /\ heap.list[i].union \in 0..Len(heap.union)
          /\ heap.list[i].union = NULL <=> heap.list[i].uniontype = "UNKNOWN"
    <3>1. heap.list \in Seq(ListRecords)
      BY <2>1 DEF HeapOK, Heaps
    <3>2. DOMAIN heap.list = 1..Len(heap.list)
      BY <3>1
    <3> QED BY <2>1, <3>2, HeapFacts
  <2> QED BY <2>1, <2>2, <2>3, <2>4 DEF TypeOK, Parsers
<1> QED BY <1>1, DInvHolds, PTL

(* The places of the names. *)
LEMMA Places ==
  ASSUME DInv
  PROVE  /\ DOMAIN elem = 1..Len(elem) /\ Len(elem) \in Nat
         /\ Len(written) = Len(elem)
         /\ \A i \in 1..Len(elem) : written[i] \in AttributeLists /\ DOMAIN written[i] = 1..Len(written[i])
<1>1. elem \in Seq(DeclareElement) /\ written \in Seq(AttributeLists) /\ Len(written) = Len(elem)
  BY DEF DInv, AttributesInv, Pointing
<1>2. \A i \in 1..Len(elem) : written[i] \in AttributeLists
  BY <1>1
<1> QED BY <1>1, <1>2, AttributesFacts

(* Each name has the attributes of type that the text gives it, the          *)
(* outermost where they differ, and none of another name, however names      *)
(* share records (mergeDeclareElements).                                     *)
THEOREM AttributesRightHolds == Spec => []AttributesRight
<1>1. DInv => AttributesRight
  <2> SUFFICES ASSUME DInv, parser # "conflict", NEW i \in DOMAIN elem
               PROVE  /\ \A f \in Typed :
                           \/ Written(i, f) = {} /\ ValueOf(i, f) = -1
                           \/ \E j \in Written(i, f) : /\ \A k \in Written(i, f) : k <= j
                                                       /\ ValueOf(i, f) = ValueAt(i, j)
                      /\ \A f \in Storage : ValueOf(i, f) \in {-1} \cup {ValueAt(i, j) : j \in Written(i, f)}
    BY DEF AttributesRight
  <2> DEFINE w == written[i]
             a == elem[i].dclAttr
  <2>1. i \in 1..Len(elem) /\ DOMAIN w = 1..Len(w)
    BY Places
  <2>2. NameRight(w, heap, a)
    BY <2>1 DEF DInv, AttributesInv, AllRight
  <2>3. \A f \in Typed : ValueOf(i, f) = FieldAt(heap, a, f)
    <3>1. \A f \in Typed : f \notin Storage
      BY DEF Typed, Storage
    <3> QED BY <3>1 DEF ValueOf, FieldAt, UnionAt
  <2>4. \A f \in Storage : ValueOf(i, f) = OwnAt(heap, a, f)
    BY DEF ValueOf, OwnAt
  <2>5. \A f : Written(i, f) = {j \in 1..Len(w) : AttributeAt(w, j).field = f}
    BY <2>1 DEF Written, AttributeAt
  <2>6. \A j : ValueAt(i, j) = AttributeAt(w, j).value
    BY DEF ValueAt, AttributeAt
  <2> HIDE DEF w, a
  <2>7. ASSUME NEW f \in Typed
        PROVE  \/ Written(i, f) = {} /\ ValueOf(i, f) = -1
               \/ \E j \in Written(i, f) : (\A k \in Written(i, f) : k <= j) /\ ValueOf(i, f) = ValueAt(i, j)
    <3>1. ValueTo(w, Len(w), f, ValueOf(i, f))
      BY <2>2, <2>3 DEF NameRight
    <3> QED BY <2>5, <2>6, <3>1 DEF ValueTo
  <2>8. ASSUME NEW f \in Storage PROVE ValueOf(i, f) \in {-1} \cup {ValueAt(i, j) : j \in Written(i, f)}
    <3>1. ValueOf(i, f) = -1 \/ \E j \in 1..Len(w) : AttributeAt(w, j).field = f /\ AttributeAt(w, j).value = ValueOf(i, f)
      BY <2>2, <2>4 DEF NameRight
    <3> QED BY <2>5, <2>6, <3>1
  <2> QED BY <2>7, <2>8
<1> QED BY <1>1, DInvHolds, PTL

(* Contradictory, for the attributes of a name. *)
LEMMA ContradictoryIs ==
  ASSUME DInv, NEW i \in DOMAIN elem
  PROVE  /\ Contradictory(i, Typed) => TypedContradiction(written[i], Len(written[i]))
         /\ ContradictionTo(written[i], Len(written[i])) => Contradictory(i, Storage \cup Typed)
<1> DEFINE w == written[i]
<1>1. DOMAIN w = 1..Len(w) /\ w \in AttributeLists
  BY Places
<1>2. \A j \in 1..Len(w) : AttributeAt(w, j).field \in Storage \cup Typed
  BY <1>1, AttributesFacts DEF AttributeOK
<1>3. \A f : Contradictory(i, f) <=>
               \E j, k \in 1..Len(w) : /\ j < k /\ {AttributeAt(w, j).field, AttributeAt(w, k).field} \subseteq f
                                       /\ Contradiction(AttributeAt(w, j), AttributeAt(w, k))
  BY <1>1 DEF Contradictory, AttributeAt
<1> HIDE DEF w
<1>4. Contradictory(i, Typed) => TypedContradiction(w, Len(w))
  BY <1>3 DEF TypedContradiction
<1>5. ContradictionTo(w, Len(w)) => Contradictory(i, Storage \cup Typed)
  BY <1>2, <1>3 DEF ContradictionTo
<1> QED BY <1>4, <1>5 DEF w

(* A declaration that goes on has no name with contradictory types           *)
(* (dcloption, mergeDeclareElements).                                        *)
THEOREM ContradictionsFoundHolds == Spec => []ContradictionsFound
<1>1. DInv => ContradictionsFound
  <2> SUFFICES ASSUME DInv, parser # "conflict", NEW i \in DOMAIN elem
               PROVE  ~Contradictory(i, Typed)
    BY DEF ContradictionsFound
  <2>1. i \in 1..Len(elem)
    BY Places
  <2>2. ~TypedContradiction(written[i], Len(written[i]))
    BY <2>1 DEF DInv, AttributesInv, AllRight, NameRight
  <2> QED BY <2>2, ContradictoryIs
<1> QED BY <1>1, DInvHolds, PTL

(* The attributes end the parse for a contradiction in the text, or for      *)
(* names that share a record unseen (mergeDeclareElements), and for nothing  *)
(* else.                                                                     *)
THEOREM ConflictsJustifiedHolds == Spec => []ConflictsJustified
<1>1. DInv => ConflictsJustified
  <2> SUFFICES ASSUME DInv, parser = "conflict"
               PROVE  (\E i \in DOMAIN elem : Contradictory(i, Storage \cup Typed)) \/ SharedUnseen
    BY DEF ConflictsJustified
  <2>1. Contradictions(written) \/ Unseen(elem, heap)
    BY DEF DInv, AttributesInv
  <2>2. CASE Contradictions(written)
    BY <2>2, Places, ContradictoryIs DEF Contradictions
  <2>3. CASE Unseen(elem, heap)
    <3>1. PICK i, j \in 1..Len(elem) : /\ i < j /\ elem[j - 1].dclAttr # elem[j].dclAttr
                                       /\ Shares(heap, elem[i].dclAttr, elem[j].dclAttr)
      BY <2>3 DEF Unseen
    <3> DEFINE x == elem[i].dclAttr
               y == elem[j].dclAttr
    <3>2. x # NULL /\ y # NULL /\ (x = y \/ (heap.list[x].union # NULL /\ heap.list[x].union = heap.list[y].union))
      BY <3>1 DEF Shares, UnionAt
    <3>3. i \in DOMAIN elem /\ j \in DOMAIN elem
      BY Places
    <3> QED BY <3>1, <3>2, <3>3 DEF SharedUnseen
  <2> QED BY <2>1, <2>2, <2>3
<1> QED BY <1>1, DInvHolds, PTL

(* The structures of the text are those of the levels. *)
LEMMA StructuresAre ==
  ASSUME DInv
  PROVE  /\ \A w \in 1..Len(elem) : Level(w) = LevelsOf(elem)[w]
         /\ LevelsMeet => Meet(LevelsOf(elem), Len(elem))
         /\ \A w \in 1..Len(elem) : /\ ParentsAt(LevelsOf(elem), w) \subseteq Parents(w)
                                    /\ SiblingsUpTo(LevelsOf(elem), w, Len(elem)) = Siblings(w)
<1> DEFINE n == Len(elem)
           l == LevelsOf(elem)
<1>1. n \in Nat /\ DOMAIN elem = 1..n
  BY Places
<1>2. \A w \in 1..n : Level(w) = l[w]
  BY DEF Level, LevelsOf
<1> HIDE DEF n, l
<1>3. LevelsMeet => Meet(l, n)
  <2> SUFFICES ASSUME LevelsMeet, NEW w \in 1..n, l[w] > 1, w > 1, l[w - 1] >= l[w]
               PROVE  \E v \in 1..(w - 1) : l[v] = l[w] /\ \A k \in v..w : l[k] >= l[w]
    BY DEF Meet
  <2>1. w - 1 \in 1..n
    BY <1>1
  <2>2. Level(w) > 1 /\ Level(w - 1) >= Level(w) /\ w \in DOMAIN elem
    BY <1>1, <1>2, <2>1
  <2>3. PICK v \in 1..(w - 1) : Level(v) = Level(w) /\ \A k \in v..w : Level(k) >= Level(w)
    BY <2>2 DEF LevelsMeet
  <2>4. v \in 1..n /\ \A k \in v..w : k \in 1..n
    BY <1>1
  <2> QED BY <1>2, <2>3, <2>4
<1>4. ASSUME NEW w \in 1..n, NEW p \in ParentsAt(l, w) PROVE p \in Parents(w)
  <2>1. /\ p \in 1..(w - 1) /\ l[p] < l[w]
        /\ \A k \in p..(w - 1) : l[k] >= l[p] /\ l[k] >= 1 /\ (k > p => l[k] >= l[w])
    BY DEF ParentsAt
  <2>2. p \in 1..n /\ \A k \in p..(w - 1) : k \in 1..n
    BY <1>1, <2>1
  <2> QED BY <1>2, <2>1, <2>2 DEF Parents
<1>5. ASSUME NEW w \in 1..n PROVE SiblingsUpTo(l, w, n) = Siblings(w)
  <2>1. \A v \in (w + 1)..n : v \in 1..n /\ \A k \in w..v : k \in 1..n
    BY <1>1
  <2>2. \A v \in (w + 1)..n : (l[v] = l[w] /\ \A k \in w..v : l[k] >= l[w])
                              <=> (Level(v) = Level(w) /\ \A k \in w..v : Level(k) >= Level(w))
    BY <1>2, <2>1
  <2>3. Siblings(w) = {v \in (w + 1)..n : Level(v) = Level(w) /\ \A k \in w..v : Level(k) >= Level(w)}
    BY DEF Siblings, n
  <2> QED BY <2>2, <2>3 DEF SiblingsUpTo
<1> QED BY <1>2, <1>3, <1>4, <1>5 DEF n, l

(* When each level that comes back is that of an element before, parents,    *)
(* first children and siblings are those of the text (checkStructureLevels,  *)
(* findStructureParent).                                                     *)
THEOREM StructuresRightHolds == Spec => []StructuresRight
<1>1. DInv => StructuresRight
  <2> SUFFICES ASSUME DInv, parser \in {"declared", "duplicate"}, LevelsMeet, NEW w \in DOMAIN elem
               PROVE  /\ elem[w].structureParent # NULL <=> Level(w) > 1
                      /\ Level(w) > 1 =>
                           /\ elem[w].structureParent \in Parents(w)
                           /\ elem[elem[w].structureParent].structureFirstChild = elem[w].structureParent + 1
                           /\ \/ elem[w].structureSibling = NULL /\ Siblings(w) = {}
                              \/ /\ elem[w].structureSibling \in Siblings(w)
                                 /\ \A v \in Siblings(w) : elem[w].structureSibling <= v
    BY DEF StructuresRight
  <2> DEFINE n == Len(elem)
             l == LevelsOf(elem)
  <2>1. w \in 1..n
    BY Places
  <2>2. Meet(l, n)
    BY StructuresAre
  <2>3. Linked(elem, l, n)
    BY <2>2 DEF DInv, StructuresInv
  <2>4. Level(w) = l[w] /\ ParentsAt(l, w) \subseteq Parents(w) /\ SiblingsUpTo(l, w, n) = Siblings(w)
    BY <2>1, StructuresAre
  <2> HIDE DEF n, l
  <2>5. /\ elem[w].structureParent # NULL <=> l[w] > 1
        /\ l[w] > 1 => /\ elem[w].structureParent \in ParentsAt(l, w)
                       /\ elem[elem[w].structureParent].structureFirstChild = elem[w].structureParent + 1
                       /\ FirstSibling(l, w, n, elem[w].structureSibling)
    BY <2>1, <2>3 DEF Linked
  <2> QED BY <2>4, <2>5 DEF FirstSibling
<1> QED BY <1>1, DInvHolds, PTL

(* A name is declared at most once in a structure and at most once outside;  *)
(* nothing is left out without a message (addDclDeclareElementList).         *)
THEOREM NamesUniqueHolds == Spec => []NamesUnique
<1>1. DInv => NamesUnique
  <2> SUFFICES ASSUME DInv PROVE NamesUnique
    OBVIOUS
  <2>1. StructuresInv(elem, parser, dcl) /\ DOMAIN elem = 1..Len(elem)
    BY Places DEF DInv
  <2>2. DOMAIN dcl = 1..Len(dcl)
    BY <2>1 DEF StructuresInv
  <2>3. LevelsMeet => \A i, j \in DOMAIN dcl :
                        i # j /\ dcl[i].name = dcl[j].name => dcl[i].structureParent # dcl[j].structureParent
    <3>1. LevelsMeet => \A i, j \in 1..Len(dcl) : i # j => ~SameName(dcl[i], dcl[j])
      BY <2>1, StructuresAre DEF StructuresInv
    <3> QED BY <2>2, <3>1 DEF SameName
  <2>4. parser = "declared" => dcl = elem
    BY <2>1 DEF StructuresInv
  <2>5. parser = "duplicate" =>
          \E i, j \in DOMAIN elem :
            i < j /\ elem[i].name = elem[j].name /\ elem[i].structureParent = elem[j].structureParent
    BY <2>1 DEF StructuresInv, SameName
  <2> QED BY <2>3, <2>4, <2>5 DEF NamesUnique
<1> QED BY <1>1, DInvHolds, PTL

================================================================================
