--------------------------- MODULE ScopeTreeProofs ---------------------------
(***************************************************************************)
(* Proofs about ScopeTree for every set of labels and programs of every    *)
(* length.                                                                 *)
(*                                                                         *)
(* The invariant Inv is the shape of the tree together with the types of   *)
(* what it is made of.  Only newScope changes the tree, and what it does   *)
(* to each pointer is stated once in NewScope.                             *)
(*                                                                         *)
(* NamesInv is about the lists of names, on top of Inv.  Each list has at  *)
(* most one explicit declaration of a name and no statement loses a name   *)
(* (Grows), which the folds over the parameters of a procedure and the     *)
(* names of a DECLARE need step by step.                                   *)
(*                                                                         *)
(* The cross reference is a function of the tree that calls itself along   *)
(* next and head.  TreeShape makes both lead to younger scopes, so its     *)
(* values exist; for the siblings from s on it lists Part(s), the parts of *)
(* siblings being apart, in the order Ordered says.                        *)
(***************************************************************************)
EXTENDS ScopeTree, SequenceTheorems, FiniteSetTheorems, FoldFacts

(* The types of the tree. *)
TreeTypeOK ==
  /\ scope \in Seq(ScopeNode) /\ scope # << >>
  /\ current \in Pointer

Inv == TreeTypeOK /\ TreeShape

-----------------------------------------------------------------------------
(* What lies between a scope and its parent. *)
LEMMA ParentType ==
  ASSUME TreeTypeOK, ChainsOK, NEW s \in 1..Len(scope)
  PROVE  /\ Parent(s) \in 0..(s - 1)
         /\ Path(s) = Append(scope[s].up, s)
         /\ scope[s].up = Path(Parent(s))
         /\ Path(s) \in Seq(Nat)
<1>1. scope[s] \in ScopeNode /\ scope[s].up \in Seq(Nat)
  <2>1. scope[s] \in ScopeNode
    BY DEF TreeTypeOK
  <2> QED BY <2>1 DEF ScopeNode
<1>2. Parent(s) \in 0..(s - 1)
  <2>1. CASE scope[s].up = << >>
    BY <2>1 DEF Parent, NULL
  <2>2. CASE scope[s].up # << >>
    <3>1. Len(scope[s].up) \in 1..Len(scope[s].up)
      BY <1>1, <2>2, EmptySeq, LenProperties
    <3> QED BY <3>1, <2>2 DEF Parent, ChainsOK
  <2> QED BY <2>1, <2>2
<1>3. Path(s) = Append(scope[s].up, s)
  BY DEF Path, NULL
<1>4. scope[s].up = Path(Parent(s))
  <2>1. CASE scope[s].up = << >>
    BY <2>1 DEF Parent, Path, NULL
  <2>2. CASE scope[s].up # << >>
    <3>1. Len(scope[s].up) \in 1..Len(scope[s].up)
      BY <1>1, <2>2, EmptySeq, LenProperties
    <3>2. /\ Parent(s) = scope[s].up[Len(scope[s].up)]
          /\ scope[Parent(s)].up = SubSeq(scope[s].up, 1, Len(scope[s].up) - 1)
          /\ Parent(s) \in 1..(s - 1)
      BY <3>1, <2>2 DEF Parent, ChainsOK
    <3>3. Path(Parent(s)) = Append(SubSeq(scope[s].up, 1, Len(scope[s].up) - 1), Parent(s))
      BY <3>2 DEF Path, NULL
    <3> DEFINE u == scope[s].up
    <3>4. u \in Seq(Nat) /\ Len(u) \in 1..Len(u)
      BY <1>1, <3>1
    <3> HIDE DEF u
    <3>5. u = Append(SubSeq(u, 1, Len(u) - 1), u[Len(u)])
      BY <3>4
    <3> QED BY <3>2, <3>3, <3>5 DEF u
  <2> QED BY <2>1, <2>2
<1>5. Path(s) \in Seq(Nat)
  BY <1>1, <1>3
<1> QED BY <1>2, <1>3, <1>4, <1>5

(* newScope, pointer by pointer. *)
LEMMA NewScope ==
  ASSUME Inv, NameAssumption, NEW kind \in Kinds, NEW labels \in Seq(Name),
         newScope(kind, labels)
  PROVE  /\ scope' \in Seq(ScopeNode) /\ Len(scope') = Len(scope) + 1
         /\ current' = Len(scope) + 1
         /\ \A s \in 1..Len(scope) :
              /\ scope'[s].name = scope[s].name
              /\ scope'[s].kind = scope[s].kind
              /\ scope'[s].up = scope[s].up
              /\ scope'[s].head = IF s = current /\ scope[s].head = NULL THEN current' ELSE scope[s].head
              /\ scope'[s].tail = IF s = current THEN current' ELSE scope[s].tail
              /\ scope'[s].next = IF current # NULL /\ s # current /\ s = scope[current].tail
                                  THEN current' ELSE scope[s].next
         /\ scope'[current'].up = Path(current)
         /\ scope'[current'].head = NULL /\ scope'[current'].tail = NULL
         /\ scope'[current'].next = NULL
         /\ scope'[current'].name = IF labels = << >> THEN << Unnamed >> ELSE labels
         /\ scope'[current'].name \in Seq(Name)
         /\ scope'[current'].kind = kind
<1> DEFINE new  == Len(scope) + 1
           node == initScopeNode(IF labels = << >> THEN << Unnamed >> ELSE labels, kind, Path(current))
           old  == [s \in 1..Len(scope) |->
                      IF s = current
                      THEN [scope[s] EXCEPT !.tail = new, !.head = IF @ = NULL THEN new ELSE @]
                      ELSE IF current # NULL /\ s = scope[current].tail
                      THEN [scope[s] EXCEPT !.next = new]
                      ELSE scope[s]]
<1>1. scope' = Append(old, node) /\ current' = new
  BY Zenon DEF newScope
<1>2. scope \in Seq(ScopeNode) /\ Len(scope) \in Nat /\ new \in Nat
  BY DEF Inv, TreeTypeOK
<1>3. Path(current) \in Seq(Nat)
  <2>1. CASE current = NULL
    BY <2>1 DEF Path
  <2>2. CASE current # NULL
    <3>1. current \in 1..Len(scope)
      BY <2>2, <1>2 DEF Inv, TreeTypeOK, Pointer, NULL
    <3> QED BY <3>1, ParentType DEF Inv, TreeShape
  <2> QED BY <2>1, <2>2
<1>4. (IF labels = << >> THEN << Unnamed >> ELSE labels) \in Seq(Name)
  BY DEF NameAssumption
<1>5. /\ node.name \in Seq(Name) /\ node.up = Path(current) /\ node.kind = kind
      /\ node.name = IF labels = << >> THEN << Unnamed >> ELSE labels
      /\ node.head = NULL /\ node.tail = NULL /\ node.next = NULL /\ node \in ScopeNode
  BY <1>3, <1>4 DEF initScopeNode, ScopeNode, NULL
<1>6. \A s \in 1..Len(scope) : scope[s] \in ScopeNode
  BY <1>2
<1>7. ASSUME NEW s \in 1..Len(scope)
      PROVE  /\ old[s] \in ScopeNode
             /\ old[s].name = scope[s].name
             /\ old[s].kind = scope[s].kind
             /\ old[s].up = scope[s].up
             /\ old[s].head = IF s = current /\ scope[s].head = NULL THEN new ELSE scope[s].head
             /\ old[s].tail = IF s = current THEN new ELSE scope[s].tail
             /\ old[s].next = IF current # NULL /\ s # current /\ s = scope[current].tail
                              THEN new ELSE scope[s].next
  BY <1>2, <1>6 DEF ScopeNode
<1>8. old \in Seq(ScopeNode) /\ Len(old) = Len(scope)
  <2> HIDE DEF new
  <2>1. \A s \in 1..Len(scope) : old[s] \in ScopeNode
    BY <1>7
  <2> HIDE DEF old
  <2>2. old \in [1..Len(scope) -> ScopeNode]
    BY <2>1 DEF old
  <2> QED BY <2>2, <1>2
<1>9. /\ scope' \in Seq(ScopeNode) /\ Len(scope') = Len(scope) + 1
      /\ scope'[new] = node
      /\ \A s \in 1..Len(scope) : scope'[s] = old[s]
  <2> HIDE DEF old, node
  <2> QED BY <1>1, <1>2, <1>5, <1>8
<1> HIDE DEF old, node
<1>10. /\ scope'[new].up = Path(current)
       /\ scope'[new].head = NULL /\ scope'[new].tail = NULL /\ scope'[new].next = NULL
       /\ scope'[new].name = IF labels = << >> THEN << Unnamed >> ELSE labels
       /\ scope'[new].name \in Seq(Name)
       /\ scope'[new].kind = kind
  BY <1>5, <1>9
<1>11. \A s \in 1..Len(scope) :
         /\ scope'[s].name = scope[s].name
         /\ scope'[s].kind = scope[s].kind
         /\ scope'[s].up = scope[s].up
         /\ scope'[s].head = IF s = current /\ scope[s].head = NULL THEN new ELSE scope[s].head
         /\ scope'[s].tail = IF s = current THEN new ELSE scope[s].tail
         /\ scope'[s].next = IF current # NULL /\ s # current /\ s = scope[current].tail
                             THEN new ELSE scope[s].next
  BY <1>7, <1>9
<1> QED BY <1>1, <1>9, <1>10, <1>11

(* The parent of a scope after the step. *)
NewParent(s) ==
  IF scope'[s].up = << >> THEN NULL ELSE scope'[s].up[Len(scope'[s].up)]

(* The parents: those of the old scopes stay, that of the new one is the    *)
(* scope that was current.                                                  *)
LEMMA NewScopeParents ==
  ASSUME Inv, NameAssumption, NEW kind \in Kinds, NEW labels \in Seq(Name),
         newScope(kind, labels)
  PROVE  /\ \A s \in 1..Len(scope) : NewParent(s) = Parent(s)
         /\ NewParent(Len(scope) + 1) = current
         /\ \A s \in 1..Len(scope) : Parent(s) \in 0..(s - 1)
<1>1. Len(scope) \in Nat /\ current \in 0..Len(scope)
  BY DEF Inv, TreeTypeOK, Pointer
<1>2. \A s \in 1..Len(scope) : NewParent(s) = Parent(s)
  BY NewScope DEF NewParent, Parent
<1>3. NewParent(Len(scope) + 1) = current
  <2>1. scope'[Len(scope) + 1].up = Path(current)
    BY NewScope
  <2>2. CASE current = NULL
    BY <2>1, <2>2 DEF NewParent, Path
  <2>3. CASE current # NULL
    <3>1. current \in 1..Len(scope)
      BY <1>1, <2>3 DEF NULL
    <3>2. scope[current].up \in Seq(Nat)
      <4>1. scope[current] \in ScopeNode
        BY <3>1 DEF Inv, TreeTypeOK
      <4> QED BY <4>1 DEF ScopeNode
    <3>3. Path(current) = Append(scope[current].up, current)
      BY <2>3 DEF Path
    <3>4. Path(current) # << >> /\ Path(current)[Len(Path(current))] = current
      BY <3>1, <3>2, <3>3
    <3> QED BY <2>1, <3>4 DEF NewParent
  <2> QED BY <2>2, <2>3
<1>4. \A s \in 1..Len(scope) : Parent(s) \in 0..(s - 1)
  BY ParentType DEF Inv, TreeShape
<1> QED BY <1>2, <1>3, <1>4

(* newScope keeps the shape of the tree. *)
LEMMA NewScopeShape ==
  ASSUME Inv, NameAssumption, NEW kind \in Kinds, NEW labels \in Seq(Name),
         newScope(kind, labels)
  PROVE  Inv'
<1> DEFINE old == Len(scope)
           new == Len(scope) + 1
<1> HIDE DEF old, new
<1>1. /\ old \in Nat /\ current \in 0..old /\ NULL = 0
      /\ Len(scope') = new /\ new = old + 1 /\ Len(scope) = old /\ current' = new /\ scope' \in Seq(ScopeNode)
  BY NewScope DEF Inv, TreeTypeOK, Pointer, NULL, old, new
<1>a. /\ \A s \in 1..old :
           /\ scope'[s].up = scope[s].up
           /\ scope'[s].head = IF s = current /\ scope[s].head = NULL THEN new ELSE scope[s].head
           /\ scope'[s].tail = IF s = current THEN new ELSE scope[s].tail
           /\ scope'[s].next = IF current # NULL /\ s # current /\ s = scope[current].tail
                               THEN new ELSE scope[s].next
      /\ scope'[new].up = Path(current)
      /\ scope'[new].head = NULL /\ scope'[new].tail = NULL /\ scope'[new].next = NULL
  BY NewScope DEF old, new
<1>b. /\ \A s \in 1..old : NewParent(s) = Parent(s)
      /\ NewParent(new) = current
      /\ \A s \in 1..old : Parent(s) \in 0..(s - 1)
  BY NewScopeParents DEF old, new
<1>c. ChainsOK /\ HeadsOK /\ NextOK
  BY DEF Inv, TreeShape
<1>2. TreeTypeOK'
  BY <1>1 DEF TreeTypeOK, Pointer
<1>3. ChainsOK'
  <2> SUFFICES ASSUME NEW s \in 1..new, NEW i \in 1..Len(scope'[s].up)
               PROVE  /\ scope'[s].up[i] \in 1..(s - 1)
                      /\ scope'[scope'[s].up[i]].up = SubSeq(scope'[s].up, 1, i - 1)
    BY <1>1 DEF ChainsOK
  <2>1. CASE s \in 1..old
    <3>1. scope'[s].up = scope[s].up
      BY <2>1, <1>a
    <3>2. /\ scope[s].up[i] \in 1..(s - 1)
          /\ scope[scope[s].up[i]].up = SubSeq(scope[s].up, 1, i - 1)
      BY <2>1, <3>1, <1>1, <1>c DEF ChainsOK
    <3>3. scope[s].up[i] \in 1..old
      BY <2>1, <3>2, <1>1
    <3> QED BY <3>1, <3>2, <3>3, <1>a
  <2>2. CASE s = new
    <3>1. scope'[s].up = Path(current)
      BY <2>2, <1>a
    <3>2. current # NULL /\ current \in 1..old
      BY <3>1, <1>1 DEF Path
    <3>3. scope[current].up \in Seq(Nat)
      <4>1. scope[current] \in ScopeNode
        BY <3>2, <1>1 DEF Inv, TreeTypeOK
      <4> QED BY <4>1 DEF ScopeNode
    <3>4. scope'[s].up = Append(scope[current].up, current)
      BY <3>1, <3>2 DEF Path
    <3>5. CASE i \in 1..Len(scope[current].up)
      <4>1. scope'[s].up[i] = scope[current].up[i]
        BY <3>3, <3>4, <3>5
      <4>2. /\ scope[current].up[i] \in 1..(current - 1)
            /\ scope[scope[current].up[i]].up = SubSeq(scope[current].up, 1, i - 1)
        BY <3>2, <3>5, <1>1, <1>c DEF ChainsOK
      <4>3. scope[current].up[i] \in 1..old
        BY <4>2, <3>2, <1>1
      <4>4. SubSeq(scope'[s].up, 1, i - 1) = SubSeq(scope[current].up, 1, i - 1)
        BY <3>3, <3>4, <3>5
      <4>5. scope'[scope[current].up[i]].up = scope[scope[current].up[i]].up
        BY <4>3, <1>a
      <4>6. scope[current].up[i] \in 1..(s - 1)
        BY <4>3, <2>2, <1>1
      <4> QED BY <4>1, <4>2, <4>4, <4>5, <4>6
    <3>6. CASE i = Len(scope[current].up) + 1
      <4>1. scope'[s].up[i] = current
        BY <3>3, <3>4, <3>6
      <4>2. SubSeq(scope'[s].up, 1, i - 1) = scope[current].up
        BY <3>3, <3>4, <3>6
      <4>3. scope'[current].up = scope[current].up
        BY <3>2, <1>a
      <4> QED BY <4>1, <4>2, <4>3, <3>2, <2>2, <1>1
    <3>7. Len(scope'[s].up) = Len(scope[current].up) + 1 /\ Len(scope[current].up) \in Nat
      BY <3>3, <3>4
    <3> QED BY <3>5, <3>6, <3>7
  <2> QED BY <2>1, <2>2, <1>1
<1>4. HeadsOK'
  <2> SUFFICES ASSUME NEW s \in 1..new
               PROVE  \/ /\ scope'[s].head = NULL /\ scope'[s].tail = NULL
                         /\ \A k \in 1..new : NewParent(k) # s
                      \/ /\ scope'[s].head \in 1..new /\ scope'[s].tail \in 1..new
                         /\ NewParent(scope'[s].head) = s /\ NewParent(scope'[s].tail) = s
                         /\ \A k \in 1..new :
                              NewParent(k) = s => scope'[s].head <= k /\ k <= scope'[s].tail
    BY <1>1 DEF HeadsOK, Parent, NewParent
  <2>1. CASE s = new
    BY <2>1, <1>1, <1>a, <1>b
  <2>2. CASE s \in 1..old
    <3>1. \/ /\ scope[s].head = 0 /\ scope[s].tail = 0
             /\ \A k \in 1..old : Parent(k) # s
          \/ /\ scope[s].head \in 1..old /\ scope[s].tail \in 1..old
             /\ Parent(scope[s].head) = s /\ Parent(scope[s].tail) = s
             /\ \A k \in 1..old : Parent(k) = s => scope[s].head <= k /\ k <= scope[s].tail
      BY <2>2, <1>1, <1>c DEF HeadsOK
    <3>2. \A k \in 1..new : k \in 1..old \/ k = new
      BY <1>1
    <3>3. \A k \in 1..old : NewParent(k) = Parent(k) /\ k \in 1..new /\ k < new
      BY <1>1, <1>b
    <3>4. NewParent(new) = current /\ new \in 1..new
      BY <1>1, <1>b
    <3>5. CASE s # current
      <4>1. scope'[s].head = scope[s].head /\ scope'[s].tail = scope[s].tail
        BY <3>5, <2>2, <1>a
      <4>2. CASE /\ scope[s].head = 0 /\ scope[s].tail = 0
                 /\ \A k \in 1..old : Parent(k) # s
        BY <4>1, <4>2, <3>2, <3>3, <3>4, <3>5, <1>1
      <4>3. CASE /\ scope[s].head \in 1..old /\ scope[s].tail \in 1..old
                 /\ Parent(scope[s].head) = s /\ Parent(scope[s].tail) = s
                 /\ \A k \in 1..old : Parent(k) = s => scope[s].head <= k /\ k <= scope[s].tail
        <5>1. /\ scope'[s].head \in 1..new /\ scope'[s].tail \in 1..new
              /\ NewParent(scope'[s].head) = s /\ NewParent(scope'[s].tail) = s
          BY <4>1, <4>3, <3>3
        <5>2. ASSUME NEW k \in 1..new, NewParent(k) = s
              PROVE  scope'[s].head <= k /\ k <= scope'[s].tail
          BY <5>2, <4>1, <4>3, <3>2, <3>3, <3>4, <3>5
        <5> QED BY <5>1, <5>2
      <4> QED BY <3>1, <4>2, <4>3
    <3>6. CASE s = current
      <4>1. scope'[s].tail = new
        BY <3>6, <2>2, <1>a
      <4>2. CASE /\ scope[s].head = 0 /\ scope[s].tail = 0
                 /\ \A k \in 1..old : Parent(k) # s
        <5>1. scope'[s].head = new
          BY <4>2, <3>6, <2>2, <1>a, <1>1
        <5>2. ASSUME NEW k \in 1..new, NewParent(k) = s
              PROVE  scope'[s].head <= k /\ k <= scope'[s].tail
          BY <5>1, <5>2, <4>1, <4>2, <3>2, <3>3, <1>1
        <5> QED BY <5>1, <5>2, <4>1, <3>4, <3>6
      <4>3. CASE /\ scope[s].head \in 1..old /\ scope[s].tail \in 1..old
                 /\ Parent(scope[s].head) = s /\ Parent(scope[s].tail) = s
                 /\ \A k \in 1..old : Parent(k) = s => scope[s].head <= k /\ k <= scope[s].tail
        <5>1. scope'[s].head = scope[s].head
          BY <4>3, <3>6, <2>2, <1>a, <1>1
        <5>2. ASSUME NEW k \in 1..new, NewParent(k) = s
              PROVE  scope'[s].head <= k /\ k <= scope'[s].tail
          <6>1. CASE k \in 1..old
            BY <6>1, <5>1, <5>2, <4>1, <4>3, <3>3, <1>1
          <6>2. CASE k = new
            BY <6>2, <5>1, <4>1, <4>3, <1>1
          <6> QED BY <6>1, <6>2, <3>2
        <5> QED BY <5>1, <5>2, <4>1, <4>3, <3>3, <3>4, <3>6
      <4> QED BY <3>1, <4>2, <4>3
    <3> QED BY <3>5, <3>6
  <2> QED BY <2>1, <2>2, <1>1
<1>5. NextOK'
  <2> SUFFICES ASSUME NEW k \in 1..new
               PROVE  LET sibling == {j \in (k + 1)..new : NewParent(k) # NULL /\ NewParent(j) = NewParent(k)}
                      IN  \/ scope'[k].next = NULL /\ sibling = {}
                          \/ scope'[k].next \in sibling /\ \A j \in sibling : scope'[k].next <= j
    BY <1>1 DEF NextOK, Parent, NewParent
  <2>1. CASE k = new
    BY <2>1, <1>1, <1>a
  <2>2. CASE k \in 1..old
    <3>1. \/ /\ scope[k].next = 0
             /\ \A j \in (k + 1)..old : ~(Parent(k) # 0 /\ Parent(j) = Parent(k))
          \/ /\ scope[k].next \in (k + 1)..old
             /\ Parent(k) # 0 /\ Parent(scope[k].next) = Parent(k)
             /\ \A j \in (k + 1)..old : Parent(j) = Parent(k) => scope[k].next <= j
      BY <2>2, <1>1, <1>c DEF NextOK
    <3>2. \A j \in (k + 1)..new : j \in (k + 1)..old \/ j = new
      BY <1>1
    <3>3. \A j \in 1..old : NewParent(j) = Parent(j)
      BY <1>b
    <3>4. NewParent(new) = current /\ new \in (k + 1)..new /\ \A j \in (k + 1)..old : j \in 1..old /\ j \in (k + 1)..new /\ j <= new
      BY <2>2, <1>1, <1>b
    <3>5. \/ scope[current].head = 0 /\ scope[current].tail = 0
             /\ \A j \in 1..old : Parent(j) # current
          \/ /\ scope[current].tail \in 1..old /\ Parent(scope[current].tail) = current
             /\ \A j \in 1..old : Parent(j) = current => j <= scope[current].tail
          \/ current = 0
      BY <1>1, <1>c DEF HeadsOK
    <3>6. CASE current # 0 /\ k = scope[current].tail
      <4>1. Parent(k) = current /\ \A j \in 1..old : Parent(j) = current => j <= k
        BY <3>5, <3>6, <2>2
      <4>2. Parent(k) # k
        BY <2>2, <1>b
      <4>3. scope'[k].next = new
        BY <3>6, <4>1, <4>2, <2>2, <1>1, <1>a
      <4>4. ASSUME NEW j \in (k + 1)..new, NewParent(j) = current
            PROVE  j = new
        BY <4>1, <4>4, <3>2, <3>3, <3>4, <2>2
      <4> QED BY <4>1, <4>3, <4>4, <3>3, <3>4, <3>6, <2>2, <1>1
    <3>7. CASE ~(current # 0 /\ k = scope[current].tail)
      <4>1. scope'[k].next = scope[k].next
        BY <3>7, <2>2, <1>1, <1>a
      <4>2. CASE Parent(k) # 0 /\ Parent(k) = current
        <5>1. scope[current].tail \in (k + 1)..old /\ Parent(scope[current].tail) = Parent(k)
          BY <4>2, <3>5, <3>7, <2>2, <1>1
        <5>2. /\ scope[k].next \in (k + 1)..old /\ Parent(scope[k].next) = Parent(k)
              /\ \A j \in (k + 1)..old : Parent(j) = Parent(k) => scope[k].next <= j
          BY <5>1, <4>2, <3>1
        <5>3. ASSUME NEW j \in (k + 1)..new, NewParent(j) = NewParent(k)
              PROVE  scope[k].next <= j
          BY <5>2, <5>3, <3>2, <3>3, <3>4, <2>2, <1>1
        <5> QED BY <5>2, <5>3, <4>1, <4>2, <3>3, <3>4, <2>2, <1>1
      <4>3. CASE ~(Parent(k) # 0 /\ Parent(k) = current)
        <5>1. \A j \in (k + 1)..new : NewParent(k) # 0 /\ NewParent(j) = NewParent(k) =>
                 j \in (k + 1)..old /\ Parent(j) = Parent(k) /\ Parent(k) # 0
          BY <4>3, <3>2, <3>3, <3>4, <2>2
        <5>2. CASE scope[k].next = 0 /\ \A j \in (k + 1)..old : ~(Parent(k) # 0 /\ Parent(j) = Parent(k))
          BY <5>1, <5>2, <4>1, <1>1
        <5>3. CASE /\ scope[k].next \in (k + 1)..old
                   /\ Parent(k) # 0 /\ Parent(scope[k].next) = Parent(k)
                   /\ \A j \in (k + 1)..old : Parent(j) = Parent(k) => scope[k].next <= j
          <6>1. NewParent(k) # 0 /\ NewParent(scope[k].next) = NewParent(k) /\ scope[k].next \in (k + 1)..new
            BY <5>3, <3>3, <3>4, <2>2
          <6> QED BY <6>1, <5>1, <5>3, <4>1, <1>1
        <5> QED BY <5>2, <5>3, <3>1
      <4> QED BY <4>2, <4>3
    <3> QED BY <3>6, <3>7
  <2> QED BY <2>1, <2>2, <1>1
<1> QED BY <1>2, <1>3, <1>4, <1>5 DEF Inv, TreeShape

-----------------------------------------------------------------------------
(* A scope on the way to the current one: its chain is the part before it.  *)
LEMMA Ancestor ==
  ASSUME Inv, current # NULL, NEW i \in 1..Len(Path(current))
  PROVE  /\ Path(current)[i] \in 1..Len(scope)
         /\ Parent(Path(current)[i]) \in Pointer
         /\ Path(Parent(Path(current)[i])) = SubSeq(Path(current), 1, i - 1)
<1> DEFINE up == scope[current].up
<1>1. current \in 1..Len(scope)
  BY DEF Inv, TreeTypeOK, Pointer, NULL
<1>2. up \in Seq(Nat) /\ Path(current) = Append(up, current)
  <2>1. scope[current] \in ScopeNode
    BY <1>1 DEF Inv, TreeTypeOK
  <2> QED BY <2>1 DEF ScopeNode, Path
<1>3. /\ Path(current)[i] \in 1..Len(scope)
      /\ scope[Path(current)[i]].up = SubSeq(Path(current), 1, i - 1)
  <2>1. CASE i \in 1..Len(up)
    <3>1. /\ up[i] \in 1..(current - 1) /\ scope[up[i]].up = SubSeq(up, 1, i - 1)
      BY <1>1, <2>1 DEF Inv, TreeShape, ChainsOK
    <3>2. Path(current)[i] = up[i] /\ SubSeq(Path(current), 1, i - 1) = SubSeq(up, 1, i - 1)
      BY <1>2, <2>1
    <3>3. up[i] \in 1..Len(scope)
      BY <3>1, <1>1 DEF Inv, TreeTypeOK
    <3> QED BY <3>1, <3>2, <3>3
  <2>2. CASE i = Len(up) + 1
    BY <1>1, <1>2, <2>2
  <2>3. Len(Path(current)) = Len(up) + 1 /\ Len(up) \in Nat
    BY <1>2
  <2> HIDE DEF up
  <2> QED BY <2>1, <2>2, <2>3
<1>4. /\ Parent(Path(current)[i]) \in 0..(Path(current)[i] - 1)
      /\ scope[Path(current)[i]].up = Path(Parent(Path(current)[i]))
  BY <1>3, ParentType DEF Inv, TreeShape
<1>5. Parent(Path(current)[i]) \in Pointer
  BY <1>3, <1>4 DEF Pointer, Inv, TreeTypeOK
<1> QED BY <1>3, <1>4, <1>5

(* A parent is on the way, or NULL. *)
LEMMA CurrentParent ==
  ASSUME Inv, current # NULL
  PROVE  /\ Parent(current) \in Pointer
         /\ Path(Parent(current)) = SubSeq(Path(current), 1, Len(Path(current)) - 1)
         /\ Len(Path(current)) \in Nat \ {0}
<1>1. current \in 1..Len(scope) /\ current \in Nat
  BY DEF Inv, TreeTypeOK, Pointer, NULL
<1>2. scope[current].up \in Seq(Nat) /\ Path(current) = Append(scope[current].up, current)
  <2>1. scope[current] \in ScopeNode
    BY <1>1 DEF Inv, TreeTypeOK
  <2> QED BY <2>1 DEF ScopeNode, Path
<1>3. Len(Path(current)) \in 1..Len(Path(current)) /\ Path(current)[Len(Path(current))] = current
  BY <1>1, <1>2
<1> QED BY <1>3, Ancestor

(* What a named END finds is on the way. *)
LEMMA LookUp ==
  ASSUME Inv, current # NULL, NEW label \in Name,
         NEW s \in lookUpMatchingNode(current, label)
  PROVE  \E i \in Labelled(current, label) :
           /\ i \in 1..Len(Path(current))
           /\ \A j \in Labelled(current, label) : j <= i
           /\ s = Path(current)[i]
  BY DEF lookUpMatchingNode, Labelled

(* A program starts with the root. *)
LEMMA InvInit == NameAssumption /\ Init => Inv
<1> SUFFICES ASSUME NameAssumption, Init PROVE Inv
  OBVIOUS
<1> DEFINE root == initScopeNode(<< Root >>, "ROOT", << >>)
<1>1. root \in ScopeNode /\ root.up = << >> /\ root.head = NULL /\ root.tail = NULL /\ root.next = NULL
  BY DEF NameAssumption, initScopeNode, ScopeNode, Kinds, NULL
<1> HIDE DEF root
<1>2. scope = << root >> /\ current = 1
  BY DEF Init, root
<1>3. scope \in Seq(ScopeNode) /\ Len(scope) = 1 /\ scope # << >> /\ scope[1] = root
  BY <1>1, <1>2
<1>4. Parent(1) = NULL
  BY <1>1, <1>3 DEF Parent
<1>5. TreeTypeOK
  BY <1>2, <1>3 DEF TreeTypeOK, Pointer
<1>6. ChainsOK /\ HeadsOK /\ NextOK
  BY <1>1, <1>3, <1>4 DEF ChainsOK, HeadsOK, NextOK, NULL
<1> QED BY <1>5, <1>6 DEF Inv, TreeShape

(* Nothing but the current scope changed. *)
LEMMA TreeUnchanged ==
  ASSUME Inv, UNCHANGED scope, current' \in Pointer
  PROVE  Inv'
  BY DEF Inv, TreeTypeOK, TreeShape, ChainsOK, HeadsOK, NextOK, Pointer, Parent, NULL

(* Every statement keeps the shape of the tree. *)
LEMMA InvNext == NameAssumption /\ Inv /\ [Next]_vars => Inv'
<1> SUFFICES ASSUME NameAssumption, Inv, [Next]_vars PROVE Inv'
  OBVIOUS
<1>1. current \in Pointer
  BY DEF Inv, TreeTypeOK
<1>2. ASSUME NEW labels \in LabelLists, OpenScope(labels)
      PROVE  Inv'
  BY <1>2, NewScopeShape DEF OpenScope, NameAssumption, Kinds
<1>3. ASSUME NEW labels \in LabelLists, NEW parameters \in NameLists, Procedure(labels, parameters)
      PROVE  Inv'
  BY <1>3, NewScopeShape DEF Procedure, NameAssumption, Kinds
<1>4. ASSUME NEW labels \in LabelLists, NEW parameters \in NameLists, Entry(labels, parameters)
      PROVE  Inv'
  BY <1>1, <1>4, TreeUnchanged DEF Entry
<1>5. ASSUME Crash
      PROVE  Inv'
  BY <1>1, <1>5, TreeUnchanged DEF Crash
<1>6. ASSUME NEW labels \in LabelLists, NEW kind \in {"PROCEDURE", "ENTRY"},
             NoPlaceForLabels(kind, labels)
      PROVE  Inv'
  BY <1>5, <1>6 DEF NoPlaceForLabels
<1>7. CASE End
  BY <1>1, <1>7, CurrentParent, TreeUnchanged DEF End
<1>8. ASSUME NEW label \in Name, EndNamed(label)
      PROVE  Inv'
  <2>1. CASE current = NULL
    BY <1>1, <1>8, <2>1, TreeUnchanged DEF EndNamed
  <2>2. CASE current # NULL /\ lookUpMatchingNode(current, label) = {}
    BY <1>5, <1>8, <2>2 DEF EndNamed
  <2>3. CASE current # NULL /\ lookUpMatchingNode(current, label) # {}
    <3>1. PICK s \in lookUpMatchingNode(current, label) : current' = Parent(s) /\ UNCHANGED scope
      BY <1>8, <2>3 DEF EndNamed
    <3>2. PICK i \in 1..Len(Path(current)) : s = Path(current)[i]
      BY <2>3, <3>1, LookUp
    <3> QED BY <2>3, <3>1, <3>2, Ancestor, TreeUnchanged
  <2> QED BY <2>1, <2>2, <2>3
<1>9. ASSUME NEW names \in NameLists, NEW fits \in BOOLEAN, Declare(names, fits)
      PROVE  Inv'
  <2>1. CASE current = NULL
    BY <1>5, <1>9, <2>1 DEF Declare
  <2>2. CASE current # NULL
    BY <1>1, <1>9, <2>2, TreeUnchanged DEF Declare
  <2> QED BY <2>1, <2>2
<1>10. CASE UNCHANGED vars
  BY <1>1, <1>10, TreeUnchanged DEF vars
<1> QED BY <1>2, <1>3, <1>4, <1>6, <1>7, <1>8, <1>9, <1>10 DEF Next

(* The invariant, for every program. *)
THEOREM InvHolds == Spec => []Inv
<1>1. Init => Inv
  BY InvInit, NameAssumption
<1>2. Inv /\ [Next]_vars => Inv'
  BY InvNext, NameAssumption
<1> QED BY <1>1, <1>2, PTL DEF Spec

(* However blocks are opened and closed, the list of the children of a      *)
(* scope has each of them once, in the order of the text (newScope).        *)
THEOREM TreeShapeHolds == Spec => []TreeShape
<1>1. Inv => TreeShape
  BY DEF Inv
<1> QED BY <1>1, InvHolds, PTL

-----------------------------------------------------------------------------
(* The refinement of BlockStack.  The open blocks are the names on the way  *)
(* to the current scope.                                                    *)
LEMMA OpenBlocksType ==
  ASSUME Inv
  PROVE  /\ Path(current) \in Seq(1..Len(scope))
         /\ OpenBlocks \in Seq(Seq(Name))
         /\ Len(OpenBlocks) = Len(Path(current))
         /\ \A i \in 1..Len(Path(current)) : OpenBlocks[i] = scope[Path(current)[i]].name
<1>1. Path(current) \in Seq(Nat)
  <2>1. CASE current = NULL
    BY <2>1 DEF Path
  <2>2. CASE current # NULL
    <3>1. current \in 1..Len(scope)
      BY <2>2 DEF Inv, TreeTypeOK, Pointer, NULL
    <3> QED BY <3>1, ParentType DEF Inv, TreeShape
  <2> QED BY <2>1, <2>2
<1>2. \A i \in 1..Len(Path(current)) : Path(current)[i] \in 1..Len(scope)
  <2>1. CASE current = NULL
    BY <2>1 DEF Path
  <2>2. CASE current # NULL
    BY <2>2, Ancestor
  <2> QED BY <2>1, <2>2
<1>3. \A s \in 1..Len(scope) : scope[s].name \in Seq(Name)
  <2> SUFFICES ASSUME NEW s \in 1..Len(scope) PROVE scope[s].name \in Seq(Name)
    OBVIOUS
  <2>1. scope[s] \in ScopeNode
    BY DEF Inv, TreeTypeOK
  <2> QED BY <2>1 DEF ScopeNode
<1>4. Len(Path(current)) \in Nat
  BY <1>1
<1> QED BY <1>1, <1>2, <1>3, <1>4 DEF OpenBlocks

(* Blocks are closed: the scopes stay, the way gets shorter. *)
LEMMA BlocksClosed ==
  ASSUME Inv, UNCHANGED scope, NEW n \in 0..Len(Path(current)),
         Path(current)' = SubSeq(Path(current), 1, n)
  PROVE  OpenBlocks' = SubSeq(OpenBlocks, 1, n)
<1>1. Path(current) \in Seq(1..Len(scope)) /\ OpenBlocks \in Seq(Seq(Name))
  BY OpenBlocksType
<1>2. /\ Len(Path(current)') = n
      /\ \A i \in 1..n : Path(current)'[i] = Path(current)[i]
  BY <1>1
<1>3. OpenBlocks' = [i \in 1..n |-> OpenBlocks[i]]
  BY <1>2, OpenBlocksType DEF OpenBlocks
<1>4. SubSeq(OpenBlocks, 1, n) = [i \in 1..n |-> OpenBlocks[i]]
  BY <1>1, OpenBlocksType
<1> QED BY <1>3, <1>4

(* A block is opened: one more scope at the end of the way. *)
LEMMA BlockOpened ==
  ASSUME Inv, NameAssumption, NEW kind \in Kinds, NEW labels \in Seq(Name),
         newScope(kind, labels)
  PROVE  /\ OpenBlocks' \in Seq(Seq(Name))
         /\ Len(OpenBlocks') = Len(OpenBlocks) + 1
         /\ SubSeq(OpenBlocks', 1, Len(OpenBlocks)) = OpenBlocks
<1> DEFINE new == Len(scope) + 1
<1>1. Path(current) \in Seq(1..Len(scope)) /\ Len(scope) \in Nat
  BY OpenBlocksType DEF Inv, TreeTypeOK
<1>3. Path(current)' = Append(Path(current), new)
  <2>1. current' = new /\ scope'[new].up = Path(current) /\ new # NULL
    BY <1>1, NewScope DEF NULL
  <2> HIDE DEF new
  <2>2. Path(current)' = Append(scope'[new].up, new)
    BY <2>1 DEF Path
  <2> QED BY <2>1, <2>2
<1>4. \A s \in 1..Len(scope) : scope'[s].name = scope[s].name
  BY NewScope
<1>6. /\ Len(Path(current)') = Len(Path(current)) + 1
      /\ \A i \in 1..Len(Path(current)) :
           Path(current)'[i] = Path(current)[i] /\ Path(current)[i] \in 1..Len(scope)
  BY <1>1, <1>3
<1>5. OpenBlocks' \in Seq(Seq(Name)) /\ Len(OpenBlocks') = Len(Path(current)')
  <2>1. \A s \in 1..Len(scope) : scope[s].name \in Seq(Name)
    <3> SUFFICES ASSUME NEW s \in 1..Len(scope) PROVE scope[s].name \in Seq(Name)
      OBVIOUS
    <3>1. scope[s] \in ScopeNode
      BY DEF Inv, TreeTypeOK
    <3> QED BY <3>1 DEF ScopeNode
  <2>2. scope'[new].name \in Seq(Name)
    BY NewScope
  <2>3. \A i \in 1..Len(Path(current)') : scope'[Path(current)'[i]].name \in Seq(Name)
    <3> HIDE DEF new
    <3>1. Path(current)'[Len(Path(current)) + 1] = new
      BY <1>1, <1>3
    <3>2. \A i \in 1..Len(Path(current)') : i \in 1..Len(Path(current)) \/ i = Len(Path(current)) + 1
      BY <1>1, <1>6
    <3> QED BY <1>4, <1>6, <2>1, <2>2, <3>1, <3>2
  <2>4. OpenBlocks' = [i \in 1..Len(Path(current)') |-> scope'[Path(current)'[i]].name]
    BY DEF OpenBlocks
  <2>5. Len(Path(current)') \in Nat
    BY <1>1, <1>6
  <2> QED BY <2>3, <2>4, <2>5
<1>7. \A i \in 1..Len(Path(current)) : OpenBlocks'[i] = OpenBlocks[i]
  BY <1>1, <1>4, <1>6 DEF OpenBlocks
<1>8. OpenBlocks \in Seq(Seq(Name)) /\ Len(OpenBlocks) = Len(Path(current))
  BY OpenBlocksType
<1>9. SubSeq(OpenBlocks', 1, Len(OpenBlocks)) = OpenBlocks
  <2> DEFINE b == OpenBlocks
             c == OpenBlocks'
  <2>1. b \in Seq(Seq(Name)) /\ c \in Seq(Seq(Name)) /\ Len(c) = Len(b) + 1
        /\ \A i \in 1..Len(b) : c[i] = b[i]
    BY <1>5, <1>6, <1>7, <1>8
  <2> HIDE DEF b, c
  <2>2. SubSeq(c, 1, Len(b)) = b
    BY <2>1
  <2> QED BY <2>2 DEF b, c
<1> QED BY <1>5, <1>6, <1>8, <1>9

(* The root is the one open block of the start. *)
LEMMA BlocksInit == NameAssumption /\ Init => Blocks!Init
<1> SUFFICES ASSUME NameAssumption, Init PROVE Blocks!Init
  OBVIOUS
<1>1. Inv
  BY InvInit
<1>2. Len(Path(current)) = 1
  BY DEF Init, Path, initScopeNode, NULL
<1> QED BY <1>1, <1>2, OpenBlocksType DEF Blocks!Init

(* Each statement opens or closes blocks as BlockStack does. *)
LEMMA BlocksNext == NameAssumption /\ Inv /\ [Next]_vars => [Blocks!Next]_OpenBlocks
<1> SUFFICES ASSUME NameAssumption, Inv, [Next]_vars PROVE [Blocks!Next]_OpenBlocks
  OBVIOUS
<1>1. ASSUME NEW kind \in Kinds, NEW labels \in Seq(Name), newScope(kind, labels)
      PROVE  Blocks!Next
  BY <1>1, BlockOpened DEF Blocks!Next, Blocks!Open
<1>2. ASSUME UNCHANGED << scope, current >>
      PROVE  UNCHANGED OpenBlocks
  BY <1>2 DEF OpenBlocks, Path
<1>3. ASSUME NEW labels \in LabelLists, OpenScope(labels)
      PROVE  Blocks!Next
  BY <1>1, <1>3 DEF OpenScope, NameAssumption, Kinds
<1>4. ASSUME NEW labels \in LabelLists, NEW parameters \in NameLists, Procedure(labels, parameters)
      PROVE  Blocks!Next
  BY <1>1, <1>4 DEF Procedure, NameAssumption, Kinds
<1>5. ASSUME NEW labels \in LabelLists, NEW parameters \in NameLists, Entry(labels, parameters)
      PROVE  UNCHANGED OpenBlocks
  BY <1>2, <1>5 DEF Entry
<1>6. ASSUME NEW labels \in LabelLists, NEW kind \in {"PROCEDURE", "ENTRY"},
             NoPlaceForLabels(kind, labels)
      PROVE  UNCHANGED OpenBlocks
  BY <1>2, <1>6 DEF NoPlaceForLabels, Crash
<1>7. CASE End
  <2>1. CASE current = NULL
    BY <1>2, <1>7, <2>1 DEF End
  <2>2. CASE current # NULL
    <3>1. Path(current)' = SubSeq(Path(current), 1, Len(Path(current)) - 1) /\ UNCHANGED scope
      BY <1>7, <2>2, CurrentParent DEF End, Path
    <3>2. Len(Path(current)) \in Nat \ {0} /\ Len(OpenBlocks) = Len(Path(current))
      BY <2>2, CurrentParent, OpenBlocksType
    <3>3. OpenBlocks' = SubSeq(OpenBlocks, 1, Len(OpenBlocks) - 1)
      BY <3>1, <3>2, BlocksClosed
    <3>4. OpenBlocks # << >>
      BY <3>2
    <3> QED BY <3>3, <3>4 DEF Blocks!Next, Blocks!Close
  <2> QED BY <2>1, <2>2
<1>8. ASSUME NEW label \in Name, EndNamed(label)
      PROVE  [Blocks!Next]_OpenBlocks
  <2>1. CASE current = NULL
    BY <1>2, <1>8, <2>1 DEF EndNamed
  <2>2. CASE current # NULL /\ lookUpMatchingNode(current, label) = {}
    BY <1>2, <1>8, <2>2 DEF EndNamed, Crash
  <2>3. CASE current # NULL /\ lookUpMatchingNode(current, label) # {}
    <3>1. PICK s \in lookUpMatchingNode(current, label) : current' = Parent(s) /\ UNCHANGED scope
      BY <1>8, <2>3 DEF EndNamed
    <3>2. PICK i \in Labelled(current, label) :
            /\ i \in 1..Len(Path(current))
            /\ \A j \in Labelled(current, label) : j <= i
            /\ s = Path(current)[i]
      BY <2>3, <3>1, LookUp
    <3>3. Path(current)' = SubSeq(Path(current), 1, i - 1)
      BY <2>3, <3>1, <3>2, Ancestor DEF Path
    <3>4. i - 1 \in 0..Len(Path(current))
      BY <3>2, OpenBlocksType
    <3>5. OpenBlocks' = SubSeq(OpenBlocks, 1, i - 1)
      BY <3>1, <3>3, <3>4, BlocksClosed
    <3>6. Labelled(current, label) = Blocks!Labelled(label)
      BY OpenBlocksType DEF Labelled, Blocks!Labelled
    <3>7. Blocks!CloseNamed(label)
      BY <3>2, <3>5, <3>6 DEF Blocks!CloseNamed
    <3> QED BY <3>7 DEF Blocks!Next
  <2> QED BY <2>1, <2>2, <2>3
<1>9. ASSUME NEW names \in NameLists, NEW fits \in BOOLEAN, Declare(names, fits)
      PROVE  UNCHANGED OpenBlocks
  BY <1>2, <1>9 DEF Declare, Crash
<1>10. CASE UNCHANGED vars
  BY <1>2, <1>10 DEF vars
<1> QED BY <1>3, <1>4, <1>5, <1>6, <1>7, <1>8, <1>9, <1>10 DEF Next

(* newScope and endScope open and close blocks as PL/I asks, for every      *)
(* program; END with a name closes up to the innermost block that has it.   *)
THEOREM BlocksRefined == Spec => BlocksNest
<1>1. Init => Blocks!Init
  BY BlocksInit, NameAssumption
<1>2. Inv /\ [Next]_vars => [Blocks!Next]_OpenBlocks
  BY BlocksNext, NameAssumption
<1> QED BY <1>1, <1>2, InvHolds, PTL DEF Spec, BlocksNest, Blocks!Spec

-----------------------------------------------------------------------------
(* The names of the scopes. *)

(* The lists of names without two explicit declarations of a name. *)
OneEach(l) ==
  \A i, j \in 1..Len(l) : i < j /\ l[i].name = l[j].name => l[j].implied

DclList == {l \in Seq(DeclareElement) : OneEach(l)}

(* The names of a list, and those explicitly declared. *)
NamesOf(l) == {l[i].name : i \in 1..Len(l)}

Explicit(l) == {l[i].name : i \in {j \in 1..Len(l) : ~l[j].implied}}

(* No name is lost, and no explicit declaration. *)
Grows(l, m) == NamesOf(l) \subseteq NamesOf(m) /\ Explicit(l) \subseteq Explicit(m)

(* findDclName finds the first element with the name. *)
LEMMA FindDclName ==
  ASSUME NEW l \in Seq(DeclareElement), NEW x
  PROVE  /\ findDclName(l, x) = 0 => x \notin NamesOf(l)
         /\ findDclName(l, x) # 0 =>
              /\ findDclName(l, x) \in 1..Len(l)
              /\ l[findDclName(l, x)].name = x
              /\ \A j \in 1..Len(l) : l[j].name = x => findDclName(l, x) <= j
<1> DEFINE at == {i \in DOMAIN l : l[i].name = x}
<1>1. DOMAIN l = 1..Len(l) /\ Len(l) \in Nat
  OBVIOUS
<1>2. CASE at = {}
  BY <1>1, <1>2 DEF findDclName, NamesOf
<1>3. CASE at # {}
  <2>1. at \in SUBSET Nat
    BY <1>1
  <2>2. \E i \in at : \A j \in at : i <= j
    BY <1>3, <2>1, Least
  <2>3. findDclName(l, x) = CHOOSE i \in at : \A j \in at : i <= j
    BY <1>3 DEF findDclName
  <2>4. findDclName(l, x) \in at /\ \A j \in at : findDclName(l, x) <= j
    <3> HIDE DEF at
    <3> QED BY <2>2, <2>3
  <2> QED BY <1>1, <2>4
<1> QED BY <1>2, <1>3

(* An implied name at the end of a list. *)
LEMMA AppendImplied ==
  ASSUME NEW l \in DclList, NEW x \in Name
  PROVE  /\ Append(l, Implied(x)) \in DclList
         /\ Grows(l, Append(l, Implied(x)))
         /\ x \in NamesOf(Append(l, Implied(x)))
<1> DEFINE e == Implied(x)
           m == Append(l, e)
<1>1. l \in Seq(DeclareElement) /\ OneEach(l) /\ e \in DeclareElement /\ e.implied /\ e.name = x
  BY DEF DclList, Implied, DeclareElement
<1> HIDE DEF e
<1>2. /\ m \in Seq(DeclareElement) /\ Len(m) = Len(l) + 1 /\ m[Len(m)] = e
      /\ Len(l) \in Nat /\ \A i \in 1..Len(l) : m[i] = l[i]
  BY <1>1
<1> HIDE DEF m
<1>3. OneEach(m)
  <2> SUFFICES ASSUME NEW i \in 1..Len(m), NEW j \in 1..Len(m), i < j, m[i].name = m[j].name
               PROVE  m[j].implied
    BY DEF OneEach
  <2>1. CASE j = Len(m)
    BY <1>1, <1>2, <2>1
  <2>2. CASE j # Len(m)
    <3>1. i \in 1..Len(l) /\ j \in 1..Len(l)
      BY <1>2, <2>2
    <3>2. m[i] = l[i] /\ m[j] = l[j]
      BY <1>2, <3>1
    <3> QED BY <1>1, <3>1, <3>2 DEF OneEach
  <2> QED BY <2>1, <2>2
<1>4. Grows(l, m) /\ x \in NamesOf(m)
  <2>1. \A i \in 1..Len(l) : i \in 1..Len(m)
    BY <1>2
  <2>2. Len(m) \in 1..Len(m)
    BY <1>2
  <2> QED BY <1>1, <1>2, <2>1, <2>2 DEF Grows, NamesOf, Explicit
<1> QED BY <1>2, <1>3, <1>4 DEF DclList, m, e

(* An explicit name that a list does not have yet. *)
LEMMA AppendExplicit ==
  ASSUME NEW l \in DclList, NEW x \in Name, x \notin NamesOf(l)
  PROVE  LET m == Append(l, [name |-> x, implied |-> FALSE])
         IN  m \in DclList /\ Grows(l, m) /\ x \in Explicit(m)
<1> DEFINE e == [name |-> x, implied |-> FALSE]
           m == Append(l, e)
<1>1. l \in Seq(DeclareElement) /\ OneEach(l) /\ e \in DeclareElement /\ ~e.implied /\ e.name = x
  BY DEF DclList, DeclareElement
<1> HIDE DEF e
<1>2. /\ m \in Seq(DeclareElement) /\ Len(m) = Len(l) + 1 /\ m[Len(m)] = e
      /\ Len(l) \in Nat /\ \A i \in 1..Len(l) : m[i] = l[i]
  BY <1>1
<1> HIDE DEF m
<1>3. OneEach(m)
  <2> SUFFICES ASSUME NEW i \in 1..Len(m), NEW j \in 1..Len(m), i < j, m[i].name = m[j].name
               PROVE  m[j].implied
    BY DEF OneEach
  <2>0. i \in 1..Len(l) /\ m[i] = l[i]
    BY <1>2
  <2>1. CASE j = Len(m)
    BY <1>1, <1>2, <2>0, <2>1 DEF NamesOf
  <2>2. CASE j # Len(m)
    <3>1. j \in 1..Len(l)
      BY <1>2, <2>2
    <3>2. m[j] = l[j]
      BY <1>2, <3>1
    <3> QED BY <1>1, <2>0, <3>1, <3>2 DEF OneEach
  <2> QED BY <2>1, <2>2
<1>4. Grows(l, m) /\ x \in Explicit(m)
  <2>1. \A i \in 1..Len(l) : i \in 1..Len(m)
    BY <1>2
  <2>2. Len(m) \in 1..Len(m)
    BY <1>2
  <2> QED BY <1>1, <1>2, <2>1, <2>2 DEF Grows, NamesOf, Explicit
<1> QED BY <1>2, <1>3, <1>4 DEF m, e, DclList

(* The first element of a name becomes explicit. *)
LEMMA MakeExplicit ==
  ASSUME NEW l \in DclList, NEW x \in Name, findDclName(l, x) # 0
  PROVE  LET m == [l EXCEPT ![findDclName(l, x)].implied = FALSE]
         IN  m \in DclList /\ Grows(l, m) /\ x \in Explicit(m)
<1> DEFINE f == findDclName(l, x)
           m == [l EXCEPT ![f].implied = FALSE]
<1>1. l \in Seq(DeclareElement) /\ OneEach(l) /\ Len(l) \in Nat
  BY DEF DclList
<1>2. f \in 1..Len(l) /\ l[f].name = x /\ \A j \in 1..Len(l) : l[j].name = x => f <= j
  BY <1>1, FindDclName
<1> HIDE DEF f
<1>3. \A i \in 1..Len(l) : l[i] \in DeclareElement
  BY <1>1
<1>4. /\ m \in Seq(DeclareElement) /\ Len(m) = Len(l)
      /\ m[f] = [l[f] EXCEPT !.implied = FALSE]
      /\ \A i \in 1..Len(l) : i # f => m[i] = l[i]
  <2> DEFINE e == [l[f] EXCEPT !.implied = FALSE]
  <2>1. e \in DeclareElement
    BY <1>2, <1>3 DEF DeclareElement
  <2>2. m = [l EXCEPT ![f] = e]
    OBVIOUS
  <2> HIDE DEF e, m
  <2>3. m \in Seq(DeclareElement) /\ Len(m) = Len(l) /\ m[f] = e
        /\ \A i \in 1..Len(l) : i # f => m[i] = l[i]
    BY <1>1, <1>2, <2>1, <2>2
  <2> QED BY <2>3 DEF e
<1>5. m[f].name = x /\ m[f].implied = FALSE
  BY <1>2, <1>3, <1>4 DEF DeclareElement
<1> HIDE DEF m
<1>6. \A i \in 1..Len(l) : m[i].name = l[i].name
  BY <1>2, <1>4, <1>5
<1>7. OneEach(m)
  <2> SUFFICES ASSUME NEW i \in 1..Len(l), NEW j \in 1..Len(l), i < j, m[i].name = m[j].name
               PROVE  m[j].implied
    BY <1>4 DEF OneEach
  <2>1. l[i].name = l[j].name
    BY <1>6
  <2>2. j # f
    BY <1>2, <2>1
  <2> QED BY <1>1, <1>4, <2>1, <2>2 DEF OneEach
<1>8. Grows(l, m) /\ x \in Explicit(m)
  <2>1. NamesOf(l) \subseteq NamesOf(m)
    BY <1>4, <1>6 DEF NamesOf
  <2>2. Explicit(l) \subseteq Explicit(m)
    <3> SUFFICES ASSUME NEW i \in 1..Len(l), ~l[i].implied
                 PROVE  l[i].name \in Explicit(m)
      BY DEF Explicit
    <3>1. ~m[i].implied
      BY <1>4, <1>5
    <3> QED BY <1>4, <1>6, <3>1 DEF Explicit
  <2>3. x \in Explicit(m)
    BY <1>2, <1>4, <1>5 DEF Explicit
  <2> QED BY <2>1, <2>2, <2>3 DEF Grows
<1> QED BY <1>4, <1>7, <1>8 DEF m, f, DclList

(* More and more names. *)
LEMMA GrowsTransitive ==
  ASSUME NEW l, NEW m, NEW n, Grows(l, m), Grows(m, n)
  PROVE  Grows(l, n)
BY DEF Grows

(* A parameter. *)
LEMMA AddImplied ==
  ASSUME NEW l \in DclList, NEW x \in Name
  PROVE  addDclImplied(l, x) \in DclList /\ Grows(l, addDclImplied(l, x))
<1>1. Grows(l, l)
  BY DEF Grows
<1> QED BY <1>1, AppendImplied DEF addDclImplied

(* defineProcedure declares each parameter in turn. *)
LEMMA DefineProcedureFold ==
  ASSUME NEW list \in DclList, NEW parms \in Seq(Name)
  PROVE  \E acc \in [0..Len(parms) -> DclList] :
           /\ acc[0] = list
           /\ \A k \in 1..Len(parms) : acc[k] = addDclImplied(acc[k - 1], parms[k])
           /\ defineProcedure(list, parms) = acc[Len(parms)]
<1> DEFINE T == DclList
           n == Len(parms)
           F == [p \in T \X (1..n) |-> addDclImplied(p[1], parms[p[2]])]
           Eq(g) == g = [s \in SUBSET (DOMAIN parms) |->
                           IF s = {} THEN list ELSE addDclImplied(g[s \ {Max(s)}], parms[Max(s)])]
           h == CHOOSE g : Eq(g)
<1>1. n \in Nat /\ DOMAIN parms = 1..n /\ \A i \in 1..n : parms[i] \in Name
  OBVIOUS
<1>2. F \in [T \X (1..n) -> T]
  BY <1>1, AddImplied
<1>3. \E g : Eq(g)
  <2>1. PICK g \in [SUBSET (1..n) -> T] : FoldEquation(g, n, F, list)
    <3> HIDE DEF T, F
    <3>1. list \in T
      BY DEF T
    <3> QED BY <1>1, <1>2, <3>1, FoldExists
  <2> HIDE DEF T
  <2> QED BY <1>1, <2>1 DEF FoldEquation
<1>4. Eq(h)
  <2> HIDE DEF Eq
  <2> QED BY <1>3
<1>5. defineProcedure(list, parms) = h[DOMAIN parms]
  BY DEF defineProcedure, FoldLeft, MapThenFoldSet
<1>6. Solves(h, DOMAIN parms, T, n, F, list)
  <2> HIDE DEF h, T
  <2> QED BY <1>1, <1>4 DEF Solves
<1>7. PICK acc : Steps(acc, T, n, F, list, h[DOMAIN parms])
  <2>1. list \in T
    OBVIOUS
  <2>2. n \in Nat
    BY <1>1
  <2> HIDE DEF h, F, T, n
  <2> QED BY <1>2, <1>6, <2>1, <2>2, FoldSteps
<1>8. \A k \in 1..n : acc[k] = addDclImplied(acc[k - 1], parms[k])
  <2>1. \A k \in 1..n : k - 1 \in 0..n
    BY <1>1
  <2> HIDE DEF T, n
  <2> QED BY <1>7, <2>1 DEF Steps
<1> HIDE DEF h
<1> QED BY <1>5, <1>7, <1>8 DEF Steps

(* What remains of the names of a list when parameters are declared. *)
LEMMA DefineProcedure ==
  ASSUME NEW list \in DclList, NEW parms \in Seq(Name)
  PROVE  defineProcedure(list, parms) \in DclList /\ Grows(list, defineProcedure(list, parms))
<1>1. PICK acc \in [0..Len(parms) -> DclList] :
        /\ acc[0] = list
        /\ \A k \in 1..Len(parms) : acc[k] = addDclImplied(acc[k - 1], parms[k])
        /\ defineProcedure(list, parms) = acc[Len(parms)]
  BY DefineProcedureFold
<1> DEFINE n == Len(parms)
           S == {k \in Nat : k <= n => Grows(list, acc[k])}
<1>2. n \in Nat /\ \A i \in 1..n : parms[i] \in Name
  OBVIOUS
<1>3. 0 \in S
  BY <1>1 DEF Grows
<1>4. ASSUME NEW k \in Nat, k \in S PROVE k + 1 \in S
  <2> SUFFICES ASSUME k + 1 <= n PROVE Grows(list, acc[k + 1])
    OBVIOUS
  <2>1. k + 1 \in 1..n /\ (k + 1) - 1 = k /\ k \in 0..n /\ Grows(list, acc[k])
    BY <1>2, <1>4
  <2> HIDE DEF n
  <2>2. acc[k + 1] = addDclImplied(acc[k], parms[k + 1])
    BY <1>1, <2>1 DEF n
  <2>3. Grows(acc[k], acc[k + 1])
    <3>1. acc[k] \in DclList /\ parms[k + 1] \in Name
      BY <1>1, <1>2, <2>1 DEF n
    <3> QED BY <2>2, <3>1, AddImplied
  <2> QED BY <2>1, <2>3, GrowsTransitive
<1>5. Nat \subseteq S
  <2> HIDE DEF S
  <2> QED BY <1>3, <1>4, NatSetInduction
<1>6. Grows(list, acc[n])
  <2>1. n \in S
    <3> HIDE DEF S
    <3> QED BY <1>2, <1>5
  <2> QED BY <1>2, <2>1
<1>7. acc[n] \in DclList
  BY <1>1, <1>2
<1> QED BY <1>1, <1>6, <1>7

(* The state of addDclDeclareElementList. *)
Round == [list: DclList, end: {"ok", "duplicate", "attributes"}]

(* A round of addDclDeclareElementList for the name x. *)
LEMMA Declare1Round ==
  ASSUME NEW r \in Round, NEW x \in Name, NEW fits \in BOOLEAN
  PROVE  LET q == Declare1(r, x, fits)
         IN  /\ q \in Round /\ Grows(r.list, q.list)
             /\ q.end = "ok" => r.end = "ok" /\ x \in Explicit(q.list)
<1> DEFINE l == r.list
           f == findDclName(l, x)
           q == Declare1(r, x, fits)
           e == IF fits THEN "ok" ELSE "attributes"
<1>1. l \in DclList /\ r.end \in {"ok", "duplicate", "attributes"} /\ Grows(l, l)
  BY DEF Round, Grows
<1>2. CASE r.end # "ok"
  BY <1>1, <1>2 DEF Declare1
<1>3. CASE r.end = "ok" /\ f = 0
  <2> DEFINE m == Append(l, [name |-> x, implied |-> FALSE])
  <2>1. q = [r EXCEPT !.list = m]
    BY <1>3 DEF Declare1
  <2>2. m \in DclList /\ Grows(l, m) /\ x \in Explicit(m)
    <3>1. x \notin NamesOf(l)
      BY <1>1, <1>3, FindDclName DEF DclList
    <3> QED BY <1>1, <3>1, AppendExplicit
  <2>3. q \in Round /\ q.list = m /\ q.end = "ok"
    <3> HIDE DEF m, q, l
    <3> QED BY <1>3, <2>1, <2>2 DEF Round
  <2> HIDE DEF m, q, l
  <2> QED BY <1>3, <2>2, <2>3 DEF q, l
<1>4. CASE r.end = "ok" /\ f # 0 /\ l[f].implied
  <2> DEFINE m == [l EXCEPT ![f].implied = FALSE]
  <2>1. q = [list |-> m, end |-> e]
    BY <1>4 DEF Declare1
  <2>2. m \in DclList /\ Grows(l, m) /\ x \in Explicit(m)
    BY <1>1, <1>4, MakeExplicit
  <2>3. q \in Round /\ q.list = m
    <3> HIDE DEF m, q, l
    <3> QED BY <2>1, <2>2 DEF Round
  <2> HIDE DEF m, q, l
  <2> QED BY <1>4, <2>2, <2>3 DEF q, l
<1>5. CASE r.end = "ok" /\ f # 0 /\ ~l[f].implied
  <2>1. q = [r EXCEPT !.end = "duplicate"]
    BY <1>5 DEF Declare1
  <2>2. q \in Round /\ q.list = l /\ q.end = "duplicate"
    <3> HIDE DEF q
    <3> QED BY <1>1, <2>1 DEF Round
  <2> HIDE DEF q
  <2> QED BY <1>1, <2>2 DEF q
<1> QED BY <1>2, <1>3, <1>4, <1>5

(* addDclDeclareElementList goes through the names. *)
LEMMA DeclareFold ==
  ASSUME NEW list \in DclList, NEW names \in Seq(Name), NEW fits \in BOOLEAN
  PROVE  \E acc \in [0..Len(names) -> Round] :
           /\ acc[0] = [list |-> list, end |-> "ok"]
           /\ \A k \in 1..Len(names) : acc[k] = Declare1(acc[k - 1], names[k], fits)
           /\ addDclDeclareElementList(list, names, fits) = acc[Len(names)]
<1> DEFINE T == Round
           n == Len(names)
           base == [list |-> list, end |-> "ok"]
           F == [p \in T \X (1..n) |-> Declare1(p[1], names[p[2]], fits)]
           Eq(g) == g = [s \in SUBSET (DOMAIN names) |->
                           IF s = {} THEN base ELSE Declare1(g[s \ {Max(s)}], names[Max(s)], fits)]
           h == CHOOSE g : Eq(g)
<1>1. n \in Nat /\ DOMAIN names = 1..n /\ \A i \in 1..n : names[i] \in Name
  OBVIOUS
<1>2. F \in [T \X (1..n) -> T] /\ base \in T
  <2>1. \A p \in T \X (1..n) : Declare1(p[1], names[p[2]], fits) \in T
    BY <1>1, Declare1Round
  <2> QED BY <2>1 DEF Round
<1>3. \E g : Eq(g)
  <2>1. PICK g \in [SUBSET (1..n) -> T] : FoldEquation(g, n, F, base)
    <3> HIDE DEF T, F, base
    <3> QED BY <1>1, <1>2, FoldExists
  <2>2. ASSUME NEW s \in SUBSET (1..n), s # {}
        PROVE  g[s] = Declare1(g[s \ {Max(s)}], names[Max(s)], fits)
    <3> HIDE DEF T, base, n
    <3>1. Max(s) \in s /\ g[s] = F[<< g[s \ {Max(s)}], Max(s) >>]
      BY <2>1, <2>2 DEF FoldEquation
    <3>2. g[s \ {Max(s)}] \in T /\ Max(s) \in 1..n
      BY <3>1
    <3> QED BY <3>1, <3>2
  <2>3. g[{}] = base
    <3> HIDE DEF F, base, T
    <3> QED BY <2>1 DEF FoldEquation
  <2> HIDE DEF T, base, n
  <2>4. g = [s \in SUBSET (1..n) |->
               IF s = {} THEN base ELSE Declare1(g[s \ {Max(s)}], names[Max(s)], fits)]
    BY <2>2, <2>3
  <2> QED BY <1>1, <2>4 DEF n
<1>4. Eq(h)
  <2> HIDE DEF Eq
  <2> QED BY <1>3
<1>5. addDclDeclareElementList(list, names, fits) = h[DOMAIN names]
  BY DEF addDclDeclareElementList, FoldLeft, MapThenFoldSet
<1>6. Solves(h, DOMAIN names, T, n, F, base)
  <2> HIDE DEF h, T, base
  <2> QED BY <1>1, <1>4 DEF Solves
<1>7. PICK acc : Steps(acc, T, n, F, base, h[DOMAIN names])
  <2>2. n \in Nat
    BY <1>1
  <2> HIDE DEF h, F, T, n, base
  <2> QED BY <1>2, <1>6, <2>2, FoldSteps
<1>8. \A k \in 1..n : acc[k] = Declare1(acc[k - 1], names[k], fits)
  <2>1. \A k \in 1..n : k - 1 \in 0..n
    BY <1>1
  <2> HIDE DEF T, n, base
  <2> QED BY <1>7, <2>1 DEF Steps
<1> HIDE DEF h
<1> QED BY <1>5, <1>7, <1>8 DEF Steps

(* A DECLARE leaves no name out unless it ends with a message. *)
LEMMA DeclareList ==
  ASSUME NEW list \in DclList, NEW names \in Seq(Name), NEW fits \in BOOLEAN
  PROVE  LET r == addDclDeclareElementList(list, names, fits)
         IN  /\ r \in Round /\ Grows(list, r.list)
             /\ r.end = "ok" => \A i \in 1..Len(names) : names[i] \in Explicit(r.list)
<1>1. PICK acc \in [0..Len(names) -> Round] :
        /\ acc[0] = [list |-> list, end |-> "ok"]
        /\ \A k \in 1..Len(names) : acc[k] = Declare1(acc[k - 1], names[k], fits)
        /\ addDclDeclareElementList(list, names, fits) = acc[Len(names)]
  BY DeclareFold
<1> DEFINE n == Len(names)
           P(k) == /\ Grows(list, acc[k].list)
                   /\ acc[k].end = "ok" => \A i \in 1..k : names[i] \in Explicit(acc[k].list)
           S == {k \in Nat : k <= n => P(k)}
<1>2. n \in Nat /\ \A i \in 1..n : names[i] \in Name
  OBVIOUS
<1>3. 0 \in S
  <2>1. acc[0].list = list
    BY <1>1
  <2>2. P(0)
    BY <2>1 DEF Grows
  <2> HIDE DEF P
  <2> QED BY <2>2
<1>4. ASSUME NEW k \in Nat, k \in S PROVE k + 1 \in S
  <2> SUFFICES ASSUME k + 1 <= n PROVE P(k + 1)
    <3> HIDE DEF P
    <3> QED OBVIOUS
  <2>1. k + 1 \in 1..n /\ (k + 1) - 1 = k /\ k \in 0..n
    BY <1>2
  <2>2. P(k)
    <3> HIDE DEF P
    <3> QED BY <1>4, <2>1
  <2> HIDE DEF n
  <2>3. acc[k + 1] = Declare1(acc[k], names[k + 1], fits)
    BY <1>1, <2>1 DEF n
  <2>4. acc[k] \in Round /\ names[k + 1] \in Name
    BY <1>1, <1>2, <2>1 DEF n
  <2>5. /\ Grows(acc[k].list, acc[k + 1].list)
        /\ acc[k + 1].end = "ok" => acc[k].end = "ok" /\ names[k + 1] \in Explicit(acc[k + 1].list)
    BY <2>3, <2>4, Declare1Round
  <2>6. Grows(list, acc[k + 1].list)
    BY <2>2, <2>5, GrowsTransitive
  <2>7. ASSUME acc[k + 1].end = "ok", NEW i \in 1..(k + 1)
        PROVE  names[i] \in Explicit(acc[k + 1].list)
    <3>1. CASE i = k + 1
      BY <2>5, <2>7, <3>1
    <3>2. CASE i # k + 1
      <4>1. i \in 1..k
        BY <3>2
      <4>2. names[i] \in Explicit(acc[k].list)
        BY <2>2, <2>5, <2>7, <4>1
      <4> QED BY <2>5, <4>2 DEF Grows
    <3> QED BY <3>1, <3>2
  <2> QED BY <2>6, <2>7
<1>5. Nat \subseteq S
  <2> HIDE DEF S
  <2> QED BY <1>3, <1>4, NatSetInduction
<1>6. P(n)
  <2>1. n \in S
    <3> HIDE DEF S
    <3> QED BY <1>2, <1>5
  <2> HIDE DEF P
  <2> QED BY <1>2, <2>1
<1>7. acc[n] \in Round
  BY <1>1, <1>2
<1> HIDE DEF S
<1> QED BY <1>1, <1>6, <1>7

(* The labels of a procedure or an entry. *)
LEMMA AddLabelsNames ==
  ASSUME NEW l \in DclList, NEW labels \in Seq(Name)
  PROVE  /\ AddLabels(l, labels) \in DclList /\ Grows(l, AddLabels(l, labels))
         /\ \A i \in 1..Len(labels) : labels[i] \in NamesOf(AddLabels(l, labels))
<1> DEFINE t == [i \in DOMAIN labels |-> Implied(labels[i])]
           m == AddLabels(l, labels)
<1>1. l \in Seq(DeclareElement) /\ OneEach(l) /\ Len(l) \in Nat
  BY DEF DclList
<1>2. DOMAIN labels = 1..Len(labels) /\ Len(labels) \in Nat /\ \A i \in 1..Len(labels) : labels[i] \in Name
  OBVIOUS
<1>3. \A i \in 1..Len(labels) : Implied(labels[i]) \in DeclareElement
                               /\ Implied(labels[i]).implied /\ Implied(labels[i]).name = labels[i]
  BY <1>2 DEF Implied, DeclareElement
<1>4. t \in Seq(DeclareElement) /\ Len(t) = Len(labels)
      /\ \A i \in 1..Len(labels) : t[i].implied /\ t[i].name = labels[i]
  BY <1>2, <1>3
<1>5. m = l \o t
  BY DEF AddLabels
<1> HIDE DEF t, m
<1>6. /\ m \in Seq(DeclareElement) /\ Len(m) = Len(l) + Len(t)
      /\ \A i \in 1..Len(l) : m[i] = l[i]
      /\ \A i \in 1..Len(t) : m[Len(l) + i] = t[i]
  <2>1. t \in Seq(DeclareElement)
    BY <1>4
  <2> HIDE DEF DeclareElement
  <2> QED BY <1>1, <1>5, <2>1, ConcatProperties
<1>7. ASSUME NEW j \in 1..Len(m), j \notin 1..Len(l) PROVE m[j].implied
  <2>1. j - Len(l) \in 1..Len(t) /\ j = Len(l) + (j - Len(l))
    BY <1>1, <1>2, <1>4, <1>6, <1>7
  <2>2. m[j] = t[j - Len(l)]
    BY <1>6, <2>1
  <2> QED BY <1>4, <2>1, <2>2
<1>8. OneEach(m)
  <2> SUFFICES ASSUME NEW i \in 1..Len(m), NEW j \in 1..Len(m), i < j, m[i].name = m[j].name
               PROVE  m[j].implied
    BY DEF OneEach
  <2>1. CASE j \in 1..Len(l)
    <3>1. i \in 1..Len(l)
      BY <2>1
    <3>2. m[i] = l[i] /\ m[j] = l[j]
      BY <1>6, <2>1, <3>1
    <3> QED BY <1>1, <2>1, <3>1, <3>2 DEF OneEach
  <2>2. CASE j \notin 1..Len(l)
    BY <1>7, <2>2
  <2> QED BY <2>1, <2>2
<1>9. Grows(l, m)
  <2>1. \A i \in 1..Len(l) : i \in 1..Len(m)
    BY <1>1, <1>4, <1>6
  <2> QED BY <1>6, <2>1 DEF Grows, NamesOf, Explicit
<1>10. ASSUME NEW i \in 1..Len(labels) PROVE labels[i] \in NamesOf(m)
  <2>1. Len(l) + i \in 1..Len(m)
    BY <1>1, <1>4, <1>6
  <2>2. m[Len(l) + i].name = labels[i]
    BY <1>4, <1>6
  <2> QED BY <2>1, <2>2 DEF NamesOf
<1> QED BY <1>6, <1>8, <1>9, <1>10 DEF DclList, m

(* The labels of the procedures are names where the procedure is. *)
LabelsKnown ==
  \A s \in 1..Len(scope) :
    scope[s].kind = "PROCEDURE" =>
      /\ Parent(s) # NULL
      /\ \A i \in 1..Len(scope[s].name) :
           scope[s].name[i] # Unnamed => scope[s].name[i] \in NamesOf(dcl[Parent(s)])

(* The inductive invariant of the names. *)
NamesInv ==
  /\ dcl \in Seq(DclList) /\ Len(dcl) = Len(scope)
  /\ parser \in {"parsing", "stopped", "crashed"} /\ reported \in BOOLEAN
  /\ LabelsKnown

(* The invariants of ScopeTree about names follow. *)
LEMMA NamesInvMeans ==
  ASSUME Inv, NamesInv
  PROVE  TypeOK /\ OneExplicit /\ ProceduresKnown
<1>1. dcl \in Seq(Seq(DeclareElement))
  <2>1. DclList \subseteq Seq(DeclareElement)
    BY DEF DclList
  <2>2. dcl \in Seq(DclList)
    BY DEF NamesInv
  <2> HIDE DEF DclList
  <2> QED BY <2>1, <2>2
<1>2. TypeOK
  BY <1>1 DEF TypeOK, Inv, TreeTypeOK, NamesInv
<1>3. \A s \in 1..Len(dcl) : dcl[s] \in DclList
  BY DEF NamesInv
<1>4. OneExplicit
  BY <1>3 DEF OneExplicit, DclList, OneEach
<1>5. ProceduresKnown
  <2> SUFFICES ASSUME NEW s \in 1..Len(scope), scope[s].kind = "PROCEDURE",
                      NEW i \in DOMAIN scope[s].name, scope[s].name[i] # Unnamed
               PROVE  findDclName(dcl[Parent(s)], scope[s].name[i]) # 0
    BY DEF ProceduresKnown
  <2>1. scope[s] \in ScopeNode
    BY DEF Inv, TreeTypeOK
  <2>2. i \in 1..Len(scope[s].name)
    BY <2>1 DEF ScopeNode
  <2>3. Parent(s) \in 1..Len(scope)
    <3>1. Parent(s) \in 0..(s - 1) /\ Parent(s) # 0
      BY ParentType DEF Inv, TreeShape, NamesInv, LabelsKnown, NULL
    <3>2. Len(scope) \in Nat
      BY DEF Inv, TreeTypeOK
    <3> QED BY <3>1, <3>2
  <2>4. dcl[Parent(s)] \in Seq(DeclareElement)
    BY <1>3, <2>3 DEF NamesInv, DclList
  <2>5. scope[s].name[i] \in NamesOf(dcl[Parent(s)])
    BY <2>2 DEF NamesInv, LabelsKnown
  <2> QED BY <2>4, <2>5, FindDclName
<1> QED BY <1>2, <1>4, <1>5

(* The program starts with no names. *)
LEMMA NamesInit == NameAssumption /\ Init => NamesInv
<1> SUFFICES ASSUME NameAssumption, Init PROVE NamesInv
  OBVIOUS
<1>1. << >> \in DclList
  BY DEF DclList, OneEach
<1>2. dcl = << << >> >> /\ Len(scope) = 1 /\ scope[1].kind = "ROOT"
  BY DEF Init, initScopeNode
<1> HIDE DEF DclList
<1>3. dcl \in Seq(DclList) /\ Len(dcl) = 1
  BY <1>1, <1>2
<1>4. LabelsKnown
  BY <1>2 DEF LabelsKnown
<1> QED BY <1>2, <1>3, <1>4 DEF NamesInv, Init

(* A statement that leaves the tree of scopes alone and forgets no name.  *)
LEMMA NamesKept ==
  ASSUME Inv, NamesInv, UNCHANGED scope, dcl' \in Seq(DclList), Len(dcl') = Len(dcl),
         \A s \in 1..Len(dcl) : Grows(dcl[s], dcl'[s]),
         parser' \in {"parsing", "stopped", "crashed"}, reported' \in BOOLEAN
  PROVE  NamesInv'
<1>1. LabelsKnown'
  <2> SUFFICES ASSUME NEW s \in 1..Len(scope), scope[s].kind = "PROCEDURE"
               PROVE  /\ Parent(s) # NULL
                      /\ \A i \in 1..Len(scope[s].name) :
                           scope[s].name[i] # Unnamed => scope[s].name[i] \in NamesOf(dcl'[Parent(s)])
    BY DEF LabelsKnown, Parent
  <2>1. /\ Parent(s) # NULL
        /\ \A i \in 1..Len(scope[s].name) :
             scope[s].name[i] # Unnamed => scope[s].name[i] \in NamesOf(dcl[Parent(s)])
    BY DEF NamesInv, LabelsKnown
  <2>2. Parent(s) \in 1..Len(dcl)
    <3>1. Parent(s) \in 0..(s - 1)
      BY ParentType DEF Inv, TreeShape
    <3>2. Len(scope) \in Nat /\ Len(dcl) = Len(scope)
      BY DEF Inv, TreeTypeOK, NamesInv
    <3> QED BY <2>1, <3>1, <3>2 DEF NULL
  <2>3. NamesOf(dcl[Parent(s)]) \subseteq NamesOf(dcl'[Parent(s)])
    BY <2>2 DEF Grows
  <2> QED BY <2>1, <2>3
<1> QED BY <1>1 DEF NamesInv

(* A new scope, with the lists before it as they are or longer. *)
LEMMA NamesOfNewScope ==
  ASSUME NameAssumption, Inv, NamesInv, NEW kind \in Kinds, NEW labels \in Seq(Name),
         newScope(kind, labels), NEW lists \in Seq(DclList), NEW first \in DclList,
         Len(lists) = Len(dcl), dcl' = Append(lists, first),
         \A s \in 1..Len(dcl) : Grows(dcl[s], lists[s]),
         kind = "PROCEDURE" =>
           /\ current # NULL /\ labels # << >>
           /\ \A i \in 1..Len(labels) : labels[i] \in NamesOf(lists[current]),
         UNCHANGED parser, reported' \in BOOLEAN
  PROVE  NamesInv'
<1> DEFINE old == Len(scope)
           new == Len(scope) + 1
<1>1. old \in Nat /\ Len(dcl) = old /\ Len(scope') = new /\ current \in 0..old
  BY NewScope DEF Inv, TreeTypeOK, NamesInv, Pointer
<1>2. /\ \A s \in 1..old : scope'[s].name = scope[s].name /\ scope'[s].kind = scope[s].kind
      /\ scope'[new].kind = kind
      /\ scope'[new].name = IF labels = << >> THEN << Unnamed >> ELSE labels
  BY NewScope
<1>3. /\ \A s \in 1..old : NewParent(s) = Parent(s) /\ Parent(s) \in 0..(s - 1)
      /\ NewParent(new) = current
  BY NewScopeParents
<1>4. /\ dcl' \in Seq(DclList) /\ Len(dcl') = new
      /\ \A s \in 1..old : dcl'[s] = lists[s]
  <2> HIDE DEF DclList
  <2> QED BY <1>1
<1>5. LabelsKnown'
  <2> SUFFICES ASSUME NEW s \in 1..new, scope'[s].kind = "PROCEDURE"
               PROVE  /\ NewParent(s) # NULL
                      /\ \A i \in 1..Len(scope'[s].name) :
                           scope'[s].name[i] # Unnamed => scope'[s].name[i] \in NamesOf(dcl'[NewParent(s)])
    BY <1>1 DEF LabelsKnown, Parent, NewParent
  <2>1. CASE s \in 1..old
    <3>1. scope[s].kind = "PROCEDURE" /\ scope'[s].name = scope[s].name /\ NewParent(s) = Parent(s)
      BY <2>1, <1>2, <1>3
    <3>2. /\ Parent(s) # NULL
          /\ \A i \in 1..Len(scope[s].name) :
               scope[s].name[i] # Unnamed => scope[s].name[i] \in NamesOf(dcl[Parent(s)])
      BY <2>1, <3>1 DEF NamesInv, LabelsKnown
    <3>3. Parent(s) \in 1..old
      BY <2>1, <3>2, <1>1, <1>3 DEF NULL
    <3>4. NamesOf(dcl[Parent(s)]) \subseteq NamesOf(dcl'[Parent(s)])
      BY <3>3, <1>1, <1>4 DEF Grows
    <3> QED BY <3>1, <3>2, <3>4
  <2>2. CASE s = new
    <3>1. kind = "PROCEDURE" /\ NewParent(s) = current
      BY <2>2, <1>2, <1>3
    <3>2. current # NULL /\ current \in 1..old /\ scope'[s].name = labels
      BY <3>1, <2>2, <1>1, <1>2 DEF NULL
    <3>3. dcl'[current] = lists[current]
      BY <3>2, <1>4
    <3> QED BY <3>1, <3>2, <3>3
  <2>3. s \in 1..old \/ s = new
    BY <1>1
  <2> QED BY <2>1, <2>2, <2>3
<1> QED BY <1>1, <1>4, <1>5 DEF NamesInv

(* Every statement keeps the invariant of the names. *)
LEMMA NamesNext == NameAssumption /\ Inv /\ NamesInv /\ [Next]_vars => NamesInv'
<1> SUFFICES ASSUME NameAssumption, Inv, NamesInv, [Next]_vars PROVE NamesInv'
  OBVIOUS
<1>0. /\ dcl \in Seq(DclList) /\ Len(dcl) = Len(scope) /\ Len(scope) \in Nat /\ current \in 0..Len(scope)
      /\ \A s \in 1..Len(dcl) : dcl[s] \in DclList /\ Grows(dcl[s], dcl[s])
      /\ parser \in {"parsing", "stopped", "crashed"} /\ reported \in BOOLEAN
      /\ << >> \in DclList
  <2>1. << >> \in DclList
    BY DEF DclList, OneEach
  <2> HIDE DEF DclList
  <2> QED BY <2>1 DEF NamesInv, Inv, TreeTypeOK, Pointer, Grows
<1>e. NULL = 0 /\ \A s \in 1..Len(scope) : Parent(s) \in 0..(s - 1)
  BY ParentType DEF Inv, TreeShape, NULL
<1>a. LabelLists \subseteq Seq(Name) /\ NameLists \subseteq Seq(Name)
  BY DEF NameAssumption
<1>1. ASSUME NEW labels \in LabelLists, OpenScope(labels) PROVE NamesInv'
  <2>1. newScope("OTHER", labels) /\ dcl' = Append(dcl, << >>) /\ reported' = FALSE /\ UNCHANGED parser
    BY <1>1 DEF OpenScope
  <2>2. "OTHER" \in Kinds /\ "OTHER" # "PROCEDURE" /\ labels \in Seq(Name)
    BY <1>a DEF Kinds
  <2> HIDE DEF DclList
  <2> QED BY <1>0, <2>1, <2>2, NamesOfNewScope
<1>2. ASSUME NEW labels \in LabelLists, NEW parameters \in NameLists, Procedure(labels, parameters)
      PROVE  NamesInv'
  <2> DEFINE lists == [dcl EXCEPT ![current] = AddLabels(@, labels)]
             first == defineProcedure(<< >>, parameters)
  <2>1. /\ newScope("PROCEDURE", labels) /\ dcl' = Append(lists, first) /\ reported' = FALSE
        /\ UNCHANGED parser /\ current # NULL /\ labels # << >>
    BY <1>2 DEF Procedure
  <2>2. "PROCEDURE" \in Kinds /\ labels \in Seq(Name) /\ parameters \in Seq(Name)
    BY <1>a DEF Kinds
  <2>3. current \in 1..Len(dcl)
    BY <1>0, <1>e, <2>1
  <2>4. /\ AddLabels(dcl[current], labels) \in DclList
        /\ Grows(dcl[current], AddLabels(dcl[current], labels))
        /\ \A i \in 1..Len(labels) : labels[i] \in NamesOf(AddLabels(dcl[current], labels))
    BY <1>0, <2>2, <2>3, AddLabelsNames
  <2>5. first \in DclList
    BY <1>0, <2>2, DefineProcedure
  <2> HIDE DEF DclList, first
  <2>6. /\ lists \in Seq(DclList) /\ Len(lists) = Len(dcl)
        /\ lists[current] = AddLabels(dcl[current], labels)
        /\ \A s \in 1..Len(dcl) : Grows(dcl[s], lists[s])
    BY <1>0, <2>3, <2>4
  <2> HIDE DEF lists
  <2> QED BY <1>0, <2>1, <2>2, <2>4, <2>5, <2>6, NamesOfNewScope
<1>3. ASSUME NEW labels \in LabelLists, NEW parameters \in NameLists, Entry(labels, parameters)
      PROVE  NamesInv'
  <2> DEFINE own == defineProcedure(dcl[current], parameters)
             outer == AddLabels(dcl[Parent(current)], labels)
  <2>1. /\ UNCHANGED << scope, current, parser >> /\ reported' = FALSE
        /\ current # NULL /\ Parent(current) # NULL
        /\ dcl' = [dcl EXCEPT ![current] = defineProcedure(@, parameters),
                              ![Parent(current)] = AddLabels(@, labels)]
    BY <1>3 DEF Entry
  <2>2. labels \in Seq(Name) /\ parameters \in Seq(Name)
    BY <1>a
  <2>3. current \in 1..Len(dcl) /\ Parent(current) \in 1..Len(dcl) /\ Parent(current) # current
    BY <1>0, <1>e, <2>1
  <2>4. outer \in DclList /\ Grows(dcl[Parent(current)], outer)
    BY <1>0, <2>2, <2>3, AddLabelsNames
  <2>5. own \in DclList /\ Grows(dcl[current], own)
    BY <1>0, <2>2, <2>3, DefineProcedure
  <2>6. dcl' = [dcl EXCEPT ![current] = own, ![Parent(current)] = outer]
    BY <2>1, <2>3
  <2> HIDE DEF DclList, own, outer
  <2>7. dcl' \in Seq(DclList) /\ Len(dcl') = Len(dcl) /\ \A s \in 1..Len(dcl) : Grows(dcl[s], dcl'[s])
    <3> DEFINE p == Parent(current)
    <3> HIDE DEF p
    <3> QED BY <1>0, <2>3, <2>4, <2>5, <2>6 DEF p
  <2> QED BY <1>0, <2>1, <2>7, NamesKept
<1>4. ASSUME UNCHANGED << scope, dcl >>,
             parser' \in {"parsing", "stopped", "crashed"}, reported' \in BOOLEAN
      PROVE  NamesInv'
  <2> HIDE DEF DclList
  <2> QED BY <1>0, <1>4, NamesKept
<1>5. ASSUME NEW labels \in LabelLists, NEW kind \in {"PROCEDURE", "ENTRY"}, NoPlaceForLabels(kind, labels)
      PROVE  NamesInv'
  BY <1>0, <1>4, <1>5 DEF NoPlaceForLabels, Crash
<1>6. CASE End
  BY <1>0, <1>4, <1>6 DEF End
<1>7. ASSUME NEW label \in Name, EndNamed(label) PROVE NamesInv'
  <2>1. UNCHANGED << scope, dcl >>
        /\ (parser' = parser \/ parser' = "crashed") /\ (reported' = reported \/ reported' = FALSE)
    BY <1>7 DEF EndNamed, Crash
  <2> QED BY <1>0, <1>4, <2>1
<1>8. ASSUME NEW names \in NameLists, NEW fits \in BOOLEAN, Declare(names, fits) PROVE NamesInv'
  <2>1. CASE current = NULL
    BY <1>0, <1>4, <1>8, <2>1 DEF Declare, Crash
  <2>2. CASE current # NULL
    <3> DEFINE r == addDclDeclareElementList(dcl[current], names, fits)
    <3>1. /\ dcl' = [dcl EXCEPT ![current] = r.list] /\ reported' = (r.end # "ok")
          /\ parser' = IF r.end = "attributes" THEN "stopped" ELSE "parsing"
          /\ UNCHANGED << scope, current >>
      BY <1>8, <2>2 DEF Declare
    <3>2. current \in 1..Len(dcl) /\ names \in Seq(Name)
      BY <1>0, <1>e, <1>a, <2>2
    <3>3. r \in Round /\ Grows(dcl[current], r.list)
      BY <1>0, <3>2, DeclareList
    <3> HIDE DEF r, DclList
    <3>4. r.list \in DclList
      BY <3>3 DEF Round
    <3>5. dcl' \in Seq(DclList) /\ Len(dcl') = Len(dcl) /\ \A s \in 1..Len(dcl) : Grows(dcl[s], dcl'[s])
      BY <1>0, <3>1, <3>2, <3>3, <3>4
    <3> QED BY <3>1, <3>5, NamesKept
  <2> QED BY <2>1, <2>2
<1>9. CASE UNCHANGED vars
  BY <1>0, <1>4, <1>9 DEF vars
<1> QED BY <1>1, <1>2, <1>3, <1>5, <1>6, <1>7, <1>8, <1>9 DEF Next

(* The invariant of the names, for every program. *)
THEOREM NamesInvHolds == Spec => []NamesInv
<1>1. Init => NamesInv
  BY NamesInit, NameAssumption
<1>2. Inv /\ NamesInv /\ [Next]_vars => NamesInv'
  BY NamesNext, NameAssumption
<1> QED BY <1>1, <1>2, InvHolds, PTL DEF Spec

(* The types of the scopes and of the lists of names. *)
THEOREM TypeOKHolds == Spec => []TypeOK
<1>1. Inv /\ NamesInv => TypeOK
  BY NamesInvMeans
<1> QED BY <1>1, InvHolds, NamesInvHolds, PTL

(* Whatever labels, parameters and declarations meet in a scope, a name has *)
(* at most one explicit declaration there, and it is the one a search finds *)
(* (addDclDeclareElementList).                                              *)
THEOREM OneExplicitHolds == Spec => []OneExplicit
<1>1. Inv /\ NamesInv => OneExplicit
  BY NamesInvMeans
<1> QED BY <1>1, InvHolds, NamesInvHolds, PTL

(* Every label of a procedure is found in the scope around it, in every     *)
(* later state of the parse (defineProcedure, findDclName).                 *)
THEOREM ProceduresKnownHolds == Spec => []ProceduresKnown
<1>1. Inv /\ NamesInv => ProceduresKnown
  BY NamesInvMeans
<1> QED BY <1>1, InvHolds, NamesInvHolds, PTL

(* A DECLARE that says nothing has declared each of its names, however     *)
(* many there are and whatever was implied before.                          *)
THEOREM DeclaredOrReportedHolds == Spec => DeclaredOrReported
<1> DEFINE A == \A names \in NameLists, fits \in BOOLEAN :
       names # << >> /\ Declare(names, fits) /\ ~reported' /\ parser' = "parsing" =>
         \A i \in DOMAIN names :
           \E j \in DOMAIN dcl'[current] : dcl'[current][j] = [name |-> names[i], implied |-> FALSE]
<1>1. Inv /\ NamesInv /\ [Next]_vars => [A]_vars
  <2> SUFFICES ASSUME Inv, NamesInv,
                      NEW names \in NameLists, NEW fits \in BOOLEAN,
                      Declare(names, fits), ~reported', parser' = "parsing",
                      NEW i \in DOMAIN names
               PROVE  \E j \in DOMAIN dcl'[current] :
                        dcl'[current][j] = [name |-> names[i], implied |-> FALSE]
    OBVIOUS
  <2> DEFINE r == addDclDeclareElementList(dcl[current], names, fits)
  <2>1. current # NULL
    BY DEF Declare, Crash
  <2>2. dcl' = [dcl EXCEPT ![current] = r.list] /\ reported' = (r.end # "ok")
    BY <2>1 DEF Declare
  <2>3. current \in 1..Len(dcl) /\ names \in Seq(Name) /\ dcl \in Seq(DclList)
    BY <2>1, NameAssumption DEF NameAssumption, NamesInv, Inv, TreeTypeOK, Pointer, NULL
  <2>4. dcl[current] \in DclList
    <3> HIDE DEF DclList
    <3> QED BY <2>3
  <2>5. r \in Round /\ (r.end = "ok" => \A k \in 1..Len(names) : names[k] \in Explicit(r.list))
    BY <2>3, <2>4, DeclareList
  <2> HIDE DEF r
  <2>6. names[i] \in Explicit(r.list) /\ dcl'[current] = r.list
    <3>1. i \in 1..Len(names)
      BY <2>3
    <3>2. dcl'[current] = r.list
      <4> HIDE DEF DclList
      <4> QED BY <2>2, <2>3
    <3> QED BY <2>2, <2>5, <3>1, <3>2
  <2>7. r.list \in Seq(DeclareElement)
    BY <2>5 DEF Round, DclList
  <2>8. PICK j \in 1..Len(r.list) : ~r.list[j].implied /\ r.list[j].name = names[i]
    BY <2>6 DEF Explicit
  <2>9. r.list[j] = [name |-> names[i], implied |-> FALSE]
    <3>1. r.list[j] \in DeclareElement
      BY <2>7
    <3> QED BY <2>8, <3>1 DEF DeclareElement
  <2> QED BY <2>6, <2>7, <2>9
<1> QED BY <1>1, InvHolds, NamesInvHolds, PTL DEF Spec, DeclaredOrReported

-----------------------------------------------------------------------------
(* The cross reference.  produceXrefList is recursive over the tree; its   *)
(* values exist, because the pointers lead to younger scopes, and are right *)
(* for the scope that is the youngest one they are wrong for otherwise.     *)

(* The scopes of the part of the tree under c. *)
Below(c) == {t \in 1..Len(scope) : \E i \in 1..Len(Path(t)) : Path(t)[i] = c}

(* A scope is in the part under c when it is c or its parent is there. *)
LEMMA BelowIs ==
  ASSUME Inv
  PROVE  /\ Len(scope) \in Nat
         /\ \A t \in 1..Len(scope) : t \in Below(t) /\ Parent(t) \in 0..(t - 1)
         /\ \A t \in 1..Len(scope) : \A c : t # c => (t \in Below(c) <=> Parent(t) \in Below(c))
<1>1. Len(scope) \in Nat
  BY DEF Inv, TreeTypeOK
<1>2. ASSUME NEW t \in 1..Len(scope)
      PROVE  /\ Parent(t) \in 0..(t - 1) /\ (Parent(t) = 0 \/ Parent(t) \in 1..Len(scope))
             /\ Path(Parent(t)) \in Seq(Nat) /\ t \in Nat
             /\ Path(t) = Append(Path(Parent(t)), t)
  <2>1. /\ Parent(t) \in 0..(t - 1) /\ Path(t) = Append(scope[t].up, t)
        /\ scope[t].up = Path(Parent(t))
    BY ParentType DEF Inv, TreeShape
  <2>2. Parent(t) = 0 \/ Parent(t) \in 1..Len(scope)
    BY <1>1, <2>1
  <2>3. Path(Parent(t)) \in Seq(Nat)
    <3>1. CASE Parent(t) = 0
      BY <3>1 DEF Path, NULL
    <3>2. CASE Parent(t) \in 1..Len(scope)
      BY <3>2, ParentType DEF Inv, TreeShape
    <3> QED BY <2>2, <3>1, <3>2
  <2> QED BY <2>1, <2>2, <2>3
<1>3. ASSUME NEW t \in 1..Len(scope)
      PROVE  t \in Below(t) /\ \A c : t # c => (t \in Below(c) <=> Parent(t) \in Below(c))
  <2> DEFINE p == Path(Parent(t))
  <2>1. p \in Seq(Nat) /\ Path(t) = Append(p, t) /\ t \in Nat
    BY <1>2
  <2> HIDE DEF p
  <2>2. Len(Path(t)) = Len(p) + 1 /\ Len(p) \in Nat /\ Path(t)[Len(p) + 1] = t
        /\ \A i \in 1..Len(p) : Path(t)[i] = p[i]
    BY <2>1
  <2>3. \A c : (\E i \in 1..Len(Path(t)) : Path(t)[i] = c) <=> (c = t \/ \E i \in 1..Len(p) : p[i] = c)
    <3>1. \A i \in 1..Len(Path(t)) : i \in 1..Len(p) \/ i = Len(p) + 1
      BY <2>2
    <3>2. Len(p) + 1 \in 1..Len(Path(t)) /\ \A i \in 1..Len(p) : i \in 1..Len(Path(t))
      BY <2>2
    <3> QED BY <2>2, <3>1, <3>2
  <2>4. t \in Below(t)
    BY <2>3 DEF Below
  <2>5. ASSUME NEW c, t # c PROVE t \in Below(c) <=> Parent(t) \in Below(c)
    <3>1. t \in Below(c) <=> \E i \in 1..Len(p) : p[i] = c
      BY <2>3, <2>5 DEF Below
    <3>2. CASE Parent(t) = 0
      <4>1. p = << >>
        BY <3>2 DEF p, Path, NULL
      <4>2. 1..Len(p) = {}
        BY <4>1
      <4>3. Parent(t) \notin Below(c)
        BY <1>1, <3>2 DEF Below
      <4> QED BY <3>1, <4>2, <4>3
    <3>3. CASE Parent(t) \in 1..Len(scope)
      BY <3>1, <3>3 DEF Below, p
    <3> QED BY <1>2, <3>2, <3>3
  <2> QED BY <2>4, <2>5
<1> QED BY <1>1, <1>2, <1>3

(* The parts of the tree: what is under c is younger, and parts nest. *)
LEMMA BelowOrder ==
  ASSUME Inv
  PROVE  /\ \A c : \A t \in Below(c) : t \in 1..Len(scope)
         /\ \A c \in 1..Len(scope) : \A t \in Below(c) : c <= t
         /\ \A c \in 1..Len(scope) : \A d \in Below(c) : Below(d) \subseteq Below(c)
<1>0. \A c : \A t \in Below(c) : t \in 1..Len(scope)
  BY DEF Below
<1>1. ASSUME NEW c \in 1..Len(scope), NEW B, B = {t \in Below(c) : ~ c <= t}, B # {} PROVE FALSE
  <2>1. B \in SUBSET Nat
    BY <1>0, <1>1, BelowIs
  <2>2. PICK t \in B : \A u \in B : t <= u
    BY <1>1, <2>1, Least
  <2>3. t \in Below(c) /\ t \in 1..Len(scope) /\ t < c
    BY <1>0, <1>1, <2>2, BelowIs
  <2>4. Parent(t) \in Below(c) /\ Parent(t) \in 0..(t - 1)
    BY <2>3, BelowIs
  <2>5. Parent(t) \in B
    BY <1>0, <1>1, <2>3, <2>4, BelowIs
  <2> QED BY <2>2, <2>3, <2>4, <2>5
<1>2. ASSUME NEW c \in 1..Len(scope), NEW d \in Below(c), NEW B, B = {t \in Below(d) : t \notin Below(c)}, B # {} PROVE FALSE
  <2>1. B \in SUBSET Nat
    BY <1>0, <1>2, BelowIs
  <2>2. PICK t \in B : \A u \in B : t <= u
    BY <1>2, <2>1, Least
  <2>3. t \in Below(d) /\ t \in 1..Len(scope) /\ t \notin Below(c) /\ t # d /\ t # c
    BY <1>0, <1>2, <2>2, BelowIs
  <2>4. Parent(t) \in Below(d) /\ Parent(t) \in 0..(t - 1) /\ Parent(t) \notin Below(c)
    BY <2>3, BelowIs
  <2>5. Parent(t) \in B
    BY <1>2, <2>4
  <2> QED BY <2>2, <2>3, <2>4, <2>5
<1>3. \A c \in 1..Len(scope) : \A t \in Below(c) : c <= t
  BY <1>1
<1>4. ASSUME NEW c \in 1..Len(scope), NEW d \in Below(c) PROVE Below(d) \subseteq Below(c)
  <2>1. {t \in Below(d) : t \notin Below(c)} = {}
    BY <1>2
  <2> QED BY <2>1
<1> QED BY <1>0, <1>3, <1>4

(* Siblings have nothing in common. *)
LEMMA BelowApart ==
  ASSUME Inv, NEW c \in 1..Len(scope), NEW d \in 1..Len(scope), c # d, Parent(c) = Parent(d)
  PROVE  Below(c) \cap Below(d) = {}
<1> DEFINE B == Below(c) \cap Below(d)
<1>1. SUFFICES ASSUME B # {} PROVE FALSE
  OBVIOUS
<1>2. B \in SUBSET Nat
  BY BelowIs, BelowOrder
<1> HIDE DEF B
<1>3. PICK t \in B : \A u \in B : t <= u
  BY <1>1, <1>2, Least
<1>4. t \in Below(c) /\ t \in Below(d) /\ t \in 1..Len(scope)
  BY <1>3, BelowOrder DEF B
<1>5. CASE t = c
  <2>1. Parent(d) \in Below(d)
    BY <1>4, <1>5, BelowIs
  <2>2. d <= Parent(d) /\ Parent(d) \in 0..(d - 1)
    BY <2>1, BelowIs, BelowOrder
  <2> QED BY <2>2
<1>6. CASE t = d
  <2>1. Parent(c) \in Below(c)
    BY <1>4, <1>6, BelowIs
  <2>2. c <= Parent(c) /\ Parent(c) \in 0..(c - 1)
    BY <2>1, BelowIs, BelowOrder
  <2> QED BY <2>2
<1>7. CASE t # c /\ t # d
  <2>1. Parent(t) \in B /\ Parent(t) \in 0..(t - 1)
    BY <1>4, <1>7, BelowIs DEF B
  <2> QED BY <1>3, <1>4, <2>1
<1> QED BY <1>5, <1>6, <1>7

(* What is under c is c and what is under its children. *)
LEMMA BelowChildren ==
  ASSUME Inv, NEW c \in 1..Len(scope)
  PROVE  Below(c) \ {c} = UNION {Below(d) : d \in {e \in 1..Len(scope) : Parent(e) = c}}
<1> DEFINE C == {e \in 1..Len(scope) : Parent(e) = c}
           U == UNION {Below(d) : d \in C}
<1>1. ASSUME NEW t \in U PROVE t \in Below(c) /\ t # c
  <2>1. PICK d \in C : t \in Below(d)
    OBVIOUS
  <2>2. d \in 1..Len(scope) /\ Parent(d) = c /\ c \in 0..(d - 1) /\ d # c
    BY BelowIs
  <2>3. d \in Below(c)
    BY <2>2, BelowIs
  <2>4. t \in Below(c)
    BY <2>1, <2>3, BelowOrder
  <2>5. d <= t /\ t \in 1..Len(scope)
    BY <2>1, <2>2, BelowOrder
  <2> QED BY <2>2, <2>4, <2>5
<1>2. ASSUME NEW B, B = {t \in Below(c) : t # c /\ t \notin U}, B # {} PROVE FALSE
  <2> HIDE DEF U
  <2>1. B \in SUBSET Nat
    BY <1>2, BelowOrder, BelowIs
  <2>2. PICK t \in B : \A u \in B : t <= u
    BY <1>2, <2>1, Least
  <2>3. t \in Below(c) /\ t # c /\ t \notin U /\ t \in 1..Len(scope)
    BY <1>2, <2>2, BelowOrder
  <2>4. Parent(t) \in Below(c) /\ Parent(t) \in 0..(t - 1) /\ Parent(t) \in 1..Len(scope)
    BY <2>3, BelowIs, BelowOrder
  <2>5. CASE Parent(t) = c
    <3>1. t \in C /\ t \in Below(t)
      BY <2>3, <2>5, BelowIs
    <3> HIDE DEF C
    <3> QED BY <2>3, <3>1 DEF U
  <2>6. CASE Parent(t) # c
    <3>1. Parent(t) \notin B
      BY <2>2, <2>3, <2>4
    <3>2. Parent(t) \in U
      BY <1>2, <2>4, <2>6, <3>1
    <3>3. PICK d \in C : Parent(t) \in Below(d)
      BY <3>2 DEF U
    <3>4. t \in Below(d)
      <4>1. CASE t = d
        BY <2>3, <4>1, BelowIs
      <4>2. CASE t # d
        BY <2>3, <3>3, <4>2, BelowIs
      <4> QED BY <4>1, <4>2
    <3> QED BY <2>3, <3>3, <3>4 DEF U
  <2> QED BY <2>5, <2>6
<1> HIDE DEF U
<1>3. \A t \in Below(c) : t # c => t \in U
  BY <1>2
<1>4. Below(c) \ {c} = U
  BY <1>1, <1>3
<1> QED BY <1>4 DEF U

(* What is under the first scope is what has it first in its chain. *)
LEMMA BelowRoot ==
  ASSUME Inv
  PROVE  Below(1) = {s \in 1..Len(scope) : Path(s)[1] = 1} /\ Parent(1) = 0 /\ 1 \in 1..Len(scope)
<1>1. 1 \in 1..Len(scope)
  BY BelowIs, EmptySeq, LenProperties DEF Inv, TreeTypeOK
<1>2. Parent(1) = 0
  BY <1>1, BelowIs
<1>3. ASSUME NEW t \in 1..Len(scope)
      PROVE  /\ Path(t) \in Seq(Nat) /\ Len(Path(t)) >= 1 /\ Path(t)[Len(Path(t))] = t
             /\ Path(t) = Append(Path(Parent(t)), t)
             /\ Path(Parent(t)) \in Seq(Nat)
  <2>1. /\ Path(t) = Append(scope[t].up, t) /\ scope[t].up = Path(Parent(t)) /\ Path(t) \in Seq(Nat)
    BY ParentType DEF Inv, TreeShape
  <2>2. scope[t].up \in Seq(Nat)
    <3>1. scope[t] \in ScopeNode
      BY DEF Inv, TreeTypeOK
    <3> QED BY <3>1 DEF ScopeNode
  <2> HIDE DEF Path
  <2> QED BY <2>1, <2>2
<1>4. ASSUME NEW t \in 1..Len(scope), Path(t)[1] = 1 PROVE t \in Below(1)
  <2>1. 1 \in 1..Len(Path(t))
    BY <1>3
  <2> QED BY <1>4, <2>1 DEF Below
<1>5. ASSUME NEW B, B = {t \in Below(1) : Path(t)[1] # 1}, B # {} PROVE FALSE
  <2>1. B \in SUBSET Nat
    BY <1>5, BelowOrder, BelowIs
  <2>2. PICK t \in B : \A u \in B : t <= u
    BY <1>5, <2>1, Least
  <2>3. t \in Below(1) /\ Path(t)[1] # 1 /\ t \in 1..Len(scope)
    BY <1>5, <2>2, BelowOrder
  <2>4. CASE t = 1
    <3>1. Path(t) = Append(<< >>, 1)
      BY <1>1, <1>2, <1>3, <2>4 DEF Path, NULL
    <3> QED BY <2>3, <3>1
  <2>5. CASE t # 1
    <3>1. Parent(t) \in Below(1) /\ Parent(t) \in 0..(t - 1) /\ Parent(t) \in 1..Len(scope)
      BY <2>3, <2>5, BelowIs, BelowOrder
    <3>2. Path(Parent(t))[1] = 1
      BY <1>5, <2>2, <2>3, <3>1
    <3> DEFINE p == Path(Parent(t))
    <3>3. p \in Seq(Nat) /\ Len(p) >= 1 /\ Path(t) = Append(p, t) /\ p[1] = 1
      BY <1>3, <2>3, <3>1, <3>2
    <3> HIDE DEF p
    <3>4. Path(t)[1] = 1
      BY <3>3
    <3> QED BY <2>3, <3>4
  <2> QED BY <2>4, <2>5
<1> HIDE DEF Path
<1>6. {t \in Below(1) : Path(t)[1] # 1} = {}
  BY <1>5
<1>7. \A t \in Below(1) : t \in 1..Len(scope) /\ Path(t)[1] = 1
  BY <1>6, BelowOrder
<1> QED BY <1>1, <1>2, <1>4, <1>7

(* The pointers of a scope lead to younger scopes. *)
LEMMA Forward ==
  ASSUME Inv, NEW s \in 1..Len(scope)
  PROVE  /\ scope[s].next = NULL \/ scope[s].next \in (s + 1)..Len(scope)
         /\ scope[s].head = NULL \/ scope[s].head \in (s + 1)..Len(scope)
<1>1. scope[s].next = NULL \/ scope[s].next \in (s + 1)..Len(scope)
  <2> DEFINE k == scope[s].next
             sibling == {j \in (s + 1)..Len(scope) : Parent(s) # NULL /\ Parent(j) = Parent(s)}
  <2>1. k = NULL \/ k \in sibling
    BY DEF Inv, TreeShape, NextOK
  <2> QED BY <2>1
<1>2. scope[s].head = NULL \/ scope[s].head \in (s + 1)..Len(scope)
  <2> DEFINE h == scope[s].head
  <2>1. h = NULL \/ (h \in 1..Len(scope) /\ Parent(h) = s)
    BY DEF Inv, TreeShape, HeadsOK
  <2>2. Len(scope) \in Nat /\ \A t \in 1..Len(scope) : Parent(t) \in 0..(t - 1)
    BY BelowIs
  <2> HIDE DEF h
  <2>3. h = NULL \/ h \in (s + 1)..Len(scope)
    BY <2>1, <2>2
  <2> QED BY <2>3 DEF h
<1> QED BY <1>1, <1>2

(* f lists the scopes of a list, for each scope that it may start with. *)
ListEq(f, D) == f = [s \in D |-> IF s = NULL THEN << >> ELSE << s >> \o f[scope[s].next]]

(* The last k scopes, and NULL. *)
Youngest(k) == {0} \cup ((Len(scope) - k + 1)..Len(scope))

(* One scope more. *)
LEMMA LastIs ==
  ASSUME Inv, NEW k \in Nat, k + 1 <= Len(scope)
  PROVE  LET s == Len(scope) - k
         IN  /\ s \in 1..Len(scope) /\ s # 0 /\ s \notin Youngest(k)
             /\ Youngest(k + 1) = Youngest(k) \cup {s}
             /\ \A q \in Youngest(k + 1) : q # 0 => /\ q \in 1..Len(scope)
                                                /\ (q + 1)..Len(scope) \subseteq Youngest(k)
<1> DEFINE n == Len(scope)
           s == n - k
<1>1. n \in Nat
  BY BelowIs
<1> HIDE DEF n
<1>2. s \in 1..n /\ s # 0 /\ ~(s \in (n - k + 1)..n)
  BY <1>1 DEF n
<1>3. (n - (k + 1) + 1)..n = ((n - k + 1)..n) \cup {s}
  BY <1>1, <1>2
<1>4. ASSUME NEW q \in (n - (k + 1) + 1)..n PROVE q \in 1..n /\ (q + 1)..n \subseteq (n - k + 1)..n
  <2>1. q \in 1..n
    BY <1>1, <1>4 DEF n
  <2> QED BY <1>1, <1>4, <2>1
<1>5. Youngest(k + 1) = {0} \cup (n - (k + 1) + 1)..n /\ Youngest(k) = {0} \cup (n - k + 1)..n
  BY DEF Youngest, n
<1> HIDE DEF s
<1>6. /\ s \in 1..n /\ s # 0 /\ s \notin Youngest(k) /\ Youngest(k + 1) = Youngest(k) \cup {s}
  BY <1>2, <1>3, <1>5
<1>7. \A q \in Youngest(k + 1) : q # 0 => q \in 1..n /\ (q + 1)..n \subseteq Youngest(k)
  BY <1>4, <1>5
<1> QED BY <1>6, <1>7 DEF s, n

(* All scopes, and none. *)
LEMMA LastAll ==
  ASSUME Inv
  PROVE  Youngest(Len(scope)) = Pointer /\ Youngest(0) = {0}
<1>1. Len(scope) \in Nat
  BY BelowIs
<1>2. {0} \cup 1..Len(scope) = 0..Len(scope) /\ (Len(scope) + 1)..Len(scope) = {}
  BY <1>1
<1> QED BY <1>1, <1>2 DEF Youngest, Pointer

(* There is such a function, because next leads to younger scopes. *)
LEMMA ListExists ==
  ASSUME Inv
  PROVE  \E f : ListEq(f, Pointer)
<1> DEFINE n == Len(scope)
           P(k) == \E f : ListEq(f, Youngest(k))
           S == {k \in Nat : k <= n => P(k)}
           R(f, s) == IF s = NULL THEN << >> ELSE << s >> \o f[scope[s].next]
<1>0. n \in Nat
  BY BelowIs
<1>1. 0 \in S
  <2> DEFINE f == [s \in {0} |-> << >>]
  <2>1. f = [s \in {0} |-> R(f, s)]
    BY DEF NULL
  <2>2. ListEq(f, Youngest(0))
    BY <2>1, LastAll DEF ListEq
  <2> QED BY <2>2
<1>2. ASSUME NEW k \in Nat, k \in S PROVE k + 1 \in S
  <2> SUFFICES ASSUME k + 1 <= n PROVE P(k + 1)
    <3> HIDE DEF P
    <3> QED OBVIOUS
  <2>1. P(k)
    <3> HIDE DEF P
    <3> QED BY <1>0, <1>2
  <2>2. PICK f : ListEq(f, Youngest(k))
    BY <2>1
  <2> DEFINE D == Youngest(k)
             E == Youngest(k + 1)
             s == n - k
             v == [q \in E |-> IF q \in D THEN f[q] ELSE R(f, q)]
  <2>3. E = D \cup {s} /\ s \notin D
    BY LastIs
  <2>4. \A q \in E : q # 0 => scope[q].next \in D
    <3>1. \A q \in E : q # 0 => q \in 1..n /\ (q + 1)..n \subseteq D
      BY LastIs
    <3>2. 0 \in D
      BY DEF Youngest
    <3> HIDE DEF D, E
    <3> QED BY <3>1, <3>2, Forward DEF NULL
  <2>5. \A q \in D : f[q] = R(f, q)
    BY <2>2 DEF ListEq
  <2> HIDE DEF D, E, s, R
  <2>6. v = [q \in E |-> v[q]] /\ (\A q \in D : q \in E /\ v[q] = f[q]) /\ (\A q \in E : v[q] = R(f, q))
    BY <2>3, <2>5
  <2> HIDE DEF v
  <2>7. \A q \in E : R(v, q) = R(f, q)
    BY <2>4, <2>6 DEF R, NULL
  <2>8. v = [q \in E |-> R(v, q)]
    BY <2>6, <2>7
  <2>9. ListEq(v, Youngest(k + 1))
    BY <2>8 DEF ListEq, R, E
  <2> QED BY <2>9
<1>3. n \in S
  <2> HIDE DEF S
  <2> QED BY <1>0, <1>1, <1>2, NatSetInduction
<1>4. P(n)
  <2> HIDE DEF P
  <2> QED BY <1>0, <1>3
<1> QED BY <1>4, LastAll

(* The lists. *)
Lists == CHOOSE f : f = [s \in Pointer |-> IF s = NULL THEN << >> ELSE << s >> \o f[scope[s].next]]

(* A scope is in front of the list of its next sibling. *)
LEMMA ListsAre ==
  ASSUME Inv
  PROVE  /\ Lists[NULL] = << >>
         /\ \A s \in 1..Len(scope) : Lists[s] = << s >> \o Lists[scope[s].next]
<1> DEFINE Eq(f) == f = [s \in Pointer |-> IF s = NULL THEN << >> ELSE << s >> \o f[scope[s].next]]
<1>1. \E f : Eq(f)
  BY ListExists DEF ListEq
<1>2. Lists = CHOOSE f : Eq(f)
  BY DEF Lists
<1> HIDE DEF Eq
<1>3. Eq(Lists)
  BY <1>1, <1>2
<1>4. Len(scope) \in Nat
  BY BelowIs
<1>5. \A s \in 1..Len(scope) : s \in Pointer /\ s # NULL
  BY <1>4 DEF Pointer, NULL
<1>6. NULL \in Pointer
  BY <1>4 DEF Pointer, NULL
<1>7. \A s \in Pointer : Lists[s] = IF s = NULL THEN << >> ELSE << s >> \o Lists[scope[s].next]
  BY <1>3 DEF Eq
<1> QED BY <1>5, <1>6, <1>7

(* The scopes of the list from s on: s and its younger siblings. *)
Younger(s) == {j \in s..Len(scope) : j = s \/ (Parent(s) # NULL /\ Parent(j) = Parent(s))}

(* What is in a list, in which order. *)
ListRight(l, s) ==
  /\ Len(l) \in Nat /\ l \in Seq(Nat)
  /\ \A j : j \in Younger(s) <=> \E i \in 1..Len(l) : l[i] = j
  /\ \A i, j \in 1..Len(l) : i < j => l[i] < l[j]

(* next leads to the first of the younger siblings. *)
LEMMA YoungerIs ==
  ASSUME Inv, NEW s \in 1..Len(scope)
  PROVE  /\ s \in Younger(s)
         /\ scope[s].next = NULL => Younger(s) = {s}
         /\ scope[s].next # NULL =>
              /\ scope[s].next \in (s + 1)..Len(scope)
              /\ Younger(s) = {s} \cup Younger(scope[s].next)
<1> DEFINE n == Len(scope)
           k == scope[s].next
           sibling == {j \in (s + 1)..n : Parent(s) # NULL /\ Parent(j) = Parent(s)}
<1>1. n \in Nat /\ s \in Nat /\ s \in 1..n
  BY BelowIs
<1>2. \/ k = NULL /\ sibling = {}
      \/ k \in sibling /\ \A j \in sibling : k <= j
  BY DEF Inv, TreeShape, NextOK
<1>3. Younger(s) = {s} \cup sibling
  <2>1. \A j : j \in s..n <=> j = s \/ j \in (s + 1)..n
    <3> HIDE DEF n
    <3>1. \A j \in s..n : j = s \/ j \in (s + 1)..n
      BY <1>1
    <3>2. s \in s..n /\ \A j \in (s + 1)..n : j \in s..n
      BY <1>1
    <3> QED BY <3>1, <3>2
  <2> QED BY <2>1 DEF Younger
<1>4. k \in sibling => k # NULL
  BY <1>1 DEF NULL
<1>5. ASSUME k \in sibling, \A j \in sibling : k <= j PROVE Younger(k) = sibling /\ k \in (s + 1)..n
  <2>1. k \in (s + 1)..n /\ Parent(s) # NULL /\ Parent(k) = Parent(s)
    BY <1>5
  <2> HIDE DEF n, k
  <2>2. \A j \in sibling : j \in k..n
    BY <1>1, <1>5, <2>1
  <2>3. \A j \in k..n : j \in (s + 1)..n
    BY <1>1, <2>1
  <2>4. Younger(k) = {j \in k..n : j = k \/ (Parent(k) # NULL /\ Parent(j) = Parent(k))}
    BY DEF Younger, n
  <2> HIDE DEF Parent
  <2>5. \A j : j \in Younger(k) <=> j \in sibling
    BY <2>1, <2>2, <2>3, <2>4
  <2> QED BY <2>1, <2>4, <2>5
<1> HIDE DEF sibling
<1>6. s \in Younger(s)
  BY <1>3
<1>7. CASE k = NULL /\ sibling = {}
  BY <1>3, <1>6, <1>7
<1>8. CASE k \in sibling /\ \A j \in sibling : k <= j
  <2>1. k # NULL /\ Younger(k) = sibling /\ k \in (s + 1)..n
    BY <1>4, <1>5, <1>8
  <2> HIDE DEF k
  <2>2. Younger(s) = {s} \cup Younger(k)
    BY <1>3, <2>1
  <2> QED BY <1>6, <2>1, <2>2 DEF k
<1> QED BY <1>2, <1>7, <1>8

(* A list with a scope in front of it. *)
LEMMA ListStep ==
  ASSUME Inv, NEW s \in 1..Len(scope), NEW l,
         \/ scope[s].next = NULL /\ l = << >>
         \/ scope[s].next # NULL /\ ListRight(l, scope[s].next)
  PROVE  ListRight(<< s >> \o l, s) /\ (<< s >> \o l)[1] = s
<1> DEFINE m == << s >> \o l
           k == scope[s].next
<1>1. l \in Seq(Nat) /\ Len(l) \in Nat
  <2>1. CASE l = << >>
    BY <2>1, EmptySeq
  <2>2. CASE ListRight(l, k)
    BY <2>2 DEF ListRight
  <2> QED BY <2>1, <2>2
<1>2. s \in Nat
  BY BelowIs
<1>3. /\ m \in Seq(Nat) /\ Len(m) = Len(l) + 1 /\ m[1] = s
      /\ \A i \in 1..Len(l) : m[i + 1] = l[i]
  BY <1>1, <1>2
<1>4. /\ \A i \in 1..Len(m) : i = 1 \/ (i - 1 \in 1..Len(l) /\ m[i] = l[i - 1])
      /\ 1 \in 1..Len(m) /\ \A i \in 1..Len(l) : i + 1 \in 1..Len(m)
  <2> HIDE DEF m
  <2>1. \A i \in 1..Len(m) : i = 1 \/ i - 1 \in 1..Len(l)
    BY <1>1, <1>3
  <2>2. ASSUME NEW i \in 1..Len(m), i - 1 \in 1..Len(l) PROVE m[i] = l[i - 1]
    <3>1. m[(i - 1) + 1] = l[i - 1]
      BY <1>3, <2>2
    <3>2. (i - 1) + 1 = i
      BY <1>1, <1>3
    <3> QED BY <3>1, <3>2
  <2> QED BY <1>1, <1>3, <2>1, <2>2
<1> HIDE DEF m
<1>5. \A j : (\E i \in 1..Len(m) : m[i] = j) <=> (j = s \/ \E i \in 1..Len(l) : l[i] = j)
  BY <1>3, <1>4
<1>6. \A j : j \in Younger(s) <=> \E i \in 1..Len(m) : m[i] = j
  <2>1. CASE k = NULL
    <3>1. l = << >> /\ 1..Len(l) = {}
      BY <2>1
    <3>2. Younger(s) = {s}
      BY <2>1, YoungerIs
    <3> QED BY <1>5, <3>1, <3>2
  <2>2. CASE k # NULL
    <3>1. \A j : j \in Younger(k) <=> \E i \in 1..Len(l) : l[i] = j
      BY <2>2 DEF ListRight
    <3>2. Younger(s) = {s} \cup Younger(k)
      BY <2>2, YoungerIs
    <3> HIDE DEF k
    <3> QED BY <1>5, <3>1, <3>2
  <2> QED BY <2>1, <2>2
<1>7. ASSUME NEW i \in 1..Len(m), NEW j \in 1..Len(m), i < j PROVE m[i] < m[j]
  <2>1. j - 1 \in 1..Len(l) /\ m[j] = l[j - 1] /\ i \in Nat /\ j \in Nat
    BY <1>1, <1>3, <1>4, <1>7
  <2>2. k # NULL /\ ListRight(l, k)
    <3>1. l # << >>
      BY <2>1
    <3> QED BY <3>1
  <2>3. CASE i = 1
    <3>1. m[j] \in Younger(k)
      BY <2>1, <2>2 DEF ListRight
    <3>2. k \in (s + 1)..Len(scope)
      BY <2>2, YoungerIs
    <3>3. m[j] \in k..Len(scope)
      BY <3>1 DEF Younger
    <3>4. Len(scope) \in Nat
      BY BelowIs
    <3> HIDE DEF k
    <3>5. s < m[j]
      BY <1>2, <3>2, <3>3, <3>4
    <3> QED BY <1>3, <2>3, <3>5
  <2>4. CASE i # 1
    <3>1. i - 1 \in 1..Len(l) /\ m[i] = l[i - 1]
      BY <1>4, <2>4
    <3>2. i - 1 < j - 1
      BY <1>7, <2>1
    <3> QED BY <2>1, <2>2, <3>1, <3>2 DEF ListRight
  <2> QED BY <2>3, <2>4
<1>8. ListRight(m, s)
  BY <1>1, <1>3, <1>6, <1>7 DEF ListRight
<1> QED BY <1>3, <1>8 DEF m

(* Each list is right. *)
LEMMA ListsRight ==
  ASSUME Inv, NEW s \in 1..Len(scope)
  PROVE  ListRight(Lists[s], s) /\ Lists[s][1] = s
<1> DEFINE n == Len(scope)
           Q(t) == ListRight(Lists[t], t) /\ Lists[t][1] = t
           B == {t \in 1..n : ~Q(t)}
<1>0. n \in Nat
  BY BelowIs
<1>1. SUFFICES ASSUME B # {} PROVE FALSE
  OBVIOUS
<1>2. B \in SUBSET Nat /\ \A t \in B : t <= n
  BY <1>0
<1> HIDE DEF B
<1>3. PICK t \in B : \A u \in B : u <= t
  BY <1>0, <1>1, <1>2, Greatest
<1>4. t \in 1..n /\ ~Q(t)
  BY DEF B
<1> DEFINE k == scope[t].next
<1>5. Lists[t] = << t >> \o Lists[k]
  BY <1>4, ListsAre
<1>6. (k = NULL /\ Lists[k] = << >>) \/ (k # NULL /\ ListRight(Lists[k], k))
  <2>1. CASE k = NULL
    BY <2>1, ListsAre
  <2>2. CASE k # NULL
    <3>1. k \in (t + 1)..n
      BY <1>4, <2>2, YoungerIs
    <3> HIDE DEF k, Q
    <3>2. k \in 1..n /\ ~(k <= t)
      BY <1>0, <1>4, <3>1
    <3>3. k \notin B
      BY <1>3, <3>2
    <3>4. Q(k)
      BY <3>2, <3>3 DEF B
    <3> QED BY <2>2, <3>4 DEF Q
  <2> QED BY <2>1, <2>2
<1>7. Q(t)
  BY <1>4, <1>5, <1>6, ListStep
<1> QED BY <1>4, <1>7

(* v visits the scopes of a list, and what is in them. *)
Visit(v, s) == Lists[s] \o FlattenSeq([i \in 1..Len(Lists[s]) |-> v[scope[Lists[s][i]].head]])

(* There is such a function, because head leads to younger scopes. *)
LEMMA VisitExists ==
  ASSUME Inv
  PROVE  \E v : v = [s \in Pointer |-> Visit(v, s)]
<1> DEFINE n == Len(scope)
           P(k) == \E v : v = [s \in Youngest(k) |-> Visit(v, s)]
           S == {k \in Nat : k <= n => P(k)}
<1>0. n \in Nat
  BY BelowIs
<1>1. 0 \in S
  <2> DEFINE f == [s \in {0} |-> Visit(<< >>, s)]
  <2>1. Visit(<< >>, 0) = Visit(f, 0)
    <3>1. 1..Len(Lists[0]) = {}
      BY ListsAre DEF NULL
    <3> HIDE DEF f
    <3>2. [i \in 1..Len(Lists[0]) |-> << >>[scope[Lists[0][i]].head]] = [i \in 1..Len(Lists[0]) |-> f[scope[Lists[0][i]].head]]
      BY <3>1
    <3> QED BY <3>2 DEF Visit
  <2>2. f = [s \in {0} |-> Visit(f, s)]
    <3> HIDE DEF Visit
    <3> QED BY <2>1
  <2>3. P(0)
    <3> HIDE DEF f, Visit
    <3> QED BY <2>2, LastAll
  <2> HIDE DEF P
  <2> QED BY <2>3
<1>2. ASSUME NEW k \in Nat, k \in S PROVE k + 1 \in S
  <2> SUFFICES ASSUME k + 1 <= n PROVE P(k + 1)
    <3> HIDE DEF P
    <3> QED OBVIOUS
  <2>1. P(k)
    <3> HIDE DEF P
    <3> QED BY <1>0, <1>2
  <2>2. PICK f : f = [s \in Youngest(k) |-> Visit(f, s)]
    BY <2>1
  <2> DEFINE D == Youngest(k)
             E == Youngest(k + 1)
             s == n - k
             v == [q \in E |-> IF q \in D THEN f[q] ELSE Visit(f, q)]
  <2>3. E = D \cup {s} /\ s \notin D
    BY LastIs
  <2>4. ASSUME NEW q \in E, NEW i \in 1..Len(Lists[q]) PROVE scope[Lists[q][i]].head \in D
    <3>1. \A r \in E : r # 0 => r \in 1..n /\ (r + 1)..n \subseteq D
      BY LastIs
    <3>2. 0 \in D
      BY DEF Youngest
    <3>3. CASE q = 0
      <4>1. 1..Len(Lists[q]) = {}
        BY <3>3, ListsAre DEF NULL
      <4> QED BY <4>1
    <3>4. CASE q # 0
      <4>1. q \in 1..n /\ (q + 1)..n \subseteq D
        BY <3>1, <3>4
      <4> DEFINE x == Lists[q][i]
      <4>2. x \in Younger(q)
        BY <4>1, ListsRight DEF ListRight
      <4>3. x \in q..n
        BY <4>2 DEF Younger
      <4> HIDE DEF x, D
      <4>4. x \in 1..n
        BY <1>0, <4>1, <4>3
      <4>5. scope[x].head = NULL \/ scope[x].head \in (x + 1)..n
        BY <4>4, Forward
      <4>6. scope[x].head = NULL \/ scope[x].head \in (q + 1)..n
        <5> HIDE DEF n
        <5> QED BY <1>0, <4>1, <4>3, <4>5
      <4> QED BY <3>2, <4>1, <4>6 DEF x, NULL
    <3> QED BY <3>3, <3>4
  <2>5. \A q \in D : f[q] = Visit(f, q)
    BY <2>2
  <2> HIDE DEF D, E, s
  <2>6. v = [q \in E |-> v[q]] /\ (\A q \in D : q \in E /\ v[q] = f[q]) /\ (\A q \in E : v[q] = Visit(f, q))
    <3> HIDE DEF Visit
    <3> QED BY <2>3, <2>5
  <2> HIDE DEF v
  <2>7. ASSUME NEW q \in E PROVE Visit(v, q) = Visit(f, q)
    <3>1. \A i \in 1..Len(Lists[q]) : v[scope[Lists[q][i]].head] = f[scope[Lists[q][i]].head]
      BY <2>4, <2>6
    <3>2. [i \in 1..Len(Lists[q]) |-> v[scope[Lists[q][i]].head]] = [i \in 1..Len(Lists[q]) |-> f[scope[Lists[q][i]].head]]
      BY <3>1
    <3> QED BY <3>2 DEF Visit
  <2>8. v = [q \in E |-> Visit(v, q)]
    <3> HIDE DEF Visit
    <3> QED BY <2>6, <2>7
  <2> QED BY <2>8 DEF E
<1>3. n \in S
  <2> HIDE DEF S
  <2> QED BY <1>0, <1>1, <1>2, NatSetInduction
<1>4. P(n)
  <2> HIDE DEF P
  <2> QED BY <1>0, <1>3
<1> QED BY <1>4, LastAll

(* The order in which the scopes are listed, from each scope on. *)
Visits == CHOOSE v : v = [s \in Pointer |-> Visit(v, s)]

(* It visits the scopes of a list, and what is in them. *)
LEMMA VisitsAre ==
  ASSUME Inv
  PROVE  \A s \in Pointer : Visits[s] = Visit(Visits, s)
<1> DEFINE Eq(v) == v = [s \in Pointer |-> Visit(v, s)]
<1>1. \E v : Eq(v)
  BY VisitExists
<1>2. Visits = CHOOSE v : Eq(v)
  BY DEF Visits
<1> HIDE DEF Eq
<1>3. Eq(Visits)
  BY <1>1, <1>2
<1> HIDE DEF Visit
<1> QED BY <1>3 DEF Eq

(* The cross reference starts with the root. *)
LEMMA XrefIs == produceXrefList = Visits[1]
BY Zenon DEF produceXrefList, Visits, Visit, Lists

(* There is nothing to visit in no scope. *)
LEMMA VisitNull ==
  ASSUME Inv
  PROVE  Visits[NULL] = << >>
<1> DEFINE c == [i \in 1..Len(Lists[NULL]) |-> Visits[scope[Lists[NULL][i]].head]]
<1>1. Lists[NULL] = << >> /\ NULL \in Pointer
  BY ListsAre, BelowIs DEF Pointer, NULL
<1>2. 1..Len(Lists[NULL]) = {}
  BY <1>1
<1>3. c = << >>
  BY <1>2
<1>4. FlattenSeq(c) = c
  <2> HIDE DEF c
  <2>1. Len(c) = 0
    BY <1>3
  <2> QED BY <2>1, FlatIs
<1>5. Visits[NULL] = << >> \o c
  BY <1>1, <1>4, VisitsAre DEF Visit
<1> QED BY <1>3, <1>5

(* Each scope is listed once, after its parent and its older siblings. *)
Ordered(w) ==
  /\ w \in Seq(Nat) /\ Len(w) \in Nat
  /\ \A i, j \in 1..Len(w) :
       i < j => /\ w[i] # w[j] /\ Parent(w[i]) # w[j]
                /\ Parent(w[i]) = Parent(w[j]) => w[i] < w[j]

(* What w lists. *)
Members(w, X) == \A x : x \in X <=> \E i \in 1..Len(w) : w[i] = x

(* What may stand in front of y. *)
Before(x, y) == x # y /\ Parent(x) # y /\ Parent(x) # Parent(y)

(* Two parts, one behind the other. *)
LEMMA OrderedJoin ==
  ASSUME NEW a, NEW b, NEW X, NEW Y, Ordered(a), Ordered(b), Members(a, X), Members(b, Y),
         \A x \in X, y \in Y : Before(x, y)
  PROVE  Ordered(a \o b) /\ Members(a \o b, X \cup Y)
<1> DEFINE w == a \o b
           m == Len(a)
           n == Len(b)
<1>1. a \in Seq(Nat) /\ b \in Seq(Nat) /\ m \in Nat /\ n \in Nat
  BY DEF Ordered
<1>2. /\ w \in Seq(Nat) /\ Len(w) = m + n
      /\ \A i \in 1..m : w[i] = a[i]
      /\ \A i \in 1..n : w[m + i] = b[i]
  BY <1>1
<1> HIDE DEF w
<1>3. /\ \A i \in 1..Len(w) : i \in 1..m \/ (i - m \in 1..n /\ w[i] = b[i - m])
      /\ \A i \in 1..m : i \in 1..Len(w)
      /\ \A i \in 1..n : m + i \in 1..Len(w)
  <2> HIDE DEF m, n
  <2>1. ASSUME NEW i \in 1..Len(w) PROVE i \in 1..m \/ (i - m \in 1..n /\ w[i] = b[i - m])
    <3>1. i \in 1..m \/ i - m \in 1..n
      BY <1>1, <1>2
    <3>2. m + (i - m) = i
      BY <1>1, <1>2
    <3> QED BY <1>2, <3>1, <3>2
  <2>2. (\A i \in 1..m : i \in 1..Len(w)) /\ (\A i \in 1..n : m + i \in 1..Len(w))
    BY <1>1, <1>2
  <2> QED BY <2>1, <2>2
<1>4. /\ \A i \in 1..m : w[i] \in X
      /\ \A i \in 1..n : b[i] \in Y
  BY <1>2 DEF Members
<1> DEFINE G(i, j) == /\ w[i] # w[j] /\ Parent(w[i]) # w[j]
                      /\ Parent(w[i]) = Parent(w[j]) => w[i] < w[j]
<1>5. ASSUME NEW i \in 1..Len(w), NEW j \in 1..Len(w), i < j PROVE G(i, j)
  <2> HIDE DEF m, n, Parent
  <2>1. CASE i \in 1..m /\ j \in 1..m
    <3>1. w[i] = a[i] /\ w[j] = a[j]
      BY <1>2, <2>1
    <3> QED BY <1>5, <2>1, <3>1 DEF Ordered, m
  <2>2. CASE i \in 1..m /\ j - m \in 1..n /\ w[j] = b[j - m]
    <3>1. w[i] \in X /\ w[j] \in Y
      BY <1>4, <2>2
    <3> QED BY <3>1 DEF Before
  <2>3. CASE ~(i \in 1..m) /\ i - m \in 1..n /\ w[i] = b[i - m] /\ j - m \in 1..n /\ w[j] = b[j - m]
    <3>1. i - m < j - m
      BY <1>1, <1>2, <1>5
    <3> QED BY <2>3, <3>1 DEF Ordered, n
  <2>4. ~(j \in 1..m /\ ~(i \in 1..m))
    BY <1>1, <1>2, <1>5
  <2>5. (i \in 1..m \/ (i - m \in 1..n /\ w[i] = b[i - m])) /\ (j \in 1..m \/ (j - m \in 1..n /\ w[j] = b[j - m]))
    BY <1>3
  <2> HIDE DEF G
  <2> QED BY <2>1, <2>2, <2>3, <2>4, <2>5
<1>6. \A x : x \in X \cup Y <=> \E i \in 1..Len(w) : w[i] = x
  <2> HIDE DEF m, n
  <2>1. ASSUME NEW x \in X PROVE \E i \in 1..Len(w) : w[i] = x
    <3>1. PICK i \in 1..m : a[i] = x
      BY <2>1 DEF Members, m
    <3> QED BY <1>2, <1>3, <3>1
  <2>2. ASSUME NEW x \in Y PROVE \E i \in 1..Len(w) : w[i] = x
    <3>1. PICK i \in 1..n : b[i] = x
      BY <2>2 DEF Members, n
    <3> QED BY <1>2, <1>3, <3>1
  <2>3. ASSUME NEW i \in 1..Len(w) PROVE w[i] \in X \cup Y
    BY <1>3, <1>4
  <2> QED BY <2>1, <2>2, <2>3
<1>7. Ordered(w)
  <2>1. Len(w) \in Nat
    BY <1>1, <1>2
  <2> QED BY <1>2, <1>5, <2>1 DEF Ordered
<1>8. Members(w, X \cup Y)
  BY <1>6 DEF Members
<1> QED BY <1>7, <1>8 DEF w

(* The siblings of a list. *)
LEMMA YoungerSiblings ==
  ASSUME Inv, NEW s \in 1..Len(scope), NEW c \in Younger(s)
  PROVE  c \in 1..Len(scope) /\ Parent(c) = Parent(s)
<1>1. c \in s..Len(scope) /\ (c = s \/ Parent(c) = Parent(s))
  BY DEF Younger
<1>2. Len(scope) \in Nat
  BY BelowIs
<1> QED BY <1>1, <1>2

(* What is in a scope c may stand behind c, its siblings, and what is in them. *)
LEMMA ApartBefore ==
  ASSUME Inv, NEW s \in 1..Len(scope), NEW c \in Younger(s), NEW d \in Younger(s),
         NEW y \in Below(d) \ {d}, NEW x, x = d \/ (c # d /\ x \in Below(c))
  PROVE  Before(x, y)
<1>1. c \in 1..Len(scope) /\ d \in 1..Len(scope) /\ Parent(c) = Parent(d)
  BY YoungerSiblings
<1>2. Parent(y) \in Below(d) /\ y \in Below(d) /\ y # d
  BY <1>1, BelowIs, BelowOrder
<1>3. CASE x = d
  <2>1. Parent(d) \in 0..(d - 1) /\ d \in Nat
    BY <1>1, BelowIs
  <2>2. Parent(d) \notin Below(d)
    <3>1. Parent(d) \in Below(d) => d <= Parent(d)
      BY <1>1, BelowOrder
    <3> HIDE DEF Parent, Below
    <3> QED BY <2>1, <3>1
  <2> HIDE DEF Parent, Below
  <2> QED BY <1>2, <1>3, <2>2 DEF Before
<1>4. CASE c # d /\ x \in Below(c)
  <2>1. x \notin Below(d)
    BY <1>1, <1>4, BelowApart
  <2>2. x \in 1..Len(scope) /\ x # d
    BY <1>1, <1>4, <2>1, BelowIs, BelowOrder
  <2>3. Parent(x) \notin Below(d)
    BY <2>1, <2>2, BelowIs
  <2> HIDE DEF Parent, Below
  <2> QED BY <1>2, <2>1, <2>3 DEF Before
<1> QED BY <1>3, <1>4

(* Numbers behind numbers behind numbers. *)
LEMMA NumbersBehind ==
  ASSUME NEW x \in Seq(Nat), NEW y \in Seq(Nat), NEW z \in Seq(Nat)
  PROVE  (x \o y) \o z = x \o (y \o z)
OBVIOUS

(* What is in a scope, without it. *)
Inside(c) == Below(c) \ {c}

(* What is listed when the insides of the first k scopes of a list l are. *)
Listed(l, k) == {l[i] : i \in 1..Len(l)} \cup UNION {Inside(l[i]) : i \in 1..k}

(* The scopes of a list, and then what is in each of them. *)
LEMMA VisitRounds ==
  ASSUME Inv, NEW s \in 1..Len(scope), NEW l, ListRight(l, s), NEW c, Len(c) = Len(l),
         \A i \in 1..Len(l) : Ordered(c[i]) /\ Members(c[i], Inside(l[i])),
         NEW g, FlatSteps(g, c), NEW k \in 1..Len(l)
  PROVE  Ordered(l \o g[k]) /\ Members(l \o g[k], Listed(l, k)) /\ g[k] \in Seq(Nat)
<1> DEFINE m == Len(l)
           P(q) == Ordered(l \o g[q]) /\ Members(l \o g[q], Listed(l, q)) /\ g[q] \in Seq(Nat)
           S == {q \in Nat : q + 1 <= m => P(q + 1)}
<1>1. m \in Nat /\ l \in Seq(Nat)
  BY DEF ListRight
<1>2. \A i \in 1..m : l[i] \in Younger(s)
  BY DEF ListRight
<1>3. \A i, j \in 1..m : i # j => l[i] # l[j]
  <2>1. ASSUME NEW i \in 1..m, NEW j \in 1..m, i # j PROVE l[i] # l[j]
    <3>1. i < j \/ j < i
      BY <1>1, <2>1
    <3>2. l[i] \in Nat /\ l[j] \in Nat
      BY <1>1
    <3>3. l[i] < l[j] \/ l[j] < l[i]
      BY <3>1 DEF ListRight
    <3> QED BY <3>2, <3>3
  <2> QED BY <2>1
<1>4. \A i \in 1..m : c[i] \in Seq(Nat) /\ Ordered(c[i]) /\ Members(c[i], Inside(l[i]))
  BY DEF Ordered
<1>5. ASSUME NEW q \in 0..(m - 1), NEW x \in Listed(l, q), NEW y \in Inside(l[q + 1]) PROVE Before(x, y)
  <2>1. q + 1 \in 1..m /\ l[q + 1] \in Younger(s)
    BY <1>1, <1>2
  <2>2. PICK i \in 1..m : x = l[i] \/ (i \in 1..q /\ x \in Inside(l[i]))
    <3>1. \A i \in 1..q : i \in 1..m
      BY <1>1
    <3>2. (\E i \in 1..m : x = l[i]) \/ (\E i \in 1..q : x \in Inside(l[i]))
      BY <1>5 DEF Listed
    <3> QED BY <3>1, <3>2
  <2>3. l[i] \in Younger(s) /\ l[i] \in 1..Len(scope)
    BY <1>2, YoungerSiblings
  <2>4. x = l[q + 1] \/ (l[i] # l[q + 1] /\ x \in Below(l[i]))
    <3>1. CASE x = l[i]
      <4>1. l[i] \in Below(l[i])
        BY <2>3, BelowIs
      <4> QED BY <3>1, <4>1
    <3>2. CASE i \in 1..q /\ x \in Inside(l[i])
      <4>1. i # q + 1
        BY <1>1, <3>2
      <4>2. l[i] # l[q + 1]
        BY <1>3, <2>1, <4>1
      <4> QED BY <3>2, <4>2 DEF Inside
    <3> QED BY <2>2, <3>1, <3>2
  <2>5. y \in Below(l[q + 1]) \ {l[q + 1]}
    BY <1>5 DEF Inside
  <2> DEFINE u == l[i]
             v == l[q + 1]
  <2>6. u \in Younger(s) /\ v \in Younger(s) /\ y \in Below(v) \ {v} /\ (x = v \/ (u # v /\ x \in Below(u)))
    BY <2>1, <2>3, <2>4, <2>5
  <2> HIDE DEF u, v
  <2> QED BY <2>6, ApartBefore
<1>6. \A q \in 0..(m - 1) : Listed(l, q + 1) = Listed(l, q) \cup Inside(l[q + 1])
  <2> SUFFICES ASSUME NEW q \in 0..(m - 1) PROVE Listed(l, q + 1) = Listed(l, q) \cup Inside(l[q + 1])
    OBVIOUS
  <2>1. \A i : i \in 1..(q + 1) <=> i \in 1..q \/ i = q + 1
    <3>1. q \in Nat
      BY <1>1
    <3>2. \A i \in 1..(q + 1) : i \in 1..q \/ i = q + 1
      BY <3>1
    <3>3. (\A i \in 1..q : i \in 1..(q + 1)) /\ q + 1 \in 1..(q + 1)
      BY <3>1
    <3> QED BY <3>2, <3>3
  <2>2. UNION {Inside(l[i]) : i \in 1..(q + 1)} = (UNION {Inside(l[i]) : i \in 1..q}) \cup Inside(l[q + 1])
    <3> HIDE DEF Inside
    <3> QED BY <2>1
  <2> QED BY <2>2 DEF Listed
<1>7. Ordered(l) /\ Members(l, Listed(l, 0))
  <2>1. ASSUME NEW i \in 1..m, NEW j \in 1..m, i < j
        PROVE  l[i] # l[j] /\ Parent(l[i]) # l[j] /\ l[i] < l[j]
    <3>1. l[i] < l[j] /\ l[i] \in Nat /\ l[j] \in Nat
      BY <1>1, <2>1 DEF ListRight
    <3>2. l[i] \in 1..Len(scope)
      BY <1>2, YoungerSiblings
    <3>3. Parent(l[i]) \in 0..(l[i] - 1)
      BY <3>2, BelowIs
    <3> HIDE DEF Parent
    <3> QED BY <3>1, <3>3
  <2>2. Ordered(l)
    BY <1>1, <2>1 DEF Ordered
  <2>3. 1..0 = {}
    OBVIOUS
  <2>4. \A x : x \in Listed(l, 0) <=> \E i \in 1..Len(l) : l[i] = x
    BY <2>3 DEF Listed
  <2> QED BY <2>2, <2>4 DEF Members
<1>8. 0 \in S
  <2> SUFFICES ASSUME 1 <= m PROVE P(1)
    <3> HIDE DEF P
    <3>1. 0 + 1 = 1
      OBVIOUS
    <3> QED BY <3>1
  <2>1. g[1] = c[1] /\ 0 \in 0..(m - 1) /\ 1 \in 1..m /\ 0 + 1 = 1
    BY <1>1 DEF FlatSteps
  <2>2. Listed(l, 1) = Listed(l, 0) \cup Inside(l[1])
    BY <1>6, <2>1
  <2>3. \A x \in Listed(l, 0), y \in Inside(l[1]) : Before(x, y)
    BY <1>5, <2>1
  <2>4. Ordered(c[1]) /\ Members(c[1], Inside(l[1]))
    BY <1>4, <2>1
  <2>5. Ordered(l \o c[1]) /\ Members(l \o c[1], Listed(l, 0) \cup Inside(l[1]))
    BY <1>7, <2>3, <2>4, OrderedJoin
  <2> QED BY <1>4, <2>1, <2>2, <2>5
<1>9. ASSUME NEW q \in Nat, q \in S PROVE q + 1 \in S
  <2> SUFFICES ASSUME (q + 1) + 1 <= m PROVE P((q + 1) + 1)
    <3> HIDE DEF P
    <3> QED OBVIOUS
  <2> DEFINE p == q + 1
  <2>1. P(p)
    <3> HIDE DEF P
    <3> QED BY <1>1, <1>9
  <2>2. p \in 0..(m - 1) /\ p + 1 \in 1..m /\ (p + 1) - 1 = p /\ p + 1 # 1
    BY <1>1
  <2> HIDE DEF p
  <2>3. g[p + 1] = g[p] \o c[p + 1]
    <3>1. p + 1 \in 1..Len(c)
      BY <2>2
    <3> QED BY <2>2, <3>1 DEF FlatSteps
  <2>4. Listed(l, p + 1) = Listed(l, p) \cup Inside(l[p + 1])
    BY <1>6, <2>2
  <2>5. \A x \in Listed(l, p), y \in Inside(l[p + 1]) : Before(x, y)
    BY <1>5, <2>2
  <2>6. Ordered(c[p + 1]) /\ Members(c[p + 1], Inside(l[p + 1])) /\ c[p + 1] \in Seq(Nat)
    BY <1>4, <2>2
  <2> DEFINE a == l \o g[p]
             b == c[p + 1]
             X == Listed(l, p)
             Y == Inside(l[p + 1])
  <2>7. Ordered(a) /\ Members(a, X) /\ Ordered(b) /\ Members(b, Y) /\ \A x \in X, y \in Y : Before(x, y)
    BY <2>1, <2>5, <2>6
  <2>8. Ordered(a \o b) /\ Members(a \o b, X \cup Y)
    <3> HIDE DEF a, b, X, Y
    <3> QED BY <2>7, OrderedJoin
  <2>9. g[p] \in Seq(Nat)
    BY <2>1
  <2>10. a \o b = l \o (g[p] \o b) /\ g[p] \o b \in Seq(Nat)
    <3> DEFINE r == g[p]
    <3>1. r \in Seq(Nat) /\ b \in Seq(Nat)
      BY <2>6, <2>9
    <3> HIDE DEF r, b
    <3>2. (l \o r) \o b = l \o (r \o b)
      BY <1>1, <3>1, NumbersBehind
    <3>3. r \o b \in Seq(Nat)
      BY <3>1, ConcatProperties
    <3> QED BY <3>2, <3>3 DEF r
  <2>11. P(p + 1)
    <3> HIDE DEF Inside, Listed
    <3> QED BY <2>3, <2>4, <2>8, <2>10
  <2> QED BY <2>11 DEF p
<1>10. k - 1 \in S
  <2> HIDE DEF S
  <2>1. k - 1 \in Nat
    BY <1>1
  <2> QED BY <1>8, <1>9, <2>1, NatSetInduction
<1>11. (k - 1) + 1 = k /\ k <= m /\ k - 1 \in Nat
  BY <1>1
<1>12. P(k)
  <2> HIDE DEF P
  <2>1. P((k - 1) + 1)
    BY <1>10, <1>11
  <2> QED BY <1>11, <2>1
<1> QED BY <1>12

(* The list from the head of a scope on has all of its children. *)
LEMMA ChildrenListed ==
  ASSUME Inv, NEW c \in 1..Len(scope), scope[c].head # NULL
  PROVE  /\ scope[c].head \in (c + 1)..Len(scope)
         /\ Younger(scope[c].head) = {e \in 1..Len(scope) : Parent(e) = c}
<1> DEFINE h == scope[c].head
           n == Len(scope)
<1>1. n \in Nat /\ c \in Nat /\ c # NULL
  BY BelowIs DEF NULL
<1>2. /\ h \in 1..n /\ Parent(h) = c
      /\ \A k \in 1..n : Parent(k) = c => h <= k
  BY DEF Inv, TreeShape, HeadsOK
<1>3. h \in (c + 1)..n
  BY Forward
<1>4. Younger(h) = {j \in h..n : j = h \/ (Parent(h) # NULL /\ Parent(j) = Parent(h))}
  BY DEF Younger
<1> HIDE DEF h, n, Parent
<1>5. ASSUME NEW j \in h..n PROVE j \in 1..n
  BY <1>1, <1>2
<1>6. ASSUME NEW j \in 1..n, Parent(j) = c PROVE j \in h..n
  BY <1>1, <1>2, <1>6
<1>7. Younger(h) = {e \in 1..n : Parent(e) = c}
  BY <1>1, <1>2, <1>4, <1>5, <1>6
<1> QED BY <1>3, <1>7 DEF h, n

(* Without a head there are no children. *)
LEMMA NoChildren ==
  ASSUME Inv, NEW c \in 1..Len(scope), scope[c].head = NULL
  PROVE  Inside(c) = {}
<1>1. \A k \in 1..Len(scope) : Parent(k) # c
  <2>1. ~(scope[c].head \in 1..Len(scope))
    BY BelowIs DEF NULL
  <2> QED BY <2>1 DEF Inv, TreeShape, HeadsOK
<1>2. Inside(c) = UNION {Below(d) : d \in {e \in 1..Len(scope) : Parent(e) = c}}
  BY BelowChildren DEF Inside
<1> HIDE DEF Parent, Below, Inside
<1>3. {e \in 1..Len(scope) : Parent(e) = c} = {}
  BY <1>1
<1> QED BY <1>2, <1>3

(* The scopes of the list from s on, with what is in them. *)
Part(s) == UNION {Below(c) : c \in Younger(s)}

(* All that belongs there, in its order. *)
VisitRight(v, s) == Ordered(v) /\ Members(v, Part(s))

(* A list and what is in its scopes. *)
LEMMA VisitStep ==
  ASSUME Inv, NEW s \in 1..Len(scope),
         \A t \in 1..Len(scope) : t > s => VisitRight(Visits[t], t)
  PROVE  VisitRight(Visits[s], s)
<1> DEFINE l == Lists[s]
           m == Len(l)
           c == [i \in 1..m |-> Visits[scope[l[i]].head]]
<1>0. s \in Pointer /\ Len(scope) \in Nat /\ s \in Nat
  BY BelowIs DEF Pointer
<1>1. ListRight(l, s) /\ l[1] = s /\ m \in Nat /\ l \in Seq(Nat)
  BY ListsRight DEF ListRight
<1>2. Visits[s] = l \o FlattenSeq(c)
  BY <1>0, VisitsAre DEF Visit
<1>3. Len(c) = m
  <2> HIDE DEF m
  <2> QED BY <1>1
<1>4. m # 0
  <2>1. s \in Younger(s)
    BY YoungerIs
  <2>2. \E i \in 1..m : l[i] = s
    BY <1>1, <2>1 DEF ListRight
  <2> HIDE DEF m
  <2> QED BY <1>1, <2>2
<1>5. ASSUME NEW i \in 1..m PROVE Ordered(c[i]) /\ Members(c[i], Inside(l[i]))
  <2> DEFINE d == l[i]
             h == scope[d].head
  <2>1. d \in Younger(s)
    BY <1>1 DEF ListRight
  <2>2. d \in 1..Len(scope) /\ d \in s..Len(scope)
    BY <2>1, YoungerSiblings DEF Younger
  <2>3. c[i] = Visits[h]
    OBVIOUS
  <2> HIDE DEF c, d
  <2>4. CASE h = NULL
    <3>1. c[i] = << >>
      BY <2>3, <2>4, VisitNull
    <3>2. Inside(d) = {}
      BY <2>2, <2>4, NoChildren
    <3>3. << >> \in Seq(Nat) /\ Len(<< >>) = 0 /\ 1..0 = {}
      OBVIOUS
    <3>4. Ordered(<< >>) /\ Members(<< >>, {})
      BY <3>3 DEF Ordered, Members
    <3> QED BY <3>1, <3>2, <3>4 DEF d
  <2>5. CASE h # NULL
    <3>1. h \in (d + 1)..Len(scope) /\ Younger(h) = {e \in 1..Len(scope) : Parent(e) = d}
      BY <2>2, <2>5, ChildrenListed
    <3> HIDE DEF h
    <3>2. h \in 1..Len(scope) /\ h > s
      BY <1>0, <2>2, <3>1
    <3>3. VisitRight(Visits[h], h)
      BY <3>2
    <3>4. Part(h) = Inside(d)
      BY <2>2, <3>1, BelowChildren DEF Part, Inside
    <3> QED BY <2>3, <3>3, <3>4 DEF VisitRight, d
  <2> QED BY <2>4, <2>5
<1> HIDE DEF c
<1>6. PICK g : FlatSteps(g, c) /\ FlattenSeq(c) = g[m]
  BY <1>1, <1>3, <1>4, FlatIs
<1>7. m \in 1..m
  <2> HIDE DEF m
  <2> QED BY <1>1, <1>4
<1>8. Ordered(l \o g[m]) /\ Members(l \o g[m], Listed(l, m))
  <2> HIDE DEF l, Inside, Listed, Ordered, Members
  <2> QED BY <1>1, <1>3, <1>5, <1>6, <1>7, VisitRounds DEF m
<1>9. Listed(l, m) = Part(s)
  <2>1. \A i \in 1..m : l[i] \in Younger(s)
    BY <1>1 DEF ListRight
  <2>2. \A e \in Younger(s) : \E i \in 1..m : l[i] = e
    BY <1>1 DEF ListRight
  <2>3. \A e \in Younger(s) : e \in Below(e)
    BY YoungerSiblings, BelowIs
  <2> HIDE DEF l, m, Below, Younger
  <2>4. \A i \in 1..m : Below(l[i]) = {l[i]} \cup Inside(l[i])
    BY <2>1, <2>3 DEF Inside
  <2>5. \A x : x \in Listed(l, m) <=> \E i \in 1..m : x = l[i] \/ x \in Inside(l[i])
    BY DEF Listed, m
  <2>6. \A x : x \in Part(s) <=> \E i \in 1..m : x \in Below(l[i])
    BY <2>1, <2>2 DEF Part
  <2> HIDE DEF Inside, Listed, Part
  <2>7. \A x : x \in Part(s) <=> x \in Listed(l, m)
    BY <2>4, <2>5, <2>6
  <2> QED BY <2>7
<1> QED BY <1>2, <1>6, <1>8, <1>9 DEF VisitRight

(* From each scope on the visits are right. *)
LEMMA VisitsRight ==
  ASSUME Inv, NEW s \in 1..Len(scope)
  PROVE  VisitRight(Visits[s], s)
<1> DEFINE n == Len(scope)
           B == {t \in 1..n : ~VisitRight(Visits[t], t)}
<1>0. n \in Nat
  BY BelowIs
<1>1. SUFFICES ASSUME B # {} PROVE FALSE
  OBVIOUS
<1>2. B \in SUBSET Nat /\ \A t \in B : t <= n
  BY <1>0
<1> HIDE DEF B
<1>3. PICK t \in B : \A u \in B : u <= t
  BY <1>0, <1>1, <1>2, Greatest
<1>4. t \in 1..n /\ ~VisitRight(Visits[t], t)
  BY DEF B
<1>5. \A u \in 1..n : u > t => VisitRight(Visits[u], u)
  <2>1. ASSUME NEW u \in 1..n, u > t PROVE u \notin B
    BY <1>0, <1>3, <1>4, <2>1
  <2> QED BY <2>1 DEF B
<1>6. VisitRight(Visits[t], t)
  BY <1>4, <1>5, VisitStep
<1> QED BY <1>4, <1>6

(* produceXrefList lists every scope of the tree once, and after its parent *)
(* and its older siblings, whatever the tree.                               *)
THEOREM ListedOnceHolds == Spec => []ListedOnce
<1>1. Inv => ListedOnce
  <2> SUFFICES ASSUME Inv PROVE ListedOnce
    OBVIOUS
  <2> DEFINE w == produceXrefList
             tree == {s \in 1..Len(scope) : Path(s)[1] = 1}
  <2>1. Below(1) = tree /\ Parent(1) = 0 /\ 1 \in 1..Len(scope)
    BY BelowRoot
  <2>2. Ordered(w) /\ Members(w, Part(1))
    BY <2>1, VisitsRight, XrefIs DEF VisitRight
  <2>3. Younger(1) = {1}
    <3>1. 1 \in Younger(1) /\ \A j \in Younger(1) : j = 1
      BY <2>1, YoungerIs DEF Younger, NULL
    <3> QED BY <3>1
  <2>4. Part(1) = tree
    BY <2>1, <2>3 DEF Part
  <2> HIDE DEF w, tree
  <2>5. w \in Seq(Nat) /\ Len(w) \in Nat /\ DOMAIN w = 1..Len(w)
    BY <2>2 DEF Ordered
  <2>6. ToSet(w) = tree
    <3>1. ToSet(w) = {w[i] : i \in 1..Len(w)}
      BY <2>5 DEF ToSet
    <3>2. \A x : x \in tree <=> \E i \in 1..Len(w) : w[i] = x
      BY <2>2, <2>4 DEF Members
    <3> QED BY <3>1, <3>2
  <2>7. \A i, j \in 1..Len(w) :
          i < j => /\ w[i] # w[j] /\ Parent(w[i]) # w[j]
                   /\ Parent(w[i]) = Parent(w[j]) => w[i] < w[j]
    BY <2>2 DEF Ordered
  <2>8. Len(w) = Cardinality(tree)
    <3>1. \A i, j \in 1..Len(w) : w[i] = w[j] => i = j
      <4>1. \A i, j \in 1..Len(w) : i < j \/ j < i \/ i = j
        BY <2>5
      <4> QED BY <2>7, <4>1
    <3>2. \A x : x \in tree <=> \E i \in 1..Len(w) : w[i] = x
      BY <2>2, <2>4 DEF Members
    <3> DEFINE f == [i \in 1..Len(w) |-> w[i]]
    <3>3. f \in [1..Len(w) -> tree] /\ DOMAIN f = 1..Len(w) /\ \A i \in 1..Len(w) : f[i] = w[i]
      BY <3>2
    <3> HIDE DEF f
    <3>4. f \in Bijection(1..Len(w), tree)
      BY <3>1, <3>2, <3>3 DEF Bijection, Injection, Surjection, IsInjective
    <3>5. ExistsBijection(1..Len(w), tree)
      BY <3>4 DEF ExistsBijection
    <3> QED BY <2>5, <3>5, FS_CountingElements
  <2> QED BY <2>6, <2>7, <2>8 DEF ListedOnce, w, tree
<1> QED BY <1>1, InvHolds, PTL

=============================================================================
