---------------------------- MODULE PtrArrayProofs ----------------------------
(***************************************************************************)
(* Proofs about PtrArray: the memory always has room for the items and the  *)
(* array is a vector, whatever the items, the first capacity and the bound. *)
(***************************************************************************)
EXTENDS PtrArray, SequenceTheorems, TLAPS

LEMMA AppendFunction ==
  ASSUME NEW S, NEW s \in Seq(S), NEW v \in S
  PROVE  Append(s, v) = [i \in 1..(Len(s) + 1) |-> IF i = Len(s) + 1 THEN v ELSE s[i]]
<1> DEFINE g == [i \in 1..(Len(s) + 1) |-> IF i = Len(s) + 1 THEN v ELSE s[i]]
<1>1. g \in [1..(Len(s) + 1) -> S] /\ Len(s) + 1 \in Nat
  OBVIOUS
<1>2. g \in Seq(S) /\ Len(g) = Len(s) + 1
  BY <1>1
<1>3. Append(s, v) \in Seq(S) /\ Len(Append(s, v)) = Len(s) + 1
  OBVIOUS
<1>4. \A i \in 1..(Len(s) + 1) : Append(s, v)[i] = g[i]
  OBVIOUS
<1> HIDE DEF g
<1>5. Append(s, v) = g
  BY <1>2, <1>3, <1>4, SeqEqual
<1> QED BY <1>5 DEF g

LEMMA Fields ==
  ASSUME NEW p, IsStruct(p)
  PROVE  /\ p.level \in Nat /\ p.maxCapacity \in Nat /\ p.nitems \in Nat /\ p.nitems <= p.maxCapacity
         /\ p.ptrs \in [0..(p.maxCapacity - 1) -> Cells]
         /\ \A i \in 0..(p.nitems - 1) : p.ptrs[i] \in Item
BY DEF IsStruct

LEMMA ItemsSequence ==
  ASSUME NEW p, IsStruct(p)
  PROVE  /\ Items(p) \in Seq(Item) /\ Len(Items(p)) = p.nitems /\ DOMAIN Items(p) = 1..p.nitems
         /\ \A i \in 1..p.nitems : Items(p)[i] = p.ptrs[i - 1]
<1>1. p.nitems \in Nat /\ \A i \in 1..p.nitems : p.ptrs[i - 1] \in Item
  BY DEF IsStruct
<1>2. Items(p) \in [1..p.nitems -> Item]
  BY <1>1 DEF Items
<1> QED BY <1>1, <1>2 DEF Items

-----------------------------------------------------------------------------
(* What the helpers return. *)

LEMMA DestroyedStruct == IsStruct(Destroyed) /\ Items(Destroyed) = << >>
BY DEF IsStruct, Destroyed, Struct, Items, Cells

LEMMA NewStruct == IsStruct(New) /\ Items(New) = << >> /\ New.maxCapacity > 0
BY CapacityAssumption DEF IsStruct, New, Struct, Items, Cells

LEMMA ClearedStruct ==
  ASSUME NEW p, IsStruct(p)
  PROVE  IsStruct(Cleared(p)) /\ Items(Cleared(p)) = << >> /\ Cleared(p).maxCapacity = p.maxCapacity
BY DEF IsStruct, Cleared, Struct, Items, Cells

LEMMA CopyStruct ==
  ASSUME NEW p, IsStruct(p)
  PROVE  IsStruct(Copy(p)) /\ Items(Copy(p)) = Items(p) /\ Copy(p).maxCapacity = p.maxCapacity
BY DEF IsStruct, Copy, Copied, Struct, Items, Cells

LEMMA StoredStruct ==
  ASSUME NEW p, IsStruct(p), NEW k \in 0..(p.nitems - 1), NEW v \in Item
  PROVE  /\ IsStruct(Stored(p, k, v)) /\ Stored(p, k, v).maxCapacity = p.maxCapacity
         /\ Items(Stored(p, k, v)) = [Items(p) EXCEPT ![k + 1] = v]
<1> DEFINE f == [p.ptrs EXCEPT ![k] = v]
<1>0. Stored(p, k, v) = [level |-> p.level, maxCapacity |-> p.maxCapacity, nitems |-> p.nitems, ptrs |-> f]
  BY DEF Stored, Struct
<1>1. /\ f \in [0..(p.maxCapacity - 1) -> Cells]
      /\ \A i \in 0..(p.nitems - 1) : f[i] = IF i = k THEN v ELSE p.ptrs[i]
  BY DEF IsStruct, Cells
<1>2. /\ p.level \in Nat /\ p.maxCapacity \in Nat /\ p.nitems \in Nat /\ p.nitems <= p.maxCapacity
      /\ \A i \in 0..(p.nitems - 1) : p.ptrs[i] \in Item
  BY Fields
<1> HIDE DEF f
<1>3. IsStruct(Stored(p, k, v))
  BY <1>0, <1>1, <1>2 DEF IsStruct
<1>4. Items(Stored(p, k, v)) = [i \in 1..p.nitems |-> f[i - 1]]
  BY <1>0 DEF Items
<1>5. \A i \in 1..p.nitems : f[i - 1] = IF i = k + 1 THEN v ELSE p.ptrs[i - 1]
  BY <1>1, <1>2
<1>6. [Items(p) EXCEPT ![k + 1] = v] = [i \in 1..p.nitems |-> IF i = k + 1 THEN v ELSE p.ptrs[i - 1]]
  BY DEF Items
<1>7. Stored(p, k, v).maxCapacity = p.maxCapacity
  BY <1>0
<1>8. Items(Stored(p, k, v)) = [Items(p) EXCEPT ![k + 1] = v]
  BY <1>4, <1>5, <1>6
<1> QED BY <1>3, <1>7, <1>8

LEMMA ResizeStruct ==
  ASSUME NEW p, IsStruct(p), p.maxCapacity > 0
  PROVE  /\ IsStruct(PtrArray_resize(p)) /\ Items(PtrArray_resize(p)) = Items(p)
         /\ PtrArray_resize(p).nitems = p.nitems
         /\ PtrArray_resize(p).nitems < PtrArray_resize(p).maxCapacity
<1>1. CASE p.nitems < p.maxCapacity
  BY <1>1 DEF PtrArray_resize
<1>2. CASE ~(p.nitems < p.maxCapacity)
  <2> DEFINE f == Doubled(p)
  <2>1. PtrArray_resize(p) = [level |-> p.level + 1, maxCapacity |-> 2 * p.maxCapacity,
                              nitems |-> p.nitems, ptrs |-> f]
    BY <1>2 DEF PtrArray_resize, Struct
  <2>2. /\ f \in [0..(2 * p.maxCapacity - 1) -> Cells]
        /\ \A i \in 0..(p.nitems - 1) : f[i] = p.ptrs[i]
    BY Fields DEF Cells, Doubled
  <2>3. /\ p.level \in Nat /\ p.maxCapacity \in Nat /\ p.nitems \in Nat /\ p.nitems <= p.maxCapacity
        /\ \A i \in 0..(p.nitems - 1) : p.ptrs[i] \in Item
    BY Fields
  <2> HIDE DEF f
  <2>4. IsStruct(PtrArray_resize(p))
    BY <2>1, <2>2, <2>3 DEF IsStruct
  <2>5. Items(PtrArray_resize(p)) = Items(p)
    BY <2>1, <2>2, <2>3 DEF Items
  <2>6. PtrArray_resize(p).nitems = p.nitems /\ PtrArray_resize(p).maxCapacity = 2 * p.maxCapacity
    BY <2>1
  <2> QED BY <2>3, <2>4, <2>5, <2>6
<1> QED BY <1>1, <1>2

LEMMA PushedStruct ==
  ASSUME NEW p, IsStruct(p), p.nitems < p.maxCapacity, NEW v \in Item
  PROVE  /\ IsStruct(Pushed(p, v)) /\ Items(Pushed(p, v)) = Append(Items(p), v)
         /\ Pushed(p, v).maxCapacity = p.maxCapacity
<1> DEFINE f == [p.ptrs EXCEPT ![p.nitems] = v]
<1>1. Pushed(p, v) = [level |-> p.level, maxCapacity |-> p.maxCapacity, nitems |-> p.nitems + 1, ptrs |-> f]
  BY DEF Pushed, Struct
<1>2. /\ f \in [0..(p.maxCapacity - 1) -> Cells]
      /\ \A i \in 0..p.nitems : f[i] = IF i = p.nitems THEN v ELSE p.ptrs[i]
  BY Fields DEF Cells
<1>3. /\ p.level \in Nat /\ p.maxCapacity \in Nat /\ p.nitems \in Nat /\ p.nitems <= p.maxCapacity
      /\ \A i \in 0..(p.nitems - 1) : p.ptrs[i] \in Item
  BY Fields
<1> HIDE DEF f
<1>4. IsStruct(Pushed(p, v))
  BY <1>1, <1>2, <1>3 DEF IsStruct
<1>5. Items(Pushed(p, v)) = [i \in 1..(p.nitems + 1) |-> f[i - 1]]
  BY <1>1 DEF Items
<1>6. /\ Items(p) \in Seq(Item) /\ Len(Items(p)) = p.nitems
      /\ \A i \in 1..p.nitems : Items(p)[i] = p.ptrs[i - 1]
  BY ItemsSequence
<1>7. \A i \in 1..(p.nitems + 1) :
        f[i - 1] = IF i = p.nitems + 1 THEN v ELSE Items(p)[i]
  BY <1>2, <1>3, <1>6
<1>8. Append(Items(p), v) = [i \in 1..(p.nitems + 1) |-> IF i = p.nitems + 1 THEN v ELSE Items(p)[i]]
  BY <1>6, AppendFunction
<1>9. Pushed(p, v).maxCapacity = p.maxCapacity
  BY <1>1
<1> QED BY <1>4, <1>5, <1>7, <1>8, <1>9

LEMMA ErasedStruct ==
  ASSUME NEW p, IsStruct(p), NEW k \in Int
  PROVE  /\ IsStruct(Erased(p, k)) /\ Erased(p, k).maxCapacity = p.maxCapacity
         /\ Items(Erased(p, k)) =
              IF k + 1 \in DOMAIN Items(p)
              THEN [j \in 1..(Len(Items(p)) - 1) |-> Items(p)[IF j <= k THEN j ELSE j + 1]]
              ELSE Items(p)
<1>0. /\ p.level \in Nat /\ p.maxCapacity \in Nat /\ p.nitems \in Nat /\ p.nitems <= p.maxCapacity
      /\ \A i \in 0..(p.nitems - 1) : p.ptrs[i] \in Item
      /\ \A i \in 0..(p.maxCapacity - 1) : p.ptrs[i] \in Cells
  BY Fields
<1>1. /\ Len(Items(p)) = p.nitems /\ DOMAIN Items(p) = 1..p.nitems
      /\ \A i \in 1..p.nitems : Items(p)[i] = p.ptrs[i - 1]
  BY ItemsSequence
<1>2. CASE k < 0 \/ k >= p.nitems
  BY <1>0, <1>1, <1>2 DEF Erased
<1>3. CASE ~(k < 0 \/ k >= p.nitems)
  <2> DEFINE f == Moved(p, k)
  <2>1. Erased(p, k) = [level |-> p.level, maxCapacity |-> p.maxCapacity,
                        nitems |-> p.nitems - 1, ptrs |-> f]
    BY <1>3 DEF Erased, Struct
  <2>2. \A i \in 0..(p.maxCapacity - 1) :
          f[i] = IF k <= i /\ i < p.nitems - 1 THEN p.ptrs[i + 1] ELSE p.ptrs[i]
    BY DEF Moved
  <2>3. f \in [0..(p.maxCapacity - 1) -> Cells]
    <3>1. \A i \in 0..(p.maxCapacity - 1) :
            (IF k <= i /\ i < p.nitems - 1 THEN p.ptrs[i + 1] ELSE p.ptrs[i]) \in Cells
      BY <1>0
    <3> QED BY <3>1 DEF Moved
  <2> HIDE DEF f
  <2>4. \A i \in 0..(p.nitems - 2) :
          /\ f[i] = p.ptrs[IF i < k THEN i ELSE i + 1]
          /\ f[i] \in Item
    BY <1>0, <1>3, <2>2
  <2>5. IsStruct(Erased(p, k))
    BY <1>0, <1>3, <2>1, <2>3, <2>4 DEF IsStruct
  <2>6. Items(Erased(p, k)) = [j \in 1..(p.nitems - 1) |-> f[j - 1]]
    BY <2>1 DEF Items
  <2>7. \A j \in 1..(p.nitems - 1) : f[j - 1] = Items(p)[IF j <= k THEN j ELSE j + 1]
    BY <1>0, <1>1, <1>3, <2>4
  <2>8. k + 1 \in DOMAIN Items(p)
    BY <1>0, <1>1, <1>3
  <2>9. Erased(p, k).maxCapacity = p.maxCapacity
    BY <2>1
  <2> QED BY <1>1, <2>5, <2>6, <2>7, <2>8, <2>9
<1> QED BY <1>2, <1>3

-----------------------------------------------------------------------------
(* Type invariant. *)

LEMMA SetTypeOK ==
  ASSUME TypeOK, NEW a \in Array, NEW p, IsStruct(p), Set(a, p)
  PROVE  /\ TypeOK'
         /\ array'[a] = p
         /\ \A b \in Array \ {a} : array'[b] = array[b]
BY DEF TypeOK, Set

THEOREM TypeOKInit == Init => TypeOK
<1> SUFFICES ASSUME Init PROVE TypeOK
  OBVIOUS
<1>1. array = [a \in Array |-> Destroyed]
  BY DEF Init
<1>2. IsStruct(Destroyed)
  BY DestroyedStruct
<1> QED BY <1>1, <1>2 DEF TypeOK

-----------------------------------------------------------------------------
(* The steps of the vector. *)

Made == {a \in Array : Constructed(a)}
Content == [a \in Array |-> Items(array[a])]

LEMMA ChangeStep ==
  ASSUME TypeOK, NEW a \in Array, Constructed(a), NEW p, IsStruct(p), p.maxCapacity > 0, Set(a, p)
  PROVE  TypeOK' /\ Vector!Change(a, Items(p))
<1>1. TypeOK' /\ array'[a] = p /\ \A b \in Array \ {a} : array'[b] = array[b]
  BY SetTypeOK
<1>2. Made' = Made
  BY <1>1 DEF Made, Constructed
<1>3. Content' = [Content EXCEPT ![a] = Items(p)]
  BY <1>1 DEF Content
<1> QED BY <1>1, <1>2, <1>3 DEF Vector!Change, Made, Content, Set

LEMMA ConstructStep ==
  ASSUME TypeOK, NEW a \in Array, ~Constructed(a), NEW p, IsStruct(p), p.maxCapacity > 0, Set(a, p)
  PROVE  TypeOK' /\ Vector!Construct(a, Items(p))
<1>1. TypeOK' /\ array'[a] = p /\ \A b \in Array \ {a} : array'[b] = array[b]
  BY SetTypeOK
<1>2. Made' = Made \cup {a} /\ a \notin Made
  BY <1>1 DEF Made, Constructed
<1>3. Content' = [Content EXCEPT ![a] = Items(p)]
  BY <1>1 DEF Content
<1> QED BY <1>1, <1>2, <1>3 DEF Vector!Construct, Made, Content, Set

LEMMA DestroyStep ==
  ASSUME TypeOK, NEW a \in Array, PtrArray_dtor(a)
  PROVE  TypeOK' /\ Vector!Destroy(a)
<1>0. IsStruct(Destroyed) /\ Items(Destroyed) = << >> /\ Destroyed.maxCapacity = 0
  BY DestroyedStruct DEF Destroyed, Struct
<1>1. TypeOK' /\ array'[a] = Destroyed /\ \A b \in Array \ {a} : array'[b] = array[b]
  BY <1>0, SetTypeOK DEF PtrArray_dtor
<1>2. Made' = Made \ {a}
  BY <1>0, <1>1 DEF Made, Constructed
<1>3. Content' = [Content EXCEPT ![a] = << >>]
  BY <1>0, <1>1 DEF Content
<1> QED BY <1>1, <1>2, <1>3 DEF Vector!Destroy, Made, Content, Set, PtrArray_dtor

LEMMA ReturnStep ==
  ASSUME TypeOK, NEW value, Return(value)
  PROVE  TypeOK' /\ Made' = Made /\ Content' = Content /\ result' = value
BY DEF Return, TypeOK, Made, Content, Constructed

(* An item that is read. *)
LEMMA ReadStep ==
  ASSUME TypeOK, NEW a \in Array, Constructed(a), NEW i \in 0..(array[a].nitems - 1),
         Return(array[a].ptrs[i])
  PROVE  TypeOK' /\ Vector!Read(a, i) /\ i \in -1..Len(Content[a])
<1>1. IsStruct(array[a])
  BY DEF TypeOK
<1>0. Content[a] = Items(array[a]) /\ array[a].nitems \in Nat
  BY <1>1, Fields DEF Content
<1>4. /\ Len(Content[a]) = array[a].nitems /\ DOMAIN Content[a] = 1..array[a].nitems
      /\ \A k \in 1..array[a].nitems : Content[a][k] = array[a].ptrs[k - 1]
  BY <1>0, <1>1, ItemsSequence
<1>2. /\ Len(Content[a]) = array[a].nitems /\ i + 1 \in DOMAIN Content[a]
      /\ Content[a][i + 1] = array[a].ptrs[i] /\ i \in -1..Len(Content[a])
  BY <1>0, <1>4
<1>3. TypeOK' /\ Made' = Made /\ Content' = Content /\ result' = array[a].ptrs[i]
  BY ReturnStep
<1> QED BY <1>2, <1>3 DEF Vector!Read, Made, Content

-----------------------------------------------------------------------------
(* One lemma per operation: what is left of the type invariant and of the   *)
(* vector after it.                                                         *)

LEMMA DefaultCtorStep ==
  ASSUME TypeOK, NEW a \in Array, PtrArray_default_ctor(a)
  PROVE  TypeOK' /\ Vector!Next
<1>1. TypeOK' /\ Vector!Construct(a, << >>)
  BY NewStruct, ConstructStep DEF PtrArray_default_ctor
<1> QED BY <1>1 DEF Vector!Next

LEMMA CopyCtorStep ==
  ASSUME TypeOK, NEW a \in Array, NEW b \in Array, PtrArray_copy_ctor(a, b)
  PROVE  TypeOK' /\ Vector!Next
<1>1. IsStruct(array[b]) /\ b \in Made /\ array[b].maxCapacity > 0 /\ Content[b] = Items(array[b])
  BY DEF TypeOK, PtrArray_copy_ctor, Made, Content, Constructed
<1>2. /\ IsStruct(Copy(array[b])) /\ Items(Copy(array[b])) = Items(array[b])
      /\ Copy(array[b]).maxCapacity > 0
  BY <1>1, CopyStruct
<1>3. TypeOK' /\ Vector!Construct(a, Content[b])
  BY <1>1, <1>2, ConstructStep DEF PtrArray_copy_ctor
<1> QED BY <1>1, <1>3 DEF Vector!Next, Made, Content

LEMMA ClearStep ==
  ASSUME TypeOK, NEW a \in Array, PtrArray_clear(a)
  PROVE  TypeOK' /\ Vector!Next
<1>1. IsStruct(array[a]) /\ a \in Made /\ array[a].maxCapacity > 0
  BY DEF TypeOK, PtrArray_clear, Made, Constructed
<1>2. /\ IsStruct(Cleared(array[a])) /\ Items(Cleared(array[a])) = << >>
      /\ Cleared(array[a]).maxCapacity > 0
  BY <1>1, ClearedStruct
<1>3. TypeOK' /\ Vector!Change(a, << >>)
  BY <1>1, <1>2, ChangeStep DEF PtrArray_clear
<1> QED BY <1>1, <1>3 DEF Vector!Next, Made

LEMMA CopyStep ==
  ASSUME TypeOK, NEW a \in Array, NEW b \in Array, PtrArray_copy(a, b)
  PROVE  TypeOK' /\ Vector!Next
<1> DEFINE p == IF a = b THEN Cleared(array[b]) ELSE array[b]
<1>1. /\ IsStruct(array[b]) /\ a \in Made /\ b \in Made
      /\ array[b].maxCapacity > 0 /\ Content[b] = Items(array[b])
  BY DEF TypeOK, PtrArray_copy, Made, Content, Constructed
<1>2. IsStruct(p) /\ p.maxCapacity > 0 /\ Items(p) = IF a = b THEN << >> ELSE Content[b]
  BY <1>1, ClearedStruct
<1>3. Set(a, Copy(p)) /\ Constructed(a)
  BY DEF PtrArray_copy
<1> HIDE DEF p
<1>4. IsStruct(Copy(p)) /\ Items(Copy(p)) = Items(p) /\ Copy(p).maxCapacity > 0
  BY <1>2, CopyStruct
<1>5. TypeOK' /\ Vector!Change(a, IF a = b THEN << >> ELSE Content[b])
  BY <1>2, <1>3, <1>4, ChangeStep
<1>6. Vector!Assign(a, b)
  BY <1>1, <1>5 DEF Vector!Assign, Made, Content
<1> QED BY <1>1, <1>5, <1>6 DEF Vector!Next, Made

LEMMA DtorStep ==
  ASSUME TypeOK, NEW a \in Array, PtrArray_dtor(a)
  PROVE  TypeOK' /\ Vector!Next
<1>1. a \in Made
  BY DEF PtrArray_dtor, Made
<1> QED BY <1>1, DestroyStep DEF Vector!Next, Made

LEMMA SizeStep ==
  ASSUME TypeOK, NEW a \in Array, PtrArray_size(a)
  PROVE  TypeOK' /\ Vector!Next
<1>1. IsStruct(array[a]) /\ a \in Made /\ Content[a] = Items(array[a])
  BY DEF TypeOK, PtrArray_size, Made, Content
<1>2. Len(Content[a]) = array[a].nitems
  BY <1>1, ItemsSequence
<1>3. TypeOK' /\ Made' = Made /\ Content' = Content /\ result' = array[a].nitems
  BY ReturnStep DEF PtrArray_size
<1>4. Vector!Size(a)
  BY <1>2, <1>3 DEF Vector!Size, Made, Content
<1> QED BY <1>1, <1>3, <1>4 DEF Vector!Next, Made

LEMMA IndexStep ==
  ASSUME TypeOK, NEW a \in Array, NEW i \in Nat, i < array[a].nitems, Constructed(a),
         Return(array[a].ptrs[i])
  PROVE  TypeOK' /\ Vector!Next
<1>1. array[a].nitems \in Nat /\ a \in Made
  BY Fields DEF TypeOK, Made
<1>2. i \in 0..(array[a].nitems - 1)
  BY <1>1
<1>3. TypeOK' /\ Vector!Read(a, i) /\ i \in -1..Len(Content[a])
  BY <1>2, ReadStep
<1> QED BY <1>1, <1>3 DEF Vector!Next, Made, Content

LEMMA AtStep ==
  ASSUME TypeOK, NEW a \in Array, NEW i \in Nat, PtrArray_at(a, i)
  PROVE  TypeOK' /\ Vector!Next
<1>1. IsStruct(array[a]) /\ array[a].nitems \in Nat /\ a \in Made /\ Content[a] = Items(array[a])
  BY Fields DEF TypeOK, Made, Content, PtrArray_at
<1>2. CASE i < array[a].nitems
  BY <1>1, <1>2, IndexStep DEF PtrArray_at
<1>3. CASE ~(i < array[a].nitems)
  <2>1. TypeOK' /\ Made' = Made /\ Content' = Content /\ result' = Null
    BY <1>1, <1>3, ReturnStep DEF PtrArray_at
  <2>2. Len(Content[a]) = array[a].nitems /\ DOMAIN Content[a] = 1..array[a].nitems
    BY <1>1, ItemsSequence
  <2>3. -1 + 1 \notin DOMAIN Content[a] /\ -1 \in -1..Len(Content[a])
    BY <1>1, <2>2
  <2>4. Vector!Read(a, -1)
    BY <2>1, <2>3 DEF Vector!Read, Made, Content
  <2> QED BY <1>1, <2>1, <2>3, <2>4 DEF Vector!Next, Made, Content
<1> QED BY <1>1, <1>2, <1>3

LEMMA SetStep ==
  ASSUME TypeOK, NEW a \in Array, NEW i \in Nat, NEW v \in Item, PtrArray_set(a, i, v)
  PROVE  TypeOK' /\ Vector!Next
<1>1. /\ IsStruct(array[a]) /\ array[a].nitems \in Nat /\ array[a].maxCapacity > 0
      /\ a \in Made /\ Content[a] = Items(array[a])
  BY Fields DEF TypeOK, Made, Content, PtrArray_set, Constructed
<1>2. i \in 0..(array[a].nitems - 1)
  BY <1>1 DEF PtrArray_set
<1>3. /\ IsStruct(Stored(array[a], i, v)) /\ Stored(array[a], i, v).maxCapacity > 0
      /\ Items(Stored(array[a], i, v)) = [Content[a] EXCEPT ![i + 1] = v]
  BY <1>1, <1>2, StoredStruct
<1>4. TypeOK' /\ Vector!Change(a, [Content[a] EXCEPT ![i + 1] = v])
  BY <1>3, ChangeStep DEF PtrArray_set
<1>5. Len(Content[a]) = array[a].nitems /\ DOMAIN Content[a] = 1..array[a].nitems
  BY <1>1, ItemsSequence
<1>6. i + 1 \in DOMAIN Content[a] /\ i \in 0..(Len(Content[a]) - 1)
  BY <1>1, <1>2, <1>5
<1>7. Vector!Update(a, i, v)
  BY <1>4, <1>6 DEF Vector!Update, Content
<1> QED BY <1>1, <1>4, <1>6, <1>7 DEF Vector!Next, Made, Content

LEMMA PushBackStep ==
  ASSUME TypeOK, NEW a \in Array, NEW v \in Item, PtrArray_push_back(a, v)
  PROVE  TypeOK' /\ Vector!Next
<1> DEFINE p == PtrArray_resize(array[a])
<1>1. IsStruct(array[a]) /\ array[a].maxCapacity > 0 /\ a \in Made /\ Content[a] = Items(array[a])
  BY DEF TypeOK, Made, Content, PtrArray_push_back, Constructed
<1>2. Set(a, Pushed(p, v)) /\ Constructed(a)
  BY DEF PtrArray_push_back
<1>3. IsStruct(p) /\ Items(p) = Content[a] /\ p.nitems < p.maxCapacity
  BY <1>1, ResizeStruct
<1> HIDE DEF p
<1>4. p.maxCapacity > 0
  BY <1>3, Fields
<1>5. /\ IsStruct(Pushed(p, v)) /\ Pushed(p, v).maxCapacity > 0
      /\ Items(Pushed(p, v)) = Append(Content[a], v)
  BY <1>3, <1>4, PushedStruct
<1>6. TypeOK' /\ Vector!Change(a, Append(Content[a], v))
  BY <1>2, <1>5, ChangeStep
<1> QED BY <1>1, <1>6 DEF Vector!Next, Made, Content

LEMMA EraseStep ==
  ASSUME TypeOK, NEW a \in Array, NEW k \in Int, PtrArray_erase(a, k)
  PROVE  TypeOK' /\ Vector!Next
<1>1. /\ IsStruct(array[a]) /\ array[a].nitems \in Nat /\ array[a].maxCapacity > 0
      /\ a \in Made /\ Content[a] = Items(array[a])
  BY Fields DEF TypeOK, Made, Content, PtrArray_erase, Constructed
<1> DEFINE Without(i) ==
      IF i + 1 \in DOMAIN Content[a]
      THEN [j \in 1..(Len(Content[a]) - 1) |-> Content[a][IF j <= i THEN j ELSE j + 1]]
      ELSE Content[a]
<1>2. /\ IsStruct(Erased(array[a], k)) /\ Erased(array[a], k).maxCapacity > 0
      /\ Items(Erased(array[a], k)) = Without(k)
  BY <1>1, ErasedStruct
<1>3. Len(Content[a]) = array[a].nitems /\ DOMAIN Content[a] = 1..array[a].nitems
  BY <1>1, ItemsSequence
<1>4. PICK i \in -1..Len(Content[a]) : Without(i) = Without(k)
  <2>1. CASE k + 1 \in DOMAIN Content[a]
    <3>1. k \in -1..Len(Content[a])
      BY <1>1, <1>3, <2>1
    <3> QED BY <3>1
  <2>2. CASE k + 1 \notin DOMAIN Content[a]
    <3>1. -1 + 1 \notin DOMAIN Content[a] /\ -1 \in -1..Len(Content[a])
      BY <1>1, <1>3
    <3> QED BY <2>2, <3>1
  <2> QED BY <2>1, <2>2
<1>5. TypeOK' /\ Vector!Change(a, Without(i))
  <2> HIDE DEF Without
  <2> QED BY <1>2, <1>4, ChangeStep DEF PtrArray_erase
<1>6. Vector!Erase(a, i)
  BY <1>5 DEF Vector!Erase, Content
<1> QED BY <1>1, <1>4, <1>5, <1>6 DEF Vector!Next, Made, Content

LEMMA NextStep ==
  ASSUME TypeOK, [Next]_vars
  PROVE  TypeOK' /\ [Vector!Next]_Vector!vars
<1>1. CASE UNCHANGED vars
  BY <1>1 DEF vars, TypeOK, Vector!vars, Constructed
<1>2. ASSUME NEW a \in Array, \/ PtrArray_default_ctor(a) \/ PtrArray_clear(a) \/ PtrArray_dtor(a)
                              \/ PtrArray_size(a)
      PROVE  TypeOK' /\ Vector!Next
  BY <1>2, DefaultCtorStep, ClearStep, DtorStep, SizeStep
<1>3. ASSUME NEW a \in Array, NEW b \in Array, PtrArray_copy_ctor(a, b) \/ PtrArray_copy(a, b)
      PROVE  TypeOK' /\ Vector!Next
  BY <1>3, CopyCtorStep, CopyStep
<1>4. ASSUME NEW a \in Array, PtrArray_back(a) \/ PtrArray_front(a)
      PROVE  TypeOK' /\ Vector!Next
  <2>1. array[a].nitems \in Nat /\ array[a].nitems > 0 /\ Constructed(a)
    BY <1>4, Fields DEF TypeOK, PtrArray_back, PtrArray_front
  <2>2. array[a].nitems - 1 \in Nat /\ array[a].nitems - 1 < array[a].nitems /\ 0 < array[a].nitems
    BY <2>1
  <2> QED BY <1>4, <2>1, <2>2, IndexStep DEF PtrArray_back, PtrArray_front
<1>5. ASSUME NEW a \in Array, NEW i \in 0..MaxItems, PtrArray_at(a, i) \/ PtrArray_index(a, i)
      PROVE  TypeOK' /\ Vector!Next
  BY <1>5, AtStep, IndexStep DEF PtrArray_index
<1>6. ASSUME NEW a \in Array, NEW v \in Item,
             PtrArray_push_back(a, v) \/ \E i \in 0..MaxItems : PtrArray_set(a, i, v)
      PROVE  TypeOK' /\ Vector!Next
  BY <1>6, PushBackStep, SetStep
<1>7. ASSUME NEW a \in Array, (\E i \in -1..MaxItems : PtrArray_erase(a, i)) \/ PtrArray_pop_back(a)
      PROVE  TypeOK' /\ Vector!Next
  <2>1. array[a].nitems - 1 \in Int
    BY Fields DEF TypeOK
  <2> QED BY <1>7, <2>1, EraseStep, CapacityAssumption DEF PtrArray_pop_back
<1> QED BY <1>1, <1>2, <1>3, <1>4, <1>5, <1>6, <1>7 DEF Next

-----------------------------------------------------------------------------
(* Type invariant: whatever is done with the arrays, the memory is as large  *)
(* as maxCapacity says, the items fit in it and none is garbage.            *)
THEOREM TypeOKHolds == Spec => []TypeOK
<1>1. Init => TypeOK
  BY TypeOKInit
<1>2. TypeOK /\ [Next]_vars => TypeOK'
  BY NextStep
<1> QED BY <1>1, <1>2, PTL DEF Spec

(* Every behaviour of the arrays is one of vectors: PtrArray.h implements    *)
(* what its comments promise.                                               *)
THEOREM VectorRefined == Spec => IsVector
<1>1. Init => Vector!Init
  BY DestroyedStruct DEF Init, Vector!Init, Constructed, Destroyed, Struct
<1>2. TypeOK /\ [Next]_vars => [Vector!Next]_Vector!vars
  BY NextStep
<1> QED BY <1>1, <1>2, TypeOKHolds, PTL DEF Spec, IsVector, Vector!Spec

=============================================================================
