------------------------------- MODULE PtrArray -------------------------------
(***************************************************************************)
(* The array of pointers of libpl1/include/PtrArray.h.  The memory behind   *)
(* the items, and what is not set in memory that was just allocated, is     *)
(* part of the state; allocation succeeds.  An array is used between its    *)
(* construction and its destruction, and the operations that check no      *)
(* bounds with an index of an item.                                         *)
(***************************************************************************)
EXTENDS Integers, Sequences

CONSTANTS
  Array, Item, Null,
  Garbage,          \* memory that was never set
  InitialCapacity,  \* 64
  MaxItems          \* bound on the items of an array

ASSUME CapacityAssumption == InitialCapacity \in Nat \ {0} /\ MaxItems \in Nat
ASSUME GarbageAssumption == Garbage \notin Item \cup {Null}

VARIABLES
  array,   \* the structs
  result   \* of the last call, Null if it returns nothing

vars == << array, result >>

Cells == Item \cup {Null, Garbage}

Struct(level, maxCapacity, nitems, ptrs) ==
  [level |-> level, maxCapacity |-> maxCapacity, nitems |-> nitems, ptrs |-> ptrs]

Destroyed == Struct(0, 0, 0, [i \in 0..-1 |-> Garbage])

(* PtrArray_new clears the struct; so is it after PtrArray_dtor. *)
Init == array = [a \in Array |-> Destroyed] /\ result = Null

Constructed(a) == array[a].maxCapacity > 0

Set(a, p) == array' = [array EXCEPT ![a] = p] /\ result' = Null
Return(value) == result' = value /\ UNCHANGED array

-----------------------------------------------------------------------------
(* Construction, copies. *)

New == Struct(0, InitialCapacity, 0, [i \in 0..(InitialCapacity - 1) |-> Null])

PtrArray_default_ctor(a) == ~Constructed(a) /\ Set(a, New)

(* The items of p in newly allocated memory. *)
Copied(p) == [i \in 0..(p.maxCapacity - 1) |-> IF i < p.nitems THEN p.ptrs[i] ELSE Garbage]

Copy(p) == Struct(p.level, p.maxCapacity, p.nitems, Copied(p))

PtrArray_copy_ctor(a, b) == ~Constructed(a) /\ Constructed(b) /\ Set(a, Copy(array[b]))

Cleared(p) == Struct(p.level, p.maxCapacity, 0, [i \in 0..(p.maxCapacity - 1) |-> Null])

PtrArray_clear(a) == Constructed(a) /\ Set(a, Cleared(array[a]))

(* The target is cleared first. *)
PtrArray_copy(a, b) ==
  /\ Constructed(a) /\ Constructed(b)
  /\ Set(a, Copy(IF a = b THEN Cleared(array[b]) ELSE array[b]))

PtrArray_dtor(a) == Constructed(a) /\ Set(a, Destroyed)

-----------------------------------------------------------------------------
(* Items. *)

PtrArray_size(a) == Constructed(a) /\ Return(array[a].nitems)

PtrArray_at(a, i) ==
  Constructed(a) /\ Return(IF i >= array[a].nitems THEN Null ELSE array[a].ptrs[i])

PtrArray_index(a, i) == Constructed(a) /\ i < array[a].nitems /\ Return(array[a].ptrs[i])

PtrArray_back(a) ==
  Constructed(a) /\ array[a].nitems > 0 /\ Return(array[a].ptrs[array[a].nitems - 1])

PtrArray_front(a) == Constructed(a) /\ array[a].nitems > 0 /\ Return(array[a].ptrs[0])

Stored(p, i, v) == Struct(p.level, p.maxCapacity, p.nitems, [p.ptrs EXCEPT ![i] = v])

PtrArray_set(a, i, v) == Constructed(a) /\ i < array[a].nitems /\ Set(a, Stored(array[a], i, v))

(* The memory is doubled when it is full. *)
Doubled(p) == [i \in 0..(2 * p.maxCapacity - 1) |-> IF i < p.maxCapacity THEN p.ptrs[i] ELSE Garbage]

PtrArray_resize_TooLate(p) ==
  IF p.nitems <= p.maxCapacity THEN p ELSE Struct(p.level + 1, 2 * p.maxCapacity, p.nitems, Doubled(p))

PtrArray_resize(p) ==
  IF p.nitems < p.maxCapacity THEN p ELSE Struct(p.level + 1, 2 * p.maxCapacity, p.nitems, Doubled(p))

Pushed(p, v) == Struct(p.level, p.maxCapacity, p.nitems + 1, [p.ptrs EXCEPT ![p.nitems] = v])

PtrArray_push_back(a, v) ==
  /\ Constructed(a) /\ array[a].nitems < MaxItems
  /\ Set(a, Pushed(PtrArray_resize(array[a]), v))

(* The items behind move down one by one; the last stays behind the end. *)
Moved_OneLeft(p, index) ==
  [i \in 0..(p.maxCapacity - 1) |-> IF index <= i /\ i < p.nitems - 2 THEN p.ptrs[i + 1] ELSE p.ptrs[i]]

Moved(p, index) ==
  [i \in 0..(p.maxCapacity - 1) |-> IF index <= i /\ i < p.nitems - 1 THEN p.ptrs[i + 1] ELSE p.ptrs[i]]

Erased(p, index) ==
  IF index < 0 \/ index >= p.nitems THEN p
  ELSE Struct(p.level, p.maxCapacity, p.nitems - 1, Moved(p, index))

PtrArray_erase(a, index) == Constructed(a) /\ Set(a, Erased(array[a], index))

PtrArray_pop_back(a) == PtrArray_erase(a, array[a].nitems - 1)

-----------------------------------------------------------------------------
Next ==
  \E a \in Array :
    \/ PtrArray_default_ctor(a)
    \/ \E b \in Array : PtrArray_copy_ctor(a, b) \/ PtrArray_copy(a, b)
    \/ PtrArray_clear(a) \/ PtrArray_dtor(a)
    \/ PtrArray_size(a) \/ PtrArray_back(a) \/ PtrArray_front(a)
    \/ \E i \in 0..MaxItems : PtrArray_at(a, i) \/ PtrArray_index(a, i)
    \/ \E v \in Item : PtrArray_push_back(a, v) \/ \E i \in 0..MaxItems : PtrArray_set(a, i, v)
    \/ \E i \in -1..MaxItems : PtrArray_erase(a, i)
    \/ PtrArray_pop_back(a)

Spec == Init /\ [][Next]_vars

-----------------------------------------------------------------------------
(* Type invariant.  The memory is as large as maxCapacity says, the items   *)
(* fit in it, and all of them are set.                                      *)
IsStruct(p) ==
  /\ p \in [level : Nat, maxCapacity : Nat, nitems : Nat, ptrs : [0..(p.maxCapacity - 1) -> Cells]]
  /\ p.nitems <= p.maxCapacity
  /\ \A i \in 0..(p.nitems - 1) : p.ptrs[i] \in Item

TypeOK ==
  /\ array = [a \in Array |-> array[a]]
  /\ \A a \in Array : IsStruct(array[a])

(* The items are what a caller sees; the memory behind them is not.  Every   *)
(* operation does to them what it does to a vector.                         *)
Items(p) == [i \in 1..p.nitems |-> p.ptrs[i - 1]]

Vector == INSTANCE PointerVector WITH
  made <- {a \in Array : Constructed(a)}, content <- [a \in Array |-> Items(array[a])]

IsVector == Vector!Spec

=============================================================================
