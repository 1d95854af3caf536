---------------------------- MODULE PointerVector ----------------------------
(***************************************************************************)
(* What PtrArray.h promises its callers: vectors of pointers, "basically   *)
(* most if not all of std::vector".  The first index is 0.                 *)
(***************************************************************************)
EXTENDS Integers, Sequences

CONSTANTS
  Array,  \* the vectors of a program
  Item,   \* what they point to
  Null    \* the null pointer, also for a call that returns nothing

VARIABLES
  made,     \* the vectors that are constructed
  content,  \* of each vector
  result    \* of the last call

vars == << made, content, result >>

Init == made = {} /\ content = [a \in Array |-> << >>] /\ result = Null

Construct(a, s) ==
  /\ a \notin made
  /\ made' = made \cup {a} /\ content' = [content EXCEPT ![a] = s] /\ result' = Null

Change(a, s) == made' = made /\ content' = [content EXCEPT ![a] = s] /\ result' = Null

(* An assignment of a vector to itself empties it. *)
Assign(a, b) == b \in made /\ Change(a, IF a = b THEN << >> ELSE content[b])

Update(a, i, v) == i + 1 \in DOMAIN content[a] /\ Change(a, [content[a] EXCEPT ![i + 1] = v])

(* An index outside of the vector erases nothing. *)
Erase(a, i) ==
  Change(a, IF i + 1 \in DOMAIN content[a]
            THEN [j \in 1..(Len(content[a]) - 1) |-> content[a][IF j <= i THEN j ELSE j + 1]]
            ELSE content[a])

Read(a, i) ==
  /\ result' = IF i + 1 \in DOMAIN content[a] THEN content[a][i + 1] ELSE Null
  /\ UNCHANGED << made, content >>

Size(a) == result' = Len(content[a]) /\ UNCHANGED << made, content >>

Destroy(a) ==
  /\ made' = made \ {a} /\ content' = [content EXCEPT ![a] = << >>] /\ result' = Null

Next ==
  \E a \in Array :
    \/ Construct(a, << >>)
    \/ \E b \in made : Construct(a, content[b])
    \/ /\ a \in made
       /\ \/ Change(a, << >>)
          \/ \E b \in Array : Assign(a, b)
          \/ \E v \in Item : \/ Change(a, Append(content[a], v))
                            \/ \E i \in 0..(Len(content[a]) - 1) : Update(a, i, v)
          \/ \E i \in -1..Len(content[a]) : Erase(a, i) \/ Read(a, i)
          \/ Size(a)
          \/ Destroy(a)

Spec == Init /\ [][Next]_vars

=============================================================================
