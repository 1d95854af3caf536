------------------------------ MODULE MCScopes ------------------------------
(***************************************************************************)
(* Labels and lists of names for ScopeTree.  Two labels are enough for a   *)
(* block inside another one of the same name; scopeRoot and blocks without *)
(* a label can be named in an END too.                                     *)
(***************************************************************************)
EXTENDS ScopeTree

CONSTANTS p, q

Names == {p, q, Root, Unnamed}
MCLabelLists == {<< >>, << q, p >>}
MCNameLists == {<< >>, << p >>, << q, p >>}

=============================================================================
