------------------------------ MODULE MCPtrArray ------------------------------
(***************************************************************************)
(* Two arrays that grow from one place to four.                            *)
(***************************************************************************)
EXTENDS PtrArray

CONSTANTS a1, a2, x, y

=============================================================================
