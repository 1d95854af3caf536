------------------------------ MODULE MCCompiler ------------------------------
(***************************************************************************)
(* Files, lists of directories and environments for Compiler.              *)
(***************************************************************************)
EXTENDS Compiler

MCText == STRING
MCName == {"f", "m"}
MCPathLists == {<< "d/" >>, << ":", "d/", ";", "e/" >>}
MCSuffixList == {".i"}
MCEnvironments == {[PL1SYSLIB |-> << "e/", ":" >>, m |-> << "d/", ":" >>]} \cup {[x \in {} |-> << >>]}
MCFileSystems ==
  {{}, {<< "d/", "f", "" >>}, {<< "d/", "f", "" >>, << "d/", "f", ".i" >>, << "e/", "f", "" >>},
   {<< "./", "f", "" >>, << "/", "f", "" >>, << "e/", "f", "" >>}}

=============================================================================
