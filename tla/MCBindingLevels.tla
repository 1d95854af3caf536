--------------------------- MODULE MCBindingLevels ---------------------------
(***************************************************************************)
(* Names and lists for BindingLevels.                                      *)
(***************************************************************************)
EXTENDS BindingMeaning

MCVariable == {"v", "x"}
MCExternals == {"x"}
MCArgumentLists == {<< "a", "b" >>}
MCParameterLists == {<< "p", "q" >>}
MCPredefined == << "int", "char" >>

=============================================================================
