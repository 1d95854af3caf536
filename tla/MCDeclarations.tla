---------------------------- MODULE MCDeclarations ----------------------------
(***************************************************************************)
(* Statements for Declarations: attributes in nested parentheses, and      *)
(* structures with two names.                                              *)
(***************************************************************************)
EXTENDS Declarations

CONSTANTS price, size

Attributes ==
  [names |-> {price}, levels |-> {-1},
   attributes |-> {<< >>, << "FIXED" >>, << "BINARY", "STATIC" >>, << "EXTERNAL", "CHARACTER" >>},
   factors |-> {<< >>, << "FLOAT" >>, << "BINARY" >>, << "EXTERNAL" >>},
   length |-> 3, depth |-> 2]

MoreAttributes ==
  [names |-> {price}, levels |-> {-1},
   attributes |-> {<< n >> : n \in DOMAIN Attribute} \cup {<< >>, << "STATIC", "CONTROLLED" >>, << "CONTROLLED", "STATIC" >>},
   factors |-> {<< n >> : n \in DOMAIN Attribute},
   length |-> 2, depth |-> 1]

Structures ==
  [names |-> {price, size}, levels |-> {-1, 1, 2, 3},
   attributes |-> {<< >>}, factors |-> {<< >>},
   length |-> 5, depth |-> 0]

Groups ==
  [names |-> {price}, levels |-> {-1, 1, 2},
   attributes |-> {<< >>}, factors |-> {<< >>},
   length |-> 3, depth |-> 2]

MCVocabularies == {Attributes, MoreAttributes, Structures, Groups}

=============================================================================
