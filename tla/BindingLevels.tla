----------------------------- MODULE BindingLevels -----------------------------
(***************************************************************************)
(* pl1tree.c: the trees that GCC compiles, built by calls in the order of   *)
(* the program.  Each function body and each branch of an IF has a binding *)
(* level with its declarations, the blocks that were closed in it, and its *)
(* statements; closing a level turns it into a tree and a BLOCK.           *)
(*                                                                         *)
(* The parser of this repository does not call these functions yet.  Their *)
(* caller is modelled as any program that opens and closes functions and   *)
(* IFs in pairs, the use their comments describe.                          *)
(***************************************************************************)
EXTENDS Integers, SequencesExt

CONSTANTS
  Variable,        \* names of variables
  Externals,       \* those that are EXTERNAL
  ArgumentLists,   \* the arguments of a call
  ParameterLists,  \* the parameters of a function
  Predefined,      \* the names of the predefined types, in their order
  MaxGlobals,      \* bound on the functions and the variables outside of them
  MaxCalls         \* bound on the calls for their bodies

ASSUME ListAssumption ==
  /\ Variable \subseteq STRING /\ Externals \subseteq Variable
  /\ ArgumentLists \subseteq Seq(STRING) /\ ParameterLists \subseteq Seq(STRING)
  /\ Predefined \in Seq(STRING)

ASSUME BoundAssumption == MaxGlobals \in Nat /\ MaxCalls \in Nat

NULL == 0

VARIABLES
  level,                  \* the binding levels, current_binding_level last
  current_function_decl,  \* the function that is open, or NULL
  function,               \* the functions created so far
  calls                   \* what was called for the body of each of them

vars == << level, current_function_decl, function, calls >>

-----------------------------------------------------------------------------
clear_binding_level == [names |-> << >>, blocks |-> << >>, stmts |-> << >>]

pushlevel(levels) == Append(levels, clear_binding_level)

BlockOf_InOrder(l) == [vars |-> Reverse(l.names), blocks |-> l.blocks]
BlockOf(l) == [vars |-> l.names, blocks |-> l.blocks]

(* Every caller keeps the block.  That of a function goes to its             *)
(* DECL_INITIAL, the others to the level around.                             *)
poplevel_BodyTwice(levels, functionbody) ==
  LET outer == Front(levels)
  IN  IF functionbody THEN Front(outer)
      ELSE [outer EXCEPT ![Len(outer)].blocks = Append(@, BlockOf(Last(levels)))]

poplevel_Always(levels, functionbody) ==
  LET outer == Front(levels)
  IN  [outer EXCEPT ![Len(outer)].blocks = Append(@, BlockOf(Last(levels)))]

poplevel(levels, functionbody) ==
  LET outer == Front(levels)
  IN  IF functionbody THEN outer
      ELSE [outer EXCEPT ![Len(outer)].blocks = Append(@, BlockOf(Last(levels)))]

(* External objects and the functions belong to no function. *)
Context_Inside(storage) == current_function_decl
Context(storage) == IF storage = "external" THEN NULL ELSE current_function_decl

pushdecl(levels, decl) == [levels EXCEPT ![Len(levels)].names = << decl >> \o @]

append_to_statement_list(levels, s) == [levels EXCEPT ![Len(levels)].stmts = Append(@, s)]

(* The statements of the level, in a BIND_EXPR when it has declarations. *)
Bind(l) == [vars |-> l.names, stmts |-> l.stmts,
            block |-> IF l.names = << >> THEN << >> ELSE << BlockOf(l) >>]

(* A list built with chainon has the last element first until nreverse.      *)
tree_code_add_parameter(list, p) == << p >> \o list
Chained(list) == Reverse(FoldLeft(tree_code_add_parameter, << >>, list))

-----------------------------------------------------------------------------
(* pl1_init_decl_processing. *)
Init ==
  /\ level = << [clear_binding_level EXCEPT
                   !.names = Reverse([i \in DOMAIN Predefined |-> [name |-> Predefined[i], context |-> NULL]])] >>
  /\ current_function_decl = NULL
  /\ function = << >> /\ calls = << >>

Called(op, what) ==
  calls' = [calls EXCEPT ![current_function_decl] = Append(@, [op |-> op, what |-> what])]

InBody ==
  /\ current_function_decl # NULL
  /\ FoldLeft(LAMBDA n, c : n + Len(c), 0, calls) < MaxCalls

OutsideBody ==
  /\ current_function_decl = NULL
  /\ Len(level[1].names) < Len(Predefined) + MaxGlobals

(* The types of the parameters, and void to say that there are no more. *)
tree_code_create_function_prototype(parms) ==
  Reverse(<< "void" >> \o FoldLeft(tree_code_add_parameter, << >>, parms))

(* The declaration of the function is pushed before it is the current one. *)
tree_code_create_function_initial(parms) ==
  LET fn == Len(function) + 1
  IN  /\ OutsideBody
      /\ level' = pushlevel(pushdecl(level, [name |-> "function", context |-> NULL]))
      /\ current_function_decl' = fn
      /\ function' = Append(function, [parms |-> parms, arguments |-> Chained(parms),
                                       types |-> tree_code_create_function_prototype(parms),
                                       initial |-> << >>, saved |-> << >>])
      /\ calls' = Append(calls, << >>)

(* All IFs are closed.  stmts is read before poplevel. *)
tree_code_create_function_wrapup ==
  /\ current_function_decl # NULL /\ Len(level) = 2
  /\ LET body == Last(level)
     IN  function' = [function EXCEPT
           ![current_function_decl].initial = << BlockOf(body) >>,
           ![current_function_decl].saved =
              << [vars |-> body.names, stmts |-> body.stmts, block |-> << BlockOf(body) >>] >>]
  /\ level' = poplevel(level, TRUE)
  /\ current_function_decl' = NULL
  /\ UNCHANGED calls

tree_code_create_variable(name, storage) ==
  LET decl == [name |-> name, context |-> Context(storage)]
  IN  /\ \/ InBody /\ Called("var", decl)
         \/ OutsideBody /\ UNCHANGED calls
      /\ level' = pushdecl(level, decl)
      /\ UNCHANGED << current_function_decl, function >>

(* A call with arguments as an expression statement, or a RETURN. *)
tree_code_output_statement(op, what, tree) ==
  /\ InBody
  /\ level' = append_to_statement_list(level, [op |-> op, what |-> tree])
  /\ Called(op, what)
  /\ UNCHANGED << current_function_decl, function >>

tree_code_if_start ==
  /\ InBody
  /\ level' = pushlevel(append_to_statement_list(level,
                [op |-> "if", what |-> << >>, then |-> << >>, else |-> << >>]))
  /\ Called("if", << >>)
  /\ UNCHANGED << current_function_decl, function >>

(* The IF that is open is the last statement of the level around. *)
OpenIf == Last(level[Len(level) - 1].stmts)

tree_code_if_else ==
  /\ InBody /\ Len(level) > 2 /\ OpenIf.then = << >>
  /\ LET popped == poplevel(level, FALSE)
         n == Len(popped)
     IN  level' = pushlevel([popped EXCEPT ![n].stmts[Len(popped[n].stmts)].then = << Bind(Last(level)) >>])
  /\ Called("else", << >>)
  /\ UNCHANGED << current_function_decl, function >>

(* Without tree_code_if_else before it, the statements behind THEN become   *)
(* those behind ELSE.                                                       *)
tree_code_if_end ==
  /\ InBody /\ Len(level) > 2
  /\ LET popped == poplevel(level, FALSE)
         n == Len(popped)
     IN  level' = [popped EXCEPT ![n].stmts[Len(popped[n].stmts)].else = << Bind(Last(level)) >>]
  /\ Called("end", << >>)
  /\ UNCHANGED << current_function_decl, function >>

Next ==
  \/ \E parms \in ParameterLists : tree_code_create_function_initial(parms)
  \/ tree_code_create_function_wrapup
  \/ \E v \in Variable : tree_code_create_variable(v, IF v \in Externals THEN "external" ELSE "automatic")
  \/ tree_code_output_statement("return", << >>, << >>)
  \/ \E args \in ArgumentLists : tree_code_output_statement("call", args, Chained(args))
  \/ tree_code_if_start
  \/ tree_code_if_else
  \/ tree_code_if_end

Spec == Init /\ [][Next]_vars

-----------------------------------------------------------------------------
(* Type invariant. *)
Declaration == [name: Variable \cup ToSet(Predefined) \cup {"function"}, context: 0..MaxGlobals]

TypeOK ==
  /\ Len(level) >= 1
  /\ \A i \in DOMAIN level :
       /\ level[i].names \in Seq(Declaration)
       /\ \A j \in DOMAIN level[i].blocks : level[i].blocks[j].vars \in Seq(Declaration)
       /\ \A j \in DOMAIN level[i].stmts : level[i].stmts[j].op \in {"call", "return", "if"}
  /\ current_function_decl \in 0..Len(function)
  /\ Len(function) <= MaxGlobals /\ Len(calls) = Len(function)
  /\ \A f \in DOMAIN function : function[f].parms \in ParameterLists /\ Len(function[f].saved) <= 1

(* Levels are open for the current function and its open IFs only.  The     *)
(* global one keeps no statements and no blocks.                            *)
OpenIfs(c) ==
  LET Count(op) == Cardinality({k \in 1..Len(c) : c[k].op = op})
  IN  Count("if") - Count("end")

LevelsBalanced ==
  /\ Len(level) = IF current_function_decl = NULL THEN 1
                  ELSE 2 + OpenIfs(calls[current_function_decl])
  /\ level[1].stmts = << >> /\ level[1].blocks = << >>

(* What is declared in an open level belongs to the current function, what  *)
(* is declared in a block of a finished one to that function; external      *)
(* objects and what is global belong to none.                               *)
Within(block) ==
  LET W[n \in Nat] ==
        IF n = 0 THEN {block}
        ELSE LET w == W[n - 1] IN w \cup UNION {ToSet(b.blocks) : b \in w}
  IN  W

AllIn(block) == UNION {ToSet(b.vars) : b \in Within(block)[MaxCalls]}

Owned(decls, f) ==
  \A d \in decls : d.context \in {NULL, f} /\ (d.context = NULL <=> d.name \in Externals)

ContextsRight ==
  /\ \A i \in DOMAIN level[1].names : level[1].names[i].context = NULL
  /\ \A i \in 2..Len(level) : Owned(AllIn(BlockOf(level[i])), current_function_decl)
  /\ \A f \in DOMAIN function : function[f].initial # << >> => Owned(AllIn(function[f].initial[1]), f)

=============================================================================
