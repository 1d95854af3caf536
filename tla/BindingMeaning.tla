---------------------------- MODULE BindingMeaning ----------------------------
(***************************************************************************)
(* What the trees of BindingLevels have to be, by the calls that build      *)
(* them.                                                                   *)
(***************************************************************************)
EXTENDS BindingLevels, TreeMeaning

(* A finished function is the tree its calls mean, whatever functions and   *)
(* branches were opened and closed before and within it; its arguments are  *)
(* its parameters in their order.  An IF needs the call for its ELSE.       *)
TreeIsMeaning ==
  \A f \in DOMAIN function :
    /\ function[f].arguments = function[f].parms
    /\ function[f].types = Append(function[f].parms, "void")
    /\ function[f].saved # << >> /\ EveryIfHasElse(calls[f]) =>
         /\ function[f].saved = << FunctionTree(calls[f]) >>
         /\ function[f].initial = function[f].saved[1].block

=============================================================================
