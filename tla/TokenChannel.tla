---------------------------- MODULE TokenChannel ----------------------------
(***************************************************************************)
(* What the scanner promises the parser, whatever it does in between: the  *)
(* tokens of the text reach the parser once each, in the order in which    *)
(* the scanner recognised them, and none is kept back for ever.  Tokens    *)
(* are numbered 1, 2, 3, ... as they are recognised.                       *)
(***************************************************************************)
EXTENDS Naturals

VARIABLES accepted,   \* number of tokens recognised
          delivered   \* number of the token handed to the parser last, 0: none

vars == <<accepted, delivered>>

Init == accepted = 0 /\ delivered = 0

(* A token is recognised and kept until its statement is complete. *)
Keep == accepted' = accepted + 1 /\ UNCHANGED delivered

(* A token is handed over at once, which is possible only when none waits. *)
PassOn ==
  /\ delivered = accepted
  /\ accepted' = accepted + 1
  /\ delivered' = accepted'

(* The next waiting token is handed over. *)
Deliver ==
  /\ delivered < accepted
  /\ delivered' = delivered + 1
  /\ UNCHANGED accepted

Next == Keep \/ PassOn \/ Deliver

(* Safety alone: the order of the tokens. *)
InOrder == Init /\ [][Next]_vars

Spec == InOrder /\ WF_vars(Deliver)

=============================================================================
