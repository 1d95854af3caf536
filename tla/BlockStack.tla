----------------------------- MODULE BlockStack -----------------------------
(***************************************************************************)
(* What PL/I asks of BEGIN, PROCEDURE and END: the open blocks are a       *)
(* stack.  END closes the innermost block, END with a name closes every    *)
(* block up to and with the innermost one that has the name as a label.    *)
(* Each block is the sequence of its labels.                               *)
(***************************************************************************)
EXTENDS Naturals, Sequences

CONSTANT Name

VARIABLE blocks

(* The places of the open blocks that have the label. *)
Labelled(label) ==
  {i \in 1..Len(blocks) : \E j \in 1..Len(blocks[i]) : blocks[i][j] = label}

Init ==
  /\ blocks \in Seq(Seq(Name))
  /\ Len(blocks) = 1

Open ==
  /\ blocks' \in Seq(Seq(Name))
  /\ Len(blocks') = Len(blocks) + 1
  /\ SubSeq(blocks', 1, Len(blocks)) = blocks

Close ==
  /\ blocks # << >>
  /\ blocks' = SubSeq(blocks, 1, Len(blocks) - 1)

CloseNamed(label) ==
  \E i \in Labelled(label) :
    /\ \A j \in Labelled(label) : j <= i
    /\ blocks' = SubSeq(blocks, 1, i - 1)

Next == Open \/ Close \/ \E label \in Name : CloseNamed(label)

Spec == Init /\ [][Next]_blocks

=============================================================================
