--------------------------- MODULE ScannerClaims ----------------------------
(***************************************************************************)
(* What a comment of the repository says of the scanner, and the scanner   *)
(* does not do for every program.                                          *)
(***************************************************************************)
EXTENDS ScannerMeaning

(* "Loop is completely done. clean up": a loop leaves nothing behind, so    *)
(* that when a %DO begins no token of another body is still saved.          *)
LoopCleansUp == [][ctx.dolevel = 0 /\ ctx'.dolevel = 1 => collected' = << >>]_vars

=============================================================================
