---------------------------- MODULE MCUtilityMsg ----------------------------
(* TLC instances of UtilityMsg. *)
EXTENDS UtilityMsg, TLC

CONSTANTS t1, t2, t3

=============================================================================
