--------------------------- MODULE MCUtilityTimer ---------------------------
(* TLC instances of UtilityTimer. *)
EXTENDS UtilityTimer, TLC
=============================================================================
