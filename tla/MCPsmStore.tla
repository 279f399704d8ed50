----------------------------- MODULE MCPsmStore -----------------------------
(* TLC instances of PsmStore. *)
EXTENDS PsmStore, TLC

CONSTANTS i1, i2, i3, v1, v2

TwoItems == <<i1, i2>>
OneItem == <<i1>>

ValuePerms == Permutations(Vals)
=============================================================================
