-------------------------- MODULE MCPriorityRouter --------------------------
(* Model values and symmetry for checking PriorityRouter with TLC.         *)
EXTENDS PriorityRouter, TLC

Symmetry == Permutations(Client)
=============================================================================
