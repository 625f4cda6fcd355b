----------------------------- MODULE MCQoSQueue -----------------------------
(* Symmetry for checking QoSQueue with TLC.                                *)
EXTENDS QoSQueue, TLC

Symmetry == Permutations(Topic)
=============================================================================
