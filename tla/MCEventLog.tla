----------------------------- MODULE MCEventLog -----------------------------
(* Symmetry for checking EventLog with TLC; lengths count cells.           *)
EXTENDS EventLog, TLC

Symmetry == Permutations(Caller)
=============================================================================
