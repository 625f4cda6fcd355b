----------------------------- MODULE MCShutdown -----------------------------
(* Symmetry for checking the safety of Shutdown with TLC.                  *)
EXTENDS Shutdown, TLC

Symmetry == Permutations(Signal)
=============================================================================
