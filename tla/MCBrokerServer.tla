--------------------------- MODULE MCBrokerServer ---------------------------
(* Symmetry for checking BrokerServer with TLC: the connections that only  *)
(* publish are interchangeable, and so are those that only watch, and      *)
(* those that do both.                                                     *)
EXTENDS BrokerServer, TLC

Symmetry ==
  UNION {Permutations(s) : s \in {Publisher \ Watcher, Watcher \ Publisher,
                                  Publisher \cap Watcher}}
=============================================================================
