---------------------------- MODULE MCThreadLib ----------------------------
(* Instances of ThreadLib for model checking: the main thread and one or two *)
(* workers, any of which may spawn another.                                  *)
EXTENDS ThreadLib, TLC

CONSTANTS w1, w2

Symmetry == Permutations({w1, w2})
============================================================================
