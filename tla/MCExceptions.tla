---------------------------- MODULE MCExceptions ----------------------------
(* Instances of Exceptions for model checking: two exceptions.               *)
EXTENDS Exceptions, TLC

CONSTANTS e1, e2

Symmetry == Permutations({e1, e2})
=============================================================================
