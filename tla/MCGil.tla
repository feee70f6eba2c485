------------------------------- MODULE MCGil -------------------------------
(* Instances of Gil for model checking: two workers beside the main thread, *)
(* and VM threads enough for three stacks and a shared coroutine.           *)
EXTENDS Gil, TLC

CONSTANTS w1, w2, c1, c2, c3

Symmetry == Permutations({w1, w2}) \cup Permutations({c1, c2, c3})
============================================================================
