------------------------------ MODULE MCTables ------------------------------
(* An instance of Tables for model checking: keys that collide and keys that *)
(* do not, first capacities of two.                                *)
EXTENDS Tables, TLC

CONSTANTS keya, keyb, keyc

Numbers == {-1, 1, 3}
Hashes == (keya :> 0) @@ (keyb :> 0) @@ (keyc :> 1) @@ (1 :> 3) @@ (3 :> 2) @@ (-1 :> 1)
Symmetry == Permutations(Data) \cup Permutations(Address)
=============================================================================
