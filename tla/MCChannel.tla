----------------------------- MODULE MCChannel -----------------------------
(* Instances of Channel for model checking.  Two workers besides the main   *)
(* thread are enough for two receivers (or senders) to wait while the third *)
(* thread signals, closes or collects.  Three values fill a channel of      *)
(* capacity 1 while two senders wait; with capacity 2 two of them stand in  *)
(* the list together, behind which the third is appended.                   *)
EXTENDS Channel, TLC

CONSTANTS a, b

Symmetry == Permutations({a, b})
============================================================================
