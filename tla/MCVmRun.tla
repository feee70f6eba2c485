------------------------------ MODULE MCVmRun ------------------------------
(* Instances of VmRun for model checking: the root, a coroutine and a        *)
(* generator.                                                                *)
EXTENDS VmRun, TLC

CONSTANTS co, gen
============================================================================
