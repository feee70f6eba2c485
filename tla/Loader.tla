------------------------------- MODULE Loader -------------------------------
(***************************************************************************)
(* From a syntax tree to the code that runs: compile_with_mode compiles a  *)
(* file and optimises the code of its script, not of the functions in it.  *)
(***************************************************************************)
CONSTANTS MaxIndexed,    \* UINT8_MAX + 1 in the code
          Junk           \* what an uninitialised int may hold

C == INSTANCE Compiler
O == INSTANCE Optimiser

Loaded(unit, body) ==
  LET c == C!Compile(unit, body, Junk)
  IN [errors |-> c.errors, proto |-> [c.fn EXCEPT !.code = O!Optimise(@, c.constants)]]

\* A program of Programs.tla, ready to run.
Ready(p) == [script |-> Loaded("main", p.body), out |-> p.out, ends |-> p.ends]
=============================================================================
