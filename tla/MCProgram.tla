----------------------------- MODULE MCProgram -----------------------------
\* The catalogue, the loops and the sums, compiled; MCDisputed are the loops that
\* `continue` in a `while` decides, MCRetyping the programs that give a local
\* values of two types on two ways, MCFailing one whose import fails, MCFolding one
\* whose constants the optimiser adds to a full pool.
EXTENDS Machine
CONSTANTS Junk
Pr == INSTANCE Programs
Lo == INSTANCE Loader
MCPrograms ==
  LET Compiled(id) == Lo!Ready(Pr!Program(id)) IN [id \in Pr!Agreed |-> Compiled(id)]
MCDisputed ==
  LET Compiled(id) == Lo!Ready(Pr!Program(id)) IN [id \in Pr!Continuing |-> Compiled(id)]
MCRetyping ==
  LET Compiled(id) == Lo!Ready(Pr!Program(id)) IN [id \in Pr!Retyping |-> Compiled(id)]
MCFailing ==
  LET Compiled(id) == Lo!Ready(Pr!Program(id)) IN [id \in Pr!Failing |-> Compiled(id)]
MCFolding ==
  LET Compiled(id) == Lo!Ready(Pr!Program(id)) IN [id \in Pr!Folding |-> Compiled(id)]
MCScripts ==
  LET Compiled(name) == Lo!Loaded(name, Pr!Files[name]) IN [name \in DOMAIN Pr!Files |-> Compiled(name)]
=============================================================================
