----------------------------- MODULE VmRunSpec -----------------------------
(***************************************************************************)
(* What coroutines, generators and native callbacks promise: one control   *)
(* stack.  `active` holds the VM threads from the root to the one that     *)
(* executes, each waiting for the next.  A resume pushes a VM thread, a    *)
(* yield or the return of its first function pops it, and nothing else     *)
(* does.  A native that calls a Toi function back (a comparator, __str)    *)
(* gets its answer when that function returns, and no control transfer     *)
(* crosses it.                                                             *)
(***************************************************************************)
EXTENDS Naturals, Sequences, SequencesExt

CONSTANTS VmThreads, Root

VARIABLES
  active,   \* the control stack of VM threads
  depth,    \* function activations on each VM thread; 0: dead or not created
  natives,  \* natives waiting for a callback or driving a generator
  ended     \* how the program ended

specVars == <<active, depth, natives, ended>>

Top == Last(active)

\* The innermost native waits on the executing VM thread, at that level.
NativeBelow(level) ==
  natives # <<>> /\ Last(natives).on = Top /\ Last(natives).min >= level

Running == ended = "no"

SpecInit ==
  /\ active = <<Root>>
  /\ depth = [v \in VmThreads |-> IF v = Root THEN 1 ELSE 0]
  /\ natives = <<>>
  /\ ended = "no"

Create(v) ==
  /\ Running
  /\ depth[v] = 0 /\ v \notin ToSet(active)
  /\ depth' = [depth EXCEPT ![v] = 1]
  /\ UNCHANGED <<active, natives, ended>>

Push(v) ==
  /\ Running
  /\ depth[v] > 0 /\ v \notin ToSet(active)
  /\ active' = Append(active, v)
  /\ UNCHANGED <<depth, ended>>

Resume(v) == Push(v) /\ UNCHANGED natives

Drive(v) ==
  Push(v) /\ natives' = Append(natives, [on |-> Top, min |-> depth[Top], kind |-> "drive"])

DriveDone ==
  /\ Running
  /\ natives # <<>> /\ Last(natives).kind = "drive" /\ Last(natives).on = Top
  /\ natives' = Front(natives)
  /\ UNCHANGED <<active, depth, ended>>

Yield ==
  /\ Running
  /\ Len(active) > 1
  /\ ~NativeBelow(0)
  /\ active' = Front(active)
  /\ UNCHANGED <<depth, natives, ended>>

Enter == depth' = [depth EXCEPT ![Top] = @ + 1]

Call == Running /\ Enter /\ UNCHANGED <<active, natives, ended>>

CallBack ==
  /\ Running
  /\ Enter
  /\ natives' = Append(natives, [on |-> Top, min |-> depth[Top], kind |-> "callback"])
  /\ UNCHANGED <<active, ended>>

Return ==
  /\ Running
  /\ depth[Top] > 1
  /\ depth' = [depth EXCEPT ![Top] = @ - 1]
  /\ natives' = IF NativeBelow(depth[Top] - 1) THEN Front(natives) ELSE natives
  /\ UNCHANGED <<active, ended>>

\* The first function of a VM thread returns: to the resumer, or the end.
Finish ==
  /\ Running
  /\ depth[Top] = 1
  /\ ~NativeBelow(0)
  /\ depth' = [depth EXCEPT ![Top] = 0]
  /\ active' = Front(active)
  /\ ended' = IF Len(active) = 1 THEN "ok" ELSE ended
  /\ UNCHANGED natives

\* An exception is caught in the VM thread that threw it, in a function that
\* the innermost native did not interrupt.
Catch(level) ==
  /\ Running
  /\ level \in 1..depth[Top]
  /\ ~NativeBelow(level)
  /\ depth' = [depth EXCEPT ![Top] = level]
  /\ UNCHANGED <<active, natives, ended>>

\* An uncaught exception ends the program, whatever was running.
Fail ==
  /\ Running
  /\ depth' = [depth EXCEPT ![Top] = 0]
  /\ active' = <<>> /\ natives' = <<>> /\ ended' = "error"

SpecNext ==
  \/ \E v \in VmThreads : Create(v) \/ Resume(v) \/ Drive(v)
  \/ DriveDone \/ Yield
  \/ Call \/ CallBack \/ Return \/ Finish
  \/ \E level \in 1..depth[Top] : Catch(level)
  \/ Fail

Spec == SpecInit /\ [][SpecNext]_specVars
============================================================================
