------------------------------- MODULE VmRun -------------------------------
(***************************************************************************)
(* Control transfer in the interpreter, for one OS thread: calls and       *)
(* returns in vm_run (src/vm.c), coroutines (src/lib/coroutine.c),         *)
(* generators (create_generator_positional, gen_next), natives that run    *)
(* the VM from inside a C function (table.sort, print with __str, sum of a *)
(* generator) and the unwinding of exceptions to a handler.                *)
(*                                                                         *)
(* Bytecode is left out except where it transfers control: the VM thread   *)
(* in control calls, returns, resumes, yields, ... whenever it likes.      *)
(* `Habits` names what programs do beyond the plain use of these features. *)
(* try ... finally and leaving a try block by break are in Exceptions.     *)
(* Operand stacks, and so the "Stack overflow in caller" when a coroutine  *)
(* returns more values than its resumer has room for, are left out.        *)
(***************************************************************************)
EXTENDS Naturals, Sequences, FiniteSets, SequencesExt

CONSTANTS
  VmThreads,   \* ObjThreads
  Root,        \* the one the outermost vm_run starts on
  Generators,  \* ObjThreads made by calling a function that yields
  NoVm,        \* the NULL ObjThread*
  Base,        \* min_frame_count of the outermost vm_run: interpret 0, thread_runner 1
  Habits,      \* what programs do, see ASSUME
  MaxFrames,   \* bound on frame_count
  MaxTries,    \* bound on handler_count
  MaxRuns      \* bound on nested vm_run calls

ASSUME VmRunAssumption ==
  /\ IsFiniteSet(VmThreads)
  /\ Root \in VmThreads
  /\ Generators \subseteq VmThreads \ {Root}
  /\ NoVm \notin VmThreads
  /\ Base \in {0, 1}
  /\ Habits \subseteq
       {"deepYield",            \* a coroutine resumed by a coroutine yields
        "callBackInCoroutine",  \* a coroutine calls a native that calls back
        "returnUnderNative",    \* a function a coroutine called returns while a native drives it
        "catchAcrossNative"}    \* a callback's exception is caught outside the native
  /\ {MaxFrames, MaxRuns} \subseteq Nat \ {0}
  /\ MaxTries \in Nat

VARIABLES
  cur,       \* vm_current_thread(vm)
  frames,    \* ObjThread.frame_count
  caller,    \* ObjThread.caller
  genMode,   \* ObjThread.generator_mode
  handlers,  \* ObjThread.handlers
  runs,      \* the vm_run calls on the C stack, with the VM thread of the native
  ended      \* how the outermost vm_run returned

vmVars == <<cur, frames, caller, genMode, handlers, runs, ended>>

Run(kind, on, min) == [kind |-> kind, on |-> on, min |-> min]

RunsOfVm == [kind : {"program", "callback", "drive"}, on : VmThreads, min : 0..MaxFrames]
Handlers == [frame : 1..MaxFrames, inExcept : BOOLEAN]

VmTypeOK ==
  /\ cur \in VmThreads
  /\ frames \in [VmThreads -> 0..MaxFrames]
  /\ caller \in [VmThreads -> VmThreads \cup {NoVm}]
  /\ genMode \in [VmThreads -> BOOLEAN]
  /\ handlers \in [VmThreads -> Seq(Handlers)]
  /\ runs \in Seq(RunsOfVm)
  /\ Len(runs) \in 1..MaxRuns
  /\ ended \in {"no", "ok", "error"}

VmInit ==
  /\ cur = Root
  /\ frames = [v \in VmThreads |-> IF v = Root THEN 1 ELSE 0]
  /\ caller = [v \in VmThreads |-> NoVm]
  /\ genMode = [v \in VmThreads |-> FALSE]
  /\ handlers = [v \in VmThreads |-> <<>>]
  /\ runs = <<Run("program", Root, Base)>>
  /\ ended = "no"

----------------------------------------------------------------------------
\* min_frame_count of the innermost vm_run.
MinFrames == Last(runs).min

\* run_stop_thread: set by vm_run_until_thread, inherited by vm_run calls inside.
StopThread ==
  LET drives == {i \in DOMAIN runs : runs[i].kind = "drive"}
  IN  IF drives = {} THEN NoVm ELSE runs[Max(drives)].on

Stopping == cur = StopThread

\* The top of the loop in vm_run, when it goes on to execute an instruction.
Executing == ended = "no" /\ ~Stopping

\* The VM threads from cur along the caller links.
Ancestors ==
  LET up[n \in 0..Cardinality(VmThreads)] ==
        IF n = 0 THEN cur
        ELSE IF up[n - 1] = NoVm THEN NoVm ELSE caller[up[n - 1]]
  IN  up

Chain ==
  LET links == {n \in DOMAIN Ancestors : Ancestors[n] # NoVm}
  IN  [i \in 1..Cardinality(links) |-> Ancestors[Cardinality(links) - i]]

InCoroutine == caller[cur] # NoVm

\* What well-behaved programs refrain from.
MayResume(v) == v \notin ToSet(Chain)
MayYield == "deepYield" \in Habits \/ (InCoroutine => caller[caller[cur]] = NoVm)
MayCallBack == "callBackInCoroutine" \in Habits \/ ~InCoroutine
MayReturn ==
  "returnUnderNative" \in Habits \/
    (InCoroutine /\ Len(runs) > 1 /\ Last(runs).on # cur => frames[cur] = 1)
MayCatchAt(frame) ==
  "catchAcrossNative" \in Habits \/ (Last(runs).on = cur => MinFrames < frame)

----------------------------------------------------------------------------
(* Coroutines and generators. *)

\* coroutine.create, or the call of a generator function.  An ObjThread that is
\* dead and that no other refers to may be collected and allocated again.
NewVmThread(v) ==
  /\ Executing
  /\ frames[v] = 0 /\ v \notin ToSet(Chain)
  /\ \A u \in VmThreads : caller[u] # v
  /\ frames' = [frames EXCEPT ![v] = 1]
  /\ caller' = [caller EXCEPT ![v] = NoVm]
  /\ genMode' = [genMode EXCEPT ![v] = FALSE]
  /\ handlers' = [handlers EXCEPT ![v] = <<>>]
  /\ UNCHANGED <<cur, runs, ended>>

\* Variant: a link left by an earlier resume is kept.
SwitchIntoKeepingCaller(v) ==
  /\ frames[v] # 0
  /\ caller' = [caller EXCEPT ![v] = IF @ = NoVm THEN cur ELSE @]
  /\ cur' = v

SwitchInto(v) ==
  /\ frames[v] # 0
  /\ caller' = [caller EXCEPT ![v] = cur]
  /\ cur' = v

\* coroutine.resume; a dead coroutine is answered with false and a message.
Resume(v) ==
  /\ Executing
  /\ v # Root /\ MayResume(v)
  /\ SwitchInto(v)
  /\ genMode' = [genMode EXCEPT ![v] = IF v \in Generators THEN FALSE ELSE @]
  /\ UNCHANGED <<frames, handlers, runs, ended>>

Iterate(v) ==
  /\ Executing
  /\ v \in Generators /\ MayResume(v)
  /\ SwitchInto(v)
  /\ genMode' = [genMode EXCEPT ![v] = TRUE]
  /\ UNCHANGED <<frames, handlers, ended>>

\* gen_next called by a for loop.
GenNext(v) == Iterate(v) /\ UNCHANGED runs

\* One round of sum(generator): gen_next, then vm_run_until_thread.
Drive(v) ==
  /\ Len(runs) < MaxRuns
  /\ Iterate(v)
  /\ runs' = Append(runs, Run("drive", cur, frames[cur]))

\* run_stop_thread is in control again: that vm_run returns INTERPRET_OK.
StopRun ==
  /\ ended = "no" /\ Stopping
  /\ runs' = Front(runs)
  /\ UNCHANGED <<cur, frames, caller, genMode, handlers, ended>>

\* Variant: generator_mode survives the yield.
YieldKeepingMode ==
  /\ Executing
  /\ InCoroutine /\ MayYield
  /\ cur' = caller[cur]
  /\ caller' = [caller EXCEPT ![caller[cur]] = NoVm]
  /\ UNCHANGED <<frames, genMode, handlers, runs, ended>>

\* coroutine_do_yield; without a caller it only answers false and a message.
Yield ==
  /\ Executing
  /\ InCoroutine /\ MayYield
  /\ genMode' = [genMode EXCEPT ![cur] = FALSE]
  /\ cur' = caller[cur]
  /\ caller' = [caller EXCEPT ![caller[cur]] = NoVm]
  /\ UNCHANGED <<frames, handlers, runs, ended>>

\* coroutine_status.
Status(v) ==
  CASE frames[v] = 0 -> "dead"
    [] frames[v] # 0 /\ caller[v] # NoVm -> "normal"
    [] frames[v] # 0 /\ caller[v] = NoVm /\ v = cur -> "running"
    [] OTHER -> "suspended"

----------------------------------------------------------------------------
(* Calls and returns. *)

EnterFrame ==
  /\ frames[cur] < MaxFrames
  /\ frames' = [frames EXCEPT ![cur] = @ + 1]

Call ==
  /\ Executing
  /\ EnterFrame
  /\ UNCHANGED <<cur, caller, genMode, handlers, runs, ended>>

\* A native pushes a frame and runs the VM until it returns.
CallBack ==
  /\ Executing
  /\ MayCallBack
  /\ Len(runs) < MaxRuns
  /\ EnterFrame
  /\ runs' = Append(runs, Run("callback", cur, frames[cur]))
  /\ UNCHANGED <<cur, caller, genMode, handlers, ended>>

\* Variant: a return leaves the handlers of its frame behind.
AllHandlers == handlers[cur]

\* discard_handlers_for_frame_return: from the top down to a handler of a caller.
KeptHandlers ==
  SubSeq(handlers[cur], 1,
         Max({0} \cup {k \in DOMAIN handlers[cur] : handlers[cur][k].frame < frames[cur]}))

\* Variant: < instead of <= min_frame_count.
KeepsRunningTooLong == frames[cur] - 1 >= MinFrames

\* frame_count <= min_frame_count is false after the return.
KeepsRunning == frames[cur] - 1 > MinFrames

\* vm_run returns INTERPRET_OK, to its native or out of the program.
EndRun ==
  IF Len(runs) = 1
  THEN ended' = "ok" /\ UNCHANGED runs
  ELSE runs' = Front(runs) /\ UNCHANGED ended

\* OP_RETURN, OP_RETURN_N.
Return ==
  /\ Executing
  /\ MayReturn
  /\ frames' = [frames EXCEPT ![cur] = @ - 1]
  /\ handlers' = [handlers EXCEPT ![cur] = KeptHandlers]
  /\ IF KeepsRunning
     THEN UNCHANGED <<cur, caller, genMode, runs, ended>>
     ELSE IF InCoroutine
     THEN /\ cur' = caller[cur]
          /\ caller' = [caller EXCEPT ![cur] = NoVm]
          /\ genMode' = [genMode EXCEPT ![cur] = FALSE]
          /\ UNCHANGED <<runs, ended>>
     ELSE EndRun /\ UNCHANGED <<cur, caller, genMode>>

----------------------------------------------------------------------------
(* Exceptions. *)

\* OP_TRY of a try ... except.
Try ==
  /\ Executing
  /\ Len(handlers[cur]) < MaxTries
  /\ handlers' =
       [handlers EXCEPT ![cur] = Append(@, [frame |-> frames[cur], inExcept |-> FALSE])]
  /\ UNCHANGED <<cur, frames, caller, genMode, runs, ended>>

\* OP_END_TRY, at the end of the block and at the end of its except clause.
EndTry ==
  /\ Executing
  /\ handlers[cur] # <<>> /\ Last(handlers[cur]).frame = frames[cur]
  /\ handlers' = [handlers EXCEPT ![cur] = Front(@)]
  /\ UNCHANGED <<cur, frames, caller, genMode, runs, ended>>

\* handle_exception walks past the handlers whose except clause is running.
Catchers == {i \in DOMAIN handlers[cur] : ~handlers[cur][i].inExcept}

\* OP_THROW or a runtime error, with a handler in this VM thread.
Throw ==
  /\ Executing
  /\ Catchers # {}
  /\ LET i == Max(Catchers)
         frame == handlers[cur][i].frame
     IN  /\ MayCatchAt(frame)
         /\ frames' = [frames EXCEPT ![cur] = frame]
         /\ handlers' = [handlers EXCEPT ![cur] =
              Append(SubSeq(@, 1, i - 1), [frame |-> frame, inExcept |-> TRUE])]
  /\ UNCHANGED <<cur, caller, genMode, runs, ended>>

\* Without one: reset_stack, and every vm_run returns INTERPRET_RUNTIME_ERROR.
Fail ==
  /\ Executing
  /\ Catchers = {}
  /\ frames' = [frames EXCEPT ![cur] = 0]
  /\ handlers' = [handlers EXCEPT ![cur] = <<>>]
  /\ runs' = SubSeq(runs, 1, 1)
  /\ ended' = "error"
  /\ UNCHANGED <<cur, caller, genMode>>

----------------------------------------------------------------------------
VmNext ==
  \/ \E v \in VmThreads : NewVmThread(v) \/ Resume(v) \/ GenNext(v) \/ Drive(v)
  \/ StopRun \/ Yield
  \/ Call \/ CallBack \/ Return
  \/ Try \/ EndTry \/ Throw \/ Fail

VmSpec == VmInit /\ [][VmNext]_vmVars

----------------------------------------------------------------------------
(* Properties. *)

\* A native that ran the VM for a callback is still waiting for that callback:
\* the function it called has not returned behind its back.
NativesGetTheirAnswer ==
  ended = "no" =>
    \A i \in DOMAIN runs : runs[i].kind = "callback" => frames[runs[i].on] > runs[i].min

\* No handler outlives the function whose try block it guards, whichever way that
\* function ended: handle_exception would resume at an ip of a frame that is gone.
\* Nor are there more than the stack of handlers holds.
HandlersFitFrames ==
  \A v \in VmThreads :
    /\ Len(handlers[v]) <= MaxTries
    /\ \A i \in DOMAIN handlers[v] : handlers[v][i].frame <= frames[v]

\* A yield answers gen_next with an index and a value, and a resume with true and
\* the values: generator_mode is on only while a loop or sum waits for it.
ModeMeansIterating ==
  ended = "no" => \A v \in VmThreads : genMode[v] => v \in ToSet(Chain)

\* Whoever executes inside a coroutine may yield: "attempt to yield from outside
\* a coroutine" is only for the root.
InsideCoroutineCanYield ==
  ended = "no" /\ cur # Root => InCoroutine

\* "Suspended (created but not run, or yielded)": so coroutine.status says of a
\* coroutine that is neither dead nor on the control stack.
OffStackIsSuspended ==
  ended = "no" =>
    \A v \in VmThreads :
      frames[v] > 0 /\ v \notin ToSet(Chain) => Status(v) = "suspended"

\* "Run until all frames complete", "Run until this worker frame returns": a run
\* that ends without error has executed its whole program.
EndsWhole == ended = "ok" => frames[Root] = 0

\* A VM thread answers its resumer by returning only when it has finished.
OnlyTheEndFinishes ==
  [][Return /\ cur' # cur => frames'[cur] = 0]_vmVars

\* The control stack of VmRunSpec, read off the caller links and the C stack.
Active == IF ended = "no" THEN Chain ELSE <<>>
Natives == Tail(runs)

ControlStack == INSTANCE VmRunSpec WITH
  active <- Active, depth <- frames, natives <- Natives

OneControlStack == ControlStack!Spec
============================================================================
