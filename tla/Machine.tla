------------------------------ MODULE Machine ------------------------------
(***************************************************************************)
(* The virtual machine: vm_run of src/vm.c with the handlers of src/vm/*.c *)
(* and the natives they reach in core.c and coroutine.c.  One action per   *)
(* group of instructions.  It runs programs that the module Loader has     *)
(* compiled and optimised; output and stack heights are recorded.          *)
(*                                                                         *)
(* The state of the machine is one record, so that a handler is an         *)
(* operator from machine to machine.  The instruction pointer lives in the *)
(* frame, where the code saves it before every call.  Calls of vm_run from *)
(* natives are VmRun.tla, tables in detail Tables.tla.  Operand stacks     *)
(* have no capacity here: "Stack overflow in caller" cannot happen.        *)
(***************************************************************************)
EXTENDS Integers, SequencesExt, TLC

CONSTANTS Programs,      \* what may be run: records [script, out, ends]
          Scripts,       \* the compiled script of each module file, by name
          NativeModules, \* modules that need no file
          MaxFrames, MaxHandlers,
          MaxGeneratorFrames, MaxGeneratorHandlers,
          MaxPending,    \* 8 in the code
          MaxIndexed,    \* how many things an operand can tell apart
          MinArray       \* first size of the array part, 8 in the code

VARIABLES program,       \* which of Programs runs
          vm,            \* the machine
          seen           \* height of the stack at each instruction executed

vars == <<program, vm, seen>>

O == INSTANCE Optimiser

----------------------------------------------------------------------------
(* Values.  An object is a reference: its kind and its place in the heap.  *)

Nil == <<"nil">>
Num(n) == <<"num", n>>
Str(s) == <<"str", s>>
Bool(b) == <<"bool", b>>
Ref(kind, id) == <<kind, id>>
Native(name) == <<"native", name>>
Kind(v) == v[1]
IsNum(v) == Kind(v) = "num"
IsStr(v) == Kind(v) = "str"
IsTable(v) == Kind(v) = "table"
IsObject(v) == Kind(v) \notin {"nil", "num", "bool"}
Callable(v) == Kind(v) \in {"closure", "native"}
WholeNumbers == {"int", "float"}   \* every number of the model is whole

\* value_matches_type: the check of a parameter with a hint.
HasType(v, type) ==
  CASE type = "any" -> TRUE
    [] type \in WholeNumbers -> IsNum(v)
    [] OTHER -> Kind(v) = type

----------------------------------------------------------------------------
(* Tables.  The hash part keeps its keys in the order of insertion; the    *)
(* code's order is that of its hash function, and no program run here      *)
(* depends on it.                                                          *)

EmptyTable == [array |-> <<>>, max |-> 0, hash |-> <<>>, meta |-> Nil, module |-> FALSE]
IsModule(t) == t.module

\* Numbers that are not in the array part are keys of the hash part.
At(hash, key) == SelectInSeq(hash, LAMBDA e : e[1] = key)
HasKey(t, key) == At(t.hash, key) # 0
HashGet(t, key) == IF HasKey(t, key) THEN t.hash[At(t.hash, key)][2] ELSE Nil
HashSet(t, key, v) ==
  [t EXCEPT !.hash = IF HasKey(t, key) THEN [@ EXCEPT ![At(@, key)] = <<key, v>>]
                     ELSE Append(@, <<key, v>>)]
HashDelete(t, key) == [t EXCEPT !.hash = RemoveAt(@, At(@, key))]

ArrayGet(t, i) == IF i \in DOMAIN t.array THEN t.array[i] ELSE Nil
Fits(t, i) == i >= 1 /\ (i <= t.max + 1 \/ i <= Len(t.array))

RECURSIVE Doubled(_, _)
Doubled(n, i) == IF i <= n THEN n ELSE Doubled(2 * n, i)
Grown(array, i) ==
  array \o [k \in 1..(Doubled(IF array = <<>> THEN MinArray ELSE Len(array), i) - Len(array)) |-> Nil]

ArraySet(t, i, v) ==
  LET array == [(IF i > Len(t.array) THEN Grown(t.array, i) ELSE t.array) EXCEPT ![i] = v]
      below == {k \in 1..(i - 1) : array[k] # Nil}
  IN [t EXCEPT !.array = array,
               !.max = IF v # Nil THEN IF i > @ THEN i ELSE @
                       ELSE IF i # @ THEN @ ELSE IF below = {} THEN 0
                       ELSE CHOOSE k \in below : \A j \in below : j <= k]

ArrayOrHashSet(t, i, v) == IF Fits(t, i) THEN ArraySet(t, i, v) ELSE HashSet(t, Num(i), v)

\* Length of the array part up to the first hole.
Dense(t) == CHOOSE n \in 0..Len(t.array) :
              (\A i \in 1..n : t.array[i] # Nil) /\ (n = Len(t.array) \/ t.array[n + 1] = Nil)
\* What `#` and conditions count; the places of deleted keys, which the code counts
\* as well until the next rehash, are left to Tables.tla.
Count(t) == Len(t.hash) + Len(SelectSeq(t.array, LAMBDA v : v # Nil))
FromEnd(t, i) == IF i < 0 THEN Dense(t) + i + 1 ELSE i

AddHash(t, from) == FoldLeft(LAMBDA A, e : HashSet(A, e[1], e[2]), t, from.hash)
AppendArray(t, from) ==
  FoldLeft(LAMBDA A, i : ArrayOrHashSet(A, Dense(t) + i, from.array[i]), t, [i \in 1..Dense(from) |-> i])
TableOf(values) == FoldLeft(LAMBDA A, i : ArraySet(A, i, values[i]), EmptyTable, [i \in DOMAIN values |-> i])

----------------------------------------------------------------------------
(* The stack of the current thread.  What lies above its top stays there.  *)

Thread(M) == M.threads[M.cur]
Frames(M) == Thread(M).frames
Frame(M) == Last(Frames(M))
Top(M) == Thread(M).top
Peek(M, n) == Thread(M).mem[Top(M) - n]

Padded(mem, n) == IF n <= Len(mem) THEN mem ELSE mem \o [k \in 1..(n - Len(mem)) |-> Nil]
Write(M, i, v) == [M EXCEPT !.threads[M.cur].mem = [Padded(@, i) EXCEPT ![i] = v]]
SetTop(M, n) == [M EXCEPT !.threads[M.cur].top = n, !.threads[M.cur].mem = Padded(@, n)]
Push(M, v) == SetTop(Write(M, Top(M) + 1, v), Top(M) + 1)
PushAll(M, values) == FoldLeft(Push, M, values)
Drop(M, n) == [M EXCEPT !.threads[M.cur].top = @ - n]
Replace(M, n, v) == Push(Drop(M, n), v)
TopValues(M, n) == SubSeq(Thread(M).mem, Top(M) - n + 1, Top(M))

Slot(M, s) == Thread(M).mem[Frame(M).base + s + 1]
SetSlot(M, s, v) == Write(M, Frame(M).base + s + 1, v)
Goto(M, ip) == [M EXCEPT !.threads[M.cur].frames[Len(Frames(M))].ip = ip]

TheTable(M, v) == M.tables[v[2]]
SetTableAt(M, v, t) == [M EXCEPT !.tables[v[2]] = t]
NewTable(M, t) == [M EXCEPT !.tables = Append(@, t)]
NewRef(M) == Ref("table", Len(M.tables) + 1)

\* Errors: raised with a value, or just reported by a handler that sets none.
Raise(M, v) == [M EXCEPT !.failed = TRUE, !.threads[M.cur].exc = <<v>>]
Error(M, what) == Raise(M, Str(what))
Abort(M) == [M EXCEPT !.failed = TRUE]

Falsey(M, v) ==
  \/ v \in {Nil, Bool(FALSE), Num(0), Str("")}
  \/ IsTable(v) /\ Count(TheTable(M, v)) = 0

\* A method of the value's metatable.
Meta(M, v, name) ==
  IF ~IsTable(v) THEN Nil
  ELSE IF TheTable(M, v).meta = Nil THEN Nil ELSE HashGet(TheTable(M, TheTable(M, v).meta), Str(name))

----------------------------------------------------------------------------
(* Upvalues: open ones point into a stack. *)

Open(M, id, thread, from) ==
  M.upvalues[id].open /\ M.upvalues[id].thread = thread /\ M.upvalues[id].at > from

\* close_upvalues: those of the current thread above a place of its stack.
CloseUpvalues(M, from) ==
  [M EXCEPT !.upvalues = [id \in DOMAIN @ |->
     IF Open(M, id, M.cur, from)
     THEN [@[id] EXCEPT !.open = FALSE, !.value = Thread(M).mem[M.upvalues[id].at]] ELSE @[id]]]

UpvalueValue(M, id) ==
  LET u == M.upvalues[id] IN IF u.open THEN M.threads[u.thread].mem[u.at] ELSE u.value
SetUpvalue(M, id, v) ==
  LET u == M.upvalues[id]
  IN IF u.open THEN [M EXCEPT !.threads[u.thread].mem[u.at] = v] ELSE [M EXCEPT !.upvalues[id].value = v]

\* capture_upvalue: one open upvalue per place.
Capture(M, at) ==
  LET is == {id \in DOMAIN M.upvalues : Open(M, id, M.cur, at - 1) /\ M.upvalues[id].at = at}
  IN IF is # {} THEN [M |-> M, id |-> CHOOSE id \in is : TRUE]
     ELSE [M |-> [M EXCEPT !.upvalues = Append(@, [open |-> TRUE, thread |-> M.cur, at |-> at, value |-> Nil])],
           id |-> Len(M.upvalues) + 1]

----------------------------------------------------------------------------
(* Calls.  n arguments lie on the stack above the function.                *)

NoModule == [name |-> "", globals |-> <<>>]
NewFrame(closure, base) == [closure |-> closure, ip |-> 1, base |-> base, import |-> NoModule]
Proto(M, id) == M.closures[id].proto

\* finish_closure_call: types are checked, then the frame is made.
FinishCall(M, id, n) ==
  LET args == TopValues(M, n)
      types == Proto(M, id).types
  IN IF \E i \in DOMAIN types : ~HasType(args[i], types[i]) THEN Error(M, "type")
     ELSE IF Len(Frames(M)) = (IF Thread(M).generator THEN MaxGeneratorFrames ELSE MaxFrames) THEN Error(M, "stack overflow")
     ELSE [M EXCEPT !.threads[M.cur].frames = Append(@, NewFrame(id, Top(M) - n - 1))]

\* call(): extra arguments of a variadic function go into a table, missing ones
\* get their defaults.
CallClosure(M, id, n) ==
  LET p == Proto(M, id)
      extra == n - (p.arity - 1)
      missing == p.arity - n
  IN CASE p.variadic /\ extra < 0 -> Error(M, "arguments")
       [] p.variadic /\ extra >= 0 ->
            FinishCall(Replace(NewTable(M, TableOf(TopValues(M, extra))), extra, NewRef(M)), id, p.arity)
       [] ~p.variadic /\ (missing < 0 \/ missing > Len(p.defaults)) -> Error(M, "arguments")
       [] OTHER -> FinishCall(PushAll(M, SubSeq(p.defaults, Len(p.defaults) - missing + 1, Len(p.defaults))),
                              id, p.arity)

\* The first parameter that can take named arguments that fit no other one.
Options == {"opts", "options", "kwargs"}

\* call_named(): the last argument is a table of named ones.
CallNamed(M, id, n) ==
  LET p == Proto(M, id)
      named == TheTable(M, Peek(M, 0)).hash
      fixed == IF p.variadic THEN p.arity - 1 ELSE p.arity
      given == TopValues(M, n)
      positional == n - 1
      bound == 1..(IF positional < fixed THEN positional ELSE fixed)
      Named(i) == At(named, Str(p.names[i]))
      others == SelectSeq(named, LAMBDA e : \A i \in 1..fixed : Str(p.names[i]) # e[1])
      spare == {i \in (1..fixed) \ bound : Named(i) = 0 /\ p.names[i] \in Options}
      options == CHOOSE i \in spare : \A j \in spare : i <= j
      useOptions == ~p.variadic /\ others # <<>> /\ spare # {}
      Default(i) == i - (fixed - Len(p.defaults))
      Value(i) == CASE i \in bound                       -> given[i]
                    [] i \notin bound /\ Named(i) # 0    -> named[Named(i)][2]
                    [] useOptions /\ i = options         -> NewRef(M)
                    [] OTHER                             -> p.defaults[Default(i)]
      rest == [TableOf(SubSeq(given, fixed + 1, positional)) EXCEPT !.hash = others]
      Known(i) == i \in bound \/ Named(i) # 0 \/ (useOptions /\ i = options) \/ Default(i) >= 1
  IN IF n < 1 \/ ~IsTable(Peek(M, 0)) THEN Error(M, "arguments")
     ELSE IF \/ positional > fixed /\ ~p.variadic
             \/ \E i \in bound : Named(i) # 0
             \/ ~p.variadic /\ others # <<>> /\ spare = {}
             \/ \E i \in 1..fixed : ~Known(i)
     THEN Error(M, "arguments")
     ELSE LET args == [i \in 1..p.arity |-> IF i <= fixed THEN Value(i) ELSE NewRef(M)]
          IN FinishCall(PushAll(Drop(IF useOptions \/ p.variadic THEN NewTable(M, rest) ELSE M, n), args),
                        id, p.arity)

Enter(M, id, n, named) == IF named THEN CallNamed(M, id, n) ELSE CallClosure(M, id, n)

\* A call of a generator function makes a thread that will run it.  An error in
\* the call stays with the new thread.
NewThread(values, generator) ==
  [mem |-> values, top |-> Len(values), frames |-> <<>>, handlers |-> <<>>, pending |-> <<>>,
   exc |-> <<>>, caller |-> 0, generator |-> generator, mode |-> FALSE, index |-> 0]

NewGenerator(M, n, named) ==
  LET gen == Len(M.threads) + 1
      A == [M EXCEPT !.threads = Append(@, NewThread(TopValues(M, n + 1), TRUE)), !.cur = gen]
      B == [Enter(A, Peek(M, n)[2], n, named) EXCEPT !.cur = M.cur]
  IN IF B.failed THEN B ELSE Replace(B, n + 1, Ref("thread", gen))

\* The function under n arguments is replaced, and x becomes the first argument.
Insert(M, n, f, x) == PushAll(Drop(M, n + 1), <<f, x>> \o TopValues(M, n))

----------------------------------------------------------------------------
(* The natives of core.c and coroutine.c that loops and generators use.    *)

Deliver(M, thread, values) == [PushAll([M EXCEPT !.cur = thread], values) EXCEPT !.cur = M.cur]

\* next(): the array part from its first value on, then the hash part.
NextOf(M, t, key) ==
  LET start == IF IsNum(key) /\ key[2] >= 1 THEN key[2] + 1 ELSE 1
      left == {i \in DOMAIN t.array : i >= start /\ t.array[i] # Nil}
      i == CHOOSE k \in left : \A j \in left : k <= j
      at == IF IsStr(key) THEN At(t.hash, key) ELSE 0
  IN IF (key = Nil \/ IsNum(key)) /\ left # {} THEN <<Num(i), t.array[i]>>
     ELSE IF (IsStr(key) /\ at = 0) \/ at = Len(t.hash) THEN <<Nil, Nil>>
     ELSE t.hash[at + 1]

NextIndex(t, i) ==
  IF ArrayGet(t, i) # Nil THEN <<Num(i), ArrayGet(t, i)>>
  ELSE IF HashGet(t, Num(i)) # Nil THEN <<Num(i), HashGet(t, Num(i))>> ELSE <<Nil, Nil>>

RangeNext(M, state, current) ==
  LET t == TheTable(M, state)
      step == t.array[2][2]
      next == current + step
      over == (step > 0 /\ next > t.array[1][2]) \/ (step < 0 /\ next < t.array[1][2])
  IN IF over THEN <<Nil, Nil>> ELSE <<Num(next), Num(next)>>

\* gen_next(): the generator runs until it yields to this thread.
ResumeGenerator(M, id) ==
  IF M.threads[id].frames = <<>> THEN PushAll(M, <<Nil, Nil>>)
  ELSE [M EXCEPT !.threads[id].caller = M.cur, !.threads[id].mode = TRUE, !.cur = id]

Resume(M, id, args) ==
  IF M.threads[id].frames = <<>> THEN PushAll(M, <<Bool(FALSE), Str("cannot resume dead coroutine")>>)
  ELSE [Deliver(M, id, args) EXCEPT !.threads[id].caller = M.cur, !.threads[id].mode = FALSE, !.cur = id]

\* coroutine_do_yield: the values go to the caller, whose own caller is forgotten.
YieldTo(M, args) ==
  LET t == Thread(M)
      inGenerator == t.generator /\ t.mode
      values == IF inGenerator THEN <<Num(t.index + 1), IF args = <<>> THEN Nil ELSE args[1]>>
                ELSE <<Bool(TRUE)>> \o args
  IN IF t.caller = 0 THEN PushAll(M, <<Bool(FALSE), Str("attempt to yield from outside a coroutine")>>)
     ELSE [Deliver(M, t.caller, values) EXCEPT
             !.threads[M.cur].mode = IF inGenerator THEN FALSE ELSE @,
             !.threads[M.cur].index = IF inGenerator THEN @ + 1 ELSE @,
             !.threads[t.caller].caller = 0, !.cur = t.caller]

NewCoroutine(M, f) ==
  Push([M EXCEPT !.threads = Append(@, [NewThread(<<f>>, FALSE) EXCEPT !.frames = <<NewFrame(f[2], 0)>>])],
       Ref("thread", Len(M.threads) + 1))

\* slice(): positions without a value leave a hole.
Positions(from, to, step) ==
  IF step > 0 THEN {i \in from..to : (i - from) % step = 0} ELSE {i \in to..from : (from - i) % (-step) = 0}
SliceTable(t, from, to, step) ==
  LET n == Cardinality(Positions(from, to, step))
      Item(i) == NextIndex(t, from + (i - 1) * step)[2]
  IN FoldLeft(LAMBDA A, i : IF Item(i) = Nil \/ ~Fits(A, i) THEN A ELSE ArraySet(A, i, Item(i)),
              EmptyTable, [i \in 1..n |-> i])
SliceString(s, from, to, step) ==
  LET low == IF from < 1 THEN 1 ELSE from
      high == IF to > Len(s) THEN Len(s) ELSE to
      n == Cardinality(Positions(low, high, step))
  IN FoldLeft(LAMBDA A, i : A \o SubSeq(s, low + (i - 1) * step, low + (i - 1) * step), "",
              [i \in 1..n |-> i])

RangeOf(M, start, stop) ==
  PushAll(NewTable(M, TableOf(<<Num(stop), Num(1)>>)), <<Native("range_iter"), NewRef(M), Num(start - 1)>>)

SliceOf(M, v, from, to, step) ==
  IF IsStr(v) THEN Push(M, Str(SliceString(v[2], from, to, step)))
  ELSE Push(NewTable(M, SliceTable(TheTable(M, v), from, to, step)), NewRef(M))

Natives == {"next", "inext", "gen_next", "range", "range_iter", "slice"}
CoroutineNatives == {"create", "resume", "yield", "status"}

\* A native takes its arguments from the stack and leaves its results there.
CallNative(M, name, n) ==
  LET a == TopValues(M, n)
      B == Drop(M, n + 1)
  IN CASE name = "next"       -> IF IsTable(a[1]) THEN PushAll(B, NextOf(M, TheTable(M, a[1]), a[2]))
                                 ELSE LET i == IF IsNum(a[2]) THEN a[2][2] + 1 ELSE 1
                                      IN PushAll(B, IF i > Len(a[1][2]) THEN <<Nil, Nil>>
                                                    ELSE <<Num(i), Str(SubSeq(a[1][2], i, i))>>)
       [] name = "inext"      -> PushAll(B, NextIndex(TheTable(M, a[1]), a[2][2] + 1))
       [] name = "gen_next"   -> ResumeGenerator(B, a[1][2])
       [] name = "range"      -> RangeOf(B, a[1][2], a[2][2])
       [] name = "range_iter" -> PushAll(B, RangeNext(M, a[1], a[2][2]))
       [] name = "slice"      -> SliceOf(B, a[1], a[2][2], a[3][2], a[4][2])
       [] name = "create"     -> IF Kind(a[1]) = "closure" THEN NewCoroutine(B, a[1]) ELSE Push(B, Nil)
       [] name = "resume"     -> Resume(B, a[1][2], Tail(a))
       [] name = "yield"      -> YieldTo(B, a)
       [] name = "status"     -> Push(B, Str(LET t == M.threads[a[1][2]]
                                             IN CASE t.frames = <<>> -> "dead"
                                                  [] t.frames # <<>> /\ t.caller # 0 -> "normal"
                                                  [] t.frames # <<>> /\ t.caller = 0 /\ a[1][2] = M.cur -> "running"
                                                  [] OTHER -> "suspended"))

\* call_value: a function, never a generator.
CallValue(M, f, n) == IF Kind(f) = "native" THEN CallNative(M, f[2], n) ELSE CallClosure(M, f[2], n)

\* A method called with two operands takes their place.
CallMethod(M, f, a, b) == CallClosure(PushAll(M, <<f, a, b>>), f[2], 2)

----------------------------------------------------------------------------
(* Calls and returns. *)

IsGenerator(M, f) == Kind(f) = "closure" /\ Proto(M, f[2]).generator

\* invoke_call: with n arguments, the last of them the table of the named ones
\* when named.
Invoke(M, n, named) ==
  LET f == Peek(M, n)
      direct(A, g, k) ==
        CASE Kind(g) = "native"                      -> CallNative(A, g[2], k)
          [] Kind(g) = "closure" /\ IsGenerator(A, g)  -> NewGenerator(A, k, named)
          [] OTHER                                   -> Enter(A, g[2], k, named)
      method == Meta(M, f, "__call")
  IN CASE Kind(f) = "bound"                -> direct(Insert(M, n, f[3], f[2]), f[3], n + 1)
       [] Callable(f)                      -> direct(M, f, n)
       [] IsTable(f) /\ Callable(method)   -> LET A == Insert(M, n, method, f)
                                              IN IF Kind(method) = "native" THEN CallNative(A, method[2], n + 1)
                                                 ELSE Enter(A, method[2], n + 1, named)
       [] OTHER                            -> Error(M, "call")

\* f(*table): the array part as arguments, the hash part as named ones.
Spread(M, n) ==
  LET t == TheTable(M, Peek(M, 0))
      A == PushAll(Drop(M, 1), SubSeq(t.array, 1, Dense(t)))
      k == n + Dense(t)
  IN IF ~IsTable(Peek(M, 0)) THEN Error(M, "spread")
     ELSE IF t.hash = <<>> THEN Invoke(A, k, FALSE)
     ELSE Invoke(Push(NewTable(A, [EmptyTable EXCEPT !.hash = t.hash]), NewRef(A)), k + 1, TRUE)

Call(M, c) ==
  CASE c.op = "CALL_NAMED"  -> Invoke(M, c.a, TRUE)
    [] c.op = "CALL_EXPAND" -> Spread(M, c.a)
    [] c.op = "CALL"        -> Invoke(M, c.a, FALSE)
    [] OTHER -> Invoke(M, IF c.op = "CALL0" THEN 0 ELSE IF c.op = "CALL1" THEN 1 ELSE 2, FALSE)

\* What an import changed while the module ran.
Context == {"__name", "__file", "__main"}
With(globals, changes) == changes @@ [k \in DOMAIN globals \ Context |-> globals[k]]
ContextOf(globals) == [k \in DOMAIN globals \cap Context |-> globals[k]]

\* Variant: of the importer's context only __main comes back.
LeaveModuleMainOnly(M, import, result) ==
  IF import = NoModule THEN M
  ELSE [M EXCEPT !.modules = (import.name :> result) @@ @, !.globals["__main"] = import.globals["__main"]]

\* Variant: the importer's context comes back, but the result is not cached.
LeaveModuleUncached(M, import, result) ==
  IF import = NoModule THEN M ELSE [M EXCEPT !.globals = With(@, import.globals)]

\* The result of a module is cached and the importer's context comes back.
LeaveModule(M, import, result) ==
  IF import = NoModule THEN M
  ELSE [M EXCEPT !.modules = (import.name :> result) @@ @, !.globals = With(@, import.globals)]

DropHandlers(M) ==
  [M EXCEPT !.threads[M.cur].handlers = SelectSeq(@, LAMBDA h : h.frames < Len(Frames(M)))]

\* A fused instruction that called a method stores the result when it returns.
ApplyPending(M) ==
  LET pending == Thread(M).pending
  IN IF pending = <<>> THEN M
     ELSE IF Last(pending).frame # Len(Frames(M)) THEN M
     ELSE [SetSlot(M, Last(pending).slot, Peek(M, 0)) EXCEPT !.threads[M.cur].pending = Front(@)]

\* The last frame of a thread has returned values: to its caller, if it has one.
ThreadEnds(M, values) ==
  LET t == Thread(M)
      inGenerator == t.generator /\ t.mode
  IN IF t.caller = 0 THEN [M EXCEPT !.status = "done"]
     ELSE [Deliver(M, t.caller, IF inGenerator THEN <<Nil, Nil>> ELSE <<Bool(TRUE)>> \o values) EXCEPT
             !.threads[M.cur].caller = 0, !.threads[M.cur].mode = IF inGenerator THEN FALSE ELSE @,
             !.cur = t.caller]

\* RETURN and RETURN_N: the values take the place of the function and its arguments.
ReturnValues(M, n) ==
  LET f == Frame(M)
      values == TopValues(M, n)
      A == LeaveModule(DropHandlers(CloseUpvalues(Drop(M, n), f.base)), f.import,
                       IF n = 0 THEN Nil ELSE values[1])
      B == PushAll([A EXCEPT !.threads[M.cur].frames = Front(@), !.threads[M.cur].top = f.base], values)
  IN IF Len(Frames(B)) = 0 THEN ThreadEnds(B, values) ELSE ApplyPending(B)

Return(M, c) == ReturnValues(M, IF c.op = "RETURN" THEN 1 ELSE c.a)

MakeClosure(M, c) ==
  LET up(A, u) == IF u.local THEN Capture(A.M, Frame(M).base + u.slot + 1)
                  ELSE [M |-> A.M, id |-> M.closures[Frame(M).closure].ups[u.slot + 1]]
      Next(A, u) == LET r == up(A, u) IN [M |-> r.M, ups |-> Append(A.ups, r.id)]
      P == Push(M, Ref("closure", Len(M.closures) + 1))
      R == FoldLeft(Next, [M |-> P, ups |-> <<>>], c.a.upvalues)
  IN [R.M EXCEPT !.closures = Append(@, [proto |-> c.a, ups |-> R.ups])]

----------------------------------------------------------------------------
(* Exceptions. *)

Try(M, c) ==
  IF Len(Thread(M).handlers) = (IF Thread(M).generator THEN MaxGeneratorHandlers ELSE MaxHandlers) THEN Error(M, "too many try blocks")
  ELSE [M EXCEPT !.threads[M.cur].handlers =
          Append(@, [frames |-> Len(Frames(M)), top |-> Frame(M).base + c.depth,
                     flags |-> c.flags, except |-> c.except, finally |-> c.finally, inExcept |-> FALSE])]

EndTry(M) == [M EXCEPT !.threads[M.cur].handlers = IF @ = <<>> THEN @ ELSE Front(@)]
EndFinally(M) == IF Thread(M).exc = <<>> THEN M ELSE Abort(M)
Throw(M) == Raise(Drop(M, 1), Peek(M, 0))

TryOp(M, c) ==
  CASE c.op = "TRY"     -> Try(M, c)
    [] c.op = "END_TRY" -> EndTry(M)
    [] c.op = "END_FINALLY" -> EndFinally(M)
    [] c.op = "THROW"   -> Throw(M)

Uncaught(M) == [M EXCEPT !.status = "failed"]

\* Frames above the handler's go, and their upvalues are closed.
PopFrames(M, n) ==
  IF Len(Frames(M)) <= n THEN M
  ELSE [CloseUpvalues(M, Frames(M)[n + 1].base) EXCEPT !.threads[M.cur].frames = SubSeq(@, 1, n)]

\* handle_exception: the innermost handler that still has a clause to run.
RECURSIVE Unwind(_)
Unwind(M) ==
  LET h == Last(Thread(M).handlers)
      A == [PopFrames(M, h.frames) EXCEPT !.threads[M.cur].top = h.top]
      E == Push(Goto(A, h.except), Thread(M).exc[1])
      last == Len(Thread(M).handlers)
  IN IF Thread(M).exc = <<>> \/ Thread(M).handlers = <<>> THEN Uncaught(M)
     ELSE IF "except" \in h.flags /\ ~h.inExcept
     THEN [E EXCEPT !.threads[M.cur].exc = <<>>, !.threads[M.cur].handlers[last].inExcept = TRUE]
     ELSE IF "finally" \in h.flags THEN EndTry(Goto(A, h.finally))
     ELSE Unwind(EndTry(A))

Settle(M) == IF M.failed /\ M.status = "running" THEN Unwind([M EXCEPT !.failed = FALSE]) ELSE M

----------------------------------------------------------------------------
(* Constants, names and jumps. *)

Load(M, c) ==
  Push(M, CASE c.op = "CONSTANT" -> c.a
            [] c.op = "NIL"      -> Nil
            [] c.op = "TRUE"     -> Bool(TRUE)
            [] c.op = "FALSE"    -> Bool(FALSE)
            [] c.op = "DUP"      -> Peek(M, 0))

StackOp(M, c) ==
  CASE c.op = "POP"           -> Drop(M, 1)
    [] c.op = "CLOSE_UPVALUE" -> Drop(CloseUpvalues(M, Top(M) - 1), 1)
    [] c.op = "ADJUST_STACK"  -> SetTop(M, Frame(M).base + c.a)

\* A table alone is spread; missing values are nil.
Unpack(M, c) ==
  LET base == Frame(M).base + c.base
      have == Top(M) - base
      first == Thread(M).mem[base + 1]
      spread == have = 1 /\ IsTable(first)
      Value(i) == IF spread THEN ArrayGet(TheTable(M, first), i)
                  ELSE IF i <= have THEN Thread(M).mem[base + i] ELSE Nil
      n == IF spread \/ have < c.count THEN c.count ELSE have
  IN PushAll([M EXCEPT !.threads[M.cur].top = base], [i \in 1..n |-> Value(i)])

GlobalOp(M, c) ==
  LET known == c.a \in DOMAIN M.globals
  IN CASE c.op = "GET_GLOBAL" -> IF known THEN Push(M, M.globals[c.a]) ELSE Error(M, "undefined")
       [] c.op = "DEFINE_GLOBAL" -> Drop([M EXCEPT !.globals = (c.a :> Peek(M, 0)) @@ @], 1)
       [] c.op = "SET_GLOBAL" -> [M EXCEPT !.globals = (c.a :> Peek(M, 0)) @@ @]
       [] c.op = "DELETE_GLOBAL" ->
            IF known THEN [M EXCEPT !.globals = [k \in DOMAIN @ \ {c.a} |-> @[k]]] ELSE Error(M, "undefined")

LocalOp(M, c) ==
  LET up == M.closures[Frame(M).closure].ups
  IN CASE c.op = "GET_LOCAL"   -> Push(M, Slot(M, c.a))
       [] c.op = "SET_LOCAL"   -> SetSlot(M, c.a, Peek(M, 0))
       [] c.op = "GET_UPVALUE" -> Push(M, UpvalueValue(M, up[c.a + 1]))
       [] c.op = "SET_UPVALUE" -> SetUpvalue(M, up[c.a + 1], Peek(M, 0))

Jump(M, c) ==
  LET taken == CASE c.op = "JUMP_IF_FALSE" -> Falsey(M, Peek(M, 0))
                 [] c.op = "JUMP_IF_TRUE"  -> ~Falsey(M, Peek(M, 0))
                 [] OTHER                  -> TRUE
  IN IF taken THEN Goto(M, c.to) ELSE M

\* FOR_PREP leaves at once when the range is empty; FOR_LOOP goes on to the next.
RangeLoop(M, c) ==
  LET v == Slot(M, c.var)
      end == Slot(M, c.var + 1)
      next == v[2] + 1
      A == SetSlot(M, c.var, Num(next))
  IN IF ~IsNum(v) \/ ~IsNum(end) THEN Error(M, "range bounds")
     ELSE IF c.op = "FOR_PREP" THEN IF v[2] > end[2] THEN Goto(M, c.to) ELSE M
     ELSE IF next <= end[2] THEN Goto(A, c.to) ELSE A

----------------------------------------------------------------------------
(* Operators. *)

MetaName == [ADD |-> "__add", SUBTRACT |-> "__sub", MULTIPLY |-> "__mul", DIVIDE |-> "__div",
             MODULO |-> "__mod", POWER |-> "__pow", INT_DIV |-> "__int_div"]

Method(M, a, b, name) == IF Meta(M, a, name) # Nil THEN Meta(M, a, name) ELSE Meta(M, b, name)

\* The result of an operator where no method is called.
Simple(op, a, b) ==
  \/ IsNum(a) /\ IsNum(b)
  \/ op = "ADD" /\ Kind(a) = Kind(b) /\ Kind(a) \in {"str", "table"}

\* a + b for two tables is a new table: both array parts, then both hash parts.
Joined(M, a, b) == AddHash(AddHash(AppendArray(AppendArray(EmptyTable, TheTable(M, a)), TheTable(M, b)),
                                   TheTable(M, a)), TheTable(M, b))
Operate(M, op, a, b) ==
  CASE IsNum(a)   -> Push(M, Num(O!Compute(op, a[2], b[2])))
    [] IsStr(a)   -> Push(M, Str(a[2] \o b[2]))
    [] IsTable(a) -> Push(NewTable(M, Joined(M, a, b)), NewRef(M))

\* Without a method only an addition reports an error.
NoMethod(M, op) == IF op = "ADD" THEN Error(M, "operands") ELSE Abort(M)

Binary(M, op, a, b) ==
  LET method == Method(M, a, b, MetaName[op])
  IN IF Simple(op, a, b) THEN Operate(M, op, a, b)
     ELSE IF method = Nil THEN NoMethod(M, op) ELSE CallMethod(M, method, a, b)

\* `+=` adds the right table to the left one.
AddInPlace(M, a, b) ==
  LET t == AddHash(AppendArray(TheTable(M, a), TheTable(M, b)), TheTable(M, b))
  IN IF IsTable(a) /\ IsTable(b) THEN Push(SetTableAt(M, a, t), a) ELSE Binary(M, "ADD", a, b)

Arithmetic(M, c) ==
  LET b == Peek(M, 0)
      a == Peek(M, 1)
  IN IF c.op = "ADD_INPLACE" THEN AddInPlace(Drop(M, 2), a, b) ELSE Binary(Drop(M, 2), c.op, a, b)

\* The instructions of the optimiser: op, operand from a constant, result to a local.
Fused ==
  [name \in {s \o t : s \in Range(O!Short), t \in {"_CONST", "_LOCAL_CONST", "_SET_LOCAL"}} \cup {"INC_LOCAL"} |->
     IF name = "INC_LOCAL" THEN "ADD"
     ELSE CHOOSE op \in DOMAIN O!Short :
            \E t \in {"_CONST", "_LOCAL_CONST", "_SET_LOCAL"} : name = O!Short[op] \o t]

WithConstant == {s \o "_CONST" : s \in Range(O!Short)}
ConstArithmetic(M, c) == Binary(Drop(M, 1), Fused[c.op], Peek(M, 0), c.a)

\* Where a method is called, the store waits for its return.
ToLocal(M, slot, op, a, b) ==
  LET method == Method(M, a, b, MetaName[op])
      R == Operate(M, op, a, b)
      P == [M EXCEPT !.threads[M.cur].pending = Append(@, [frame |-> Len(Frames(M)), slot |-> slot])]
  IN IF Simple(op, a, b) THEN SetSlot(R, slot, Peek(R, 0))
     ELSE IF method = Nil THEN NoMethod(M, op)
     ELSE IF Len(Thread(M).pending) = MaxPending THEN Error(M, "pending")
     ELSE CallMethod(P, method, a, b)

LocalArithmetic(M, c) ==
  LET v == Slot(M, c.slot)
  IN IF "a" \notin DOMAIN c THEN ToLocal(Drop(M, 2), c.slot, Fused[c.op], Peek(M, 1), Peek(M, 0))
     ELSE IF c.op = "INC_LOCAL" /\ ~IsNum(v) THEN Error(M, "operands")
     ELSE ToLocal(M, c.slot, Fused[c.op], v, c.a)

\* IADD and the like do not look at the types of their operands.
Typed == [IADD |-> "ADD", ISUB |-> "SUBTRACT", IMUL |-> "MULTIPLY", IMOD |-> "MODULO", FADD |-> "ADD",
          FSUB |-> "SUBTRACT", FMUL |-> "MULTIPLY", FDIV |-> "DIVIDE", FMOD |-> "MODULO"]
TypedArithmetic(M, c) ==
  Replace(M, 2, Num(O!Compute(Typed[c.op], Peek(M, 1)[2], Peek(M, 0)[2])))

Unary(M, c) ==
  LET v == Peek(M, 0)
  IN CASE c.op = "NEGATE" -> Replace(M, 1, Num(-v[2]))
       [] c.op = "NOT"    -> Replace(M, 1, Bool(Falsey(M, v)))
       [] c.op = "LENGTH" -> IF IsStr(v) THEN Replace(M, 1, Num(Len(v[2])))
                             ELSE IF IsTable(v) THEN Replace(M, 1, Num(Count(TheTable(M, v))))
                             ELSE Error(Drop(M, 1), "length")

\* Objects are compared by identity, then by a method.
Compare(M, c) ==
  LET b == Peek(M, 0)
      a == Peek(M, 1)
      D == Drop(M, 2)
      name == IF c.op = "EQUAL" THEN "__eq" ELSE "__lt"
      method == IF c.op = "EQUAL" /\ (a = b \/ ~IsObject(a) \/ ~IsObject(b) \/ (IsStr(a) /\ IsStr(b)))
                THEN Nil ELSE Method(M, a, b, name)
      numbers == IsNum(a) /\ IsNum(b)
  IN CASE method = Nil \/ numbers ->
            Push(D, Bool(CASE c.op = "EQUAL"   -> a = b
                           [] c.op = "GREATER" -> numbers /\ a[2] > b[2]
                           [] c.op = "LESS"    -> numbers /\ a[2] < b[2]))
       [] c.op = "GREATER" /\ method # Nil -> CallMethod(D, method, b, a)
       [] OTHER -> CallMethod(D, method, a, b)

HasPart(s, part) ==
  \E i \in 1..(Len(s) - Len(part) + 1) : SubSeq(s, i, i + Len(part) - 1) = part

\* `a has b` and `b in a`: among the values of a table, or in a string.
Member(M, c) ==
  LET has == c.op = "HAS"
      all == IF has THEN Peek(M, 1) ELSE Peek(M, 0)
      one == IF has THEN Peek(M, 0) ELSE Peek(M, 1)
      D == Drop(M, 2)
      method == Method(M, all, one, "__has")
      t == TheTable(M, all)
  IN IF method # Nil THEN CallMethod(D, method, all, one)
     ELSE IF IsStr(all) /\ IsStr(one) THEN Push(D, Bool(HasPart(all[2], one[2])))
     ELSE IF IsTable(all)
     THEN Push(D, Bool((one # Nil /\ one \in Range(t.array)) \/ \E e \in Range(t.hash) : e[2] = one))
     ELSE Error(D, "has")


----------------------------------------------------------------------------
(* Tables. *)

\* `t << v`: the place after the array part.
AppendOp(M) ==
  LET b == Peek(M, 0)
      a == Peek(M, 1)
      D == Drop(M, 2)
      n == TheTable(M, a).max + 1
  IN CASE Meta(M, a, "__append") # Nil -> CallMethod(D, Meta(M, a, "__append"), a, b)
       [] IsTable(a) /\ Meta(M, a, "__append") = Nil ->
            Push(SetTableAt(D, a, ArrayOrHashSet(TheTable(M, a), n, b)), Num(n))
       [] ~IsTable(a) /\ Meta(M, b, "__append") # Nil -> CallMethod(D, Meta(M, b, "__append"), a, b)
       [] OTHER -> Error(D, "append")

\* A function whose first parameter is self comes bound to its table.
Bound(M, receiver, v) ==
  IF /\ Kind(v) = "closure" /\ Proto(M, v[2]).self
     /\ ~(IsTable(receiver) /\ IsModule(TheTable(M, receiver)))
  THEN <<"bound", receiver, v>> ELSE v

\* What a table holds itself, <<>> if nothing.
Own(t, key) ==
  LET i == IF IsNum(key) THEN FromEnd(t, key[2]) ELSE 0
  IN IF ArrayGet(t, i) # Nil THEN <<ArrayGet(t, i)>>
     ELSE IF HasKey(t, key) THEN <<HashGet(t, key)>> ELSE <<>>

GetTable(M) ==
  LET key == Peek(M, 0)
      v == Peek(M, 1)
      D == Drop(M, 2)
      own == Own(TheTable(M, v), key)
      index == Meta(M, v, "__index")
      at == IF key[2] < 0 THEN Len(v[2]) + key[2] + 1 ELSE key[2]
  IN CASE IsTable(v) /\ own # <<>> -> Push(D, Bound(M, v, own[1]))
       [] IsTable(v) /\ own = <<>> /\ Callable(index) -> CallValue(PushAll(D, <<index, v, key>>), index, 2)
       [] IsTable(v) /\ own = <<>> /\ IsTable(index) ->
            Push(D, Bound(M, v, HashGet(TheTable(M, index), key)))
       [] IsTable(v) /\ own = <<>> /\ ~Callable(index) /\ ~IsTable(index) -> Push(D, Nil)
       [] IsStr(v) /\ IsNum(key) ->
            Push(D, IF at \in 1..Len(v[2]) THEN Str(SubSeq(v[2], at, at)) ELSE Nil)
       [] Kind(v) \in {"closure", "bound"} -> Push(D, Nil)
       [] OTHER -> Error(D, "index")

\* `v.__name` reads the metatable, and binds whatever function it finds.
GetMetaTable(M) ==
  LET found == IF IsStr(Peek(M, 0)) THEN Meta(M, Peek(M, 1), Peek(M, 0)[2]) ELSE Nil
  IN Replace(M, 2, IF Callable(found) THEN <<"bound", Peek(M, 1), found>> ELSE found)

\* A new key goes to __newindex.  A function called for it gets its frame, and
\* then the value is pushed above its arguments.
SetTable(M) ==
  LET v == Peek(M, 0)
      key == Peek(M, 1)
      t == Peek(M, 2)
      D == Drop(M, 3)
      at == IF IsNum(key) THEN FromEnd(TheTable(M, t), key[2]) ELSE 0
      inArray == IsNum(key) /\ Fits(TheTable(M, t), at)
      handler == Meta(M, t, "__newindex")
      C3 == CallValue(PushAll(D, <<handler, t, key, v>>), handler, 3)
      Stored(A, table) == Push(SetTableAt(A, table, HashSet(TheTable(A, table), key, v)), v)
  IN CASE ~IsTable(t) -> Error(D, "index")
       [] IsTable(t) /\ inArray -> Push(SetTableAt(D, t, ArraySet(TheTable(M, t), at, v)), v)
       [] IsTable(t) /\ ~inArray /\ ~HasKey(TheTable(M, t), key) /\ Callable(handler) ->
            IF C3.failed THEN C3 ELSE Push(C3, v)
       [] IsTable(t) /\ ~inArray /\ ~HasKey(TheTable(M, t), key) /\ IsTable(handler) -> Stored(D, handler)
       [] OTHER -> Stored(D, t)

DeleteTable(M) ==
  LET key == Peek(M, 0)
      t == Peek(M, 1)
      D == Drop(M, 2)
      at == FromEnd(TheTable(M, t), key[2])
  IN CASE ~IsTable(t) -> Error(D, "index")
       [] IsTable(t) /\ IsNum(key) /\ ArrayGet(TheTable(M, t), at) # Nil ->
            SetTableAt(D, t, ArraySet(TheTable(M, t), at, Nil))
       [] OTHER -> IF HasKey(TheTable(M, t), key) THEN SetTableAt(D, t, HashDelete(TheTable(M, t), key))
                   ELSE Error(D, "key")

\* A method of the table itself or of the chain of its __index tables.
RECURSIVE Property(_, _, _, _)
Property(M, v, name, depth) ==
  LET index == Meta(M, v, "__index")
  IN IF HasKey(TheTable(M, v), Str(name)) THEN HashGet(TheTable(M, v), Str(name))
     ELSE IF depth = 10 \/ ~IsTable(index) THEN Nil ELSE Property(M, index, name, depth + 1)

\* A table with a metatable is constructed by __new(metatable, table).
SetMetatable(M) ==
  LET t == Peek(M, 0)
      meta == Peek(M, 1)
      A == SetTableAt(Drop(M, 2), t, [TheTable(M, t) EXCEPT !.meta = meta])
      own == Property(A, t, "__new", 0)
      new == IF own # Nil \/ meta = Nil THEN own ELSE HashGet(TheTable(M, meta), Str("__new"))
  IN IF ~IsTable(t) \/ (~IsTable(meta) /\ meta # Nil) THEN Error(M, "metatable")
     ELSE IF meta # Nil /\ Callable(new) THEN CallValue(PushAll(A, <<new, meta, t>>), new, 2)
     ELSE Push(A, t)

TableOp(M, c) ==
  CASE c.op = "NEW_TABLE"     -> Push(NewTable(M, EmptyTable), NewRef(M))
    [] c.op = "GET_TABLE"     -> GetTable(M)
    [] c.op = "GET_META_TABLE" -> GetMetaTable(M)
    [] c.op = "SET_TABLE"     -> SetTable(M)
    [] c.op = "DELETE_TABLE"  -> DeleteTable(M)
    [] c.op = "SET_METATABLE" -> SetMetatable(M)
    [] c.op = "APPEND"        -> AppendOp(M)

----------------------------------------------------------------------------
(* Iteration, slices and text. *)

\* A generator, an object with __next, or a table or string with next().
IterPrep(M, c) ==
  LET v == Peek(M, 0)
      own == IF IsTable(v) THEN HashGet(TheTable(M, v), Str("__next")) ELSE Nil
      method == IF Callable(own) THEN own ELSE Meta(M, v, "__next")
      Over(f, from) == PushAll(Drop(M, 1), <<f, v, from>>)
  IN IF c.op = "ITER_PREP_IPAIRS" THEN IF IsTable(v) THEN Over(Native("inext"), Num(0)) ELSE M
     ELSE CASE Kind(v) = "thread"  -> Over(Native("gen_next"), Nil)
            [] Callable(method)    -> Over(method, Nil)
            [] (IsTable(v) \/ IsStr(v)) /\ ~Callable(method) -> Over(Native("next"), Nil)
            [] OTHER               -> Error(M, "iterable")

\* Missing bounds follow the direction; negative ones count from the end.
Slice(M) ==
  LET v == Peek(M, 3)
      step == IF Peek(M, 0) = Nil THEN Num(1) ELSE Peek(M, 0)
      method == Meta(M, v, "__slice")
      size == IF IsTable(v) THEN Dense(TheTable(M, v)) ELSE Len(v[2])
      Limit(b, forward, back) == IF b # Nil THEN b[2] ELSE IF step[2] < 0 THEN back ELSE forward
      from == Limit(Peek(M, 2), 1, size)
      to == Limit(Peek(M, 1), size, 1)
      D == Drop(M, 4)
  IN IF ~IsNum(step) THEN Error(D, "step")
     ELSE IF step[2] = 0 THEN Error(D, "step")
     ELSE IF method # Nil
     THEN CallValue(PushAll(D, <<method, v, Peek(M, 2), Peek(M, 1), step>>), method, 4)
     ELSE IF ~IsTable(v) /\ ~IsStr(v) THEN Error(D, "slice")
     ELSE SliceOf(D, v, IF from < 0 THEN size + from + 1 ELSE from, IF to < 0 THEN size + to ELSE to, step[2])

Text(v) ==
  CASE IsStr(v) -> v[2]
    [] IsNum(v) -> ToString(v[2])
    [] Kind(v) = "bool" -> IF v[2] THEN "true" ELSE "false"
    [] OTHER -> Kind(v)
BuildString(M, n) ==
  Replace(M, n, Str(FoldLeft(LAMBDA A, v : A \o Text(v), "", TopValues(M, n))))

PrintOp(M, n) ==
  LET values == TopValues(M, n)
      line == FoldLeft(LAMBDA A, i : A \o (IF i = 1 THEN "" ELSE " ") \o Text(values[i]), "",
                       [i \in 1..n |-> i])
  IN [Drop(M, n) EXCEPT !.out = Append(@, line)]

SequenceOp(M, c) ==
  CASE c.op = "RANGE" -> RangeOf(Drop(M, 2), Peek(M, 1)[2], Peek(M, 0)[2])
    [] c.op = "SLICE" -> Slice(M)
    [] c.op = "BUILD_STRING" -> BuildString(M, c.a)
    [] c.op = "PRINT" -> PrintOp(M, c.a)
    [] OTHER -> IterPrep(M, c)

----------------------------------------------------------------------------
(* Modules. *)

\* The import of a file: its script runs with a context of its own, and the
\* module is cached when it returns.
ImportFile(M, name) ==
  LET script == Scripts[name]
      id == Len(M.closures) + 1
      A == [Push(M, Ref("closure", id)) EXCEPT !.closures = Append(@, [proto |-> script.proto, ups |-> <<>>])]
      Inside == [A EXCEPT !.globals = With(@, "__name" :> Str(name) @@ "__file" :> Str(name \o ".toi")
                                              @@ "__main" :> Bool(FALSE)),
                          !.starts = Append(@, name)]
      Called == CallClosure(Inside, id, 0)
  IN IF script.errors THEN [M EXCEPT !.status = "failed"]
     ELSE IF Called.failed THEN [Called EXCEPT !.globals = With(@, ContextOf(M.globals))]
     ELSE [Called EXCEPT !.threads[M.cur].frames[Len(Frames(Called))].import =
             [name |-> name, globals |-> ContextOf(M.globals)]]

\* load_native_module: a table of natives, made once.
ImportNative(M, name) ==
  LET t == [EmptyTable EXCEPT !.module = TRUE,
                              !.hash = SetToSeq({<<Str(f), Native(f)>> : f \in CoroutineNatives})
                                       \o <<<<Str("__name"), Str(name)>>, <<Str("__file"), Nil>>,
                                            <<Str("__main"), Bool(FALSE)>>>>]
  IN Push([NewTable(M, t) EXCEPT !.modules = (name :> NewRef(M)) @@ @], NewRef(M))

Import(M, name) ==
  CASE name \in DOMAIN M.modules -> Push(M, M.modules[name])
    [] name \notin DOMAIN M.modules /\ name \in NativeModules -> ImportNative(M, name)
    [] name \notin DOMAIN M.modules \cup NativeModules /\ name \in DOMAIN Scripts -> ImportFile(M, name)
    [] OTHER -> Abort(M)

\* Every field of the module's hash part becomes a global.
ImportStar(M) ==
  LET fields == SelectSeq(TheTable(M, Peek(M, 0)).hash, LAMBDA e : IsStr(e[1]) /\ e[2] # Nil)
  IN IF ~IsTable(Peek(M, 0)) THEN Error(Drop(M, 1), "import")
     ELSE [Drop(M, 1) EXCEPT !.globals = FoldLeft(LAMBDA g, e : (e[1][2] :> e[2]) @@ g, @, fields)]

ImportOp(M, c) == IF c.op = "IMPORT" THEN Import(M, c.a) ELSE ImportStar(M)

\* A collection changes nothing a program can see.
Collect(M, c) == M

----------------------------------------------------------------------------
(* vm_run. *)

Machine(script) ==
  [threads |-> <<[NewThread(<<Ref("closure", 1)>>, FALSE) EXCEPT !.frames = <<NewFrame(1, 0)>>]>>,
   cur |-> 1, tables |-> <<>>, closures |-> <<[proto |-> script, ups |-> <<>>]>>, upvalues |-> <<>>,
   globals |-> [f \in Natives |-> Native(f)]
               @@ "__name" :> Str("__main") @@ "__file" :> Str("main.toi") @@ "__main" :> Bool(TRUE),
   modules |-> [m \in {} |-> Nil], out |-> <<>>, starts |-> <<>>, status |-> "running", failed |-> FALSE]

Instruction(M) == Proto(M, Frame(M).closure).code[Frame(M).ip]
Place(M) == <<Proto(M, Frame(M).closure).id, Frame(M).ip>>
Height(M) == Top(M) - Frame(M).base

Init ==
  /\ program \in DOMAIN Programs
  /\ LET script == Programs[program].script
     IN vm = [Machine(script.proto) EXCEPT !.status = IF script.errors THEN "rejected" ELSE "running"]
  /\ seen = <<>>

Executing(ops) == vm.status = "running" /\ Instruction(vm).op \in ops

\* The instruction at hand does its work and the next one follows.
Run(Effect(_, _)) ==
  /\ vm' = Settle(Effect(Goto(vm, Frame(vm).ip + 1), Instruction(vm)))
  /\ seen' = IF Place(vm) \in DOMAIN seen THEN seen ELSE (Place(vm) :> Height(vm)) @@ seen
  /\ UNCHANGED program

LoadStep     == Executing({"CONSTANT", "NIL", "TRUE", "FALSE", "DUP"}) /\ Run(Load)
StackStep    == Executing({"POP", "CLOSE_UPVALUE", "ADJUST_STACK"}) /\ Run(StackOp)
UnpackStep   == Executing({"UNPACK"}) /\ Run(Unpack)
GlobalStep   == Executing({"GET_GLOBAL", "DEFINE_GLOBAL", "SET_GLOBAL", "DELETE_GLOBAL"}) /\ Run(GlobalOp)
LocalStep    == Executing({"GET_LOCAL", "SET_LOCAL", "GET_UPVALUE", "SET_UPVALUE"}) /\ Run(LocalOp)
JumpStep     == Executing({"JUMP", "JUMP_IF_FALSE", "JUMP_IF_TRUE", "LOOP"}) /\ Run(Jump)
RangeStep    == Executing({"FOR_PREP", "FOR_LOOP"}) /\ Run(RangeLoop)
CallStep     == Executing({"CALL", "CALL0", "CALL1", "CALL2", "CALL_NAMED", "CALL_EXPAND"}) /\ Run(Call)
ReturnStep   == Executing({"RETURN", "RETURN_N"}) /\ Run(Return)
ClosureStep  == Executing({"CLOSURE"}) /\ Run(MakeClosure)
TryStep      == Executing({"TRY", "END_TRY", "END_FINALLY", "THROW"}) /\ Run(TryOp)
ArithmeticStep == Executing(DOMAIN MetaName \cup {"ADD_INPLACE"}) /\ Run(Arithmetic)
ConstantStep == Executing(WithConstant) /\ Run(ConstArithmetic)
FusedStep    == Executing(DOMAIN Fused \ WithConstant) /\ Run(LocalArithmetic)
TypedStep    == Executing(DOMAIN Typed) /\ Run(TypedArithmetic)
UnaryStep    == Executing({"NEGATE", "NOT", "LENGTH"}) /\ Run(Unary)
CompareStep  == Executing({"EQUAL", "GREATER", "LESS"}) /\ Run(Compare)
MemberStep   == Executing({"HAS", "IN"}) /\ Run(Member)
TableStep    == Executing({"NEW_TABLE", "GET_TABLE", "GET_META_TABLE", "SET_TABLE", "DELETE_TABLE",
                           "SET_METATABLE", "APPEND"}) /\ Run(TableOp)
SequenceStep == Executing({"RANGE", "SLICE", "BUILD_STRING", "PRINT", "ITER_PREP", "ITER_PREP_IPAIRS"}) /\ Run(SequenceOp)
ImportStep   == Executing({"IMPORT", "IMPORT_STAR"}) /\ Run(ImportOp)
CollectStep  == Executing({"GC"}) /\ Run(Collect)

Next ==
  \/ LoadStep \/ StackStep \/ UnpackStep \/ GlobalStep \/ LocalStep \/ JumpStep \/ RangeStep
  \/ CallStep \/ ReturnStep \/ ClosureStep \/ TryStep
  \/ ArithmeticStep \/ ConstantStep \/ FusedStep \/ TypedStep \/ UnaryStep \/ CompareStep \/ MemberStep
  \/ TableStep \/ SequenceStep \/ ImportStep \/ CollectStep

Spec == Init /\ [][Next]_vars

----------------------------------------------------------------------------
(* Properties. *)

\* Instructions that put the height right whatever a call has returned.
Levelling == {"ADJUST_STACK", "UNPACK", "POP"}

\* Whichever way control comes to an instruction, the stack has the same height
\* there: jumps out of loops, handlers and early exits drop what they must
\* (compiler.c, stmt_control.c).
HeightsAgree ==
  vm.status = "running" /\ Place(vm) \in DOMAIN seen /\ Instruction(vm).op \notin Levelling
    => seen[Place(vm)] = Height(vm)

\* A program prints what its meaning says, and ends as it should.
OutputCorrect == vm.status # "running" => vm.out = Programs[program].out /\ vm.status = Programs[program].ends

\* An open upvalue points below the top of its stack, so nothing else can take
\* its place (close_upvalues before every pop of a captured local).
OpenUpvaluesLive ==
  \A id \in DOMAIN vm.upvalues :
    vm.upvalues[id].open /\ vm.status = "running" /\ Instruction(vm).op # "ADJUST_STACK"
      => vm.upvalues[id].at <= vm.threads[vm.upvalues[id].thread].top

\* The instructions for two numbers never see anything else: the hints the
\* compiler chose them by were right (IADD and its kin do not check), after
\* assignments of other types in a row, in a branch, in a loop and by a closure,
\* and in parameters.  It reads the text once from top to bottom; where control
\* brings a value of another type another way, this fails (Retyping in Programs).
NumbersWhereTyped ==
  vm.status = "running" /\ Instruction(vm).op \in DOMAIN Typed => IsNum(Peek(vm, 0)) /\ IsNum(Peek(vm, 1))

\* The threads of the control stack, the current one first.
RECURSIVE ResumersOf(_)
ResumersOf(t) == IF t = 0 THEN <<>> ELSE <<t>> \o ResumersOf(vm.threads[t].caller)
\* The modules whose scripts are on it, innermost first.
Loading ==
  LET modules(t) == SelectSeq(Reverse(vm.threads[t].frames), LAMBDA f : f.import # NoModule)
  IN FoldLeft(LAMBDA names, t : names \o [i \in DOMAIN modules(t) |-> modules(t)[i].import.name],
              <<>>, ResumersOf(vm.cur))
MainContext == "__name" :> Str("__main") @@ "__file" :> Str("main.toi") @@ "__main" :> Bool(TRUE)
ContextIn(loading) ==
  IF loading = <<>> THEN MainContext
  ELSE "__name" :> Str(Head(loading)) @@ "__file" :> Str(Head(loading) \o ".toi") @@ "__main" :> Bool(FALSE)

\* Code runs in the context of the innermost module that is loading, or of the
\* main program, through calls, returns and imports in functions of either, as
\* long as every module started has returned or is loading: an import that an
\* exception ends does not restore the context (MainContextKept).
ImportContextRestored ==
  vm.status = "running" /\ (\A i \in DOMAIN vm.starts : vm.starts[i] \in DOMAIN vm.modules \cup Range(Loading))
    => ContextOf(vm.globals) = ContextIn(Loading)

\* After an import, however it ended, the main program has its own context.
MainContextKept ==
  vm.status = "running" /\ Loading = <<>> => ContextOf(vm.globals) = MainContext

\* The body of a module runs once, however often it is imported.
ModulesRunOnce == \A i, j \in DOMAIN vm.starts : vm.starts[i] = vm.starts[j] => i = j
=============================================================================
