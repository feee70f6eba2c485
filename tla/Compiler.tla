----------------------------- MODULE Compiler -----------------------------
(***************************************************************************)
(* The code generator: src/compiler.c with src/compiler/stmt.c,            *)
(* stmt_control.c and fstring.c.  The compiler emits code while it parses; *)
(* here it walks the syntax tree that the tokens spell, so precedence and  *)
(* layout are those of the tree.  Everything else is the compiler's state: *)
(* locals and their scopes, upvalues, the type stack, loop contexts, and   *)
(* the code with its jumps.                                                *)
(*                                                                         *)
(* An instruction is a record.  Addresses are indices into the code, and a *)
(* jump holds its target where the byte code holds a distance.  Constants  *)
(* stand in the instructions that name them, and are counted: an operand   *)
(* is one byte.                                                            *)
(***************************************************************************)
EXTENDS Integers, FiniteSets, SequencesExt

CONSTANTS MaxIndexed   \* how many things an operand can tell apart: UINT8_MAX + 1

None == "none"        \* an absent part of a tree

\* The type hints of chunk.h.
Numeric == {"int", "float"}

----------------------------------------------------------------------------
(* The compiler's state: the compilers of the functions being compiled,    *)
(* innermost last, the type stack (an array that keeps what lies above its *)
(* top), the flags of range expressions, and whether an error was reported.*)

NewCompiler(type) ==
  [type |-> type, code |-> <<>>, constants |-> <<>>, upvalues |-> <<>>, globals |-> {}, loops |-> <<>>,
   depth |-> IF type = "script" THEN 1 ELSE 0, generator |-> FALSE,
   locals |-> <<[name |-> "", depth |-> 0, captured |-> FALSE, type |-> "any"]>>]

NewState(unit, junk) ==
            [unit |-> unit, fns |-> <<NewCompiler("script")>>, types |-> <<>>, top |-> 0,
             inRange |-> FALSE, wasRange |-> FALSE, errors |-> FALSE, junk |-> junk]

Current(S) == Last(S.fns)
Code(S) == Current(S).code
Locals(S) == Current(S).locals
LocalCount(S) == Len(Locals(S))
Here(S) == Len(Code(S))
Error(S) == [S EXCEPT !.errors = TRUE]

Emit(S, op) == [S EXCEPT !.fns[Len(S.fns)].code = Append(@, [op |-> op])]
Emit1(S, op, a) == [S EXCEPT !.fns[Len(S.fns)].code = Append(@, [op |-> op, a |-> a])]

\* A value, the name of a global or module, or a function becomes a constant of
\* the chunk; the same one again is another constant.
MakeConstant(S, v) ==
  LET A == [S EXCEPT !.fns[Len(S.fns)].constants = Append(@, v)]
  IN IF Len(Current(A).constants) > MaxIndexed THEN Error(A) ELSE A
EmitConstant(S, v) == Emit1(MakeConstant(S, v), "CONSTANT", v)
Name(name) == <<"str", name>>
EmitName(S, op, name) == Emit1(MakeConstant(S, Name(name)), op, name)
EmitTimes(S, op, n) ==
  [S EXCEPT !.fns[Len(S.fns)].code = @ \o [i \in 1..n |-> [op |-> op]]]
EmitJump(S, op) == [S EXCEPT !.fns[Len(S.fns)].code = Append(@, [op |-> op, to |-> 0])]
EmitLoop(S, start) ==
  [S EXCEPT !.fns[Len(S.fns)].code = Append(@, [op |-> "LOOP", to |-> start])]

Patch(S, at) == [S EXCEPT !.fns[Len(S.fns)].code[at].to = Here(S) + 1]
RECURSIVE PatchAll(_, _)
PatchAll(S, ats) == IF ats = <<>> THEN S ELSE PatchAll(Patch(S, Head(ats)), Tail(ats))

EmitTry(S) ==
  [S EXCEPT !.fns[Len(S.fns)].code =
     Append(@, [op |-> "TRY", depth |-> LocalCount(S), flags |-> {},
                except |-> Here(S) + 2, finally |-> Here(S) + 2])]
PatchExcept(S, at) == [S EXCEPT !.fns[Len(S.fns)].code[at].except = Here(S) + 1]
PatchFinally(S, at) == [S EXCEPT !.fns[Len(S.fns)].code[at].finally = Here(S) + 1]
SetFlags(S, at, flags) == [S EXCEPT !.fns[Len(S.fns)].code[at].flags = flags]

EmitCall(S, n) ==
  IF n \in 0..2 THEN Emit(S, <<"CALL0", "CALL1", "CALL2">>[n + 1]) ELSE Emit1(S, "CALL", n)

\* The type stack.
TypePush(S, t) ==
  [S EXCEPT !.types = IF S.top < Len(@) THEN [@ EXCEPT ![S.top + 1] = t] ELSE Append(@, t),
            !.top = @ + 1]
TopType(S) == IF S.top = 0 THEN "any" ELSE S.types[S.top]
TypePop(S) == [S EXCEPT !.top = IF @ = 0 THEN 0 ELSE @ - 1]
TypeReset(S) == [S EXCEPT !.top = 0]
TypeReplace(S, base, t) == TypePush([S EXCEPT !.top = base], t)

----------------------------------------------------------------------------
(* Scopes and names. *)

BeginScope(S) == [S EXCEPT !.fns[Len(S.fns)].depth = @ + 1]

Leaving(locals, depth) ==
  [i \in 1..Cardinality({j \in DOMAIN locals : locals[j].depth > depth}) |->
     [op |-> IF locals[Len(locals) + 1 - i].captured THEN "CLOSE_UPVALUE" ELSE "POP"]]

\* Code that drops the locals deeper than a scope, innermost first.
DropLocals(S, depth) ==
  [S EXCEPT !.fns[Len(S.fns)].code = @ \o Leaving(Locals(S), depth)]

\* Variant: the scope's locals are popped even when a closure has captured them.
EndScopePopping(S) ==
  LET depth == Current(S).depth - 1
      gone == Len(Leaving(Locals(S), depth))
  IN [EmitTimes(S, "POP", gone) EXCEPT
        !.fns[Len(S.fns)].depth = depth,
        !.fns[Len(S.fns)].locals = SubSeq(@, 1, Len(@) - gone)]

EndScope(S) ==
  LET depth == Current(S).depth - 1
      gone == Len(Leaving(Locals(S), depth))
  IN [DropLocals(S, depth) EXCEPT
        !.fns[Len(S.fns)].depth = depth,
        !.fns[Len(S.fns)].locals = SubSeq(@, 1, Len(@) - gone)]

\* add_local leaves the local unreadable (depth -1) until mark_initialized_count.
AddLocal(S, name) ==
  IF LocalCount(S) = MaxIndexed THEN Error(S)
  ELSE [S EXCEPT !.fns[Len(S.fns)].locals =
          Append(@, [name |-> name, depth |-> -1, captured |-> FALSE, type |-> "any"])]

MarkInitialized(S, count) ==
  LET old == LocalCount(S) - count
  IN [S EXCEPT !.fns[Len(S.fns)].locals =
        SubSeq(@, 1, old) \o [i \in 1..count |-> [@[old + i] EXCEPT !.depth = Current(S).depth]]]

NewLocal(S, name) == MarkInitialized(AddLocal(S, name), 1)
RECURSIVE NewLocals(_, _)
NewLocals(S, names) ==
  IF names = <<>> THEN S ELSE NewLocals(NewLocal(S, Head(names)), Tail(names))

DeclareVariable(S, name) ==
  LET here == {i \in DOMAIN Locals(S) : Locals(S)[i].depth \in {-1, Current(S).depth}}
  IN AddLocal(IF \E i \in here : Locals(S)[i].name = name THEN Error(S) ELSE S, name)

SetLocalType(S, slot, t) ==
  IF slot < LocalCount(S) THEN [S EXCEPT !.fns[Len(S.fns)].locals[slot + 1].type = t] ELSE S

\* Variant: a value of another type leaves the hint as it is.
UpdateLocalTypeKeeping(S, slot, t) ==
  LET old == Locals(S)[slot + 1].type
  IN SetLocalType(S, slot, IF old = "any" THEN t ELSE old)

UpdateLocalType(S, slot, t) ==
  LET old == Locals(S)[slot + 1].type
  IN SetLocalType(S, slot, IF old = "any" \/ old = t THEN t ELSE "any")

\* Slot of a name in a compiler, -1 if there is none; the innermost wins.
ResolveLocal(f, name) ==
  LET is == {i \in DOMAIN f.locals : f.locals[i].name = name}
  IN IF is = {} THEN -1 ELSE Max(is) - 1

ReadsItself(f, name) ==
  ResolveLocal(f, name) # -1 /\ f.locals[ResolveLocal(f, name) + 1].depth = -1

AddUpvalue(S, n, up) ==
  LET is == {i \in DOMAIN S.fns[n].upvalues : S.fns[n].upvalues[i] = up}
  IN IF is # {} THEN [S |-> S, arg |-> Min(is) - 1]
     ELSE IF Len(S.fns[n].upvalues) = MaxIndexed THEN [S |-> Error(S), arg |-> 0]
     ELSE [S |-> [S EXCEPT !.fns[n].upvalues = Append(@, up)], arg |-> Len(S.fns[n].upvalues)]

\* Index of the upvalue of the n-th compiler for a name of an enclosing function;
\* the local is marked captured and every function in between passes it on.
RECURSIVE ResolveUpvalue(_, _, _)
ResolveUpvalue(S, n, name) ==
  IF n = 1 THEN [S |-> S, arg |-> -1]
  ELSE LET local == ResolveLocal(S.fns[n - 1], name)
           outer == ResolveUpvalue(S, n - 1, name)
       IN IF local # -1
          THEN AddUpvalue([S EXCEPT !.fns[n - 1].locals[local + 1].captured = TRUE,
                                    !.errors = @ \/ ReadsItself(S.fns[n - 1], name)],
                          n, [slot |-> local, local |-> TRUE])
          ELSE IF outer.arg = -1 THEN outer
          ELSE AddUpvalue(outer.S, n, [slot |-> outer.arg, local |-> FALSE])

\* What a name means: where it lives and the state after finding that out.
Place(S, kind, arg) == [S |-> S, kind |-> kind, arg |-> arg]
Explicit(S, name) == name \in Current(S).globals

\* Explicit names are kept up to the limit (register_explicit_global).
DeclareExplicit(S, name) ==
  IF Explicit(S, name) THEN S
  ELSE IF Cardinality(Current(S).globals) = MaxIndexed THEN Error(S)
  ELSE [S EXCEPT !.fns[Len(S.fns)].globals = @ \cup {name}]

Resolve(S, name, upvalues) ==
  LET slot == ResolveLocal(Current(S), name)
      checked == IF ReadsItself(Current(S), name) THEN Error(S) ELSE S
      up == ResolveUpvalue(S, Len(S.fns), name)
  IN IF slot # -1 THEN Place(checked, "LOCAL", slot)
     ELSE IF upvalues /\ up.arg # -1 THEN Place(up.S, "UPVALUE", up.arg)
     ELSE Place(S, "GLOBAL", name)

\* To name a global takes a constant, even if a local is made of it then.
FindName(S, name, upvalues) ==
  LET p == Resolve(S, name, upvalues)
  IN IF p.kind = "GLOBAL" THEN [p EXCEPT !.S = MakeConstant(@, Name(name))] ELSE p

Get(p) == Emit1(p.S, "GET_" \o p.kind, p.arg)
Set(p) == Emit1(p.S, "SET_" \o p.kind, p.arg)
GetNamed(S, name) == Get(FindName(S, name, TRUE))
SetNamed(S, name) == Set(FindName(S, name, TRUE))

\* A name that is only read: named_variable without an assignment behind it.
Variable(S, name) ==
  LET p == FindName(S, name, ~Explicit(S, name))
  IN TypePush(Get(p), IF p.kind = "LOCAL" THEN Locals(p.S)[p.arg + 1].type ELSE "any")

\* A new local takes the value on top of the stack.
StoreInNewLocal(S, name, t) ==
  LET slot == LocalCount(S)
  IN SetLocalType(Emit1(NewLocal(S, name), "SET_LOCAL", slot), slot, t)

----------------------------------------------------------------------------
(* Operators and their result types.                                       *)

EmitAll(S, ops) ==
  [S EXCEPT !.fns[Len(S.fns)].code = @ \o [i \in DOMAIN ops |-> [op |-> ops[i]]]]

\* The instruction for two ints, for two numbers, and for anything else.
Arithmetic == [add |-> <<"IADD", "FADD", "ADD">>,      sub |-> <<"ISUB", "FSUB", "SUBTRACT">>,
               mul |-> <<"IMUL", "FMUL", "MULTIPLY">>, div |-> <<"FDIV", "FDIV", "DIVIDE">>,
               mod |-> <<"IMOD", "FMOD", "MODULO">>]
Others == [eq |-> <<"EQUAL">>, ne |-> <<"EQUAL", "NOT">>, gt |-> <<"GREATER">>,
           ge |-> <<"LESS", "NOT">>, lt |-> <<"LESS">>, le |-> <<"GREATER", "NOT">>,
           has |-> <<"HAS">>, in |-> <<"IN">>, notin |-> <<"IN", "NOT">>,
           append |-> <<"APPEND">>, power |-> <<"POWER">>, intdiv |-> <<"INT_DIV">>]

ResultType(op, l, r) ==
  IF op \in DOMAIN Others THEN IF op \in {"append", "power", "intdiv"} THEN "any" ELSE "bool"
  ELSE IF ~({l, r} \subseteq Numeric) THEN "any"
  ELSE IF l = "int" /\ r = "int" /\ op # "div" THEN "int" ELSE "float"

OperatorCode(op, l, r) ==
  IF op \in DOMAIN Others THEN Others[op]
  ELSE <<Arithmetic[op][CASE ~({l, r} \subseteq Numeric) -> 3
                          [] l = "int" /\ r = "int"      -> 1
                          [] OTHER                       -> 2]>>

\* The two operands are compiled; their types are the two on top.
EmitOperator(S, op, inplace) ==
  LET r == TopType(S)
      l == TopType(TypePop(S))
      code == OperatorCode(op, l, r)
  IN TypePush(EmitAll(TypePop(TypePop(S)), IF inplace /\ code = <<"ADD">> THEN <<"ADD_INPLACE">> ELSE code),
              ResultType(op, l, r))

\* Where an assigned value goes; it stays on the stack.
Store(S, name, declared, kind, arg, t) ==
  CASE declared                        -> EmitName(S, "SET_GLOBAL", name)
    [] ~declared /\ kind = "LOCAL"     -> UpdateLocalType(Emit1(S, "SET_LOCAL", arg), arg, t)
    [] ~declared /\ kind = "UPVALUE"   -> Emit1(S, "SET_UPVALUE", arg)
    [] OTHER                           -> StoreInNewLocal(S, name, t)

InFunction(S) == Current(S).type = "function"

----------------------------------------------------------------------------
(* Expressions.  Operand is parse_precedence on one subtree; Expression is *)
(* expression(), which also forgets that a range was seen.                 *)

RECURSIVE Operand(_, _)
RECURSIVE Statement(_, _)

Expression(S, e) == Operand([S EXCEPT !.wasRange = FALSE], e)
Discard(S, e) == TypePop(Expression(S, e))                 \* its type is dropped
Expressions(S, es) == FoldLeft(Discard, S, es)
Fresh(S, e) == Expression(TypeReset(S), e)                 \* type_stack_top = 0 first
FreshAll(S, es) == FoldLeft(Fresh, S, es)
\* After an error the code no longer matters.
RECURSIVE Block(_, _)
Block(S, body) ==
  IF S.errors \/ body = <<>> THEN S ELSE Block(Statement(S, Head(body)), Tail(body))
Scoped(S, body) == EndScope(Block(BeginScope(S), body))

\* compile_expression_from_string: the text of an expression is parsed out of
\* line; neither its type nor an error in it survives.
OutOfLine(S, e) == [Expression(S, e) EXCEPT !.top = S.top, !.errors = S.errors]

Num(n) == <<"num", n>>
Str(s) == <<"str", s>>

\* A key and a value are stored in the table that lies below them.
Field(S, key, value) ==
  LET K == IF key.k = "const" THEN EmitConstant(S, key.v) ELSE Expression(S, key)
  IN EmitAll(Expression(K, value), <<"SET_TABLE", "POP">>)

\* `{ ... }`: an entry without a key takes the next index.
Entries(S, entries) ==
  FoldLeft(LAMBDA A, i :
             LET e == entries[i]
                 index == Cardinality({j \in 1..i : entries[j].key.k = "none"})
             IN Field(Emit(A, "DUP"),
                      IF e.key.k = "none" THEN [k |-> "const", v |-> Num(index)] ELSE e.key,
                      e.value),
           S, [i \in DOMAIN entries |-> i])

\* The right side of an assignment; several expressions make an array.
RightSide(S, es) ==
  IF Len(es) = 1 THEN Expression(S, es[1])
  ELSE Entries(Emit(S, "NEW_TABLE"), [i \in DOMAIN es |-> [key |-> [k |-> "none"], value |-> es[i]]])

\* `name = ...` and `name := ...`: in a function a new name becomes a local
\* before its value is compiled, so that a closure in the value can see it.
Assign(S, e) ==
  LET declared == Explicit(S, e.name)
      p == FindName(S, e.name, ~declared)
      slot == LocalCount(S)
      early == InFunction(S) /\ ~declared /\ p.kind = "GLOBAL" /\ e.tok = "="
      P == IF early
           THEN Emit(Emit1(Emit(NewLocal(p.S, e.name), "NIL"), "SET_LOCAL", slot), "POP")
           ELSE p.S
      R == RightSide(P, e.rhs)
      t == TopType(R)
  IN TypePush(
       IF ~early /\ p.kind = "GLOBAL" /\ e.tok = ":=" /\ ~InFunction(S)
       THEN EmitName(TypePop(R), "SET_GLOBAL", e.name)
       ELSE Store(TypePop(R), e.name, declared, IF early THEN "LOCAL" ELSE p.kind,
                  IF early THEN slot ELSE p.arg, t),
       t)

\* `name += ...`: in a function an unknown name counts as an unset local.
Compound(S, e) ==
  LET declared == Explicit(S, e.name)
      p == FindName(S, e.name, ~declared)
      G == IF declared THEN EmitName(p.S, "GET_GLOBAL", e.name)
           ELSE IF p.kind = "GLOBAL" /\ InFunction(S) THEN Emit(p.S, "NIL") ELSE Get(p)
      lhs == IF ~declared /\ p.kind = "LOCAL" THEN Locals(p.S)[p.arg + 1].type ELSE "any"
      R == EmitOperator(Expression(TypePush(G, lhs), e.rhs), e.op, TRUE)
      t == TopType(R)
  IN TypePush(Store(TypePop(R), e.name, declared, p.kind, p.arg, t), t)

Unary(S, e) ==
  LET A == Operand(S, e.e)
      t == TopType(A)
      ops == [not |-> "NOT", neg |-> "NEGATE", len |-> "LENGTH"]
      type == [not |-> "bool", neg |-> IF t \in Numeric THEN t ELSE "any", len |-> "int"]
  IN TypePush(Emit(TypePop(A), ops[e.op]), type[e.op])

And(S, e) ==
  LET J == EmitJump(TypePop(Operand(S, e.l)), "JUMP_IF_FALSE")
  IN TypePush(TypePop(Patch(Operand(Emit(J, "POP"), e.r), Here(J))), "any")

Or(S, e) ==
  LET F == EmitJump(TypePop(Operand(S, e.l)), "JUMP_IF_FALSE")
      T == EmitJump(F, "JUMP")
      R == Operand(Emit(Patch(T, Here(F)), "POP"), e.r)
  IN TypePush(TypePop(Patch(R, Here(T))), "any")

Ternary(S, e) ==
  LET F == EmitJump(TypePop(Operand(S, e.cond)), "JUMP_IF_FALSE")
      T == EmitJump(Operand(Emit(F, "POP"), e.then), "JUMP")
      R == Patch(Operand(Emit(Patch(T, Here(F)), "POP"), e.else), Here(T))
      f == TopType(R)
      t == TopType(TypePop(R))
  IN TypePush(TypePop(TypePop(R)), IF t = f THEN t ELSE "any")

\* `e.name` and `e[key]`, read or assigned.
Index(S, e) ==
  LET A == Operand(S, e.e)
      K == IF e.key.k = "const" THEN EmitConstant(A, e.key.v) ELSE Expression(A, e.key)
      R == RightSide(K, e.rhs)
  IN IF e.rhs = <<>> THEN TypeReplace(Emit(K, "GET_TABLE"), A.top - 1, "any")
     ELSE TypeReplace(Emit(R, "SET_TABLE"), A.top - 1, TopType(R))

MetaIndex(S, e) ==
  LET A == Operand(S, e.e)
  IN TypeReplace(Emit(EmitConstant(A, e.name), "GET_META_TABLE"), A.top - 1, "any")

Bound(S, e, absent(_)) == IF e.k = "none" THEN absent(S) ELSE Expression(S, e)

Slice(S, e) ==
  LET A == Operand(S, e.e)
      Nil(B) == Emit(B, "NIL")
      One(B) == EmitConstant(B, Num(1))
      from == IF e.from.k = "none" THEN Nil(A) ELSE Operand(A, e.from)
  IN TypeReplace(Emit(Bound(Bound(from, e.to, Nil), e.step, One), "SLICE"), A.top - 1, "any")

Table(S, e) ==
  LET T == Entries(Emit(S, "NEW_TABLE"), e.entries)
  IN TypeReplace(T, S.top, "table")

\* `meta { ... }`
TableWithMeta(S, e) ==
  LET A == Operand(S, e.e)
      T == Entries(Emit(A, "NEW_TABLE"), e.entries)
  IN TypeReplace(Emit(T, "SET_METATABLE"), A.top - 1, "table")

\* In the header of a loop a range leaves its two ends on the stack.
Range_(S, e) ==
  LET A == Operand(Operand(S, e.from), e.to)
  IN IF A.inRange THEN [A EXCEPT !.wasRange = TRUE]
     ELSE TypePush(TypePop(TypePop(Emit(A, "RANGE"))), "any")

\* An f-string: one value per part, joined by BUILD_STRING.  `{name % n}` is
\* compiled without looking at the type of the name.
StringPart(S, e) ==
  IF e.k = "name" THEN GetNamed(S, e.name)
  ELSE IF e.k = "namemod" THEN Emit(EmitConstant(GetNamed(S, e.name), e.v), "IMOD")
  ELSE [Expression(S, e) EXCEPT !.errors = S.errors]
FString(S, e) ==
  LET P == FoldLeft(StringPart, S, e.parts)
  IN TypeReplace(IF e.parts = <<>> THEN EmitConstant(S, Str(""))
                 ELSE Emit1(P, "BUILD_STRING", Len(e.parts)), S.top, "str")

\* Arguments: positional ones, then a table of the named ones or one to spread.
Call(S, e) ==
  LET F == Operand(S, e.f)
      P == Expressions(F, e.args)
      named == Entries(Emit(P, "NEW_TABLE"), e.named)
      n == Len(e.args)
      A == CASE e.named # <<>>  -> Emit1(named, "CALL_NAMED", n + 1)
             [] e.spread # <<>> -> Emit1(Expressions(P, e.spread), "CALL_EXPAND", n)
             [] OTHER           -> EmitCall(P, n)
  IN TypeReplace(A, F.top - 1, "any")

----------------------------------------------------------------------------
(* Functions.                                                              *)

\* A default of true is stored as 1 and one of false as nil.
DefaultValue(v) == IF v = <<"bool", TRUE>> THEN Num(1) ELSE IF v = <<"bool", FALSE>> THEN <<"nil">> ELSE v

Parameter(S, p) == SetLocalType(DeclareVariable(S, p.name), LocalCount(S), p.type)

BeginFunction(S) == BeginScope([S EXCEPT !.fns = Append(@, NewCompiler("function"))])

\* The finished function becomes a constant of the enclosing one.
EndFunction(S, f) ==
  LET E == Emit(S, "RETURN")
      proto == [id |-> <<S.unit>> \o [n \in 1..(Len(S.fns) - 1) |-> Len(S.fns[n].code)],
                code |-> Code(E), upvalues |-> Current(E).upvalues, generator |-> Current(E).generator,
                arity |-> Len(f.params), variadic |-> f.variadic,
                self |-> f.params # <<>> /\ f.params[1].name = "self",
                names |-> [i \in DOMAIN f.params |-> f.params[i].name],
                types |-> [i \in DOMAIN f.params |-> f.params[i].type],
                defaults |-> SelectSeq([i \in DOMAIN f.params |-> DefaultValue(f.params[i].default)],
                                       LAMBDA v : v # <<"none">>)]
  IN Emit1(MakeConstant([E EXCEPT !.fns = Front(@)], <<"function">>), "CLOSURE", proto)

FunctionBody(S, f) ==
  LET P == FoldLeft(Parameter, BeginFunction(S), f.params)
  IN EndFunction(Block(MarkInitialized(P, Len(f.params)), f.body), f)

----------------------------------------------------------------------------
(* Iteration, shared by `for` and by comprehensions.                       *)

LoopVars(e) == IF Len(e.vars) = 1 /\ ~e.sigil THEN <<"(key)", e.vars[1]>> ELSE e.vars

\* The first expression after `in`, with ranges left open when the loop has one
\* plain variable.
Source(S, e) ==
  LET eligible == Len(e.vars) = 1 /\ ~e.sigil
      A == Expression([S EXCEPT !.inRange = eligible], e.source[1])
  IN [A EXCEPT !.inRange = FALSE, !.wasRange = eligible /\ @]

\* iterator, state and control value from the expressions after `in`.
Triple(S, e) ==
  LET n == Len(e.source)
      M == Emit1(NewLocal(S, "(iterable)"), "GET_LOCAL", LocalCount(S))
  IN IF n = 1 THEN Emit(M, IF e.sigil THEN "ITER_PREP_IPAIRS" ELSE "ITER_PREP")
     ELSE EmitTimes(FoldLeft(Expression, S, Tail(e.source)), "NIL", 3 - n)

\* Code at the top of each iteration: call the iterator, stop at nil, and make
\* the first value the new control value.
LoopHead(S, vars) ==
  LET iter == LocalCount(S)
      H == NewLocals(S, <<"(iter)", "(state)", "(control)">>)
      C == EmitCall(Emit1(Emit1(Emit1(H, "GET_LOCAL", iter), "GET_LOCAL", iter + 1),
                          "GET_LOCAL", iter + 2), 2)
      V == NewLocals(EmitTimes(C, "POP", 2 - Len(vars)), vars)
      X == EmitJump(EmitAll(Emit1(V, "GET_LOCAL", iter + 3), <<"NIL", "EQUAL">>), "JUMP_IF_TRUE")
  IN [S |-> Emit(Emit1(Emit1(Emit(X, "POP"), "GET_LOCAL", iter + 3), "SET_LOCAL", iter + 2), "POP"),
      start |-> Here(H) + 1, exit |-> Here(X)]

\* Code that drops the loop variables at the end of an iteration; the compiler
\* forgets them.
DropLoopVars(S, n) ==
  LET k == LocalCount(S)
  IN [S EXCEPT !.fns[Len(S.fns)].code =
                  @ \o [i \in 1..n |-> [op |-> IF Locals(S)[k + 1 - i].captured THEN "CLOSE_UPVALUE" ELSE "POP"]],
               !.fns[Len(S.fns)].locals = SubSeq(@, 1, k - n)]

\* The way out of the loop still has the loop variables and the test's result.
LoopExit(S, h, n) == EmitTimes(Patch(EmitLoop(S, h.start), h.exit), "POP", n + 1)

\* `expr for vars in source if cond`, in a function of its own.
Comprehension(S, e, Body(_)) ==
  LET A == Source(S, e)
      vars == LoopVars(e)
      h == LoopHead(IF A.wasRange THEN Emit(A, "RANGE") ELSE Triple(A, e), vars)
      F == EmitJump(Expression(h.S, e.cond), "JUMP_IF_FALSE")
      T == EmitJump(Body(Emit(F, "POP")), "JUMP")
      B == IF e.cond.k = "none" THEN Body(h.S) ELSE Patch(Emit(Patch(T, Here(F)), "POP"), Here(T))
  IN LoopExit(DropLoopVars(B, Len(vars)), h, Len(vars))

NoParams == [params |-> <<>>, variadic |-> FALSE]

\* `{expr for ...}` fills the local (list), under the next index or under a key.
TableComprehension(S, e) ==
  LET B == BeginFunction(S)
      list == LocalCount(B)
      L == NewLocal(EmitConstant(NewLocal(Emit(B, "NEW_TABLE"), "(list)"), Num(1)), "(idx)")
      Item(C) == EmitAll(OutOfLine(Emit1(Emit1(C, "GET_LOCAL", list), "GET_LOCAL", list + 1), e.value),
                         <<"SET_TABLE", "POP">>)
      Next(C) == Emit(Emit1(Emit(EmitConstant(Emit1(C, "GET_LOCAL", list + 1), Num(1)), "ADD"),
                            "SET_LOCAL", list + 1), "POP")
      Pair(C) == EmitAll(OutOfLine(OutOfLine(Emit1(C, "GET_LOCAL", list), e.key), e.value),
                         <<"SET_TABLE", "POP">>)
      Body(C) == IF e.key.k = "none" THEN Next(Item(C)) ELSE Pair(C)
      R == Emit1(Comprehension(L, e, Body), "GET_LOCAL", list)
  IN TypeReplace(EmitCall(EndFunction(R, NoParams), 0), S.top, "table")

\* `(expr for ...)` is a generator that yields each value.
GeneratorComprehension(S, e) ==
  LET B == BeginFunction(S)
      G == [B EXCEPT !.fns[Len(B.fns)].generator = TRUE]
      Body(C) == EmitCall(OutOfLine(Emit(EmitConstant(EmitName(C, "IMPORT", "coroutine"), Str("yield")),
                                         "GET_TABLE"), e.value), 1)
  IN TypePush(EmitCall(EndFunction(Comprehension(G, e, Body), NoParams), 0), "any")

Literals == [nil |-> "NIL", true |-> "TRUE", false |-> "FALSE"]

Operand(S, e) ==
  CASE e.k = "num"      -> TypePush(EmitConstant(S, Num(e.v)), e.type)
    [] e.k = "str"      -> TypePush(EmitConstant(S, Str(e.v)), "str")
    [] e.k = "literal"  -> TypePush(Emit(S, Literals[e.v]), IF e.v = "nil" THEN "any" ELSE "bool")
    [] e.k = "name"     -> Variable(S, e.name)
    [] e.k = "assign"   -> Assign(S, e)
    [] e.k = "compound" -> Compound(S, e)
    [] e.k = "group"    -> Expression(S, e.e)
    [] e.k = "unary"    -> Unary(S, e)
    [] e.k = "binary"   -> EmitOperator(Operand(Operand(S, e.l), e.r), e.op, FALSE)
    [] e.k = "and"      -> And(S, e)
    [] e.k = "or"       -> Or(S, e)
    [] e.k = "cond"     -> Ternary(S, e)
    [] e.k = "index"    -> Index(S, e)
    [] e.k = "meta"     -> MetaIndex(S, e)
    [] e.k = "slice"    -> Slice(S, e)
    [] e.k = "table"    -> Table(S, e)
    [] e.k = "metatable" -> TableWithMeta(S, e)
    [] e.k = "range"    -> Range_(S, e)
    [] e.k = "fstring"  -> FString(S, e)
    [] e.k = "call"     -> Call(S, e)
    [] e.k = "fn"       -> TypePush(FunctionBody(S, e), "any")
    [] e.k = "tablecomp" -> TableComprehension(S, e)
    [] e.k = "gencomp"  -> GeneratorComprehension(S, e)
    [] e.k = "import"   -> TypePush(EmitName(S, "IMPORT", e.name), "any")

----------------------------------------------------------------------------
(* Declarations. *)

\* Values for n names: one each, or one expression that leaves several.
Values(S, es, n) ==
  LET V == IF n = 1 /\ Len(es) > 1 THEN RightSide(S, es) ELSE FreshAll(S, es)
  IN EmitTimes(V, "NIL", IF es = <<>> THEN n ELSE IF Len(es) > 1 THEN n - Len(es) ELSE 0)

LocalDeclaration(S, s) ==
  LET n == Len(s.names)
  IN MarkInitialized(Values(FoldLeft(DeclareVariable, S, s.names), s.es, n), n)

DefineGlobal(S, name) == Emit1(S, "DEFINE_GLOBAL", name)

\* In a function `global x` only says what x means there.
GlobalDeclaration(S, s) ==
  LET Declare(A, name) == MakeConstant(IF InFunction(S) THEN DeclareExplicit(A, name) ELSE A, Name(name))
      G == FoldLeft(Declare, S, s.names)
  IN IF InFunction(S) /\ s.es = <<>> THEN G
     ELSE FoldRight(LAMBDA name, A : DefineGlobal(A, name), s.names, Values(G, s.es, Len(s.names)))

FunctionDeclaration(S, s) ==
  IF s.global THEN DefineGlobal(FunctionBody(MakeConstant(S, Name(s.name)), s.f), s.name)
  ELSE FunctionBody(MarkInitialized(DeclareVariable(S, s.name), 1), s.f)

\* The decorator next to the function is applied first.
Decorate(S, s) ==
  FoldRight(LAMBDA d, A : Emit(SetNamed(EmitCall(GetNamed(OutOfLine(A, d), s.fn.name), 1), s.fn.name), "POP"),
            s.decorators, FunctionDeclaration(S, s.fn))

Import(S, s) ==
  FoldLeft(LAMBDA A, name : MarkInitialized(EmitName(DeclareVariable(A, name), "IMPORT", name), 1), S, s.names)

FromImport(S, s) ==
  LET M == MakeConstant(S, Name(s.module))
      One(A, name) ==
        MarkInitialized(DeclareVariable(Emit(EmitConstant(Emit1(A, "IMPORT", s.module), Str(name)),
                                             "GET_TABLE"), name), 1)
  IN IF s.names = <<>> THEN Emit(Emit1(M, "IMPORT", s.module), "IMPORT_STAR")
     ELSE FoldLeft(One, M, s.names)

----------------------------------------------------------------------------
(* Statements. *)

ExpressionStatement(S, s) ==
  LET P == Emit(Fresh(S, s.e), "POP")
  IN Emit1(P, "ADJUST_STACK", LocalCount(P))

\* assign_name_from_stack: unlike `name = ...`, a local wins over `global name`.
AssignFromStack(name, S) ==
  LET p == Resolve(S, name, ~Explicit(S, name))
  IN Emit(IF p.kind = "LOCAL"
          THEN UpdateLocalType(Emit1(p.S, "SET_LOCAL", p.arg), p.arg, "any")
          ELSE Store(p.S, name, Explicit(S, name), p.kind, p.arg, "any"), "POP")

\* `a, b = ...`: names that are not locals yet become locals, all at once.
MultiAssignment(S, s) ==
  LET new == SelectSeq(s.names, LAMBDA name : ~Explicit(S, name) /\ ResolveLocal(Current(S), name) = -1)
      fresh == FoldLeft(LAMBDA seen, name : IF name \in Range(seen) THEN seen ELSE Append(seen, name), <<>>, new)
      D == NewLocals(S, fresh)
      V == FreshAll(Emit1(D, "ADJUST_STACK", LocalCount(D)), s.es)
      U == IF Len(s.es) > 1 THEN EmitTimes(V, "NIL", Len(s.names) - Len(s.es))
           ELSE [V EXCEPT !.fns[Len(V.fns)].code =
                   Append(@, [op |-> "UNPACK", base |-> LocalCount(V), count |-> Len(s.names)])]
      A == FoldRight(AssignFromStack, s.names, U)
  IN Emit1(A, "ADJUST_STACK", LocalCount(A))

RECURSIVE If(_, _)
If(S, s) ==
  LET F == EmitJump(Fresh(S, s.cond), "JUMP_IF_FALSE")
      T == EmitJump(Scoped(Emit(F, "POP"), s.then), "JUMP")
      E == Emit(Patch(T, Here(F)), "POP")
  IN Patch(IF s.elif # <<>> THEN If(E, s.elif[1]) ELSE Scoped(E, s.else), Here(T))

\* One `case`: compare, run the body, leave by a jump patched at the end.
Case(A, c, slot) ==
  LET F == EmitJump(Emit(Fresh(Emit1(A.S, "GET_LOCAL", slot), c.value), "EQUAL"), "JUMP_IF_FALSE")
      T == EmitJump(Scoped(Emit(F, "POP"), c.body), "JUMP")
  IN [S |-> Emit(Patch(T, Here(F)), "POP"), ends |-> Append(A.ends, Here(T))]

Match(S, s) ==
  LET slot == LocalCount(S)
      V == NewLocal(Fresh(BeginScope(S), s.e), "$match_value")
      C == FoldLeft(LAMBDA A, c : Case(A, c, slot), [S |-> V, ends |-> <<>>], s.cases)
  IN EndScope(PatchAll(Scoped(C.S, s.else), C.ends))

\* `except name if filter:`; an exception the filter refuses is thrown again.
Except(S, x) ==
  LET B == BeginScope(S)
      slot == LocalCount(B)
      N == IF x.name = "" THEN Emit(IF x.filter.k = "none" THEN B ELSE Error(B), "POP")
           ELSE Emit1(NewLocal(B, x.name), "SET_LOCAL", slot)
      F == EmitJump(Fresh(N, x.filter), "JUMP_IF_FALSE")
      T == EmitJump(Block(Emit(F, "POP"), x.body), "JUMP")
      R == Emit(Emit1(Emit(Patch(T, Here(F)), "POP"), "GET_LOCAL", slot), "THROW")
  IN Emit(EndScope(IF x.filter.k = "none" THEN Block(N, x.body) ELSE Patch(R, Here(T))), "END_TRY")

Try(S, s) ==
  LET T == EmitTry(S)
      try == Here(T)
      B == Emit(Scoped(T, s.body), "END_TRY")
      J == EmitJump(B, "JUMP")
      X == Except(PatchExcept(J, try), s.except[1])
      C == IF s.except = <<>> THEN B ELSE Patch(X, Here(J))
      F == Emit(Scoped(PatchFinally(C, try), s.finally[1]), "END_FINALLY")
  IN SetFlags(IF s.finally = <<>> THEN C ELSE F, try,
              (IF s.except = <<>> THEN {} ELSE {"except"}) \cup (IF s.finally = <<>> THEN {} ELSE {"finally"}))

\* The method of the context in slot ctx, called with the value in slot arg, if
\* there is one; otherwise its place on the stack is taken by what Absent emits.
ContextMethod(S, ctx, name, Args(_), n, Present(_), Absent(_)) ==
  LET M == Emit(EmitConstant(Emit1(S, "GET_LOCAL", ctx), Str(name)), "GET_TABLE")
      F == EmitJump(M, "JUMP_IF_FALSE")
      T == EmitJump(Present(EmitCall(Args(F), n)), "JUMP")
  IN Patch(Absent(Emit(Patch(T, Here(F)), "POP")), Here(T))

With(S, s) ==
  LET B == BeginScope(S)
      ctx == LocalCount(B)
      Same(A) == A
      Pop(A) == Emit(A, "POP")
      Context(A) == Emit1(A, "GET_LOCAL", ctx)
      E == ContextMethod(NewLocal(Fresh(B, s.e), "$with_ctx"), ctx, "__enter", Same, 0, Same, Context)
      p == Resolve(E, s.name, TRUE)
      N == CASE s.name = ""        -> Pop(E)
             [] s.name # "" /\ p.kind = "GLOBAL" -> NewLocal(E, s.name)
             [] OTHER              -> Pop(Set(p))
      ex == LocalCount(N)
      Exception(A) == Emit1(A, "GET_LOCAL", ex)
      T == EmitTry(NewLocal(Emit(N, "NIL"), "$with_ex"))
      try == Here(T)
      J == EmitJump(Emit(Scoped(T, s.body), "END_TRY"), "JUMP")
      R == Emit(Exception(Emit1(PatchExcept(J, try), "SET_LOCAL", ex)), "THROW")
      X == ContextMethod(PatchFinally(Patch(R, Here(J)), try), ctx, "__exit", Exception, 1, Pop, Same)
  IN EndScope(SetFlags(Emit(X, "END_FINALLY"), try, {"except", "finally"}))

----------------------------------------------------------------------------
(* Loops.  A loop context collects the jumps of `break` and `continue`.    *)

LoopContext(S, start, isFor, slots) ==
  [start |-> start, depth |-> Current(S).depth, for |-> isFor, slots |-> slots,
   breaks |-> <<>>, continues |-> <<>>]
PushLoop(S, loop) == [S EXCEPT !.fns[Len(S.fns)].loops = Append(@, loop)]
PopLoop(S) == [S EXCEPT !.fns[Len(S.fns)].loops = Front(@)]
TheLoop(S) == Last(Current(S).loops)
InLoop(S) == Current(S).loops # <<>>
AddJump(S, field) ==
  [S EXCEPT !.fns[Len(S.fns)].loops[Len(Current(S).loops)][field] = Append(@, Here(S))]

\* While leaves slots_to_pop of its context unset: it is whatever lay there.
While(S, s) ==
  LET L == PushLoop(S, LoopContext(S, Here(S) + 1, FALSE, S.junk))
      F == EmitJump(Fresh(L, s.cond), "JUMP_IF_FALSE")
      B == EmitLoop(Scoped(Emit(F, "POP"), s.body), TheLoop(L).start)
  IN PopLoop(PatchAll(Emit(Patch(B, Here(F)), "POP"), TheLoop(B).breaks))

\* `for x in a..b`: the ends of the range are the loop variable and its limit.
ForRange(S, s) ==
  LET V == NewLocals(S, <<s.vars[1], "(end)">>)
      slot == LocalCount(S)
      L == PushLoop(V, LoopContext(V, Here(V) + 1, TRUE, 0))
      P == [L EXCEPT !.fns[Len(L.fns)].code = Append(@, [op |-> "FOR_PREP", var |-> slot, to |-> 0])]
      B == Scoped(P, s.body)
      C == PatchAll(B, TheLoop(B).continues)
      E == [C EXCEPT !.fns[Len(C.fns)].code = Append(@, [op |-> "FOR_LOOP", var |-> slot, to |-> Here(P)])]
  IN EndScope(PopLoop(PatchAll(Patch(E, Here(P)), TheLoop(B).breaks)))

\* `for k, v in ...`; the loop variables belong to the scope of the loop.
ForIterator(S, s) ==
  LET vars == LoopVars(s)
      T == Triple(S, s)
      h == LoopHead(T, vars)
      L == PushLoop(h.S, LoopContext(S, h.start, TRUE, Len(vars)))
      B == Scoped(L, s.body)
      C == PatchAll(DropLoopVars(B, Len(vars)), TheLoop(B).continues)
  IN EndScope(PopLoop(PatchAll(LoopExit(C, h, Len(vars)), TheLoop(B).breaks)))

For(S, s) ==
  LET A == Source(TypeReset(BeginScope(S)), s)
  IN IF A.wasRange /\ Len(s.source) = 1 THEN ForRange(A, s)
     ELSE IF A.wasRange THEN EndScope(Error(A)) ELSE ForIterator(A, s)

\* Locals of the scopes inside the loop are dropped, then control leaves it.
Break(S) ==
  IF InLoop(S) THEN AddJump(EmitJump(DropLocals(S, TheLoop(S).depth), "JUMP"), "breaks")
  ELSE Error(S)

\* Variant: the loop variables stay on the stack.
ContinueKeepingVars(S) ==
  IF ~InLoop(S) THEN Error(S)
  ELSE LET D == DropLocals(S, TheLoop(S).depth)
       IN IF TheLoop(S).for THEN AddJump(EmitJump(D, "JUMP"), "continues")
          ELSE EmitLoop(D, TheLoop(S).start)

Continue(S) ==
  IF ~InLoop(S) THEN Error(S)
  ELSE LET D == EmitTimes(DropLocals(S, TheLoop(S).depth), "POP", TheLoop(S).slots)
       IN IF TheLoop(S).for THEN AddJump(EmitJump(D, "JUMP"), "continues")
          ELSE EmitLoop(D, TheLoop(S).start)

----------------------------------------------------------------------------
(* The simple statements. *)

PrintStatement(S, s) == Emit1(FreshAll(S, s.es), "PRINT", Len(s.es))

Return(S, s) ==
  CASE s.es = <<>>    -> EmitAll(S, <<"NIL", "RETURN">>)
    [] Len(s.es) = 1  -> Emit(FreshAll(S, s.es), "RETURN")
    [] OTHER          -> Emit1(FreshAll(S, s.es), "RETURN_N", Len(s.es))

\* What a resumption of the generator sends stays on the stack.
Yield(S, s) ==
  LET G == [S EXCEPT !.fns[Len(S.fns)].generator = TRUE]
      C == Emit(EmitConstant(EmitName(G, "GET_GLOBAL", "coroutine"), Str("yield")), "GET_TABLE")
  IN IF InFunction(S) THEN EmitCall(FreshAll(C, s.es), Len(s.es)) ELSE Error(S)

AssertStatement(S, s) ==
  LET F == EmitJump(Fresh(S, s.e), "JUMP_IF_FALSE")
      T == EmitJump(Emit(F, "POP"), "JUMP")
      E == Emit(Patch(T, Here(F)), "POP")
      M == IF s.message.k = "none" THEN EmitConstant(E, Str("assert failed")) ELSE Fresh(E, s.message)
  IN Patch(Emit(M, "THROW"), Here(T))

\* `del x` sets a local to nil; `del e[a][b]` removes the last key.
DeleteName(S, name) ==
  LET p == FindName(S, name, TRUE)
  IN IF p.kind = "GLOBAL" THEN Emit1(p.S, "DELETE_GLOBAL", name)
     ELSE Emit(Set([p EXCEPT !.S = Emit(@, "NIL")]), "POP")

DeleteKey(S, s) ==
  LET Step(A, key) == IF key.k = "const" THEN EmitConstant(A, key.v) ELSE Expression(A, key)
      Inner(A, key) == Emit(Step(A, key), "GET_TABLE")
      E == IF s.e.k = "name" THEN Variable(S, s.e.name) ELSE Expression(S, s.e)
  IN Emit(Step(FoldLeft(Inner, E, Front(s.keys)), Last(s.keys)), "DELETE_TABLE")

Statement(S, s) ==
  CASE s.k = "print"    -> PrintStatement(S, s)
    [] s.k = "expr"     -> ExpressionStatement(S, s)
    [] s.k = "local"    -> LocalDeclaration(S, s)
    [] s.k = "global"   -> GlobalDeclaration(S, s)
    [] s.k = "function" -> FunctionDeclaration(S, s)
    [] s.k = "decorated" -> Decorate(S, s)
    [] s.k = "importing" -> Import(S, s)
    [] s.k = "from"     -> FromImport(S, s)
    [] s.k = "multi"    -> MultiAssignment(S, s)
    [] s.k = "if"       -> If(S, s)
    [] s.k = "match"    -> Match(S, s)
    [] s.k = "try"      -> Try(S, s)
    [] s.k = "with"     -> With(S, s)
    [] s.k = "while"    -> While(S, s)
    [] s.k = "for"      -> For(S, s)
    [] s.k = "break"    -> Break(S)
    [] s.k = "continue" -> Continue(S)
    [] s.k = "return"   -> Return(S, s)
    [] s.k = "yield"    -> Yield(S, s)
    [] s.k = "throw"    -> Emit(Fresh(S, s.e), "THROW")
    [] s.k = "assert"   -> AssertStatement(S, s)
    [] s.k = "del"      -> IF s.keys = <<>> THEN DeleteName(S, s.e.name) ELSE DeleteKey(S, s)
    [] s.k = "gc"       -> Emit(S, "GC")

\* compile(): the script's function, or the fact that there were errors.
Compile(unit, program, junk) ==
  LET S == Block(NewState(unit, junk), program)
      E == EndFunction([S EXCEPT !.fns = <<NewCompiler("script")>> \o @], NoParams)
  IN [errors |-> S.errors, constants |-> Current(S).constants, fn |-> [Last(Code(E)).a EXCEPT !.id = <<unit>>]]
=============================================================================
