------------------------------ MODULE Programs ------------------------------
(***************************************************************************)
(* The programs the machine runs: a catalogue with one program per feature *)
(* of the language, each with what it should print and how it should end,  *)
(* and a family of loops left in every way from every kind of block, whose *)
(* results the module Meaning defines.  A program is its syntax tree.      *)
(***************************************************************************)
EXTENDS Integers, Sequences

CONSTANTS MaxIndexed   \* the limit of the compiler that the largest programs are made for

Tl == INSTANCE TLC
Me == INSTANCE Meaning

----------------------------------------------------------------------------
(* Trees, written short. *)

Absent == [k |-> "none"]
N(n) == [k |-> "num", v |-> n, type |-> "int"]
D(n) == [k |-> "num", v |-> n, type |-> "float"]
T(s) == [k |-> "str", v |-> s]
L(v) == [k |-> "literal", v |-> v]
V(name) == [k |-> "name", name |-> name]
P(e) == [k |-> "group", e |-> e]
U(op, e) == [k |-> "unary", op |-> op, e |-> e]
O(l, op, r) == [k |-> "binary", op |-> op, l |-> l, r |-> r]
And(l, r) == [k |-> "and", l |-> l, r |-> r]
Or(l, r) == [k |-> "or", l |-> l, r |-> r]
Cond(c, a, b) == [k |-> "cond", cond |-> c, then |-> a, else |-> b]
Is(name, es) == [k |-> "assign", name |-> name, tok |-> "=", rhs |-> es]
Walrus(name, e) == [k |-> "assign", name |-> name, tok |-> ":=", rhs |-> <<e>>]
Up(name, op, e) == [k |-> "compound", name |-> name, op |-> op, rhs |-> e]
C(f, args) == [k |-> "call", f |-> f, args |-> args, named |-> <<>>, spread |-> <<>>]
CN(f, args, named) == [C(f, args) EXCEPT !.named = named]
CS(f, args, e) == [C(f, args) EXCEPT !.spread = <<e>>]
Key(s) == [k |-> "const", v |-> <<"str", s>>]
At(key, value) == [key |-> key, value |-> value]
Dot(e, name, rhs) == [k |-> "index", e |-> e, key |-> Key(name), rhs |-> rhs]
Ix(e, key, rhs) == [k |-> "index", e |-> e, key |-> key, rhs |-> rhs]
MetaOf(e, name) == [k |-> "meta", e |-> e, name |-> <<"str", name>>]
Sl(e, a, b, s) == [k |-> "slice", e |-> e, from |-> a, to |-> b, step |-> s]
Tab(entries) == [k |-> "table", entries |-> entries]
MT(e, entries) == [k |-> "metatable", e |-> e, entries |-> entries]
R(a, b) == [k |-> "range", from |-> a, to |-> b]
FS(parts) == [k |-> "fstring", parts |-> parts]
Comp(k, vars, sigil, source, cond, key, value) ==
  [k |-> k, vars |-> vars, sigil |-> sigil, source |-> <<source>>, cond |-> cond, key |-> key,
    value |-> value]
Imp(name) == [k |-> "import", name |-> name]
A(name) == [name |-> name, type |-> "any", default |-> <<"none">>]

Do(e) == [k |-> "expr", e |-> e]
Say(es) == [k |-> "print", es |-> es]
Local(names, es) == [k |-> "local", names |-> names, es |-> es]
Global(names, es) == [k |-> "global", names |-> names, es |-> es]
Fn(name, global, params, variadic, body) ==
  [k |-> "function", name |-> name, global |-> global,
   f |-> [params |-> params, variadic |-> variadic, body |-> body]]
Deco(ds, fn) == [k |-> "decorated", decorators |-> ds, fn |-> fn]
Multi(names, es) == [k |-> "multi", names |-> names, es |-> es]
If(c, then, elif, else) == [k |-> "if", cond |-> c, then |-> then, elif |-> elif, else |-> else]
Match(e, cases, else) == [k |-> "match", e |-> e, cases |-> cases, else |-> else]
Try(body, except, finally) == [k |-> "try", body |-> body, except |-> except, finally |-> finally]
With(e, name, body) == [k |-> "with", e |-> e, name |-> name, body |-> body]
While(c, body) == [k |-> "while", cond |-> c, body |-> body]
For(vars, sigil, source, body) ==
  [k |-> "for", vars |-> vars, sigil |-> sigil, source |-> source, body |-> body]
Ret(es) == [k |-> "return", es |-> es]
Yield(es) == [k |-> "yield", es |-> es]
Throw(e) == [k |-> "throw", e |-> e]
Assert(e, m) == [k |-> "assert", e |-> e, message |-> m]
Del(e, keys) == [k |-> "del", e |-> e, keys |-> keys]
Importing(names) == [k |-> "importing", names |-> names]
From(module, names) == [k |-> "from", module |-> module, names |-> names]

----------------------------------------------------------------------------
(* The modules a program can import. *)

counter_module ==
    <<Say(<<T("loading"), V("__name"), V("__main")>>),
      Local(<<"n">>, <<N(1)>>),
      Local(<<"e">>, <<Tab(<<At(T("n"), V("n")), At(T("twice"), N(2))>>)>>),
      Ret(<<V("e")>>)>>
outer_module ==
    <<Importing(<<"counter">>),
      Say(<<T("outer"), V("__name"), V("__main")>>),
      Ret(<<Tab(<<At(T("inner"), Dot(V("counter"), "n", <<>>))>>)>>)>>
bad_module ==
    <<Throw(T("bad module"))>>
\* Functions are called and return, and one imports, while the module loads.
works_module ==
    <<Fn("twice", FALSE, <<A("x")>>, FALSE, <<Ret(<<O(V("x"), "mul", N(2))>>)>>),
      Fn("get", FALSE, <<>>, FALSE, <<Importing(<<"counter">>), Say(<<V("__name"), V("__main")>>),
        Ret(<<Dot(V("counter"), "n", <<>>)>>)>>),
      Say(<<C(V("twice"), <<N(2)>>), V("__name"), V("__main")>>),
      Say(<<C(V("get"), <<>>), V("__name"), V("__main")>>),
      Ret(<<Tab(<<At(T("v"), C(V("twice"), <<N(3)>>)), At(T("get"), V("get"))>>)>>)>>
\* An import fails in a function, and the module goes on.
careful_module ==
    <<Fn("attempt", FALSE, <<>>, FALSE, <<Try(<<Importing(<<"bad">>)>>, <<[name |-> "e",
        filter |-> Absent, body |-> <<Say(<<V("e")>>)>>]>>, <<>>), Ret(<<N(1)>>)>>),
      Ret(<<Tab(<<At(T("v"), C(V("attempt"), <<>>))>>)>>)>>
Files == [counter |-> counter_module, outer |-> outer_module, bad |-> bad_module,
  works |-> works_module, careful |-> careful_module]

----------------------------------------------------------------------------
(* The catalogue. *)

\* Arithmetic on ints, whose types the compiler knows.
arith_program == [
  body |->
    <<Local(<<"a", "b">>, <<N(7), N(2)>>),
      Say(<<O(V("a"), "add", V("b")), O(V("a"), "sub", V("b")), O(V("a"), "mul", V("b")),
        O(V("a"), "mod", V("b"))>>),
      Local(<<"s">>, <<T("x")>>),
      Say(<<O(V("s"), "add", T("y")), O(O(N(2), "power", N(3)), "sub", O(N(7), "intdiv",
        N(2)))>>),
      Say(<<O(N(3), "mul", P(O(N(1), "add", N(2))))>>),
      Local(<<"c">>, <<O(V("a"), "add", N(0))>>),
      Do(Up("c", "add", N(5))),
      Do(Up("c", "mul", N(2))),
      Do(Up("c", "sub", N(4))),
      Do(Up("c", "mod", N(7))),
      Say(<<V("c")>>),
      Say(<<U("neg", P(O(V("a"), "mul", N(2)))), U("not", V("a")), U("len", V("s"))>>),
      Local(<<"d">>, <<O(V("b"), "add", V("c"))>>),
      Do(Is("d", <<O(V("c"), "mul", V("b"))>>)),
      Say(<<V("d"), O(U("neg", N(3)), "mul", N(2))>>)>>,
  out |-> <<"9 5 14 1", "xy 5", "9", "6", "-14 false 1", "12 -6">>, ends |-> "done"]

\* Locals that get values of other types: in a row, in one branch, in a loop.
retyped_program == [
  body |->
    <<Fn("f", FALSE, <<A("c"), [name |-> "a", type |-> "int", default |-> <<"none">>]>>, FALSE,
        <<Do(Is("n", <<N(3)>>)), Say(<<O(V("n"), "add", V("a"))>>),
          If(V("c"), <<Do(Is("n", <<T("s")>>)), Say(<<O(V("n"), "add", V("n"))>>)>>, <<>>,
            <<Say(<<O(V("n"), "add", N(4))>>)>>),
          Do(Is("n", <<N(5)>>)), Say(<<O(V("n"), "sub", V("a"))>>),
          Do(Is("a", <<T("w")>>)), Say(<<O(V("a"), "add", V("a"))>>),
          Do(Is("m", <<N(1)>>)),
          Fn("up", FALSE, <<>>, FALSE, <<Do(Is("m", <<O(V("m"), "add", N(2))>>)), Ret(<<V("m")>>)>>),
          Do(C(V("up"), <<>>)), Say(<<O(V("m"), "add", N(1))>>),
          For(<<"i">>, FALSE, <<R(N(1), N(2))>>,
            <<Do(Is("m", <<T("m")>>)), Say(<<O(V("m"), "add", V("m"))>>)>>),
          Ret(<<V("m")>>)>>),
      Say(<<C(V("f"), <<L("true"), N(1)>>)>>),
      Say(<<C(V("f"), <<L("false"), N(2)>>)>>)>>,
  out |-> <<"4", "ss", "4", "ww", "4", "mm", "mm", "m", "5", "7", "3", "ww", "4", "mm", "mm", "m">>,
    ends |-> "done"]

\* Locals that get values of other types where control comes another way than
\* down the text: in a loop, in the first of two branches, in a closure.  What
\* should be added is a string and a number, which is an error.
retypedloop_program == [
  body |->
    <<Fn("f", FALSE, <<[name |-> "a", type |-> "int", default |-> <<"none">>]>>, FALSE,
        <<For(<<"i">>, FALSE, <<R(N(1), N(2))>>,
            <<Say(<<O(V("a"), "add", N(1))>>), Do(Is("a", <<T("s")>>))>>)>>),
      Do(C(V("f"), <<N(3)>>))>>,
  out |-> <<"4">>, ends |-> "failed"]
retypedbranch_program == [
  body |->
    <<Fn("f", FALSE, <<A("c")>>, FALSE,
        <<Do(Is("n", <<N(3)>>)),
          If(V("c"), <<Do(Is("n", <<T("s")>>))>>, <<>>, <<Do(Is("n", <<N(4)>>))>>),
          Say(<<O(V("n"), "add", N(1))>>)>>),
      Do(C(V("f"), <<L("true")>>))>>,
  out |-> <<>>, ends |-> "failed"]
retypedclosure_program == [
  body |->
    <<Fn("f", FALSE, <<>>, FALSE,
        <<Do(Is("n", <<N(3)>>)), Fn("g", FALSE, <<>>, FALSE, <<Do(Is("n", <<T("s")>>))>>),
          Do(C(V("g"), <<>>)), Say(<<O(V("n"), "add", N(1))>>)>>),
      Do(C(V("f"), <<>>))>>,
  out |-> <<>>, ends |-> "failed"]

\* Floats and ints together.
floats_program == [
  body |->
    <<Local(<<"f">>, <<D(2)>>),
      Local(<<"n">>, <<N(3)>>),
      Say(<<O(V("f"), "add", V("n")), O(V("f"), "mul", V("f")), O(V("n"), "sub", V("f"))>>),
      Local(<<"g">>, <<O(V("f"), "add", N(1))>>),
      Say(<<V("g")>>)>>,
  out |-> <<"5 4 1", "3">>, ends |-> "done"]

\* While and range loops, with continue and break.
loops_program == [
  body |->
    <<Local(<<"n">>, <<N(0)>>),
      While(O(V("n"), "lt", N(3)), <<Do(Is("n", <<O(V("n"), "add", N(1))>>)), If(O(V("n"), "eq",
        N(2)), <<Say(<<T("two")>>)>>, <<>>, <<Say(<<V("n")>>)>>)>>),
      For(<<"i">>, FALSE, <<R(N(1), N(4))>>, <<If(O(V("i"), "eq", N(2)), <<[k |-> "continue"]>>,
        <<>>, <<>>), If(O(V("i"), "eq", N(4)), <<[k |-> "break"]>>, <<>>, <<>>),
        Say(<<V("i")>>)>>),
      For(<<"i">>, FALSE, <<R(N(3), N(2))>>, <<Say(<<V("i")>>)>>),
      For(<<"i">>, FALSE, <<R(V("n"), N(5))>>, <<Say(<<O(V("i"), "mul", V("n"))>>)>>)>>,
  out |-> <<"1", "two", "3", "1", "3", "9", "12", "15">>, ends |-> "done"]

\* Tables as arrays and as maps; del.
tables_program == [
  body |->
    <<Local(<<"t">>, <<Tab(<<At(Absent, N(10)), At(Absent, N(20)), At(T("k"), N(5))>>)>>),
      Do(Ix(V("t"), N(3), <<N(30)>>)),
      Say(<<Ix(V("t"), N(1), <<>>), Ix(V("t"), U("neg", N(1)), <<>>), Dot(V("t"), "k", <<>>),
        Dot(V("t"), "z", <<>>)>>),
      Do(O(V("t"), "append", N(40))),
      Say(<<U("len", V("t"))>>),
      For(<<"i", "v">>, FALSE, <<V("t")>>, <<Say(<<V("i"), V("v")>>)>>),
      Del(V("t"), <<[k |-> "const", v |-> <<"str", "k">>]>>),
      Say(<<Dot(V("t"), "k", <<>>)>>),
      Say(<<O(V("t"), "has", N(20)), O(N(99), "in", V("t")), O(N(20), "notin", V("t"))>>),
      Do(Ix(V("t"), N(7), <<N(1)>>)),
      Say(<<Ix(V("t"), N(7), <<>>)>>),
      Del(V("t"), <<N(4)>>),
      Say(<<Ix(V("t"), N(4), <<>>)>>)>>,
  out |-> <<"10 30 5 nil", "5", "1 10", "2 20", "3 30", "4 40", "k 5", "nil", "true false false",
    "1", "nil">>, ends |-> "done"]

\* Iteration by index.
ipairs_program == [
  body |->
    <<Local(<<"t">>, <<Tab(<<At(Absent, N(4)), At(Absent, N(5)), At(Absent, N(6))>>)>>),
      For(<<"i", "v">>, TRUE, <<V("t")>>, <<Say(<<V("i"), V("v")>>), If(O(V("i"), "eq", N(2)),
        <<[k |-> "continue"]>>, <<>>, <<>>)>>),
      For(<<"v">>, FALSE, <<V("t")>>, <<Say(<<V("v")>>)>>)>>,
  out |-> <<"1 4", "2 5", "3 6", "4", "5", "6">>, ends |-> "done"]

\* Several values returned and assigned.
multi_program == [
  body |->
    <<Fn("two", FALSE, <<A("a"), A("b")>>, FALSE, <<Ret(<<V("b"), V("a")>>)>>),
      Multi(<<"x", "y">>, <<C(V("two"), <<N(1), N(2)>>)>>),
      Say(<<V("x"), V("y")>>),
      Multi(<<"x", "y">>, <<V("y"), V("x")>>),
      Say(<<V("x"), V("y")>>),
      Multi(<<"p", "q">>, <<Tab(<<At(Absent, N(8)), At(Absent, N(9))>>)>>),
      Say(<<V("p"), V("q")>>),
      Local(<<"m", "n">>, <<C(V("two"), <<N(3), N(4)>>)>>),
      Say(<<V("m"), V("n")>>),
      Multi(<<"p", "z">>, <<V("x")>>),
      Say(<<V("p"), V("z")>>)>>,
  out |-> <<"2 1", "1 2", "8 9", "4 3", "1 nil">>, ends |-> "done"]

\* A closure keeps its variable, one per iteration.
closures_program == [
  body |->
    <<Fn("counter", FALSE, <<>>, FALSE, <<Local(<<"n">>, <<N(0)>>), Fn("inc", FALSE, <<>>, FALSE,
        <<Do(Up("n", "add", N(1))), Ret(<<V("n")>>)>>), Ret(<<V("inc")>>)>>),
      Local(<<"c">>, <<C(V("counter"), <<>>)>>),
      Local(<<"d">>, <<C(V("counter"), <<>>)>>),
      Say(<<C(V("c"), <<>>), C(V("c"), <<>>), C(V("d"), <<>>)>>),
      Local(<<"fs">>, <<Tab(<<>>)>>),
      For(<<"i">>, FALSE, <<R(N(1), N(2))>>, <<Local(<<"j">>, <<O(V("i"), "mul", N(10))>>),
        Fn("f", FALSE, <<>>, FALSE, <<Ret(<<V("j")>>)>>), Do(Ix(V("fs"), V("i"), <<V("f")>>))>>),
      Say(<<C(Ix(V("fs"), N(1), <<>>), <<>>), C(Ix(V("fs"), N(2), <<>>), <<>>)>>)>>,
  out |-> <<"1 2 1", "10 20">>, ends |-> "done"]

\* Two closures share a variable; a closure in a closure.
shared_program == [
  body |->
    <<Fn("pair", FALSE, <<>>, FALSE, <<Local(<<"v">>, <<N(1)>>), Fn("get", FALSE, <<>>, FALSE,
        <<Ret(<<V("v")>>)>>), Fn("set", FALSE, <<A("x")>>, FALSE, <<Do(Is("v", <<V("x")>>))>>),
        Ret(<<V("get"), V("set")>>)>>),
      Multi(<<"g", "s">>, <<C(V("pair"), <<>>)>>),
      Do(C(V("s"), <<N(7)>>)),
      Say(<<C(V("g"), <<>>)>>),
      Fn("outer", FALSE, <<>>, FALSE, <<Local(<<"a">>, <<N(1)>>), Fn("mid", FALSE, <<>>, FALSE,
        <<Fn("inner", FALSE, <<>>, FALSE, <<Do(Up("a", "add", N(1))), Ret(<<V("a")>>)>>),
        Ret(<<C(V("inner"), <<>>)>>)>>), Do(C(V("mid"), <<>>)), Ret(<<V("a")>>)>>),
      Say(<<C(V("outer"), <<>>)>>)>>,
  out |-> <<"7", "2">>, ends |-> "done"]

\* Defaults, named arguments, rest, spread, opts.
args_program == [
  body |->
    <<Fn("f", FALSE, <<A("a"), [name |-> "b", type |-> "any", default |-> <<"num", 2>>],
        [name |-> "c", type |-> "int", default |-> <<"num", 3>>]>>, FALSE, <<Ret(<<O(O(V("a"),
        "mul", N(100)), "add", O(O(V("b"), "mul", N(10)), "add", V("c")))>>)>>),
      Say(<<C(V("f"), <<N(1)>>), C(V("f"), <<N(1), N(5)>>), C(V("f"), <<N(1), N(5), N(6)>>)>>),
      Say(<<CN(V("f"), <<N(1)>>, <<At(T("c"), N(9))>>)>>),
      Fn("v", FALSE, <<A("a"), A("rest")>>, TRUE, <<Ret(<<U("len", V("rest"))>>)>>),
      Say(<<C(V("v"), <<N(1)>>), C(V("v"), <<N(1), N(2), N(3)>>)>>),
      Local(<<"xs">>, <<Tab(<<At(Absent, N(4)), At(Absent, N(5))>>)>>),
      Say(<<CS(V("f"), <<N(1)>>, V("xs"))>>),
      Say(<<CS(V("f"), <<>>, Tab(<<At(Absent, N(1)), At(T("c"), N(7))>>))>>),
      Fn("o", FALSE, <<A("a"), A("opts")>>, FALSE, <<Ret(<<Dot(V("opts"), "z", <<>>)>>)>>),
      Say(<<CN(V("o"), <<N(1)>>, <<At(T("z"), N(8))>>)>>)>>,
  out |-> <<"123 153 156", "129", "0 2", "145", "127", "8">>, ends |-> "done"]

\* Calls with wrong arguments throw.
argerrors_program == [
  body |->
    <<Fn("f", FALSE, <<A("a"), [name |-> "b", type |-> "int", default |-> <<"none">>]>>, FALSE,
        <<Ret(<<V("a")>>)>>),
      Try(<<Do(C(V("f"), <<N(1)>>))>>, <<[name |-> "e", filter |-> Absent,
        body |-> <<Say(<<T("few")>>)>>]>>, <<>>),
      Try(<<Do(C(V("f"), <<N(1), T("x")>>))>>, <<[name |-> "e", filter |-> Absent,
        body |-> <<Say(<<T("type")>>)>>]>>, <<>>),
      Try(<<Do(C(V("f"), <<N(1), N(2), N(3)>>))>>, <<[name |-> "e", filter |-> Absent,
        body |-> <<Say(<<T("many")>>)>>]>>, <<>>),
      Try(<<Do(C(V("nil1"), <<>>))>>, <<[name |-> "e", filter |-> Absent,
        body |-> <<Say(<<T("undef")>>)>>]>>, <<>>),
      Try(<<Do(C(P(N(5)), <<>>))>>, <<[name |-> "e", filter |-> Absent,
        body |-> <<Say(<<T("call")>>)>>]>>, <<>>)>>,
  out |-> <<"few", "type", "many", "undef", "call">>, ends |-> "done"]

\* Exceptions: catch, filter, finally, rethrow.
try_program == [
  body |->
    <<Fn("f", FALSE, <<A("n")>>, FALSE, <<If(O(V("n"), "eq", N(0)), <<Throw(T("zero"))>>, <<>>,
        <<>>), Ret(<<V("n")>>)>>),
      Try(<<Say(<<C(V("f"), <<N(1)>>)>>), Say(<<C(V("f"), <<N(0)>>)>>)>>, <<[name |-> "e",
        filter |-> Absent, body |-> <<Say(<<V("e")>>)>>]>>, <<<<Say(<<T("fin")>>)>>>>),
      Try(<<Try(<<Throw(N(1))>>, <<[name |-> "e", filter |-> O(V("e"), "eq", N(2)),
        body |-> <<Say(<<T("no")>>)>>]>>, <<>>)>>, <<[name |-> "e", filter |-> Absent,
        body |-> <<Say(<<T("outer"), V("e")>>)>>]>>, <<>>),
      Try(<<Try(<<Throw(N(3))>>, <<>>, <<<<Say(<<T("inner")>>)>>>>)>>, <<[name |-> "e",
        filter |-> Absent, body |-> <<Say(<<V("e")>>)>>]>>, <<>>),
      Try(<<Say(<<T("ok")>>)>>, <<[name |-> "", filter |-> Absent,
        body |-> <<Say(<<T("bad")>>)>>]>>, <<>>),
      Try(<<Throw(N(1))>>, <<[name |-> "", filter |-> Absent, body |-> <<Say(<<T("quiet")>>)>>]>>,
        <<>>),
      For(<<"i">>, FALSE, <<R(N(1), N(3))>>, <<Try(<<If(O(V("i"), "eq", N(2)), <<Throw(V("i"))>>,
        <<>>, <<>>), Say(<<V("i")>>)>>, <<[name |-> "e", filter |-> Absent,
        body |-> <<Say(<<T("e"), V("e")>>)>>]>>, <<>>)>>)>>,
  out |-> <<"1", "zero", "fin", "outer 1", "inner", "3", "ok", "quiet", "1", "e 2", "3">>,
    ends |-> "done"]

\* An exception nobody catches.
uncaught_program == [
  body |->
    <<Say(<<N(1)>>),
      Fn("f", FALSE, <<>>, FALSE, <<Local(<<"x">>, <<N(1)>>), Throw(V("x"))>>),
      Try(<<Do(C(V("f"), <<>>))>>, <<>>, <<<<Say(<<T("fin")>>)>>>>),
      Say(<<N(2)>>)>>,
  out |-> <<"1", "fin">>, ends |-> "failed"]

\* with: __enter and __exit.
with_program == [
  body |->
    <<Fn("mk", FALSE, <<>>, FALSE, <<Local(<<"t">>, <<Tab(<<>>)>>), Local(<<"r">>, <<Tab(<<>>)>>),
        Fn("en", FALSE, <<>>, FALSE, <<Say(<<T("enter")>>), Ret(<<N(5)>>)>>), Fn("ex", FALSE,
        <<A("e")>>, FALSE, <<Say(<<T("exit"), V("e")>>)>>), Do(Dot(V("r"), "__enter",
        <<V("en")>>)), Do(Dot(V("r"), "__exit", <<V("ex")>>)), Ret(<<V("r")>>)>>),
      With(C(V("mk"), <<>>), "v", <<Say(<<V("v")>>)>>),
      Try(<<With(C(V("mk"), <<>>), "v", <<Throw(T("boom"))>>)>>, <<[name |-> "e",
        filter |-> Absent, body |-> <<Say(<<T("caught"), V("e")>>)>>]>>, <<>>),
      With(Tab(<<At(Absent, N(1))>>), "", <<Say(<<T("plain")>>)>>)>>,
  out |-> <<"enter", "5", "exit nil", "enter", "exit boom", "caught boom", "plain">>,
    ends |-> "done"]

\* match.
match_program == [
  body |->
    <<Fn("w", FALSE, <<A("n")>>, FALSE, <<Match(V("n"), <<[value |-> N(1),
        body |-> <<Say(<<T("one")>>)>>], [value |-> T("a"), body |-> <<Local(<<"z">>, <<N(1)>>),
        Say(<<T("let"), V("z")>>)>>]>>, <<Say(<<T("else")>>)>>)>>),
      Do(C(V("w"), <<N(1)>>)),
      Do(C(V("w"), <<T("a")>>)),
      Do(C(V("w"), <<N(3)>>))>>,
  out |-> <<"one", "let 1", "else">>, ends |-> "done"]

\* Short-circuit operators.
logic_program == [
  body |->
    <<Say(<<And(N(1), N(2)), And(N(0), N(2)), Or(N(0), N(3)), Or(N(4), N(5)), Cond(O(N(1), "lt",
        N(2)), T("y"), T("n"))>>),
      Local(<<"k">>, <<L("nil")>>),
      If(P(Walrus("k", N(3))), <<Say(<<V("k")>>)>>, <<>>, <<>>),
      Say(<<O(N(2), "ge", N(2)), O(N(1), "gt", N(2)), O(N(1), "le", N(0)), O(N(1), "ne", N(2))>>),
      Local(<<"n">>, <<N(10)>>),
      Do(Is("n", <<O(P(Or(N(4), V("n"))), "add", N(1))>>)),
      Say(<<V("n")>>),
      If(N(0), <<Say(<<N(1)>>)>>, <<If(Tab(<<>>), <<Say(<<N(2)>>)>>, <<>>, <<Say(<<N(3)>>)>>)>>,
        <<Say(<<N(9)>>)>>)>>,
  out |-> <<"2 0 3 4 y", "3", "true false false true", "5", "3">>, ends |-> "done"]

\* Metamethods of operators, of reading and of calling.
meta_program == [
  body |->
    <<Fn("add", FALSE, <<A("a"), A("b")>>, FALSE, <<Ret(<<O(Dot(V("a"), "v", <<>>), "add",
        Dot(V("b"), "v", <<>>))>>)>>),
      Fn("idx", FALSE, <<A("t"), A("k")>>, FALSE, <<Ret(<<T("missing")>>)>>),
      Fn("call", FALSE, <<A("self"), A("x")>>, FALSE, <<Ret(<<O(V("x"), "mul", Dot(V("self"), "v",
        <<>>))>>)>>),
      Fn("lt", FALSE, <<A("a"), A("b")>>, FALSE, <<Ret(<<O(Dot(V("a"), "v", <<>>), "lt",
        Dot(V("b"), "v", <<>>))>>)>>),
      Fn("eq", FALSE, <<A("a"), A("b")>>, FALSE, <<Ret(<<O(Dot(V("a"), "v", <<>>), "eq",
        Dot(V("b"), "v", <<>>))>>)>>),
      Local(<<"m">>, <<Tab(<<At(T("__add"), V("add")), At(T("__index"), V("idx")), At(T("__call"),
        V("call")), At(T("__lt"), V("lt")), At(T("__eq"), V("eq")), At(T("__sub"),
        V("add"))>>)>>),
      Local(<<"a">>, <<MT(V("m"), <<At(T("v"), N(3))>>)>>),
      Local(<<"b">>, <<MT(V("m"), <<At(T("v"), N(4))>>)>>),
      Say(<<Dot(V("a"), "zz", <<>>)>>),
      Say(<<C(V("a"), <<N(5)>>)>>),
      Say(<<O(V("a"), "lt", V("b")), O(V("a"), "gt", V("b")), O(V("a"), "eq", V("b"))>>),
      Local(<<"s">>, <<N(0)>>),
      Do(Is("s", <<O(V("a"), "sub", V("b"))>>)),
      Say(<<V("s")>>)>>,
  out |-> <<"missing", "15", "true false false", "7">>, ends |-> "done"]

\* A class: __new, methods, self.
class_program == [
  body |->
    <<Local(<<"Point">>, <<Tab(<<>>)>>),
      Do(Dot(V("Point"), "__index", <<V("Point")>>)),
      Fn("new", FALSE, <<A("c"), A("t")>>, FALSE, <<Do(Dot(V("t"), "y", <<N(0)>>)),
        Ret(<<V("t")>>)>>),
      Do(Dot(V("Point"), "__new", <<V("new")>>)),
      Fn("sum", FALSE, <<A("self"), A("k")>>, FALSE, <<Ret(<<O(O(Dot(V("self"), "x", <<>>), "add",
        Dot(V("self"), "y", <<>>)), "add", V("k"))>>)>>),
      Do(Dot(V("Point"), "sum", <<V("sum")>>)),
      Local(<<"p">>, <<MT(V("Point"), <<At(T("x"), N(2))>>)>>),
      Say(<<C(Dot(V("p"), "sum", <<>>), <<N(5)>>)>>),
      Do(Dot(V("p"), "y", <<N(7)>>)),
      Local(<<"f">>, <<Dot(V("p"), "sum", <<>>)>>),
      Say(<<C(V("f"), <<N(1)>>)>>),
      Say(<<C(MetaOf(V("p"), "sum"), <<N(2)>>)>>)>>,
  out |-> <<"7", "10", "11">>, ends |-> "done"]

\* __newindex.
newindex_program == [
  body |->
    <<Fn("ni", FALSE, <<A("t"), A("k"), A("v")>>, FALSE, <<Say(<<T("set"), V("k"), V("v")>>)>>),
      Local(<<"m">>, <<Tab(<<At(T("__newindex"), V("ni"))>>)>>),
      Local(<<"t">>, <<MT(V("m"), <<At(T("a"), N(1))>>)>>),
      Do(Dot(V("t"), "a", <<N(2)>>)),
      Do(Dot(V("t"), "b", <<N(3)>>)),
      Say(<<Dot(V("t"), "a", <<>>), Dot(V("t"), "b", <<>>)>>),
      Local(<<"o">>, <<Tab(<<>>)>>),
      Local(<<"u">>, <<MT(Tab(<<At(T("__newindex"), V("o"))>>), <<>>)>>),
      Do(Dot(V("u"), "c", <<N(4)>>)),
      Say(<<Dot(V("o"), "c", <<>>), Dot(V("u"), "c", <<>>)>>)>>,
  out |-> <<"set b 3", "2 nil", "4 nil">>, ends |-> "done"]

\* Slices and negative indexes.
slices_program == [
  body |->
    <<Local(<<"t">>, <<Tab(<<At(Absent, N(1)), At(Absent, N(2)), At(Absent, N(3)), At(Absent,
        N(4)), At(Absent, N(5))>>)>>),
      Local(<<"s">>, <<Sl(V("t"), N(2), N(4), Absent)>>),
      Say(<<Ix(V("s"), N(1), <<>>), U("len", V("s"))>>),
      Local(<<"r">>, <<Sl(V("t"), Absent, Absent, U("neg", N(2)))>>),
      Say(<<Ix(V("r"), N(1), <<>>), Ix(V("r"), N(2), <<>>), Ix(V("r"), N(3), <<>>)>>),
      Local(<<"w">>, <<T("hello")>>),
      Say(<<Sl(V("w"), N(2), N(3), Absent), Sl(V("w"), U("neg", N(3)), Absent, Absent), Sl(V("w"),
        N(1), U("neg", N(1)), Absent), Ix(V("w"), N(1), <<>>), Ix(V("w"), U("neg", N(1)), <<>>),
        Sl(V("w"), Absent, Absent, N(2))>>),
      For(<<"c">>, FALSE, <<V("w")>>, <<Say(<<V("c")>>)>>)>>,
  out |-> <<"2 3", "5 3 1", "el llo hell h o hlo", "h", "e", "l", "l", "o">>, ends |-> "done"]

\* Generators.
generators_program == [
  body |->
    <<Importing(<<"coroutine">>),
      Fn("g", FALSE, <<A("n")>>, FALSE, <<For(<<"i">>, FALSE, <<R(N(1), V("n"))>>,
        <<Yield(<<V("i")>>)>>)>>),
      Global(<<"coroutine">>, <<V("coroutine")>>),
      For(<<"x">>, FALSE, <<C(V("g"), <<N(3)>>)>>, <<Say(<<V("x")>>)>>),
      For(<<"i", "x">>, FALSE, <<C(V("g"), <<N(2)>>)>>, <<Say(<<V("i"), V("x")>>)>>),
      Fn("evens", FALSE, <<A("n")>>, FALSE, <<Local(<<"k">>, <<N(0)>>), While(O(V("k"), "lt",
        V("n")), <<Do(Up("k", "add", N(2))), Yield(<<V("k")>>)>>)>>),
      For(<<"x">>, FALSE, <<C(V("evens"), <<N(4)>>)>>, <<Say(<<V("x")>>)>>)>>,
  out |-> <<"1", "2", "3", "1 1", "2 2", "2", "4">>, ends |-> "done"]

\* Coroutines.
coroutines_program == [
  body |->
    <<Importing(<<"coroutine">>),
      Fn("body", FALSE, <<A("a")>>, FALSE, <<Say(<<T("a"), V("a")>>), Multi(<<"b", "c">>,
        <<C(Dot(V("coroutine"), "yield", <<>>), <<O(V("a"), "add", N(1))>>)>>), Say(<<T("b"),
        V("b")>>), Ret(<<T("end")>>)>>),
      Local(<<"co">>, <<C(Dot(V("coroutine"), "create", <<>>), <<V("body")>>)>>),
      Local(<<"ok", "v">>, <<C(Dot(V("coroutine"), "resume", <<>>), <<V("co"), N(1)>>)>>),
      Say(<<V("ok"), V("v"), C(Dot(V("coroutine"), "status", <<>>), <<V("co")>>)>>),
      Multi(<<"ok", "v">>, <<C(Dot(V("coroutine"), "resume", <<>>), <<V("co"), N(5)>>)>>),
      Say(<<V("ok"), V("v"), C(Dot(V("coroutine"), "status", <<>>), <<V("co")>>)>>),
      Multi(<<"ok", "v">>, <<C(Dot(V("coroutine"), "resume", <<>>), <<V("co")>>)>>),
      Say(<<V("ok")>>)>>,
  out |-> <<"a 1", "true 2 normal", "b 5", "true end dead", "false">>, ends |-> "done"]

\* Comprehensions.
comps_program == [
  body |->
    <<Importing(<<"coroutine">>),
      Local(<<"t">>, <<Tab(<<At(Absent, N(1)), At(Absent, N(2)), At(Absent, N(3)), At(Absent,
        N(4))>>)>>),
      Local(<<"sq">>, <<Comp("tablecomp", <<"x">>, FALSE, V("t"), O(V("x"), "gt", N(2)), Absent,
        O(V("x"), "mul", V("x")))>>),
      Say(<<Ix(V("sq"), N(1), <<>>), Ix(V("sq"), N(2), <<>>), U("len", V("sq"))>>),
      Local(<<"r">>, <<Comp("tablecomp", <<"i">>, FALSE, R(N(1), N(3)), Absent, Absent, O(V("i"),
        "add", N(1)))>>),
      Say(<<Ix(V("r"), N(3), <<>>)>>),
      For(<<"v">>, FALSE, <<Comp("gencomp", <<"x">>, FALSE, V("t"), Absent, Absent, O(V("x"),
        "add", N(1)))>>, <<Say(<<V("v")>>)>>)>>,
  out |-> <<"9 16 2", "4", "2", "3", "4", "5">>, ends |-> "done"]

\* Strings and f-strings.
strings_program == [
  body |->
    <<Local(<<"n">>, <<N(7)>>),
      Local(<<"name">>, <<T("bob")>>),
      Say(<<FS(<<T("hi "), V("name"), T(" "), O(V("n"), "add", N(1))>>)>>),
      Say(<<FS(<<[k |-> "namemod", name |-> "n", v |-> <<"num", 4>>], T("|")>>)>>),
      Say(<<O(T("abc"), "has", T("b")), O(T("z"), "in", T("abc")), U("len", V("name"))>>)>>,
  out |-> <<"hi bob 8", "3|", "true false 3">>, ends |-> "done"]

\* Globals, read and written in functions.
globals_program == [
  body |->
    <<Global(<<"g">>, <<N(5)>>),
      Fn("f", FALSE, <<>>, FALSE, <<Global(<<"g">>, <<>>), Do(Is("g", <<O(V("g"), "add",
        N(1))>>)), Ret(<<V("g")>>)>>),
      Say(<<C(V("f"), <<>>), V("g")>>),
      Fn("h", FALSE, <<>>, FALSE, <<Do(Is("g", <<N(100)>>)), Ret(<<V("g")>>)>>),
      Say(<<C(V("h"), <<>>), V("g")>>),
      Del(V("g"), <<>>),
      Try(<<Say(<<V("g")>>)>>, <<[name |-> "e", filter |-> Absent,
        body |-> <<Say(<<T("gone")>>)>>]>>, <<>>),
      Fn("top", TRUE, <<>>, FALSE, <<Ret(<<N(1)>>)>>),
      Say(<<C(V("top"), <<>>)>>)>>,
  out |-> <<"6 6", "100 6", "gone", "1">>, ends |-> "done"]

\* Imports: once, with the module's own names.
imports_program == [
  body |->
    <<Say(<<V("__name"), V("__main")>>),
      Importing(<<"counter">>),
      Say(<<Dot(V("counter"), "n", <<>>), V("__name"), V("__main")>>),
      Importing(<<"outer">>),
      Say(<<Dot(V("outer"), "inner", <<>>), V("__name")>>),
      From("counter", <<"twice">>),
      Say(<<V("twice")>>),
      From("counter", <<>>),
      Say(<<V("n")>>),
      Local(<<"again">>, <<Imp("counter")>>),
      Say(<<Dot(V("again"), "n", <<>>)>>)>>,
  out |-> <<"__main true", "loading counter false", "1 __main true", "outer outer false",
    "1 __main", "2", "1", "1">>, ends |-> "done"]

\* Functions of the program import, functions of modules run during and after it.
importcalls_program == [
  body |->
    <<Fn("load", FALSE, <<>>, FALSE, <<Importing(<<"works">>), Say(<<V("__name"), V("__main")>>),
        Ret(<<V("works")>>)>>),
      Local(<<"w">>, <<C(V("load"), <<>>)>>),
      Say(<<Dot(V("w"), "v", <<>>), V("__name"), V("__file"), V("__main")>>),
      Say(<<C(Dot(V("w"), "get", <<>>), <<>>)>>),
      Importing(<<"careful">>),
      Say(<<Dot(V("careful"), "v", <<>>), V("__name"), V("__file"), V("__main")>>)>>,
  out |-> <<"4 works false", "loading counter false", "works false", "1 works false",
    "__main true", "6 __main main.toi true", "__main true", "1", "bad module",
    "1 __main main.toi true">>, ends |-> "done"]

\* An import that fails in the script, which goes on.
importfails_program == [
  body |->
    <<Try(<<Importing(<<"bad">>)>>, <<[name |-> "e", filter |-> Absent,
        body |-> <<Say(<<V("e")>>)>>]>>, <<>>),
      Say(<<V("__name"), V("__file"), V("__main")>>)>>,
  out |-> <<"bad module", "__main main.toi true">>, ends |-> "done"]

\* A module that does not exist.
importerror_program == [
  body |->
    <<Try(<<Importing(<<"nosuch">>)>>, <<>>, <<<<Say(<<T("fin")>>)>>>>),
      Say(<<N(1)>>)>>,
  out |-> <<>>, ends |-> "failed"]

\* A decorator.
decorated_program == [
  body |->
    <<Fn("dbl", FALSE, <<A("f")>>, FALSE, <<Fn("w", FALSE, <<A("x")>>, FALSE, <<Ret(<<O(N(2),
        "mul", C(V("f"), <<V("x")>>))>>)>>), Ret(<<V("w")>>)>>),
      Deco(<<V("dbl")>>, Fn("inc", FALSE, <<A("x")>>, FALSE, <<Ret(<<O(V("x"), "add",
        N(1))>>)>>)),
      Say(<<C(V("inc"), <<N(4)>>)>>)>>,
  out |-> <<"10">>, ends |-> "done"]

\* Assertions.
asserts_program == [
  body |->
    <<Assert(O(N(1), "eq", N(1)), Absent),
      Try(<<Assert(O(N(1), "eq", N(2)), T("nope"))>>, <<[name |-> "e", filter |-> Absent,
        body |-> <<Say(<<V("e")>>)>>]>>, <<>>),
      Try(<<Assert(N(0), Absent)>>, <<[name |-> "e", filter |-> Absent,
        body |-> <<Say(<<V("e")>>)>>]>>, <<>>),
      [k |-> "gc"]>>,
  out |-> <<"nope", "assert failed">>, ends |-> "done"]

\* Tables joined.
join_program == [
  body |->
    <<Local(<<"a">>, <<Tab(<<At(Absent, N(1)), At(Absent, N(2)), At(T("k"), N(1))>>)>>),
      Local(<<"b">>, <<Tab(<<At(Absent, N(3)), At(T("k"), N(2)), At(T("z"), N(3))>>)>>),
      Local(<<"c">>, <<O(V("a"), "add", V("b"))>>),
      Say(<<Ix(V("c"), N(3), <<>>), Dot(V("c"), "k", <<>>), Dot(V("c"), "z", <<>>), U("len",
        V("a"))>>),
      Do(Up("a", "add", V("b"))),
      Say(<<Ix(V("a"), N(3), <<>>), Dot(V("a"), "k", <<>>)>>)>>,
  out |-> <<"3 2 3 3", "3 2">>, ends |-> "done"]

\* Iterators of the program's own.
iter_program == [
  body |->
    <<Fn("nx", FALSE, <<A("s"), A("c")>>, FALSE, <<If(O(V("c"), "eq", L("nil")), <<Ret(<<N(1),
        N(10)>>)>>, <<>>, <<>>), If(O(V("c"), "lt", N(3)), <<Ret(<<O(V("c"), "add", N(1)),
        O(V("c"), "mul", N(100))>>)>>, <<>>, <<>>), Ret(<<L("nil"), L("nil")>>)>>),
      Local(<<"o">>, <<Tab(<<At(T("__next"), V("nx"))>>)>>),
      For(<<"k", "v">>, FALSE, <<V("o")>>, <<Say(<<V("k"), V("v")>>)>>),
      Local(<<"z">>, <<MT(Tab(<<At(T("__next"), V("nx"))>>), <<>>)>>),
      For(<<"k", "v">>, FALSE, <<V("z")>>, <<Say(<<V("k"), V("v")>>)>>),
      For(<<"k", "v">>, FALSE, <<V("nx"), L("nil"), N(1)>>, <<Say(<<V("k"), V("v")>>)>>),
      Local(<<"f", "s", "c">>, <<C(V("range"), <<N(2), N(3)>>)>>),
      For(<<"x">>, FALSE, <<V("f"), V("s"), V("c")>>, <<Say(<<V("x")>>)>>)>>,
  out |-> <<"1 10", "2 100", "3 200", "1 10", "2 100", "3 200", "2 100", "3 200", "2", "3">>,
    ends |-> "done"]

\* Loops in loops; return from a loop.
nested_program == [
  body |->
    <<Fn("find", FALSE, <<A("t"), A("x")>>, FALSE, <<For(<<"i", "v">>, FALSE, <<V("t")>>,
        <<If(O(V("v"), "eq", V("x")), <<Ret(<<V("i")>>)>>, <<>>, <<>>)>>), Ret(<<N(0)>>)>>),
      Say(<<C(V("find"), <<Tab(<<At(Absent, N(5)), At(Absent, N(6)), At(Absent, N(7))>>), N(6)>>),
        C(V("find"), <<Tab(<<At(Absent, N(5))>>), N(9)>>)>>),
      For(<<"i">>, FALSE, <<R(N(1), N(2))>>, <<For(<<"j">>, FALSE, <<R(N(1), N(3))>>,
        <<If(O(V("j"), "eq", N(2)), <<[k |-> "break"]>>, <<>>, <<>>), Say(<<V("i"),
        V("j")>>)>>)>>),
      Local(<<"n">>, <<N(3)>>),
      While(L("true"), <<Do(Up("n", "sub", N(1))), If(O(V("n"), "eq", N(0)), <<[k |-> "break"]>>,
        <<>>, <<>>)>>),
      Say(<<V("n")>>)>>,
  out |-> <<"2 0", "1 1", "2 1", "0">>, ends |-> "done"]

\* Recursion up to the frame limit.
recursion_program == [
  body |->
    <<Fn("fact", FALSE, <<A("n")>>, FALSE, <<If(O(V("n"), "lt", N(2)), <<Ret(<<N(1)>>)>>, <<>>,
        <<>>), Ret(<<O(V("n"), "mul", C(V("fact"), <<O(V("n"), "sub", N(1))>>))>>)>>),
      Say(<<C(V("fact"), <<N(5)>>)>>),
      Fn("deep", FALSE, <<A("n")>>, FALSE, <<Ret(<<C(V("deep"), <<O(V("n"), "add", N(1))>>)>>)>>),
      Try(<<Do(C(V("deep"), <<N(0)>>))>>, <<[name |-> "e", filter |-> Absent,
        body |-> <<Say(<<T("overflow")>>)>>]>>, <<>>)>>,
  out |-> <<"120", "overflow">>, ends |-> "done"]

\* An int and a table with __add.
mixed_program == [
  body |->
    <<Fn("add", FALSE, <<A("a"), A("b")>>, FALSE, <<Ret(<<N(7)>>)>>),
      Local(<<"m">>, <<MT(Tab(<<At(T("__add"), V("add"))>>), <<>>)>>),
      Local(<<"n">>, <<N(0)>>),
      Do(Is("n", <<N(3)>>)),
      Say(<<O(V("n"), "add", V("m")), O(V("m"), "add", V("n"))>>),
      Local(<<"s">>, <<N(0)>>),
      Do(Is("s", <<O(V("n"), "add", V("m"))>>)),
      Say(<<V("s")>>)>>,
  out |-> <<"7 7", "7">>, ends |-> "done"]

\* A chunk has room for so many constants, and a function for so many captured variables.
Numbers(n) == [i \in 1..n |-> Do(N(i))]
fits_program == [body |-> Numbers(MaxIndexed - 1) \o <<Say(<<N(7)>>)>>, out |-> <<"7">>, ends |-> "done"]
toomany_program == [body |-> Numbers(MaxIndexed + 1), out |-> <<>>, ends |-> "rejected"]

NameOf(i) == "v" \o Tl!ToString(i)
LocalsOf(from, to) == [i \in 1..(to - from + 1) |-> Local(<<NameOf(from + i - 1)>>, <<>>)]
captures_program ==
  LET n == MaxIndexed + 1
      inner == Fn("h", FALSE, <<>>, FALSE, [i \in 1..n |-> Do(V(NameOf(i)))])
      middle == Fn("g", FALSE, <<>>, FALSE, LocalsOf(n - 8, n) \o <<inner>>)
  IN [body |-> <<Fn("f", FALSE, <<>>, FALSE, LocalsOf(1, n - 9) \o <<middle>>), Say(<<N(1)>>)>>,
      out |-> <<>>, ends |-> "rejected"]

\* The power, folded, is one constant too many for an operand.
folding_program == [body |-> [i \in 1..(MaxIndexed - 2) |-> Do(N(i + 100))] \o <<Say(<<O(N(2), "power", N(3))>>)>>,
  out |-> <<"8">>, ends |-> "done"]

Catalogue == [arith |-> arith_program, floats |-> floats_program, loops |-> loops_program,
  tables |-> tables_program, ipairs |-> ipairs_program, multi |-> multi_program,
  closures |-> closures_program, shared |-> shared_program, args |-> args_program,
  argerrors |-> argerrors_program, try |-> try_program, uncaught |-> uncaught_program,
  with |-> with_program, match |-> match_program, logic |-> logic_program, meta |-> meta_program,
  class |-> class_program, newindex |-> newindex_program, slices |-> slices_program,
  generators |-> generators_program, coroutines |-> coroutines_program, comps |-> comps_program,
  strings |-> strings_program, globals |-> globals_program, imports |-> imports_program,
  importerror |-> importerror_program, importcalls |-> importcalls_program,
  retyped |-> retyped_program, decorated |-> decorated_program,
  asserts |-> asserts_program, join |-> join_program, iter |-> iter_program,
  nested |-> nested_program, recursion |-> recursion_program, mixed |-> mixed_program,
  fits |-> fits_program, toomany |-> toomany_program, captures |-> captures_program]

\* Programs for which the code does not do what is expected of it.
Exceptional == [importfails |-> importfails_program, retypedloop |-> retypedloop_program,
  retypedbranch |-> retypedbranch_program, retypedclosure |-> retypedclosure_program,
  folding |-> folding_program]

----------------------------------------------------------------------------
(* A family of programs: a loop of each kind, left or continued in each    *)
(* way, from inside each kind of block, with or without a closure that     *)
(* keeps a local of the body, in a function or at the top.                 *)

Loops == {"while", "range", "items"}
Exits == {"none", "break", "continue", "throw", "return"}
Wraps == {"plain", "block", "except", "finally"}

LoopOf(kind, body) ==
  CASE kind = "while" -> While(O(V("n"), "lt", N(3)), <<Do(Is("n", <<O(V("n"), "add", N(1))>>))>> \o body)
    [] kind = "range" -> For(<<"i">>, FALSE, <<R(N(1), N(3))>>, <<Do(Is("n", <<V("i")>>))>> \o body)
    [] kind = "items" -> For(<<"i">>, FALSE, <<Tab(<<At(Absent, N(1)), At(Absent, N(2)), At(Absent, N(3))>>)>>,
                             <<Do(Is("n", <<V("i")>>))>> \o body)

Exit(exit) ==
  CASE exit = "none"   -> Say(<<T("here")>>)
    [] exit = "throw"  -> Throw(V("m"))
    [] exit = "return" -> Ret(<<V("m")>>)
    [] OTHER           -> [k |-> exit]

Wrap(wrap, s) ==
  CASE wrap = "plain"  -> s
    [] wrap = "block"  -> If(O(V("n"), "lt", N(9)), <<Local(<<"w">>, <<V("n")>>), s>>, <<>>, <<>>)
    [] wrap = "except" -> Try(<<s>>, <<[name |-> "e", filter |-> Absent, body |-> <<Say(<<T("e"), V("e")>>)>>]>>, <<>>)
    [] wrap = "finally" -> Try(<<s>>, <<>>, <<<<Say(<<T("last"), V("n")>>)>>>>)

Body(exit, wrap, captured) ==
  <<Local(<<"m">>, <<O(V("n"), "mul", N(10))>>)>>
  \o (IF captured THEN <<Fn("g", FALSE, <<>>, FALSE, <<Ret(<<V("m")>>)>>), Do(Is("h", <<V("g")>>))>> ELSE <<>>)
  \o <<Wrap(wrap, If(O(V("n"), "eq", N(2)), <<Local(<<"q">>, <<V("m")>>), Exit(exit)>>, <<>>, <<>>)),
       Say(<<V("n"), V("m")>>)>>

Script(loop, exit, wrap, captured) ==
  <<Local(<<"n">>, <<N(0)>>), Local(<<"h">>, <<N(0)>>), LoopOf(loop, Body(exit, wrap, captured)),
    Local(<<"z">>, <<N(7)>>), Say(<<V("n"), V("z")>>)>>
  \o (IF captured THEN <<Say(<<C(V("h"), <<>>)>>)>> ELSE <<>>)

InFunction(body) ==
  <<Fn("f", FALSE, <<>>, FALSE, body \o <<Ret(<<N(1)>>)>>),
    Try(<<Say(<<C(V("f"), <<>>)>>)>>, <<[name |-> "e", filter |-> Absent, body |-> <<Say(<<T("caught"), V("e")>>)>>]>>, <<>>)>>

Choices == [loop : Loops, exit : Exits, wrap : Wraps, captured : BOOLEAN, inside : BOOLEAN]

BodyOf(c) ==
  LET script == Script(c.loop, c.exit, c.wrap, c.captured)
  IN IF c.inside THEN InFunction(script) ELSE script

ProgramOf(c) ==
  LET m == Me!Meaning(BodyOf(c))
  IN [body |-> BodyOf(c), out |-> m.out, ends |-> m.ends]

\* A script has nothing to return to.
Possible(c) == c.exit = "return" => c.inside

\* Left out of the family: `break` leaves the loop variables of an iterator
\* behind, a jump out of `try` skips its `finally`, and `continue` in a `while`
\* drops as many values as an uninitialised field says.
Disputed(c) ==
  \/ c.exit = "break" /\ c.loop = "items"
  \/ c.exit \in {"break", "continue", "return"} /\ c.wrap = "finally"
  \/ c.exit = "continue" /\ c.loop = "while"

\* Every sum of three terms of a script, stored, printed and tested: what the
\* optimiser folds and fuses.
Terms == {V("n"), V("m"), N(2)}
Signs == {"add", "sub", "mul"}
Sums == {O(O(a, s, b), t, c) : a \in Terms, b \in Terms, c \in Terms, s \in Signs, t \in Signs}
SumScript(e) ==
  <<Local(<<"n">>, <<N(3)>>), Local(<<"m">>, <<N(1)>>), Do(Is("n", <<N(3)>>)), Do(Is("n", <<e>>)), Say(<<V("n"), e>>),
    If(O(e, "lt", V("m")), <<Do(Is("m", <<O(V("m"), "sub", V("n"))>>))>>, <<>>, <<>>),
    Do(Is("m", <<O(N(1), "add", V("m"))>>)), Say(<<V("m")>>)>>
SumProgram(e) ==
  LET m == Me!Meaning(SumScript(e)) IN [body |-> SumScript(e), out |-> m.out, ends |-> m.ends]

\* Every program by what it is made from.
Program(id) ==
  CASE id[1] = "catalogue" -> Catalogue[id[2]]
    [] id[1] = "exceptional" -> Exceptional[id[2]]
    [] id[1] = "loop"      -> ProgramOf(id[2])
    [] id[1] = "sum"       -> SumProgram(id[2])
Agreed == {"catalogue"} \X DOMAIN Catalogue
            \cup {"loop"} \X {c \in Choices : Possible(c) /\ ~Disputed(c)}
            \cup {"sum"} \X Sums
Retyping == {"exceptional"} \X {"retypedloop", "retypedbranch", "retypedclosure"}
Failing == {"exceptional"} \X {"importfails"}
Folding == {"exceptional"} \X {"folding"}
\* The loops one of the three decides.
Continuing == {"loop"} \X {c \in Choices : c.exit = "continue" /\ c.loop = "while"}
=============================================================================
