------------------------------ MODULE Meaning ------------------------------
(***************************************************************************)
(* What a program of the core language means, by recursion on its tree and *)
(* without code, stack, slots or jumps: names stand for cells of a store,  *)
(* blocks and functions have their own names, a closure keeps the cells it *)
(* can see, and break, continue, return and throw end what they are in.    *)
(* The compiler, the optimiser and the machine together must do the same.  *)
(***************************************************************************)
EXTENDS Integers, SequencesExt, TLC

\* The world: the cells and what has been printed.  An outcome adds how a
\* statement or an expression ended, with a value, and the names in force.
Ended(how, v, env, W) == [how |-> how, v |-> v, env |-> env, W |-> W]
Nil == <<"nil">>
Num(n) == <<"num", n>>
Bool(b) == <<"bool", b>>

Bind(env, name, v, W) ==
  Ended("normal", v, (name :> Len(W.store) + 1) @@ env, [W EXCEPT !.store = Append(@, v)])
Assign(env, name, v, W) ==
  IF name \in DOMAIN env THEN Ended("normal", v, env, [W EXCEPT !.store[env[name]] = v])
  ELSE Bind(env, name, v, W)

RECURSIVE BindAll(_, _, _, _)
BindAll(env, names, values, W) ==
  IF names = <<>> THEN Ended("normal", Nil, env, W)
  ELSE LET b == Bind(env, Head(names), Head(values), W)
       IN BindAll(b.env, Tail(names), Tail(values), b.W)

False(v) == v \in {Nil, Bool(FALSE), Num(0), <<"str", "">>}

Operation(op, a, b) ==
  CASE op = "eq" -> Bool(a = b)
    [] op = "ne" -> Bool(a # b)
    [] op = "lt" -> Bool(a[2] < b[2])
    [] op = "add" -> Num(a[2] + b[2])
    [] op = "sub" -> Num(a[2] - b[2])
    [] op = "mul" -> Num(a[2] * b[2])

RECURSIVE Value(_, _, _), Block(_, _, _), Statement(_, _, _), Values(_, _, _), Loop(_, _, _, _, _)

\* Values of expressions from left to right, stopping at an exception.
Values(es, env, W) ==
  IF es = <<>> THEN Ended("normal", <<>>, env, W)
  ELSE LET h == Value(Head(es), env, W)
           t == Values(Tail(es), h.env, h.W)
       IN IF h.how # "normal" THEN h
          ELSE IF t.how # "normal" THEN t ELSE [t EXCEPT !.v = <<h.v>> \o @]

\* The body runs with its own names: those of its birthplace and its arguments.
Apply(f, args, env, W) ==
  LET cells == BindAll(W.closures[f[2]].env, W.closures[f[2]].params, args, W)
      b == Block(W.closures[f[2]].body, cells.env, cells.W)
  IN Ended(IF b.how = "throw" THEN "throw" ELSE "normal", IF b.how \in {"throw", "return"} THEN b.v ELSE Nil,
           env, b.W)

Value(e, env, W) ==
  LET pair == Values(<<e.l, e.r>>, env, W)
      call == Values(<<e.f>> \o e.args, env, W)
      rhs == Value(e.rhs[1], env, W)
      cond == Value(e.cond, env, W)
  IN CASE e.k = "num"  -> Ended("normal", Num(e.v), env, W)
       [] e.k = "str"  -> Ended("normal", <<"str", e.v>>, env, W)
       [] e.k = "literal" -> Ended("normal", IF e.v = "nil" THEN Nil ELSE Bool(e.v = "true"), env, W)
       [] e.k = "name" -> Ended("normal", W.store[env[e.name]], env, W)
       [] e.k = "binary" -> IF pair.how # "normal" THEN pair
                            ELSE [pair EXCEPT !.v = Operation(e.op, @[1], @[2])]
       [] e.k = "assign" -> IF rhs.how # "normal" THEN rhs ELSE Assign(rhs.env, e.name, rhs.v, rhs.W)
       [] e.k = "cond" -> IF cond.how # "normal" THEN cond
                          ELSE Value(IF False(cond.v) THEN e.else ELSE e.then, cond.env, cond.W)
       [] e.k = "call" -> IF call.how # "normal" THEN call
                          ELSE Apply(call.v[1], Tail(call.v), call.env, call.W)

\* Names declared in a block go at its end.
Inner(body, env, W) == [Block(body, env, W) EXCEPT !.env = env]
Block(body, env, W) ==
  IF body = <<>> THEN Ended("normal", Nil, env, W)
  ELSE LET s == Statement(Head(body), env, W)
       IN IF s.how # "normal" THEN s ELSE Block(Tail(body), s.env, s.W)

\* The body once for each of n values; a while loop has the values of its condition.
Loop(s, i, items, env, W) ==
  LET c == Value(s.cond, env, W)
      again == IF s.k = "while" THEN ~False(c.v) ELSE i <= Len(items)
      B == BindAll(env, s.vars, <<items[i]>>, W)
      body == IF s.k = "while" THEN Inner(s.body, env, c.W) ELSE Inner(s.body, B.env, B.W)
  IN IF ~again THEN Ended("normal", Nil, env, IF s.k = "while" THEN c.W ELSE W)
     ELSE CASE body.how = "break" -> Ended("normal", Nil, env, body.W)
            [] body.how \in {"normal", "continue"} -> Loop(s, i + 1, items, env, body.W)
            [] OTHER -> [body EXCEPT !.env = env]

\* A finally clause runs however the rest ended, and what it does itself wins.
Try(s, env, W) ==
  LET body == Inner(s.body, env, W)
      x == s.except[1]
      b == Bind(env, x.name, body.v, body.W)
      caught == IF body.how = "throw" /\ s.except # <<>>
                THEN [Block(x.body, b.env, b.W) EXCEPT !.env = env] ELSE body
      last == Inner(s.finally[1], env, caught.W)
  IN IF s.finally = <<>> THEN caught
     ELSE IF last.how # "normal" THEN last ELSE [caught EXCEPT !.W = last.W]

Text(v) ==
  CASE v[1] = "nil" -> "nil" [] v[1] = "num" -> ToString(v[2]) [] v[1] = "str" -> v[2]
    [] v[1] = "bool" -> IF v[2] THEN "true" ELSE "false"

Statement(s, env, W) ==
  LET es == Values(s.es, env, W)
      cond == Value(s.cond, env, W)
      line == FoldLeft(LAMBDA A, v : IF A = "" THEN Text(v) ELSE A \o " " \o Text(v), "", es.v)
      first == IF s.k = "throw" THEN Value(s.e, env, W) ELSE Values(s.es, env, W)
      id == Len(W.closures) + 1
      f == Bind(env, s.name, <<"closure", id>>, W)
      range == Values(<<s.source[1].from, s.source[1].to>>, env, W).v
      list == Values([i \in DOMAIN s.source[1].entries |-> s.source[1].entries[i].value], env, W).v
  IN CASE s.k = "expr"  -> Value(s.e, env, W)
       [] s.k = "print" -> IF es.how # "normal" THEN es
                           ELSE Ended("normal", Nil, es.env, [es.W EXCEPT !.out = Append(@, line)])
       [] s.k = "local" -> IF es.how # "normal" THEN es ELSE Bind(es.env, s.names[1], es.v[1], es.W)
       [] s.k = "function" ->
            [f EXCEPT !.W.closures = Append(@, [params |-> [i \in DOMAIN s.f.params |-> s.f.params[i].name],
                                                body |-> s.f.body, env |-> f.env])]
       [] s.k = "if"    -> IF cond.how # "normal" THEN cond
                           ELSE [Inner(IF False(cond.v) THEN s.else ELSE s.then, cond.env, cond.W)
                                   EXCEPT !.env = cond.env]
       [] s.k = "while" -> Loop(s, 1, <<>>, env, W)
       [] s.k = "for"   ->
            IF s.source[1].k = "range"
            THEN Loop(s, 1, [i \in 1..(range[2][2] - range[1][2] + 1) |-> Num(range[1][2] + i - 1)], env, W)
            ELSE Loop(s, 1, list, env, W)
       [] s.k = "try"   -> Try(s, env, W)
       [] s.k \in {"break", "continue"} -> Ended(s.k, Nil, env, W)
       [] s.k = "return" -> IF es.how # "normal" THEN es
                            ELSE Ended("return", IF es.v = <<>> THEN Nil ELSE es.v[1], env, es.W)
       [] s.k = "throw" -> IF first.how # "normal" THEN first ELSE [first EXCEPT !.how = "throw"]

\* What the program prints, and whether an exception ends it.
Meaning(body) ==
  LET r == Block(body, [name \in {} |-> 0], [store |-> <<>>, closures |-> <<>>, out |-> <<>>])
  IN [out |-> r.W.out, ends |-> IF r.how = "throw" THEN "failed" ELSE "done"]
=============================================================================
