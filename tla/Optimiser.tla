----------------------------- MODULE Optimiser -----------------------------
(***************************************************************************)
(* The peephole optimiser of src/opt.c, run once over the code of a script *)
(* or module.  Instructions are the records of Compiler.tla.  The scan     *)
(* goes left to right over the old code: the first rule that matches at a  *)
(* place replaces some instructions by at most one new instruction, unless *)
(* a jump leads into them, and the jumps are then led to the new places.   *)
(***************************************************************************)
EXTENDS Integers, Sequences

CONSTANTS MaxIndexed   \* how many constants an operand can tell apart: 256

LOCAL Num(n) == <<"num", n>>
LOCAL IsNum(v) == v[1] = "num"
LOCAL Abs(n) == IF n < 0 THEN -n ELSE n

\* The remainder of C: it has the sign of the dividend.
Remainder(a, b) == IF a >= 0 THEN a % Abs(b) ELSE -((-a) % Abs(b))

\* Arithmetic on two numbers.  Numbers are integers here, so quotients and
\* powers are only used where they are whole.
Compute(op, a, b) ==
  CASE op = "ADD"      -> a + b
    [] op = "SUBTRACT" -> a - b
    [] op = "MULTIPLY" -> a * b
    [] op = "DIVIDE"   -> IF b < 0 THEN (-a) \div (-b) ELSE a \div b
    [] op = "INT_DIV"  -> IF b < 0 THEN (-a) \div (-b) ELSE a \div b
    [] op = "MODULO"   -> Remainder(a, b)
    [] op = "POWER"    -> a ^ b

Foldable == {"ADD", "SUBTRACT", "MULTIPLY", "DIVIDE", "POWER", "INT_DIV", "MODULO"}
Producers == {"CONSTANT", "NIL", "TRUE", "FALSE", "GET_LOCAL", "GET_GLOBAL", "GET_UPVALUE", "DUP"}

\* Short names of the fused instructions.
Short == [ADD |-> "ADD", SUBTRACT |-> "SUB", MULTIPLY |-> "MUL", DIVIDE |-> "DIV", MODULO |-> "MOD"]
Fusable == DOMAIN Short

----------------------------------------------------------------------------
(* Places that a jump leads to.  A TRY without a clause leads nowhere.     *)

Targets(code) ==
  UNION {IF code[i].op = "TRY" THEN {code[i].except, code[i].finally} \ {i + 1}
         ELSE IF "to" \in DOMAIN code[i] THEN {code[i].to} ELSE {} : i \in DOMAIN code}

Matches(code, i, ops) ==
  /\ i + Len(ops) - 1 <= Len(code)
  /\ \A k \in DOMAIN ops : code[i + k - 1].op \in ops[k]

\* A rewriting replaces the instructions from i on by others, if it applies.
Rewriting(applies, takes, gives) == [applies |-> applies, takes |-> takes, gives |-> gives]
No == Rewriting(FALSE, 0, <<>>)

Free(targets, places) == targets \cap places = {}

\* value; POP; ADJUST_STACK: the last one is dropped.
DropAdjust(code, T, i) ==
  IF Matches(code, i, <<Producers, {"POP"}, {"ADJUST_STACK"}>>)
  THEN Rewriting(Free(T, i..(i + 2)), 3, SubSeq(code, i, i + 1)) ELSE No

\* x + 0, x - 0, x * 1, x / 1
DropIdentity(code, T, i) ==
  IF Matches(code, i, <<{"CONSTANT"}, {"ADD", "SUBTRACT", "MULTIPLY", "DIVIDE"}>>)
  THEN Rewriting(/\ code[i].a = (IF code[i + 1].op \in {"ADD", "SUBTRACT"} THEN Num(0) ELSE Num(1))
                 /\ Free(T, i..(i + 1)), 2, <<>>)
  ELSE No

\* GET_LOCAL s; CONSTANT c; op; SET_LOCAL s.  An addition wants a number.
UpdateLocal(code, T, i) ==
  IF Matches(code, i, <<{"GET_LOCAL"}, {"CONSTANT"}, Fusable, {"SET_LOCAL"}>>)
  THEN LET op == code[i + 2].op
       IN Rewriting(/\ code[i].a = code[i + 3].a
                    /\ op = "ADD" => IsNum(code[i + 1].a)
                    /\ Free(T, (i + 1)..(i + 3)), 4,
                    <<[op |-> IF op = "ADD" THEN "INC_LOCAL" ELSE Short[op] \o "_LOCAL_CONST",
                       slot |-> code[i].a, a |-> code[i + 1].a]>>)
  ELSE No

\* What two constants and an operator, or one and NEGATE, come to.
Folded(code, i) ==
  IF /\ Matches(code, i, <<{"CONSTANT"}, {"CONSTANT"}, Foldable>>)
     /\ IsNum(code[i].a) /\ IsNum(code[i + 1].a)
  THEN <<Num(Compute(code[i + 2].op, code[i].a[2], code[i + 1].a[2]))>>
  ELSE IF Matches(code, i, <<{"CONSTANT"}, {"NEGATE"}>>) /\ IsNum(code[i].a)
  THEN <<Num(-code[i].a[2])>>
  ELSE <<>>

\* The operand of CONSTANT is one byte: past the limit it names an earlier constant.
LastByOperand(pool) == pool[((Len(pool) - 1) % MaxIndexed) + 1]

Fold(code, T, i, pool) ==
  IF Folded(code, i) = <<>> THEN No
  ELSE LET takes == IF code[i + 1].op = "NEGATE" THEN 2 ELSE 3
       IN Rewriting(Free(T, (i + 1)..(i + takes - 1)), takes,
                    <<[op |-> "CONSTANT", a |-> LastByOperand(pool)]>>)

\* CONSTANT c; op
ConstantOperand(code, T, i) ==
  IF Matches(code, i, <<{"CONSTANT"}, Fusable>>)
  THEN Rewriting(Free(T, i..(i + 1)), 2,
                 <<[op |-> Short[code[i + 1].op] \o "_CONST", a |-> code[i].a]>>)
  ELSE No

\* op; SET_LOCAL s
SetLocalResult(code, T, i) ==
  IF Matches(code, i, <<Fusable, {"SET_LOCAL"}>>)
  THEN Rewriting(Free(T, i..(i + 1)), 2,
                 <<[op |-> Short[code[i].op] \o "_SET_LOCAL", slot |-> code[i + 1].a]>>)
  ELSE No

\* What is tried before folding, and after it.
Before(code, T, i) == <<DropAdjust(code, T, i), DropIdentity(code, T, i), UpdateLocal(code, T, i)>>
After(code, T, i) ==
  <<ConstantOperand(code, T, i), SetLocalResult(code, T, i), Rewriting(TRUE, 1, <<code[i]>>)>>

FirstThat(rules) == rules[CHOOSE k \in DOMAIN rules :
                            rules[k].applies /\ \A j \in 1..(k - 1) : ~rules[j].applies]

\* What the loop has done when it comes to place `at`: the new code, where each old
\* place went (0: nowhere), and the pool, to which trying to fold adds a constant even
\* if a jump then forbids it.
Rewrite(code, T, S) ==
  LET i == S.at
      tried == \A k \in 1..3 : ~Before(code, T, i)[k].applies
      pool == IF tried THEN S.pool \o Folded(code, i) ELSE S.pool
      r == FirstThat(Before(code, T, i) \o <<Fold(code, T, i, pool)>> \o After(code, T, i))
  IN [at |-> i + r.takes, code |-> S.code \o r.gives,
      where |-> [S.where EXCEPT ![i] = Len(S.code) + 1], pool |-> pool]

RECURSIVE Scan(_, _, _)
Scan(code, T, S) == IF S.at > Len(code) THEN S ELSE Scan(code, T, Rewrite(code, T, S))

\* Variant: a jump keeps the address it had in the old code.
RetargetNot(c, where) == c

\* A jump to a place that has gone keeps its distance; the checks for jumps rule it out.
Retarget(c, where) ==
  CASE c.op = "TRY" -> [c EXCEPT !.except = where[@], !.finally = where[@]]
    [] c.op # "TRY" /\ "to" \in DOMAIN c -> [c EXCEPT !.to = where[@]]
    [] OTHER -> c

Optimise(code, constants) ==
  LET s == Scan(code, Targets(code),
                [at |-> 1, code |-> <<>>, where |-> [i \in DOMAIN code |-> 0], pool |-> constants])
  IN [i \in DOMAIN s.code |-> Retarget(s.code[i], s.where)]
=============================================================================
