----------------------------- MODULE Exceptions -----------------------------
(***************************************************************************)
(* try ... except ... finally and with, on one VM thread: what the         *)
(* compiler emits for them and for break, continue and return inside them  *)
(* (src/compiler/stmt_control.c), and what OP_TRY, OP_END_TRY,             *)
(* OP_END_FINALLY, OP_THROW, the returns and handle_exception do with the  *)
(* stack of handlers (src/vm/ops_exception.c, src/vm.c).                   *)
(*                                                                         *)
(* Code is left out but for its nesting: `regions` is where the program    *)
(* is, the functions, loops and clauses around the current instruction.    *)
(* It stands for the frames and their ip.  A with statement is a try with  *)
(* an except clause that throws again and a finally that calls __exit.     *)
(***************************************************************************)
EXTENDS Naturals, Sequences, FiniteSets, SequencesExt

CONSTANTS
  Exceptions,   \* values thrown
  NoException,
  Habits,       \* what programs do, see ASSUME
  MaxDepth      \* bound on the nesting

ASSUME ExceptionsAssumption ==
  /\ NoException \notin Exceptions
  /\ Habits \subseteq
       {"jumpOut",        \* break or continue leaves a clause of a try
        "returnOut",      \* return leaves a clause of a try
        "tryInFinally"}   \* a finally clause that an exception led to enters a try
  /\ MaxDepth \in Nat \ {0}

VARIABLES
  regions,       \* innermost last
  handlers,      \* ObjThread.handlers
  hasException,  \* ObjThread.has_exception
  exception,     \* ObjThread.exception
  ended,         \* how the program ended
  displaced      \* history: where in regions a finally clause has lost its exception

exVars == <<regions, handlers, hasException, exception, ended, displaced>>

\* exc, fin: the statement has an except, a finally clause.  cause: the exception
\* that led into a finally clause.
Region(kind, exc, fin, cause) == [kind |-> kind, exc |-> exc, fin |-> fin, cause |-> cause]
Plain(kind) == Region(kind, FALSE, FALSE, NoException)

\* Where finally clauses are that an exception led into.
LedInto(rs) == {i \in DOMAIN rs : rs[i].cause # NoException}

FrameCount == Cardinality({i \in DOMAIN regions : regions[i].kind = "fn"})

ExTypeOK ==
  /\ Len(regions) <= MaxDepth
  /\ \A i \in DOMAIN regions :
       /\ regions[i].kind \in {"fn", "loop", "try", "except", "finally"}
       /\ regions[i].cause \in Exceptions \cup {NoException}
  /\ \A i \in DOMAIN handlers :
       /\ handlers[i].frame \in 1..FrameCount
       /\ handlers[i].exc \/ handlers[i].fin
       /\ handlers[i].inExcept => handlers[i].exc
  /\ hasException \in BOOLEAN
  /\ exception \in Exceptions \cup {NoException}
  /\ hasException => exception # NoException
  /\ ended \in {"no", "ok", "error"}
  /\ displaced \subseteq LedInto(regions)

ExInit ==
  /\ regions = <<Plain("fn")>>
  /\ handlers = <<>>
  /\ hasException = FALSE
  /\ exception = NoException
  /\ ended = "no"
  /\ displaced = {}

Running == ended = "no"
Here == Last(regions)
Clauses == {"try", "except", "finally"}

\* What well-behaved programs refrain from.
LeavesTry(n) == \E i \in (n + 1)..Len(regions) : regions[i].kind \in Clauses
MayJumpTo(n) == "jumpOut" \in Habits \/ ~LeavesTry(n)
MayReturnTo(n) == "returnOut" \in Habits \/ ~LeavesTry(n)
MayTry ==
  "tryInFinally" \in Habits
    \/ \A i \in DOMAIN regions : regions[i].cause = NoException

----------------------------------------------------------------------------
(* Calls, loops and jumps. *)

Enter(kind) ==
  /\ Running
  /\ Len(regions) < MaxDepth
  /\ regions' = Append(regions, Plain(kind))
  /\ UNCHANGED <<handlers, hasException, exception, ended, displaced>>

\* discard_handlers_for_frame_return: from the top down to a handler of a caller.
KeptHandlers ==
  SubSeq(handlers, 1, Max({0} \cup {k \in DOMAIN handlers : handlers[k].frame < FrameCount}))

\* OP_RETURN, at the end of the function or from inside its statements.
Return ==
  LET n == Max({i \in DOMAIN regions : regions[i].kind = "fn"}) - 1 IN
  /\ Running
  /\ MayReturnTo(n + 1)
  /\ regions' = SubSeq(regions, 1, n)
  /\ handlers' = KeptHandlers
  /\ ended' = IF n = 0 THEN "ok" ELSE ended
  /\ displaced' = displaced \cap DOMAIN regions'
  /\ UNCHANGED <<hasException, exception>>

EndLoop ==
  /\ Running
  /\ Here.kind = "loop"
  /\ regions' = Front(regions)
  /\ UNCHANGED <<handlers, hasException, exception, ended, displaced>>

\* break and continue pop the locals of the scopes they leave, and jump.
Jump(breaks) ==
  LET fn == Max({i \in DOMAIN regions : regions[i].kind = "fn"})
      loops == {i \in (fn + 1)..Len(regions) : regions[i].kind = "loop"}
      n == IF breaks THEN Max(loops) - 1 ELSE Max(loops)
  IN
  /\ Running
  /\ loops # {}
  /\ MayJumpTo(Max(loops))
  /\ regions' = SubSeq(regions, 1, n)
  /\ displaced' = displaced \cap DOMAIN regions'
  /\ UNCHANGED <<handlers, hasException, exception, ended>>

----------------------------------------------------------------------------
(* The clauses of a try. *)

\* OP_TRY.  `at` is where the statement stands: except_ip and finally_ip lead
\* into its clauses there.
Try(exc, fin) ==
  /\ Running
  /\ exc \/ fin
  /\ MayTry
  /\ Len(regions) < MaxDepth
  /\ handlers' = Append(handlers, [frame |-> FrameCount, exc |-> exc, fin |-> fin,
                                   inExcept |-> FALSE, at |-> regions])
  /\ regions' = Append(regions, Region("try", exc, fin, NoException))
  /\ UNCHANGED <<hasException, exception, ended, displaced>>

\* with is compiled to a try with both clauses: the except clause keeps the exception
\* for __exit and throws it again, the finally clause calls __exit.
With == Try(TRUE, TRUE)

\* Variant: OP_END_TRY leaves the handler.
PopNothing == handlers

PopHandler == IF handlers = <<>> THEN handlers ELSE Front(handlers)

\* Variant: the code after the except clause jumps behind the statement.
EndTryBehind ==
  /\ Running
  /\ Here.kind \in {"try", "except"}
  /\ handlers' = PopHandler
  /\ regions' = IF Here.fin /\ Here.kind = "try"
                THEN Append(Front(regions), Region("finally", Here.exc, TRUE, NoException))
                ELSE Front(regions)
  /\ UNCHANGED <<hasException, exception, ended, displaced>>

\* OP_END_TRY at the end of the try block or the except clause, and the jump to
\* the finally clause or behind the statement.
EndTry ==
  /\ Running
  /\ Here.kind \in {"try", "except"}
  /\ handlers' = PopHandler
  /\ regions' = IF Here.fin
                THEN Append(Front(regions), Region("finally", Here.exc, TRUE, NoException))
                ELSE Front(regions)
  /\ UNCHANGED <<hasException, exception, ended, displaced>>

\* Variant: has_exception is cleared on the way to a finally clause as well.
PendingCleared(e, caught) == hasException' = FALSE /\ exception' = NoException

\* An except clause takes the exception over, a finally clause leaves it pending.
Pending(e, caught) ==
  /\ hasException' = ~caught
  /\ exception' = IF caught THEN NoException ELSE e

\* handle_exception, entered with the exception e.
Raise(e) ==
  LET usable == {i \in DOMAIN handlers :
                   (handlers[i].exc /\ ~handlers[i].inExcept) \/ handlers[i].fin}
      i == Max(usable)
      h == handlers[i]
      caught == h.exc /\ ~h.inExcept
  IN
  IF usable = {}
  THEN /\ ended' = "error"
       /\ regions' = <<>> /\ handlers' = <<>>
       /\ hasException' = FALSE /\ exception' = NoException
       /\ displaced' = {}
  ELSE /\ Pending(e, caught)
       /\ IF caught
          THEN /\ handlers' = Append(SubSeq(handlers, 1, i - 1), [h EXCEPT !.inExcept = TRUE])
               /\ regions' = Append(h.at, Region("except", TRUE, h.fin, NoException))
               /\ displaced' = LedInto(h.at)
          ELSE /\ handlers' = SubSeq(handlers, 1, i - 1)
               /\ regions' = Append(h.at, Region("finally", h.exc, TRUE, e))
               /\ displaced' = displaced \cap DOMAIN h.at
       /\ UNCHANGED ended

\* OP_THROW, or a runtime error.
Throw(e) == Running /\ Raise(e)

\* OP_END_FINALLY.
EndFinally ==
  /\ Running
  /\ Here.kind = "finally"
  /\ IF hasException
     THEN Raise(exception)
     ELSE /\ regions' = Front(regions)
          /\ displaced' = displaced \cap DOMAIN regions'
          /\ UNCHANGED <<handlers, hasException, exception, ended>>

----------------------------------------------------------------------------
ExNext ==
  \/ Enter("fn") \/ Return
  \/ Enter("loop") \/ EndLoop
  \/ \E breaks \in BOOLEAN : Jump(breaks)
  \/ \E exc, fin \in BOOLEAN : Try(exc, fin)
  \/ With
  \/ EndTry \/ EndFinally
  \/ \E e \in Exceptions : Throw(e)

ExSpec == ExInit /\ [][ExNext]_exVars

----------------------------------------------------------------------------
(* Properties. *)

\* Where the try statement of handler k stands, and where there is one to handle for.
Statement(k) == Len(handlers[k].at) + 1
Guarded == {i \in DOMAIN regions : regions[i].kind \in {"try", "except"}}

\* The handler stack is the nesting of the try statements around the current
\* instruction, no more and no less, whatever was thrown, caught and rethrown on
\* the way: an exception goes to the clause that the source puts around it.
HandlersMatchNesting ==
  /\ Guarded = {Statement(k) : k \in DOMAIN handlers}
  /\ \A j, k \in DOMAIN handlers : j < k => Statement(j) < Statement(k)
  /\ \A k \in DOMAIN handlers :
       LET i == Statement(k) IN
       /\ handlers[k].at = SubSeq(regions, 1, i - 1)
       /\ handlers[k].inExcept = (regions[i].kind = "except")
       /\ handlers[k].exc = regions[i].exc /\ handlers[k].fin = regions[i].fin

\* One slot serves the finally clauses around each other: it holds the exception of
\* the innermost one that an exception led into, until an except clause inside it
\* takes another over and empties the slot for it and for those around it.  So what
\* OP_END_FINALLY throws is never an older exception, nor one that was caught.
PendingOfFinally ==
  /\ hasException => LedInto(regions) # {}
  /\ \A i \in LedInto(regions) :
       (\A j \in LedInto(regions) : j <= i) =>
         IF i \in displaced THEN ~hasException ELSE hasException /\ exception = regions[i].cause

\* A finally clause ends as it began: OP_END_FINALLY throws the exception that led
\* into the clause again, and throws none if none led into it.  With a try in a
\* finally clause that an exception led to, it need not (MCExceptionsFinally.cfg).
FinallyKeepsItsException ==
  Running /\ Here.kind = "finally" =>
    /\ hasException = (Here.cause # NoException)
    /\ hasException => exception = Here.cause

\* The finally clauses to come are still around the next instruction, or that is in
\* the clause.
FinallyStays ==
  \A i \in DOMAIN regions :
    regions[i].kind \in {"try", "except"} /\ regions[i].fin =>
      /\ i \in DOMAIN regions'
      /\ regions'[i].kind \in Clauses /\ regions'[i].fin

\* No way out of a try block or an except clause goes past the finally clause of
\* the statement.
FinallyNotSkipped == [][FinallyStays]_exVars
=============================================================================
