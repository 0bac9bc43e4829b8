------------------------------ MODULE AsyncDesugar ------------------------------
(***************************************************************************)
(* The desugaring of an async fn into a state machine (rlyeh-desugar:      *)
(* analyze/, generate/).  The body is cut into segments at its awaits and  *)
(* where control flow with an await in it forks and joins; the generated   *)
(* poll runs the segments of the states it passes through until a future   *)
(* is Pending or a jump goes backwards, and what lives across segments     *)
(* becomes a field.                                                        *)
(*                                                                         *)
(* The body grows statement by statement; after every statement the        *)
(* generated poll is run until it is Ready and compared with a run of the  *)
(* body in which an await is a call.  `delay` is how often a future says   *)
(* Pending.  A segment k has the state 2k (2k + 1: polled again); segments *)
(* count from 1.  Values are integers; futures held in variables, generic  *)
(* and recursive async fns are left out.                                   *)
(***************************************************************************)
EXTENDS Programs

CONSTANTS AsyncStatements,   \* the statements the body is made of
          AsyncTails,        \* its tail expressions
          MaxAsync

VARIABLES asyncBody, asyncTail, delay

asyncVars == <<asyncBody, asyncTail, delay>>

Arg == User("p")
Callee == [params |-> <<Arg>>, body |-> Block(<<Call("out", <<Place(Arg)>>)>>, Bin("add", Place(Arg), Num(1)))]
Callees == [out |-> [params |-> <<>>, body |-> Block(<<>>, Unit)], g |-> Callee]
AsyncWorld == World(Callees, TRUE, delay)
AsyncFn == Block(asyncBody, asyncTail)

-----------------------------------------------------------------------------
(* The analysis.  s holds the segments, the names that become fields, the  *)
(* segment of each let, and of the block being cut: the statements of the  *)
(* segment being filled with the names they use, the first and the last    *)
(* segment (0: none yet).  faults notes where the plan departs from the    *)
(* source; it decides nothing.                                             *)
NoAwait == [form |-> "none"]
Blank == [stmts |-> <<>>, await |-> NoAwait, final |-> Unit, next |-> 0, inline |-> FALSE, uses |-> {}]
Analysis == [segs |-> <<>>, lifted |-> {Arg}, lets |-> <<>>, temps |-> 0, err |-> FALSE, faults |-> {},
             cur |-> <<>>, uses |-> {}, first |-> 0, last |-> 0]

(* Continuations that get their number later: the end of the function and  *)
(* the segment where a control flow joins.                                 *)
ToEnd == -1
ToMerge == -2
State == Field(<<"state", 0>>)
GoTo(target) == Set(State, Num(IF target < 0 THEN target ELSE 2 * target))

RECURSIVE Uses(_), HasAwait(_), Extract(_, _), ExtractAll(_, _),
          Retarget(_, _), ExpandStmts(_, _), ExpandControl(_, _, _)

(* scan_expr: the names an expression uses; it stops at an await.          *)
Uses(e) == (IF e.k \in {"place", "set"} THEN {e.x} ELSE {}) \cup UNION {Uses(c) : c \in ToSet(Kids(e))}
HasAwait(e) == e.k = "await" \/ \E c \in ToSet(Kids(e)) : HasAwait(c)

Failed(s) == [s EXCEPT !.err = TRUE]
Fault(s, kind) == [s EXCEPT !.faults = @ \cup {kind}]
Following(s) == Len(s.segs) + 1
AddSegment(s, seg) ==
  [s EXCEPT !.segs = Append(@, seg), !.first = IF @ = 0 THEN Following(s) ELSE @, !.last = Following(s)]
Keep(s, stmt) == [s EXCEPT !.cur = Append(@, stmt), !.uses = @ \cup Uses(stmt)]

Flush(s) ==
  IF s.cur = <<>> THEN s
  ELSE [AddSegment(s, [Blank EXCEPT !.stmts = s.cur, !.next = Following(s) + 1, !.uses = s.uses])
          EXCEPT !.cur = <<>>, !.uses = {}]

(* The last segment of the function body, with what is in hand.            *)
FlushTail(s, e) ==
  [AddSegment(s, [Blank EXCEPT !.stmts = s.cur, !.final = e, !.uses = s.uses \cup Uses(e)])
     EXCEPT !.cur = <<>>, !.uses = {}]

(* form: how the await stands in its statement.                            *)
PushAwait(s, form, x, call) ==
  [AddSegment(s, [Blank EXCEPT !.await = [form |-> form, x |-> x, f |-> call.f, args |-> call.args],
                               !.next = IF form \in {"return", "tail"} THEN 0 ELSE Following(s) + 1,
                               !.uses = s.uses \cup Uses(Call(call.f, call.args))])
     EXCEPT !.uses = {}, !.lifted = IF form = "let" THEN @ \cup {x} ELSE @]

AwaitStmt(s, form, x, call) ==
  IF HasAwait(Call(call.f, call.args)) THEN Failed(s) ELSE PushAwait(Flush(s), form, x, call)

(* extract_expr_awaits: the awaits inside an expression get segments of    *)
(* their own, from the left, and temporaries take their places.            *)
Extracted(inner, e) ==
  LET x == Temp(inner.s.temps)
      call == [e EXCEPT !.args = inner.es]
  IN  IF e.k # "await" THEN [s |-> inner.s, e |-> WithKids(e, inner.es)]
      ELSE [s |-> PushAwait([inner.s EXCEPT !.temps = @ + 1], "let", x, call), e |-> Place(x)]
Extract(s, e) ==
  IF e.k \in Control \cup {"block"} \/ ~HasAwait(e) THEN [s |-> s, e |-> e]
  ELSE Extracted(ExtractAll(s, Kids(e)), e)

ExtractAll(s, es) ==
  LET adding(es1, r) == [s |-> r.s, es |-> Append(es1, r.e)]
  IN  FoldLeft(LAMBDA acc, e : adding(acc.es, Extract(acc.s, e)), [s |-> s, es |-> <<>>], es)

Retarget(e, target) ==
  IF e = GoTo(ToMerge) THEN GoTo(target)
  ELSE WithKids(e, Each(Kids(e), LAMBDA c : Retarget(c, target)))

(* A segment that ends the poll, or holds its own jumps, has no successor. *)
IsTail(seg) == seg.await = NoAwait /\ seg.final = Unit /\ ~seg.inline /\ seg.next = 0
Terminal(seg) ==
  \/ seg.await.form \in {"return", "tail"}
  \/ seg.await = NoAwait /\ (seg.final # Unit \/ IsTail(seg) \/ seg.inline)

(* What ends a block: the value of an inner block is evaluated as a        *)
(* statement and once more by a segment that ends the function.            *)
ExpandTail(s, e, cont) ==
  CASE e.k = "await" -> IF cont = ToEnd THEN AwaitStmt(s, "tail", e.f, e) ELSE Failed(s)
    [] e = Unit -> IF cont = ToEnd THEN AddSegment(Flush(s), Blank) ELSE Flush(s)
    [] OTHER -> IF HasAwait(e) THEN Failed(s)
                ELSE IF cont = ToEnd THEN FlushTail(s, e)
                ELSE FlushTail(Fault(Flush(Keep(s, e)), "value"), e)

(* expand_block: the segments of a block whose successor is cont; gives    *)
(* back the outer block's state with the first segment of the inner one.   *)
Linked(t, s, cont) ==
  LET linked == IF t.last = 0 \/ Terminal(t.segs[t.last]) THEN t
                ELSE [t EXCEPT !.segs[t.last].next = cont]
  IN  [s |-> [linked EXCEPT !.cur = s.cur, !.uses = s.uses, !.first = s.first, !.last = s.last],
       first |-> IF t.first = 0 THEN cont ELSE t.first]
ExpandBlock(s, block, cont) ==
  LET entered == [s EXCEPT !.cur = <<>>, !.uses = {}, !.first = 0, !.last = 0]
  IN  Linked(ExpandTail(ExpandStmts(entered, block.stmts), block.final, cont), s, cont)

(* Blocks with one successor, one after the other; one that is not there   *)
(* is the successor itself.                                                *)
ExpandBlocks(s, blocks, cont) ==
  LET adding(to, r) == [s |-> r.s, to |-> Append(to, GoTo(r.first))]
  IN  FoldLeft(LAMBDA acc, b : adding(acc.to, IF b = Unit THEN [s |-> acc.s, first |-> cont]
                                              ELSE ExpandBlock(acc.s, b, cont)),
               [s |-> s, to |-> <<>>], blocks)

(* The segment a control flow forks in: its jumps are filled in once the   *)
(* branches have their numbers.                                            *)
OpenHead(s, uses) == AddSegment(s, [Blank EXCEPT !.inline = TRUE, !.uses = uses])
CloseHead(s, head, stmt) == [s EXCEPT !.segs[head].stmts = <<stmt>>]
Fork(c, then, else) == If(c, Block(then, Unit), Block(else, Unit))

ForkIf(c, e, cont) ==
  LET close(r) == CloseHead(r.s, Following(c.s), Fork(c.e, <<r.to[1]>>, <<r.to[2]>>))
  IN  close(ExpandBlocks(OpenHead(c.s, Uses(c.e)), <<e.then, e.else>>, cont))
ExpandIf(s, e, cont) == ForkIf(Extract(s, e.c), e, cont)

ExpandLoop(s, e, cont) ==
  LET close(r) == CloseHead(r.s, Following(s), GoTo(r.first))
  IN  close(ExpandBlock(OpenHead(s, {}), e.b, Following(s)))

(* mutant: the body goes on behind the loop *)
ForkWhileOnce(c, e, cont) ==
  LET close(r) == CloseHead(r.s, Following(c.s), Fork(c.e, <<GoTo(r.first)>>, <<GoTo(cont)>>))
  IN  close(ExpandBlock(OpenHead(c.s, Uses(c.e)), e.b, cont))

ForkWhile(c, e, cont) ==
  LET head == Following(c.s)
      noted == IF HasAwait(e.c) THEN Fault(c.s, "condition") ELSE c.s
      close(r) == CloseHead(r.s, head, Fork(c.e, <<GoTo(r.first)>>, <<GoTo(cont)>>))
  IN  close(ExpandBlock(OpenHead(noted, Uses(c.e)), e.b, head))
ExpandWhile(s, e, cont) == ForkWhile(Extract(s, e.c), e, cont)

(* The cursor and the bound of the iteration are fields; their initial     *)
(* values are not scanned for the names they use.                          *)
ForkFor(bounds, e, cont) ==
  LET start == Following(bounds.s)
      head == start + 1
      cursor == Field(<<"cursor", start>>)
      bound == Field(<<"bound", start>>)
      init == [Blank EXCEPT !.stmts = <<Set(cursor, bounds.es[1]), Set(bound, bounds.es[2])>>, !.next = head]
      opened == OpenHead([AddSegment(bounds.s, init) EXCEPT !.lifted = @ \cup {e.x}], {})
      advance == <<Set(Field(e.x), Place(cursor)), Set(cursor, Bin("add", Place(cursor), Num(1)))>>
      close(r) == CloseHead(r.s, head, Fork(Bin("lt", Place(cursor), Place(bound)),
                                            advance \o <<GoTo(r.first)>>, <<GoTo(cont)>>))
  IN  close(ExpandBlock(opened, e.b, head))
ExpandFor(s, e, cont) == ForkFor(ExtractAll(s, <<e.lo, e.hi>>), e, cont)

ForkMatch(v, e, cont) ==
  LET close(r) == CloseHead(r.s, Following(v.s), WithKids(e, <<v.e>> \o r.to))
  IN  IF \E arm \in ToSet(e.arms) : BindNames(arm.p) # <<>> THEN Failed(v.s)
      ELSE close(ExpandBlocks(OpenHead(v.s, Uses(v.e)), Tail(Kids(e)), cont))
ExpandMatch(s, e, cont) == ForkMatch(Extract(s, e.e), e, cont)

ExpandControl(s, e, cont) ==
  CASE e.k = "if" -> ExpandIf(s, e, cont)
    [] e.k = "loop" -> ExpandLoop(s, e, cont)
    [] e.k = "while" -> ExpandWhile(s, e, cont)
    [] e.k = "for" -> ExpandFor(s, e, cont)
    [] e.k = "match" -> ExpandMatch(s, e, cont)

(* The branches join in an empty segment behind them.                      *)
Join(t, before) ==
  LET merge == Following(t)
      joined(seg) == [seg EXCEPT !.next = IF @ = ToMerge THEN merge ELSE @,
                                 !.stmts = Each(@, LAMBDA stmt : Retarget(stmt, merge))]
      patched == [t EXCEPT !.segs = <<>> \o [i \in DOMAIN @ |-> IF i > before THEN joined(@[i]) ELSE @[i]]]
  IN  AddSegment(patched, [Blank EXCEPT !.next = merge + 1])
ExpandControlStmt(s, e) == Join(ExpandControl(s, e, ToMerge), Len(s.segs))

(* One statement of a block.                                               *)
ExpandStmt(s, e) ==
  CASE e.k = "let" /\ e.e.k = "await" -> AwaitStmt(s, "let", e.x, e.e)
    [] e.k = "let" /\ e.e.k # "await" ->
         IF HasAwait(e.e) THEN Failed(s)
         ELSE Keep([s EXCEPT !.lets = (e.x :> Following(s)) @@ @], e)
    [] e.k = "await" -> AwaitStmt(s, "stmt", e.f, e)
    [] e.k = "return" /\ e.e.k = "await" -> AwaitStmt(s, "return", e.e.f, e.e)
    [] e.k \in {"break", "continue"} -> Failed(s)
    [] e.k \in Control /\ HasAwait(e) -> ExpandControlStmt(Flush(s), e)
    [] OTHER ->
         LET r == Extract(s, e)
         IN  Keep(IF s.cur = <<>> \/ ~HasAwait(e) THEN r.s ELSE Fault(r.s, "order"), r.e)

ExpandStmts(s, stmts) == FoldLeft(ExpandStmt, s, stmts)

(* analyze_async_fn: a let is lifted when a later segment uses its name.   *)
Crosses(s, x) == \E i \in DOMAIN s.segs : i > s.lets[x] /\ x \in s.segs[i].uses
AnalyzeAsyncFn ==
  LET lift(s) == [s EXCEPT !.lifted = @ \cup {x \in DOMAIN s.lets : Crosses(s, x)}]
  IN  lift(ExpandBlock(Analysis, AsyncFn, ToEnd).s)

-----------------------------------------------------------------------------
(* The generated code (gen_poll, rewrite).  Ready(v) is v.                 *)
PollPending == -99
RECURSIVE Rewrite(_, _)
Rewrite(e, lifted) ==
  LET kids == Each(Kids(e), LAMBDA c : Rewrite(c, lifted))
  IN  CASE e.k = "let" /\ e.x \in lifted -> Set(Field(e.x), kids[1])
        [] e.k \in {"place", "set"} /\ e.x \in lifted -> WithKids([e EXCEPT !.x = Field(@)], kids)
        [] OTHER -> WithKids(e, kids)

Slot(f) == Field(<<"future", f>>)
Ready(seg) ==
  CASE seg.await.form = "let" -> Block(<<Set(Field(seg.await.x), Place(User("v"))), GoTo(seg.next)>>, Unit)
    [] seg.await.form = "stmt" -> GoTo(seg.next)
    [] OTHER -> Return(Place(User("v")))

InState(n, stmts) == Fork(Bin("eq", Place(State), Num(n)), stmts, <<>>)
PollFuture(seg, waiting) ==
  Poll(Slot(seg.await.f), User("v"), Ready(seg), Block(waiting \o <<Return(Num(PollPending))>>, Unit))

(* The tests of segment k's states.                                        *)
StateIfs(s, k) ==
  LET seg == s.segs[k]
      stmts == Each(seg.stmts, LAMBDA e : Rewrite(e, s.lifted))
      args == Each(seg.await.args, LAMBDA e : Rewrite(e, s.lifted))
      tail == IF seg.final = Unit THEN Num(0) ELSE Rewrite(seg.final, s.lifted)
  IN  IF seg.await # NoAwait
      THEN <<InState(2 * k, <<Set(Slot(seg.await.f), Future(seg.await.f, args)),
                              PollFuture(seg, <<Set(State, Num(2 * k + 1))>>)>>),
             InState(2 * k + 1, <<PollFuture(seg, <<>>)>>)>>
      ELSE <<InState(2 * k, stmts \o (IF seg.final # Unit \/ IsTail(seg) THEN <<Return(tail)>>
                                      ELSE IF seg.inline THEN <<>> ELSE <<GoTo(seg.next)>>))>>

PollBody(s) == Block(FlattenSeq([k \in DOMAIN s.segs |-> StateIfs(s, k)]), Num(PollPending))

(* The constructor: the argument, zero in every other field.               *)
Fields(s) ==
  [x \in {Field(y) : y \in s.lifted} |-> IF x = Field(Arg) THEN 1 ELSE 0] @@ (State :> 2)

(* block_on: poll until Ready; between two polls only the fields live.     *)
RECURSIVE RunPolls(_, _, _, _)
RunPolls(body, fields, w, polls) ==
  LET r == Eval(body, fields, w)
      kept == [x \in {y \in DOMAIN r.env : y[1] = "self"} |-> r.env[x]]
  IN  IF polls = 0 \/ r.how = "stuck" THEN Result(fields, w, 0, "stuck")
      ELSE IF r.n = PollPending THEN RunPolls(body, kept, r.w, polls - 1) ELSE r

-----------------------------------------------------------------------------
AsyncInit == asyncBody = <<>> /\ asyncTail \in AsyncTails /\ delay \in {0, 1}

WriteAsync ==
  /\ Len(asyncBody) <= MaxAsync
  /\ IF asyncBody = <<>> THEN asyncBody' = <<LetStmt(User("y"), Place(Arg))>>
                          ELSE \E e \in AsyncStatements : asyncBody' = Append(asyncBody, e)
  /\ UNCHANGED <<asyncTail, delay>>
  /\ Unbound(AsyncFn', {Arg}) = {}

AsyncSpec == AsyncInit /\ [][WriteAsync]_asyncVars

-----------------------------------------------------------------------------
(* A name declared inside a block that already means something outside, or *)
(* the variable of a for that stays a loop while its name is a field: both *)
(* end up as one field.                                                    *)
RECURSIVE Hides(_, _, _)
Hides(e, scope, lifted) ==
  LET names == scope \cup (IF e.k = "block" THEN Declared(e.stmts) ELSE IF e.k = "for" THEN {e.x} ELSE {})
  IN  \/ e.k = "block" /\ Declared(e.stmts) \cap scope # {}
      \/ e.k = "for" /\ e.x \in scope \cup (IF HasAwait(e) THEN {} ELSE lifted)
      \/ \E c \in ToSet(Kids(e)) : Hides(c, names, lifted)

(* The state machine shows what the function means: the same calls in the  *)
(* same order and the same value, whether the futures are ready at once or *)
(* not - for every function that is accepted, except in four shapes in     *)
(* which it does not: an await inside an expression statement runs before  *)
(* the statements in front of it ("order"); an await in a while condition  *)
(* runs once ("condition"); the value of an inner block ends the function  *)
(* ("value"); two variables of one name share a field (Hides).             *)
DesugarKeepsMeaning ==
  asyncBody # <<>> =>
    \A s \in {AnalyzeAsyncFn} : \A body \in {PollBody(s)} :
      LET accepted == ~s.err /\ \A x \in Unbound(body, {}) : x[1] = "self"
      IN  accepted /\ s.faults = {} /\ ~Hides(AsyncFn, {Arg}, s.lifted)
            => Seen(RunPolls(body, Fields(s), [AsyncWorld EXCEPT !.fuel = 10 * Fuel], 10 * Fuel))
                 = Meaning(AsyncFn, (Arg :> 1), AsyncWorld)
=============================================================================
