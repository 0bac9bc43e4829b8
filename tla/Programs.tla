-------------------------------- MODULE Programs --------------------------------
(***************************************************************************)
(* Programs and what they mean: the trees the compiler's passes translate  *)
(* (rlyeh-ast, rlyeh-hir, and the values of rlyeh-mir), and an evaluator   *)
(* that is the reference the passes are checked against.                   *)
(*                                                                         *)
(* Integers are unbounded (the programs stay far from every width), Bool   *)
(* is 0 and 1, both operands of && and || are evaluated.  A tree of the    *)
(* source has nested scopes (w.scoped); in the typed tree a name is a slot *)
(* of the function's frame.                                                *)
(***************************************************************************)
EXTENDS Integers, Sequences, FiniteSets, SequencesExt, TLC

(* Names: variables of the program, temporaries `_tN` of lowering, copies  *)
(* `_iN` of inlining (one for each call site and name), fields of the      *)
(* state machine of an async fn, a static mut.                             *)
User(x) == <<"user", x>>
Temp(n) == <<"temp", n>>
Inlined(site, x) == <<"inlined", <<site, x>>>>
Field(x) == <<"self", x>>
Global == <<"global", "G">>

Num(n) == [k |-> "int", n |-> n]
Flag(n) == [k |-> "bool", n |-> n]
Unit == [k |-> "unit"]
Never == [k |-> "never"]
Place(x) == [k |-> "place", x |-> x]
Bin(op, l, r) == [k |-> "bin", op |-> op, l |-> l, r |-> r]
Not(e) == [k |-> "not", e |-> e]
Call(f, args) == [k |-> "call", f |-> f, args |-> args]
Await(f, args) == [k |-> "await", f |-> f, args |-> args]
LetStmt(x, e) == [k |-> "let", x |-> x, e |-> e]
Set(x, e) == [k |-> "set", x |-> x, e |-> e]
Block(stmts, final) == [k |-> "block", stmts |-> stmts, final |-> final]
If(c, then, else) == [k |-> "if", c |-> c, then |-> then, else |-> else]
While(c, b) == [k |-> "while", c |-> c, b |-> b]
Loop(b) == [k |-> "loop", b |-> b]
For(x, lo, hi, b) == [k |-> "for", x |-> x, lo |-> lo, hi |-> hi, b |-> b]
Break(e) == [k |-> "break", e |-> e]
Continue == [k |-> "continue"]
Return(e) == [k |-> "return", e |-> e]
Chain(es, ops) == [k |-> "chain", es |-> es, ops |-> ops]
SetLookup(e, members, negated) == [k |-> "lookup", e |-> e, members |-> members, negated |-> negated]
RangeCheck(e, lo, hi, negated) == [k |-> "range", e |-> e, lo |-> lo, hi |-> hi, negated |-> negated]
Match(e, arms) == [k |-> "match", e |-> e, arms |-> arms]
Arm(p, guard, b) == [p |-> p, guard |-> guard, b |-> b]
(* A let of a value whose type implements Drop; a value of an enum, with   *)
(* its tag in front of its fields; a slot of one (ptr: what is read there  *)
(* is read through); `e in (spans)`; `try { .. }`; `e?` on an Option.      *)
Own(x, e) == [k |-> "own", x |-> x, e |-> e]
Ctor(tag, args) == [k |-> "ctor", tag |-> tag, args |-> args]
FieldGet(e, i, ptr) == [k |-> "slot", e |-> e, i |-> i, ptr |-> ptr]
InSet(e, spans, negated) == [k |-> "in", e |-> e, spans |-> spans, negated |-> negated]
Try(b) == [k |-> "try", b |-> b]
Question(e) == [k |-> "question", e |-> e]
(* The future of an async fn, and a poll of the one a field holds.         *)
Future(f, args) == [k |-> "future", f |-> f, args |-> args]
Poll(x, bound, ready, pending) ==
  [k |-> "poll", x |-> x, bound |-> bound, ready |-> ready, pending |-> pending]

(* Patterns; a span is a range of integers with each end in it or not.     *)
PAny == [k |-> "any"]
PBind(x) == [k |-> "bind", x |-> x]
PLit(n) == [k |-> "lit", n |-> n]
PRange(span) == [k |-> "within", span |-> span]
PVariant(tag, subs) == [k |-> "variant", tag |-> tag, subs |-> subs]
PTuple(subs) == [k |-> "tuple", subs |-> subs]
POr(alts) == [k |-> "or", subs |-> alts]
Span(lo, hi, lowIn, highIn) == [lo |-> lo, hi |-> hi, lowIn |-> lowIn, highIn |-> highIn]
InSpan(n, s) == (s.lo < n \/ (s.lowIn /\ n = s.lo)) /\ (n < s.hi \/ (s.highIn /\ n = s.hi))
NoneTag == 0
SomeTag == 1

Control == {"if", "match", "for", "while", "loop"}

Unary == {"not", "let", "own", "set", "break", "return", "lookup", "range", "in", "slot", "question"}

(* The trees directly under e, from the left, and e with others in their   *)
(* place; guards are not among them.                                       *)
Kids(e) ==
  CASE e.k = "bin" -> <<e.l, e.r>>
    [] e.k \in Unary -> <<e.e>>
    [] e.k \in {"call", "await", "future", "ctor"} -> e.args
    [] e.k = "chain" -> e.es
    [] e.k = "block" -> Append(e.stmts, e.final)
    [] e.k = "if" -> <<e.c, e.then, e.else>>
    [] e.k = "while" -> <<e.c, e.b>>
    [] e.k \in {"loop", "try"} -> <<e.b>>
    [] e.k = "for" -> <<e.lo, e.hi, e.b>>
    [] e.k = "match" -> <<e.e>> \o [i \in DOMAIN e.arms |-> e.arms[i].b]
    [] e.k = "poll" -> <<e.ready, e.pending>>
    [] OTHER -> <<>>

WithKids(e, kids) ==
  CASE e.k = "bin" -> Bin(e.op, kids[1], kids[2])
    [] e.k \in Unary -> [e EXCEPT !.e = kids[1]]
    [] e.k \in {"call", "await", "future", "ctor"} -> [e EXCEPT !.args = kids]
    [] e.k = "chain" -> [e EXCEPT !.es = kids]
    [] e.k = "block" -> Block(Front(kids), Last(kids))
    [] e.k = "if" -> If(kids[1], kids[2], kids[3])
    [] e.k = "while" -> While(kids[1], kids[2])
    [] e.k \in {"loop", "try"} -> [e EXCEPT !.b = kids[1]]
    [] e.k = "for" -> For(e.x, kids[1], kids[2], kids[3])
    [] e.k = "match" ->
         Match(kids[1], [i \in DOMAIN e.arms |-> [e.arms[i] EXCEPT !.b = kids[i + 1]]])
    [] e.k = "poll" -> Poll(e.x, e.bound, kids[1], kids[2])
    [] OTHER -> e

(* A pass over the members of a sequence (joined to an empty one so that   *)
(* TLC computes each member once).                                         *)
Each(s, Op(_)) == <<>> \o [i \in DOMAIN s |-> Op(s[i])]

(* The names a pattern binds, in order.                                    *)
RECURSIVE BindNames(_)
BindNames(p) ==
  CASE p.k = "bind" -> <<p.x>>
    [] p.k \in {"variant", "tuple"} -> FlattenSeq([i \in DOMAIN p.subs |-> BindNames(p.subs[i])])
    [] p.k = "or" -> BindNames(p.subs[1])
    [] OTHER -> <<>>

Declared(stmts) == {s.x : s \in {t \in ToSet(stmts) : t.k \in {"let", "own"}}}

(* The names e uses that nothing in scope declares.                        *)
RECURSIVE Unbound(_, _)
Unbound(e, scope) ==
  LET inner(n, more) == Unbound(Kids(e)[n], scope \cup more)
      before(n) == Declared(SubSeq(e.stmts, 1, n - 1))
      bound(arm) == ToSet(BindNames(arm.p))
      guards == IF e.k # "match" THEN {} ELSE UNION {Unbound(a.guard, scope \cup bound(a)) : a \in ToSet(e.arms)}
      named == IF e.k \in {"place", "set", "poll"} THEN {e.x} \ scope ELSE {}
  IN  named \cup guards \cup UNION {CASE e.k = "block" -> inner(n, before(n))
                          [] e.k = "for" /\ n = 3 -> inner(n, {e.x})
                          [] e.k = "match" /\ n > 1 -> inner(n, bound(e.arms[n - 1]))
                          [] e.k = "poll" -> inner(n, {e.bound})
                          [] OTHER -> inner(n, {}) : n \in DOMAIN Kids(e)}

Truth(b) == IF b THEN 1 ELSE 0
Apply(op, a, b) ==
  CASE op = "add" -> a + b
    [] op = "sub" -> a - b
    [] op = "eq" -> Truth(a = b)
    [] op = "ne" -> Truth(a # b)
    [] op = "lt" -> Truth(a < b)
    [] op = "le" -> Truth(a <= b)
    [] op = "ge" -> Truth(a >= b)
    [] op = "gt" -> Truth(a > b)
    [] op = "and" -> Truth(a = 1 /\ b = 1)
    [] op = "or" -> Truth(a = 1 \/ b = 1)

-----------------------------------------------------------------------------
(* An evaluation gives the frame, the world, the value and how control     *)
(* left.  The world is the output so far, the value of the global, the     *)
(* functions, the fuel left (a loop that uses it up runs for ever), how    *)
(* often a future says Pending and the values to be dropped.               *)
Fuel == 12
World(fns, scoped, delay) ==
  [out |-> <<>>, glob |-> 0, fns |-> fns, scoped |-> scoped, delay |-> delay, fuel |-> Fuel, owned |-> <<>>]
Garbage == -1

ReadVar(x, env, w) ==
  IF x = Global THEN w.glob ELSE IF x \in DOMAIN env THEN env[x] ELSE Garbage

(* A frame and a world after x is set to n.                                *)
Written(x, n, env, w) ==
  IF x = Global THEN <<env, [w EXCEPT !.glob = n]>> ELSE <<(x :> n) @@ env, w>>

Result(env, w, n, how) == [env |-> env, w |-> w, n |-> n, how |-> how]

(* The frame of an inner block, seen again from outside: what the names    *)
(* declared inside hide comes back (@@ makes TLC compute it at once).      *)
Outside(inner, outer, names) ==
  [x \in (DOMAIN inner \ names) \cup (DOMAIN outer \cap names) |->
     IF x \in names THEN outer[x] ELSE inner[x]] @@ <<>>
Dropped(n) == 100 + n

(* The frame a pattern that fits v gives: none or one.                     *)
RECURSIVE Binds(_, _), BindsAll(_, _)
Binds(p, v) ==
  CASE p.k = "any" -> {<<>>}
    [] p.k = "bind" -> {p.x :> v}
    [] p.k = "lit" -> IF v = p.n THEN {<<>>} ELSE {}
    [] p.k = "within" -> IF InSpan(v, p.span) THEN {<<>>} ELSE {}
    [] p.k = "variant" -> IF v[1] = p.tag THEN BindsAll(p.subs, Tail(v)) ELSE {}
    [] p.k = "tuple" -> BindsAll(p.subs, v)
    [] p.k = "or" -> LET fits == SelectSeq(p.subs, LAMBDA q : Binds(q, v) # {})
                     IN  IF fits = <<>> THEN {} ELSE Binds(fits[1], v)
BindsAll(ps, vs) ==
  IF ps = <<>> THEN {<<>>}
  ELSE {f @@ g : f \in Binds(Head(ps), Head(vs)), g \in BindsAll(Tail(ps), Tail(vs))}

RECURSIVE Eval(_, _, _), EvalSeq(_, _, _), Turn(_, _, _), ForTurn(_, _, _, _, _), EvalArms(_, _, _, _)

(* What follows the evaluation r, if control goes on.                      *)
Next1(r, Op(_)) == IF r.how = "next" THEN Op(r) ELSE r

(* The expressions es in order; the value is the sequence of values.       *)
EvalSeq(es, env, w) ==
  IF es = <<>> THEN Result(env, w, <<>>, "next")
  ELSE Next1(Eval(Head(es), env, w), LAMBDA r :
         Next1(EvalSeq(Tail(es), r.env, r.w), LAMBDA rest : [rest EXCEPT !.n = <<r.n>> \o @]))

(* Back outside the frame env, in which names are hidden.                  *)
Back(r, env, names) == [r EXCEPT !.env = Outside(@, env, names)]

(* However a block ends, the values it owns are dropped, the last first.   *)
LeaveBlock(r, b, env, w) ==
  LET own == SubSeq(r.w.owned, Len(w.owned) + 1, Len(r.w.owned))
  IN  IF w.scoped
      THEN [Back(r, env, Declared(b.stmts)) EXCEPT
              !.w.owned = w.owned, !.w.out = @ \o [i \in DOMAIN own |-> Dropped(Reverse(own)[i])]]
      ELSE r
EvalBlock(b, env, w) ==
  LeaveBlock(Next1(EvalSeq(b.stmts, env, w), LAMBDA r : Eval(b.final, r.env, r.w)), b, env, w)

(* After the turn r of a loop.                                             *)
AfterTurn(r, Again(_, _)) ==
  CASE r.how = "break" -> [r EXCEPT !.how = "next"]
    [] r.how \in {"next", "continue"} -> Again(r.env, [r.w EXCEPT !.fuel = @ - 1])
    [] OTHER -> r

Turn(e, env, w) ==
  IF w.fuel = 0 THEN Result(env, w, 0, "stuck")
  ELSE Next1(IF e.k = "while" THEN Eval(e.c, env, w) ELSE Result(env, w, 1, "next"), LAMBDA c :
         IF c.n = 0 THEN c
         ELSE AfterTurn(EvalBlock(e.b, c.env, c.w), LAMBDA env1, w1 : Turn(e, env1, w1)))

ForTurn(e, i, hi, env, w) ==
  IF w.fuel = 0 THEN Result(env, w, 0, "stuck")
  ELSE IF i >= hi THEN Result(env, w, 0, "next")
  ELSE AfterTurn(Back(EvalBlock(e.b, (e.x :> i) @@ env, w), env, {e.x}),
                 LAMBDA env1, w1 : ForTurn(e, i + 1, hi, env1, w1))

(* A comparison chain: every element once, from the left, all of them; an  *)
(* ascending one asks whether all pairs hold, a descending one of three    *)
(* elements whether the middle one is outside.                             *)
EvalChain(e, env, w) ==
  Next1(EvalSeq(e.es, env, w), LAMBDA r :
    LET holds(i) == Apply(e.ops[i], r.n[i], r.n[i + 1]) = 1
        outside == Len(e.ops) = 2 /\ ToSet(e.ops) \subseteq {"gt", "ge"}
    IN  [r EXCEPT !.n = Truth(IF outside THEN holds(1) \/ holds(2) ELSE \A i \in DOMAIN e.ops : holds(i))])

(* The first arm that fits v and whose guard holds; g is the guard's value *)
(* in the arm's frame.                                                     *)
EvalArm(arms, v, env, g) ==
  LET names == ToSet(BindNames(Head(arms).p)) IN
  CASE g.how # "next" -> Back(g, env, names)
    [] g.n = 1 -> Back(Eval(Head(arms).b, g.env, g.w), env, names)
    [] OTHER -> EvalArms(Tail(arms), v, Outside(g.env, env, names), g.w)
EvalGuard(guard, env, w) == IF guard = Unit THEN Result(env, w, 1, "next") ELSE Eval(guard, env, w)
EvalArms(arms, v, env, w) ==
  IF arms = <<>> THEN Result(env, w, 0, "next")
  ELSE LET frames == Binds(Head(arms).p, v)
       IN  IF frames = {} THEN EvalArms(Tail(arms), v, env, w)
           ELSE EvalArm(arms, v, env, EvalGuard(Head(arms).guard, (CHOOSE f \in frames : TRUE) @@ env, w))

(* A `?` that fails leaves with "fail", up to the nearest try or the end.  *)
EvalQuestion(e, env, w) ==
  Next1(Eval(e.e, env, w), LAMBDA r :
    IF r.n[1] = SomeTag THEN [r EXCEPT !.n = @[2]] ELSE [r EXCEPT !.how = "fail"])
LeaveTry(r) ==
  CASE r.how = "next" -> [r EXCEPT !.n = <<SomeTag, @>>]
    [] r.how = "fail" -> [r EXCEPT !.how = "next"]
    [] OTHER -> r

(* A slot that is not there holds garbage; reading through it is wild.     *)
EvalSlot(e, env, w) ==
  Next1(Eval(e.e, env, w), LAMBDA r :
    IF r.n = <<>> THEN [r EXCEPT !.how = "wild"]
    ELSE [r EXCEPT !.n = IF e.i <= Len(@) THEN @[e.i] ELSE IF e.ptr THEN <<>> ELSE Garbage])

(* Back in the caller's frame.                                             *)
LeaveCall(r, env) == IF r.how \in {"stuck", "wild"} THEN r ELSE Result(env, r.w, r.n, "next")
EvalCall(f, args, env, w) ==
  CASE f = "out" -> Result(env, [w EXCEPT !.out = Append(@, args[1])], 0, "next")
    [] f = "drop" -> Result(env, [w EXCEPT !.out = Append(@, Dropped(args[1]))], 0, "next")
    [] OTHER ->
         LeaveCall(EvalBlock(w.fns[f].body, [x \in ToSet(w.fns[f].params) |-> args[1]], w), env)

(* A poll of the future that x holds: Pending while it waits, then the     *)
(* value of the call.                                                      *)
EvalPoll(e, env, w) ==
  LET future == env[e.x]
  IN  IF future.left > 0
      THEN Eval(e.pending, [env EXCEPT ![e.x].left = @ - 1], w)
      ELSE Next1(EvalCall(future.f, future.args, env, w), LAMBDA r :
             Eval(e.ready, (e.bound :> r.n) @@ env, r.w))

Eval(e, env, w) ==
  CASE e.k \in {"int", "bool"} -> Result(env, w, e.n, "next")
    [] e.k = "unit" -> Result(env, w, 0, "next")
    [] e.k = "place" -> Result(env, w, ReadVar(e.x, env, w), "next")
    [] e.k = "bin" ->
         Next1(EvalSeq(<<e.l, e.r>>, env, w), LAMBDA r : [r EXCEPT !.n = Apply(e.op, @[1], @[2])])
    [] e.k = "not" -> Next1(Eval(e.e, env, w), LAMBDA r : [r EXCEPT !.n = 1 - @])
    [] e.k \in {"let", "set"} ->
         Next1(Eval(e.e, env, w), LAMBDA r :
           LET done == Written(e.x, r.n, r.env, r.w) IN Result(done[1], done[2], 0, "next"))
    [] e.k = "block" -> EvalBlock(e, env, w)
    [] e.k = "if" ->
         Next1(Eval(e.c, env, w), LAMBDA r : Eval(IF r.n = 1 THEN e.then ELSE e.else, r.env, r.w))
    [] e.k \in {"while", "loop"} -> Turn(e, env, w)
    [] e.k = "for" ->
         Next1(EvalSeq(<<e.lo, e.hi>>, env, w), LAMBDA r : ForTurn(e, r.n[1], r.n[2], r.env, r.w))
    [] e.k = "match" -> Next1(Eval(e.e, env, w), LAMBDA r : EvalArms(e.arms, r.n, r.env, r.w))
    [] e.k = "own" ->
         Next1(Eval(e.e, env, w), LAMBDA r :
           Result((e.x :> r.n) @@ r.env, [r.w EXCEPT !.owned = Append(@, r.n)], 0, "next"))
    [] e.k = "ctor" -> Next1(EvalSeq(e.args, env, w), LAMBDA r : [r EXCEPT !.n = <<e.tag>> \o @])
    [] e.k = "slot" -> EvalSlot(e, env, w)
    [] e.k = "try" -> LeaveTry(EvalBlock(e.b, env, w))
    [] e.k = "question" -> EvalQuestion(e, env, w)
    [] e.k = "in" ->
         Next1(Eval(e.e, env, w), LAMBDA r :
           [r EXCEPT !.n = Truth((\E s \in ToSet(e.spans) : InSpan(r.n, s)) # e.negated)])
    [] e.k = "continue" -> Result(env, w, 0, "continue")
    [] e.k \in {"break", "return"} ->
         Next1(Eval(e.e, env, w), LAMBDA r : [r EXCEPT !.how = e.k])
    [] e.k = "chain" -> EvalChain(e, env, w)
    [] e.k = "lookup" ->
         Next1(Eval(e.e, env, w), LAMBDA r :
           [r EXCEPT !.n = Truth((@ \in ToSet(e.members)) # e.negated)])
    [] e.k = "range" ->
         Next1(Eval(e.e, env, w), LAMBDA r :
           [r EXCEPT !.n = Truth((e.lo <= @ /\ @ < e.hi) # e.negated)])
    [] e.k \in {"call", "await"} ->
         Next1(EvalSeq(e.args, env, w), LAMBDA r : EvalCall(e.f, r.n, r.env, r.w))
    [] e.k = "future" ->
         Next1(EvalSeq(e.args, env, w), LAMBDA r :
           [r EXCEPT !.n = [f |-> e.f, args |-> @, left |-> w.delay]])
    [] e.k = "poll" -> EvalPoll(e, env, w)

(* What an observer sees of a run.                                         *)
Seen(r) == IF r.how \in {"stuck", "wild"} THEN <<r.how>> ELSE <<"done", r.w.out, r.w.glob, r.n>>
Meaning(body, env, w) == Seen(Eval(body, env, w))
=============================================================================
