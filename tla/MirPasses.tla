------------------------------- MODULE MirPasses -------------------------------
(***************************************************************************)
(* Lowering of the typed tree (HIR) to a control-flow graph (MIR) and the  *)
(* passes that optimise it (rlyeh-mir: lower.rs, passes/const_fold.rs,     *)
(* passes/dce.rs, passes/inline.rs), checked against what the programs     *)
(* mean: a program grows statement by statement, and after every statement *)
(* the tree, the graph and the optimised graph are run and compared.       *)
(*                                                                         *)
(* The trees and what they mean are those of Programs: variables,          *)
(* operators, calls, blocks, if,                                           *)
(* while, loop, break, continue, return and the two membership tests;      *)
(* aggregates, references, casts and regions are left out.  Statements and *)
(* Helpers are the programs' material, MaxLength the statements of main.   *)
(***************************************************************************)
EXTENDS Programs

CONSTANTS Statements,   \* the statements main is made of
          Helpers,      \* bodies of the function f(p), which main may call
          MaxLength

VARIABLES helper,       \* the body of f
          body          \* the statements of main after `let y = 1; let b = ...;`

mirVars == <<helper, body>>

Y == User("y")
B == User("b")
P == User("p")

Main == Block(<<LetStmt(Y, Num(1))>> \o body, Place(Y))
Functions == [main |-> [params |-> <<>>, body |-> Main],
              f |-> [params |-> <<P>>, body |-> helper]]

MirWorld == World(Functions, FALSE, 0)
MainMeans == Meaning(Main, <<>>, MirWorld)

-----------------------------------------------------------------------------
(* Lowering (lower.rs).  The lowerer holds the blocks, the block it fills, *)
(* the number of temporaries and the stack of loops.                       *)
Unfinished == [k |-> "open"]
Jump(t) == [k |-> "jump", t |-> t]
CondJump(c, then, else) == [k |-> "cond", c |-> c, then |-> then, else |-> else]
Leave(v) == [k |-> "return", v |-> v]
AssignStmt(x, v) == [k |-> "assign", x |-> x, v |-> v]
CallStmt(x, f, args) == [k |-> "call", x |-> x, f |-> f, args |-> args]

EmptyBlock == [stmts |-> <<>>, term |-> Unfinished]
Lowerer == [blocks |-> <<EmptyBlock>>, cur |-> 1, temps |-> 0, loops |-> <<>>]

Closed(s) == s.blocks[s.cur].term # Unfinished
Emit(s, stmt) == [s EXCEPT !.blocks[s.cur].stmts = Append(@, stmt)]
Terminate(s, term) == [s EXCEPT !.blocks[s.cur].term = term]
TerminateOpen(s, term) == IF Closed(s) THEN s ELSE Terminate(s, term)
NewBlocks(s, n) == [s EXCEPT !.blocks = @ \o [i \in 1..n |-> EmptyBlock]]
NewTemp(s) == [s EXCEPT !.temps = @ + 1]
Latest(s) == Temp(s.temps)
At(s, block) == [s EXCEPT !.cur = block]
InnerLoop(s) == s.loops[Len(s.loops)]

Lowered(s, v) == [s |-> s, v |-> v]
(* What follows the value r, unless its evaluation left the block.         *)
Then(r, Op(_, _)) == IF r.v = Never THEN r ELSE Op(r.s, r.v)
(* A new temporary that holds the value v.                                 *)
IntoTemp(s, v) == LET t == NewTemp(s) IN Lowered(Emit(t, AssignStmt(Latest(t), v)), Place(Latest(t)))
Negate(v, negated) == IF negated THEN Not(v) ELSE v

RECURSIVE LowerValue(_, _), LowerStmts(_, _), LowerArgs(_, _)

LowerExpr(e, s) ==
  Then(LowerValue(e, s), LAMBDA t, v : IF v.k = "place" THEN Lowered(t, v) ELSE IntoTemp(t, v))

(* The variable x is given the value r, unless its evaluation left.        *)
Stored(x, r) == IF r.v = Never THEN r.s ELSE Emit(r.s, AssignStmt(x, r.v))

LowerStmts(stmts, s) ==
  IF stmts = <<>> \/ Closed(s) THEN s
  ELSE LET e == Head(stmts)
       IN  LowerStmts(Tail(stmts),
                      IF e.k = "let" THEN Stored(e.x, LowerValue(e.e, s)) ELSE LowerValue(e, s).s)

BlockValue(final, s) ==
  IF Closed(s) THEN Lowered(s, Never)
  ELSE IF final = Unit THEN IntoTemp(s, Unit) ELSE LowerExpr(final, s)
LowerBlock(b, s) == BlockValue(b.final, LowerStmts(b.stmts, s))

Places(xs) == [k |-> "args", places |-> xs]
LowerArgs(es, s) ==
  IF es = <<>> THEN Lowered(s, Places(<<>>))
  ELSE Then(LowerExpr(Head(es), s), LAMBDA t, v :
         Then(LowerArgs(Tail(es), t), LAMBDA u, rest : Lowered(u, Places(<<v.x>> \o rest.places))))

(* One branch of an if: its value goes to the result, then to the merge.   *)
Branch(r, result, merge) == Lowered(TerminateOpen(Stored(result, r), Jump(merge)), r.v)
Merge(then, else, result, merge) ==
  Lowered(At(else.s, merge), IF then.v = Never /\ else.v = Never THEN Never ELSE Place(result))

(* The branches of an if whose condition is c.                             *)
LowerBranches(e, c) ==
  LET then == Len(c.s.blocks) + 1
      merge == then + 1
      hasElse == e.else # Unit
      else == IF hasElse THEN merge + 1 ELSE merge
      forked == NewTemp(Terminate(NewBlocks(c.s, IF hasElse THEN 3 ELSE 2), CondJump(c.v.x, then, else)))
      result == Latest(forked)
      behind(t) == IF hasElse THEN Branch(LowerBlock(e.else, At(t.s, else)), result, merge) ELSE Lowered(t.s, Never)
      joined(t) == Merge(t, behind(t), result, merge)
  IN  joined(Branch(LowerBlock(e.then, At(forked, then)), result, merge))
LowerIf(e, s) == LowerBranches(e, LowerExpr(e.c, s))

LowerWhile(e, s) ==
  LET head == Len(s.blocks) + 1
      after == head + 2
      c == LowerExpr(e.c, At(Terminate(NewBlocks(s, 3), Jump(head)), head))
      tested == Terminate(c.s, CondJump(c.v.x, head + 1, after))
      inner == [At(tested, head + 1) EXCEPT
                  !.loops = Append(@, [break |-> after, continue |-> head, slot |-> Never, had |-> {}])]
      done == TerminateOpen(LowerBlock(e.b, inner).s, Jump(head))
  IN  IntoTemp([At(done, after) EXCEPT !.loops = Front(@)], Unit)

(* Behind a loop whose body is lowered: what its breaks gave.              *)
LeaveLoop(s, after, slot) ==
  LET left == [s EXCEPT !.loops = Front(@)]
      had == InnerLoop(s).had
  IN  IF had = {} THEN Lowered(left, Never)
      ELSE IF "value" \in had THEN Lowered(At(left, after), slot)
      ELSE IntoTemp(At(left, after), Unit)

LowerLoop(e, s) ==
  LET first == Len(s.blocks) + 1
      after == first + 1
      entered == NewTemp(At(Terminate(NewBlocks(s, 2), Jump(first)), first))
      slot == Place(Latest(entered))
      inner == [entered EXCEPT
                  !.loops = Append(@, [break |-> after, continue |-> first, slot |-> slot, had |-> {}])]
  IN  LeaveLoop(TerminateOpen(LowerBlock(e.b, inner).s, Jump(first)), after, slot)

BreakValue(e, s) == IF e.e = Unit THEN Lowered(s, Never) ELSE LowerExpr(e.e, s)
Noted(r) ==
  [r.s EXCEPT !.loops[Len(r.s.loops)].had = @ \cup {IF r.v = Never THEN "plain" ELSE "value"}]

(* mutant: the value of a break is evaluated and dropped *)
DropBreak(r) == Lowered(Terminate(Noted(r), Jump(InnerLoop(r.s).break)), Never)

(* A break with the value r leaves the innermost loop.                     *)
LeaveByBreak(r) ==
  LET loop == InnerLoop(r.s)
      stored == IF loop.slot = Never \/ r.v = Never THEN Noted(r) ELSE Emit(Noted(r), AssignStmt(loop.slot.x, r.v))
  IN  Lowered(Terminate(stored, Jump(loop.break)), Never)
LowerBreak(e, s) == LeaveByBreak(BreakValue(e, s))

(* SetLookup and RangeCheck become chains of comparisons of one place.     *)
LowerTest(e, s) ==
  Then(LowerExpr(e.e, s), LAMBDA t, v :
  LET one(op, n) == Bin(op, v, Num(n))
      chain == IF e.k = "range" THEN Bin("and", one("ge", e.lo), one("lt", e.hi))
               ELSE FoldLeft(LAMBDA acc, n : Bin("or", acc, one("eq", n)),
                             one("eq", Head(e.members)), Tail(e.members))
  IN  Lowered(t, Negate(chain, e.negated)))

LowerValue(e, s) ==
  CASE e.k \in {"int", "bool", "unit", "place"} -> Lowered(s, e)
    [] e.k = "bin" ->
         Then(LowerValue(e.l, s), LAMBDA t, l :
           Then(LowerValue(e.r, t), LAMBDA u, r : Lowered(u, Bin(e.op, l, r))))
    [] e.k = "not" -> Then(LowerValue(e.e, s), LAMBDA t, v : Lowered(t, Not(v)))
    [] e.k = "set" ->
         Then(LowerExpr(e.e, s), LAMBDA t, v : Lowered(Emit(t, AssignStmt(e.x, v)), Unit))
    [] e.k = "block" -> LowerBlock(e, s)
    [] e.k = "if" -> LowerIf(e, s)
    [] e.k = "while" -> LowerWhile(e, s)
    [] e.k = "loop" -> LowerLoop(e, s)
    [] e.k = "break" -> LowerBreak(e, s)
    [] e.k = "continue" -> Lowered(Terminate(s, Jump(InnerLoop(s).continue)), Never)
    [] e.k = "return" ->
         LET left(r) == Lowered(Terminate(r.s, Leave(r.v)), Never) IN left(LowerExpr(e.e, s))
    [] e.k \in {"lookup", "range"} -> LowerTest(e, s)
    [] e.k = "call" ->
         Then(LowerArgs(e.args, s), LAMBDA a, args :
           LET t == NewTemp(a) IN Lowered(Emit(t, CallStmt(Latest(t), e.f, args.places)), Place(Latest(t))))

Closing(r) == TerminateOpen(r.s, Leave(r.v))
LowerFunction(f) == [params |-> f.params, blocks |-> Closing(LowerBlock(f.body, Lowerer)).blocks]

Mir == [main |-> LowerFunction(Functions.main), f |-> LowerFunction(Functions.f)]

-----------------------------------------------------------------------------
(* Running a graph: one frame, block after block.                          *)
RECURSIVE Value(_, _, _), RunStmts(_, _, _, _), RunBlock(_, _, _, _, _)

Value(v, env, w) ==
  CASE v.k \in {"int", "bool"} -> v.n
    [] v.k = "unit" -> 0
    [] v.k = "place" -> ReadVar(v.x, env, w)
    [] v.k = "not" -> 1 - Value(v.e, env, w)
    [] v.k = "bin" -> Apply(v.op, Value(v.l, env, w), Value(v.r, env, w))

RunFunction(mir, name, args, w) ==
  RunBlock(mir, name, 1, [x \in ToSet(mir[name].params) |-> args[1]], w)

RunStmts(mir, stmts, env, w) ==
  IF stmts = <<>> THEN Result(env, w, 0, "next")
  ELSE LET s == Head(stmts)
           args == [i \in DOMAIN s.args |-> ReadVar(s.args[i], env, w)]
           r == CASE s.k = "assign" -> Result(env, w, Value(s.v, env, w), "next")
                  [] s.f = "out" -> Result(env, [w EXCEPT !.out = Append(@, args[1])], 0, "next")
                  [] OTHER -> RunFunction(mir, s.f, args, w)
           done == Written(s.x, r.n, env, r.w)
       IN  IF r.how = "stuck" THEN r ELSE RunStmts(mir, Tail(stmts), done[1], done[2])

RunBlock(mir, name, id, env, w) ==
  LET block == mir[name].blocks[id]
      r == RunStmts(mir, block.stmts, env, w)
      goto(t) == RunBlock(mir, name, t, r.env, [r.w EXCEPT !.fuel = @ - 1])
  IN  IF w.fuel = 0 THEN Result(env, w, 0, "stuck")
      ELSE IF r.how = "stuck" THEN r
      ELSE CASE block.term.k = "return" -> Result(r.env, r.w, Value(block.term.v, r.env, r.w), "next")
             [] block.term.k = "jump" -> goto(block.term.t)
             [] block.term.k = "cond" ->
                  goto(IF ReadVar(block.term.c, r.env, r.w) = 1 THEN block.term.then ELSE block.term.else)

Run(mir) == Seen(RunFunction(mir, "main", <<>>, [MirWorld EXCEPT !.fuel = 10 * Fuel]))

EachFunction(mir, Op(_)) == [main |-> Op(mir.main), f |-> Op(mir.f)]

-----------------------------------------------------------------------------
(* const_fold: operators whose operands are literals, then a conditional   *)
(* jump whose variable is given a literal in the block.                    *)
RECURSIVE FoldValue(_)
Literal(v) == v.k \in {"int", "bool"}
FoldValue(v) ==
  CASE v.k = "bin" ->
         LET l == FoldValue(v.l)
             r == FoldValue(v.r)
             n == Apply(v.op, l.n, r.n)
         IN  IF ~Literal(l) \/ ~Literal(r) THEN Bin(v.op, l, r)
             ELSE IF v.op = "add" THEN Num(n) ELSE Flag(n)
    [] v.k = "not" -> LET e == FoldValue(v.e) IN IF Literal(e) THEN Flag(1 - e.n) ELSE Not(e)
    [] OTHER -> v

FoldStmt(s) == IF s.k = "assign" THEN [s EXCEPT !.v = FoldValue(@)] ELSE s

Assigns(block, x) == SelectSeq(block.stmts, LAMBDA s : s.x = x)
Constants(block, x) == SelectSeq(Assigns(block, x), LAMBDA s : s.k = "assign" /\ s.v.k = "bool")

FoldTerm(block) ==
  IF block.term.k # "cond" \/ Constants(block, block.term.c) = <<>> THEN block
  ELSE [block EXCEPT !.term =
          Jump(IF Last(Constants(block, @.c)).v.n = 1 THEN @.then ELSE @.else)]

FoldStmts(block) == [block EXCEPT !.stmts = Each(@, FoldStmt)]
ConstantFold(mir) ==
  EachFunction(mir, LAMBDA f : [f EXCEPT !.blocks = Each(@, LAMBDA b : FoldTerm(FoldStmts(b)))])

(* dce: blocks out of reach, then assignments to temporaries that nothing  *)
(* in the whole function reads.                                            *)
RECURSIVE Used(_), Reach(_, _)
Successors(block) ==
  CASE block.term.k = "jump" -> {block.term.t}
    [] block.term.k = "cond" -> {block.term.then, block.term.else}
    [] OTHER -> {}

Reach(blocks, seen) ==
  LET more == seen \cup UNION {Successors(blocks[i]) : i \in seen}
  IN  IF more = seen THEN seen ELSE Reach(blocks, more)

RemoveUnreachable(f) ==
  LET reached == Reach(f.blocks, {1})
      kept == SelectSeq([i \in DOMAIN f.blocks |-> i], LAMBDA i : i \in reached)
      new(old) == Cardinality({i \in reached : i <= old})
      remap(term) == CASE term.k = "jump" -> Jump(new(term.t))
                       [] term.k = "cond" -> CondJump(term.c, new(term.then), new(term.else))
                       [] OTHER -> term
  IN  [f EXCEPT !.blocks = Each(kept, LAMBDA i : [f.blocks[i] EXCEPT !.term = remap(@)])]

Used(v) ==
  CASE v.k = "place" -> {v.x}
    [] v.k = "bin" -> Used(v.l) \cup Used(v.r)
    [] v.k = "not" -> Used(v.e)
    [] OTHER -> {}

UsedBy(block) ==
  UNION {IF s.k = "assign" THEN Used(s.v) ELSE ToSet(s.args) : s \in ToSet(block.stmts)}
    \cup (CASE block.term.k = "return" -> Used(block.term.v)
            [] block.term.k = "cond" -> {block.term.c}
            [] OTHER -> {})

RemoveDead(f) ==
  LET used == UNION {UsedBy(b) : b \in ToSet(f.blocks)}
      live(s) == ~(s.k = "assign" /\ s.x[1] = "temp" /\ s.x \notin used)
  IN  [f EXCEPT !.blocks = Each(@, LAMBDA b : [b EXCEPT !.stmts = SelectSeq(@, live)])]

DeadCodeElimination(mir) == EachFunction(mir, LAMBDA f : RemoveDead(RemoveUnreachable(f)))

(* inline: a function of one block that ends in a return is copied to its  *)
(* calls; its parameters become the caller's variables, every other name a *)
(* fresh one.                                                              *)
RECURSIVE Renamed(_, _)
(* mutant: only temporaries get a fresh name, as the pass once did *)
SubTemps(x, site) ==
  IF x \in ToSet(site.f.params) THEN site.call.args[1]
  ELSE IF x[1] = "temp" THEN Inlined(site.at, x) ELSE x

Sub(x, site) == IF x \in ToSet(site.f.params) THEN site.call.args[1] ELSE Inlined(site.at, x)

Renamed(v, site) ==
  CASE v.k = "place" -> Place(Sub(v.x, site))
    [] v.k = "bin" -> Bin(v.op, Renamed(v.l, site), Renamed(v.r, site))
    [] v.k = "not" -> Not(Renamed(v.e, site))
    [] OTHER -> v

Inlineable(f) == Len(f.blocks) = 1 /\ f.blocks[1].term.k = "return"

Copy(site) ==
  LET block == site.f.blocks[1]
      copied(c) == IF c.k = "assign" THEN AssignStmt(Sub(c.x, site), Renamed(c.v, site))
                   ELSE CallStmt(Sub(c.x, site), c.f, [i \in DOMAIN c.args |-> Sub(c.args[i], site)])
  IN  Each(block.stmts, copied)
        \o <<AssignStmt(site.call.x, Renamed(block.term.v, site))>>

InlineFunction(mir, f) ==
  LET expand(s, at) ==
        IF s.k = "call" /\ s.f = "f" /\ f # mir.f /\ Inlineable(mir.f)
        THEN Copy([f |-> mir.f, call |-> s, at |-> at]) ELSE <<s>>
      expandBlock(i) ==
        LET stmts == f.blocks[i].stmts
        IN  [f.blocks[i] EXCEPT !.stmts = FlattenSeq([j \in DOMAIN stmts |-> expand(stmts[j], <<i, j>>)])]
  IN  [f EXCEPT !.blocks = <<>> \o [i \in DOMAIN @ |-> expandBlock(i)]]

InlineSmallFunctions(mir) == EachFunction(mir, LAMBDA f : InlineFunction(mir, f))

Optimize(mir) == DeadCodeElimination(InlineSmallFunctions(DeadCodeElimination(ConstantFold(mir))))

-----------------------------------------------------------------------------
MirInit == helper \in Helpers /\ body = <<>>

WriteMain ==
  /\ Len(body) <= MaxLength
  /\ IF body = <<>> THEN \E n \in {0, 1} : body' = <<LetStmt(B, Flag(n))>>
                     ELSE \E s \in Statements : body' = Append(body, s)
  /\ UNCHANGED helper

MirSpec == MirInit /\ [][WriteMain]_mirVars

-----------------------------------------------------------------------------
(* Lowering keeps what a program means: the same output, global and result *)
(* in the same order, whatever mix of loops, breaks with and without a     *)
(* value, continue, early return and nested branches it is made of         *)
(* (lower_if, lower_while and lower_loop patch blocks that a branch may    *)
(* have closed already).                                                   *)
LoweringKeepsMeaning == body # <<>> => Run(Mir) = MainMeans

(* A jump is folded by a literal that a later assignment of the block has  *)
(* overwritten (fold_cond_terms keeps the last literal, not the last       *)
(* value).                                                                 *)
FoldsStaleCondition(mir) ==
  \E b \in ToSet(mir.main.blocks) \cup ToSet(mir.f.blocks) :
    LET block == FoldStmts(b)
        x == block.term.c
    IN  block.term.k = "cond" /\ Constants(block, x) # <<>>
          /\ Last(Constants(block, x)) # Last(Assigns(block, x))

(* An inlined function assigns a parameter, which is the caller's variable *)
(* after inlining, or names a global, which gets a fresh name (map_local). *)
InlinesOuterName(f) ==
  /\ Inlineable(f)
  /\ LET targets == {s.x : s \in ToSet(f.blocks[1].stmts)}
     IN  \/ targets \cap ToSet(f.params) # {}
         \/ Global \in targets \cup UsedBy(f.blocks[1])

(* Outside the two faults named above, the passes change nothing a run     *)
(* shows: folding, the removal of blocks and temporaries, and inlining     *)
(* under fresh names compose (optimize runs the second removal on what     *)
(* inlining left).                                                         *)
PassesKeepMeaning ==
  body # <<>> =>
    \A mir \in {Mir} :
      \/ FoldsStaleCondition(mir)
      \/ InlinesOuterName(DeadCodeElimination(ConstantFold(mir)).f)
      \/ Run(Optimize(mir)) = Run(mir)
=============================================================================
