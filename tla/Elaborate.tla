-------------------------------- MODULE Elaborate --------------------------------
(***************************************************************************)
(* The type checker as a translation (rlyeh-typecheck): a function of the  *)
(* source becomes a tree (rlyeh-hir) in which every variable is a slot of  *)
(* the one frame of its function, and matches, ranges, comparison chains,  *)
(* set tests, `?`, try blocks and the ends of scopes are spelled out.      *)
(*                                                                         *)
(* The body grows statement by statement; after every statement the tree   *)
(* is run and compared with the meaning of the source.  Programs are well  *)
(* typed: types decide nothing here but which slots hold pointers and      *)
(* which values have a destructor.  Values are integers and enum values,   *)
(* the fallible type is Option; generics, closures, methods, strings and   *)
(* containers are left out.                                                *)
(***************************************************************************)
EXTENDS Programs

CONSTANTS ElabStatements,   \* the statements the body is made of
          ElabTail,         \* its tail expression
          MaxElab

VARIABLE elabBody

ElabFns == [x \in {"out", "drop", "f"} |->
              [params |-> <<User("p")>>,
               body |-> Block(<<Call("out", <<Place(User("p"))>>)>>, Place(User("p")))]]
ElabWorld(scoped) == World(ElabFns, scoped, 0)
ElabFn == Block(elabBody, ElabTail)
ElabParam == User("a")

-----------------------------------------------------------------------------
(* The context.  A scope has the slot of each of its names, its names in   *)
(* the order of their declaration, and those whose value has a destructor; *)
(* loops are the loops and try blocks around, the outermost first.  faults *)
(* notes where the tree departs from the source; it decides nothing.       *)
Scope == [slots |-> <<>>, order |-> <<>>, owned |-> {}]
Context == [scopes |-> <<>>, seq |-> 0, temps |-> 0, loops |-> <<>>, err |-> FALSE, faults |-> {}]

TopScope(c) == Last(c.scopes)
Push(c) == [c EXCEPT !.scopes = Append(@, Scope)]
Pop(c) == [c EXCEPT !.scopes = Front(@)]
CheckTemp(n) == <<"check", n>>
Reject(c) == [c EXCEPT !.err = TRUE]
Notice(c, kind, when) == IF when THEN [c EXCEPT !.faults = @ \cup {kind}] ELSE c
FreshTemp(c) == [c EXCEPT !.temps = @ + 1]

(* mutant: an inner variable shares the slot of the one it hides *)
StoredNamePlain(c, x) == x

(* The slot of a variable declared now: a second one in the same scope     *)
(* takes the first one's slot, one that hides another gets a fresh slot.   *)
StoredName(c, x) ==
  IF x \in DOMAIN TopScope(c).slots THEN TopScope(c).slots[x]
  ELSE IF \E i \in DOMAIN c.scopes : x \in DOMAIN c.scopes[i].slots THEN <<"shadow", <<x, c.seq>>>>
  ELSE x

InsertVariable(c, x, owned) ==
  LET slot == StoredName(c, x)
      top == TopScope(c)
      added == [slots |-> (x :> slot) @@ top.slots,
                order |-> IF x \in DOMAIN top.slots THEN top.order ELSE Append(top.order, x),
                owned |-> IF owned THEN top.owned \cup {x} ELSE top.owned \ {x}]
  IN  Notice([c EXCEPT !.scopes = Append(Front(@), added),
                       !.seq = IF slot[1] = "shadow" /\ x \notin DOMAIN top.slots THEN @ + 1 ELSE @],
             "rebound", x \in top.owned)

ResolveVariable(c, x) ==
  LET scope == Last(SelectSeq(c.scopes, LAMBDA s : x \in DOMAIN s.slots)) IN scope.slots[x]

RECURSIVE HasEffect(_), Check(_, _), CheckAll(_, _), CheckPattern(_, _, _)
HasEffect(e) == e.k \in {"call", "set"} \/ \E kid \in ToSet(Kids(e)) : HasEffect(kid)

Checked(c, e) == [c |-> c, e |-> e]
(* Trees from the left, each in the context the one before it left; the    *)
(* first error ends the checking.                                          *)
CheckAll(c, es) ==
  LET behind(r, rest) == [c |-> rest.c, es |-> <<r.e>> \o rest.es]
      goOn(r) == IF r.c.err THEN [c |-> r.c, es |-> es] ELSE behind(r, CheckAll(r.c, Tail(es)))
  IN  IF es = <<>> \/ c.err THEN [c |-> c, es |-> es] ELSE goOn(Check(c, Head(es)))
Conjunction(es) == FoldLeft(LAMBDA acc, e : Bin("and", acc, e), Head(es), Tail(es))
Disjunction(es) == FoldLeft(LAMBDA acc, e : Bin("or", acc, e), Head(es), Tail(es))

-----------------------------------------------------------------------------
(* build_scope_drops: at the end of a block, behind its value, the names   *)
(* of its scope in the reverse order of their declaration.                 *)
ScopeDrops(c) ==
  LET names == SelectSeq(Reverse(TopScope(c).order), LAMBDA x : x \in TopScope(c).owned)
  IN  Each(names, LAMBDA x : Call("drop", <<Place(ResolveVariable(c, x))>>))

CloseBlock(r) ==
  LET drops == ScopeDrops(r.c)
      tmp == CheckTemp(r.c.temps)
      plain == Block(Front(r.es), Last(r.es))
      dropping == Block(Append(Front(r.es), LetStmt(tmp, Last(r.es))) \o drops, Place(tmp))
  IN  IF drops = <<>> THEN Checked(Pop(r.c), plain) ELSE Checked(Pop(FreshTemp(r.c)), dropping)
CheckBlock(c, e) == CloseBlock(CheckAll(Push(c), Kids(e)))

(* Control that leaves scopes whose drops stand at their ends.             *)
LeavesEarly(c) == Notice(c, "early", \E i \in DOMAIN c.scopes : c.scopes[i].owned # {})

CheckLet(c, e) ==
  LET bound(t, init) == Checked(t, LetStmt(ResolveVariable(t, e.x), init))
      bind(r) == bound(InsertVariable(r.c, e.x, e.k = "own"), r.e)
  IN  bind(Check(c, e.e))

(* A loop around its trees.                                                *)
CheckLoop(c, e) ==
  LET leave(r) == Checked([r.c EXCEPT !.loops = c.loops], WithKids(e, r.es))
  IN  leave(CheckAll([c EXCEPT !.loops = Append(@, "loop")], Kids(e)))

(* A bare break or continue is refused if the innermost loop is the one a  *)
(* try block stands for; a for is not counted.                             *)
CheckJump(c, e) ==
  LET counted == SelectSeq(c.loops, LAMBDA l : l # "for")
      leave(r) == Checked(LeavesEarly(r.c), WithKids(e, r.es))
  IN  IF counted # <<>> /\ Last(counted) = "try" /\ e \in {Continue, Break(Unit)} THEN Checked(Reject(c), e)
      ELSE leave(CheckAll(c, Kids(e)))

(* try { .. } is a loop left by the value of the block.                    *)
CheckTry(c, e) ==
  LET body == Block(e.b.stmts, Break(Ctor(SomeTag, <<e.b.final>>)))
      leave(r) == Checked([r.c EXCEPT !.loops = c.loops], Loop(r.e))
  IN  leave(Check([c EXCEPT !.loops = Append(@, "try")], body))

(* check_for_range: the variable starts one below and is raised on entry.  *)
ForLoop(bounds, c, e) ==
  LET lo == CheckTemp(bounds.c.temps)
      hi == CheckTemp(bounds.c.temps + 1)
      inner == [InsertVariable(Push(bounds.c), e.x, FALSE) EXCEPT !.temps = @ + 2, !.loops = Append(@, "for")]
      x == ResolveVariable(inner, e.x)
      turn == <<Set(x, Bin("add", Place(x), Num(1))),
                If(Bin("ge", Place(x), Place(hi)), Block(<<Break(Unit)>>, Unit), Unit)>>
      around(b) ==
        Checked([Pop(b.c) EXCEPT !.loops = c.loops],
                Block(<<LetStmt(lo, bounds.es[1]), LetStmt(hi, bounds.es[2]),
                        LetStmt(x, Bin("sub", Place(lo), Num(1))),
                        Loop(Block(turn \o Append(b.e.stmts, b.e.final), Unit))>>, Unit))
  IN  around(Check(inner, e.b))
CheckFor(c, e) == ForLoop(CheckAll(c, <<e.lo, e.hi>>), c, e)

(* check_comparison_chain: an element between two operators stands in two  *)
(* comparisons.                                                            *)
Comparisons(r, e) ==
  LET pairs == [i \in DOMAIN e.ops |-> Bin(e.ops[i], r.es[i], r.es[i + 1])]
      forward == ToSet(e.ops) \subseteq {"lt", "le"}
      backward == ToSet(e.ops) \subseteq {"gt", "ge"} /\ Len(e.ops) = 2
      twice == \E i \in 2..(Len(e.es) - 1) : HasEffect(e.es[i])
  IN  IF Len(e.ops) = 1 THEN Checked(r.c, pairs[1])
      ELSE IF forward THEN Checked(Notice(r.c, "chain", twice), Conjunction(pairs))
      ELSE IF backward THEN Checked(Notice(r.c, "chain", twice), Disjunction(pairs))
      ELSE Checked(Reject(r.c), e)
CheckChain(c, e) == Comparisons(CheckAll(c, e.es), e)

(* check_in_expression: the spans are expanded; up to five members become  *)
(* comparisons, in each of which the value stands.                         *)
OrChainThreshold == 5
ExpandRange(s) ==
  LET start == IF s.lowIn THEN s.lo ELSE s.lo + 1
      end == IF s.highIn THEN s.hi ELSE s.hi - 1
  IN  [i \in 1..(IF start > end THEN 0 ELSE end - start + 1) |-> start + i - 1]
Membership(r, e) ==
  LET members == FlattenSeq(Each(e.spans, ExpandRange))
      tests == Each(members, LAMBDA n : Bin(IF e.negated THEN "ne" ELSE "eq", r.e, Num(n)))
      noted == Notice(r.c, "in", HasEffect(e.e) /\ Len(members) \in (0..OrChainThreshold) \ {1})
  IN  IF members = <<>> THEN Checked(noted, Flag(Truth(e.negated)))
      ELSE IF Len(members) > OrChainThreshold THEN Checked(noted, SetLookup(r.e, members, e.negated))
      ELSE Checked(noted, IF e.negated THEN Conjunction(tests) ELSE Disjunction(tests))
CheckIn(c, e) == Membership(Check(c, e.e), e)

-----------------------------------------------------------------------------
(* check_pattern: the tests and the lets of a pattern on the place v; no   *)
(* tests: it always fits.  The variables join the innermost scope.         *)
Pattern(c, tests, lets) == [c |-> c, tests |-> tests, lets |-> lets]
IsPointer(p) == p.k \in {"variant", "tuple"} \/ (p.k = "or" /\ p.subs[1].k \in {"variant", "tuple"})

(* The sub-patterns on the slots of v from slot n on.                      *)
CheckSubs(p, subs, v, n) ==
  LET adding(acc, q, i) ==
        Pattern(Notice(q.c, "nested", p.tests # <<>> /\ IsPointer(subs[i]) /\ q.tests # <<>>),
                acc.tests \o (IF q.tests = <<>> THEN <<>> ELSE <<Conjunction(q.tests)>>),
                acc.lets \o q.lets)
  IN  FoldLeft(LAMBDA acc, i :
                 adding(acc, CheckPattern(acc.c, subs[i], FieldGet(v, n + i - 1, IsPointer(subs[i]))), i),
               p, [i \in DOMAIN subs |-> i])

(* The lets of an or-pattern are those of its first alternative; the       *)
(* others are checked in scopes of their own.                              *)
Alternatives(first, others, alts) ==
  LET inits(p) == [i \in DOMAIN p.lets |-> p.lets[i].e]
      refused == \/ first.tests = <<>>
                 \/ \E i \in DOMAIN others : others[i].tests = <<>> \/ BindNames(alts[i]) # BindNames(alts[1])
      crossed == \E i \in DOMAIN others : inits(others[i]) # inits(first)
      tests == [i \in DOMAIN alts |-> Conjunction(IF i = 1 THEN first.tests ELSE others[i].tests)]
  IN  IF refused THEN Pattern(Reject(first.c), <<Flag(0)>>, <<>>)
      ELSE Pattern(Notice(first.c, "or", crossed), <<Disjunction(tests)>>, first.lets)
CheckOr(c, alts, v) ==
  LET behind(first) == Alternatives(first, [i \in 2..Len(alts) |-> CheckPattern(Push(first.c), alts[i], v)], alts)
  IN  behind(CheckPattern(c, alts[1], v))

CheckPattern(c, p, v) ==
  CASE p.k = "any" -> Pattern(c, <<>>, <<>>)
    [] p.k = "bind" ->
         LET bound(t) == Pattern(t, <<>>, <<LetStmt(ResolveVariable(t, p.x), v)>>)
         IN  bound(InsertVariable(c, p.x, FALSE))
    [] p.k = "lit" -> Pattern(c, <<Bin("eq", v, Num(p.n))>>, <<>>)
    [] p.k = "within" ->
         Pattern(c, <<Bin(IF p.span.lowIn THEN "ge" ELSE "gt", v, Num(p.span.lo)),
                      Bin(IF p.span.highIn THEN "le" ELSE "lt", v, Num(p.span.hi))>>, <<>>)
    [] p.k = "variant" ->
         CheckSubs(Pattern(c, <<Bin("eq", FieldGet(v, 1, FALSE), Num(p.tag))>>, <<>>), p.subs, v, 2)
    [] p.k = "tuple" -> CheckSubs(Pattern(c, <<>>, <<>>), p.subs, v, 1)
    [] p.k = "or" -> CheckOr(c, p.subs, v)

(* An arm in front of the tree of the arms behind it.  The lets run again  *)
(* in front of the guard, behind the tests.                                *)
ArmTree(acc, arm, p, g, b) ==
  LET then == Block(p.lets, b.e)
      test == IF arm.guard = Unit THEN Conjunction(p.tests)
              ELSE If(Conjunction(p.tests), Block(p.lets, g.e), Block(<<>>, Flag(0)))
      else == IF acc.e = Unit THEN Unit ELSE Block(<<>>, acc.e)
  IN  CASE p.tests = <<>> /\ arm.guard # Unit -> Checked(Reject(Pop(b.c)), Unit)
        [] p.tests = <<>> /\ arm.guard = Unit -> Checked(Pop(b.c), then)
        [] OTHER -> Checked(Pop(b.c), If(test, then, else))
CheckArm(acc, arm, v) ==
  LET guarded(p, g) == ArmTree(acc, arm, p, g, Check(g.c, arm.b))
      fitting(p) == guarded(p, IF arm.guard = Unit THEN Checked(p.c, Unit) ELSE Check(p.c, arm.guard))
  IN  fitting(CheckPattern(Push(acc.c), arm.p, v))

(* check_match_with_scrutinee: a chain of ifs, built from the last arm.    *)
CheckArms(r, arms) ==
  LET tmp == CheckTemp(r.c.temps)
      behind(t) == Checked(t.c, Block(<<LetStmt(tmp, r.e)>>, t.e))
  IN  behind(FoldLeft(LAMBDA acc, arm : CheckArm(acc, arm, Place(tmp)),
                      Checked(FreshTemp(r.c), Unit), Reverse(arms)))

(* e? is a match; in a try block its failing arm is a break.               *)
Unwrap(r) ==
  LET x == CheckTemp(r.c.temps)
      none == Ctor(NoneTag, <<>>)
      inTry == "try" \in ToSet(r.c.loops)
      arms == <<Arm(PVariant(SomeTag, <<PBind(x)>>), Unit, Place(x)),
                Arm(PVariant(NoneTag, <<>>), Unit, IF inTry THEN Break(none) ELSE Return(none))>>
  IN  CheckArms(Checked(Notice(FreshTemp(r.c), "try", inTry /\ Last(r.c.loops) # "try"), r.e), arms)
CheckQuestion(c, e) == Unwrap(Check(c, e.e))

Check(c, e) ==
  CASE e.k = "place" -> Checked(c, Place(ResolveVariable(c, e.x)))
    [] e.k = "set" -> LET r == Check(c, e.e) IN Checked(r.c, Set(ResolveVariable(c, e.x), r.e))
    [] e.k \in {"let", "own"} -> CheckLet(c, e)
    [] e.k = "block" -> CheckBlock(c, e)
    [] e.k \in {"while", "loop"} -> CheckLoop(c, e)
    [] e.k = "for" -> CheckFor(c, e)
    [] e.k \in {"break", "continue", "return"} -> CheckJump(c, e)
    [] e.k = "try" -> CheckTry(c, e)
    [] e.k = "question" -> CheckQuestion(c, e)
    [] e.k = "chain" -> CheckChain(c, e)
    [] e.k = "in" -> CheckIn(c, e)
    [] e.k = "match" -> CheckArms(Check(c, e.e), e.arms)
    [] OTHER -> LET r == CheckAll(c, Kids(e)) IN Checked(r.c, WithKids(e, r.es))

(* The function: its parameter in the function's scope, its body a block.  *)
CheckFunction == Check(InsertVariable(Push(Context), ElabParam, FALSE), ElabFn)

-----------------------------------------------------------------------------
ElabInit == elabBody = <<>>

WriteElab ==
  /\ Len(elabBody) < MaxElab
  /\ \E e \in ElabStatements : elabBody' = Append(elabBody, e)
  /\ Unbound(ElabFn', {ElabParam}) = {}

ElabSpec == ElabInit /\ [][WriteElab]_elabBody

-----------------------------------------------------------------------------
SameMeaning(tree) ==
  Seen(Eval(tree, (ElabParam :> 1), [ElabWorld(FALSE) EXCEPT !.fuel = 10 * Fuel]))
    = Meaning(ElabFn, (ElabParam :> 1), ElabWorld(TRUE))

(* The typed tree of every function that is accepted means what the source *)
(* means: names, hidden variables, destructors at the end of scopes, match *)
(* arms, guards, ranges, chains, `?` and try - except in shapes in which   *)
(* it does not, each with a name: an operand with an effect evaluated more *)
(* than once or not at all ("chain", "in"); a destructor skipped by an     *)
(* early exit or by a second let of the name ("early", "rebound"); a       *)
(* payload read through before its tag is known ("nested"); an or-pattern  *)
(* with its variable in different slots ("or"); `?` in a loop in a try     *)
(* block ("try").                                                          *)
ElaborationKeepsMeaning ==
  elabBody # <<>> => \A t \in {CheckFunction} : ~t.c.err /\ t.c.faults = {} => SameMeaning(t.e)

(* A `?` that fails inside a try block leaves the block with its failure,  *)
(* as docs/rfc/error-handling.md:118 says, also from inside a loop.        *)
TryEndsAtFailure ==
  \A t \in {CheckFunction} : ~t.c.err /\ t.c.faults \subseteq {"try"} => SameMeaning(t.e)
=============================================================================
