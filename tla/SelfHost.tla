------------------------------- MODULE SelfHost -------------------------------
(***************************************************************************)
(* The parser written in Rlyeh (self-host/parser.rl) and the renderings of *)
(* the parser's trees it is compared with (driver, lib.rs: the canonical   *)
(* S-expressions).                                                         *)
(*                                                                         *)
(* The Rlyeh parser has no recursion: an expression goes through a         *)
(* shunting-yard to reverse Polish notation and from there to a tree, on   *)
(* one stack with sentinels; blocks, control statements, matches and       *)
(* functions are frames beside a stack of buffers.                         *)
(*                                                                         *)
(* An S-expression is a tree of module Grammar, also while the program     *)
(* holds it as text: `(type Vec' still open is the tree it becomes.  A     *)
(* token is a leaf, or a tree over the name or literal it carries.  Texts  *)
(* are of the lexemes both lexers split alike: no `+=', `!', `?', `1.5'.   *)
(***************************************************************************)
EXTENDS Grammar, SelfLexer

Unknown == Leaf("?")
TopOf(stack) == IF stack = <<>> THEN Unknown ELSE Last(stack)
Popped(stack) == SubSeq(stack, 1, Len(stack) - 1)
Below(stack, i) == SubSeq(stack, 1, i - 1)
Over(stack, i) == SubSeq(stack, i + 1, Len(stack))
Highest(stack, Is(_)) == Max({0} \cup {i \in DOMAIN stack : Is(stack[i])})
FirstFrom(ts, at, Is(_)) == Min({Len(ts) + 1} \cup {i \in DOMAIN ts : i >= at /\ Is(ts[i])})
Kind(ts, at) == IF at \in DOMAIN ts THEN ts[at].k ELSE "eof"
Eaten(ts, at, kind) == IF Kind(ts, at) = kind THEN at + 1 ELSE at

-----------------------------------------------------------------------------
(* tokenize *)

OperatorName ==
  ("+" :> "add") @@ ("*" :> "mul") @@ ("/" :> "div") @@ ("%" :> "mod") @@ ("&&" :> "and") @@ ("&" :> "bitand")
  @@ ("^" :> "bitxor") @@ ("||" :> "or") @@ ("|" :> "bitor") @@ ("<=" :> "le") @@ ("<<" :> "shl") @@ ("<" :> "lt")
  @@ (">=" :> "ge") @@ (">>" :> "shr") @@ (">" :> "gt") @@ ("!=" :> "ne") @@ ("==" :> "eq")
  @@ ("->" :> "arrow") @@ ("=>" :> "fatarrow") @@ ("::" :> "pathsep")
SelfKeywords ==
  {"let", "mut", "return", "if", "else", "while", "loop", "for", "in", "match", "fn", "pub", "struct", "enum"}

(* prev_op after a lexeme: every word sets it, a keyword too.              *)
SetsOperand(x) == x \notin Marks \/ x \in {")", "::", "..<", "...", "..", "."}
SelfToken(text, i) ==
  LET x == text[i] IN
  CASE x = "-" -> Leaf(IF i > 1 /\ SetsOperand(text[i - 1]) THEN "sub" ELSE "u-")
    [] x \in DOMAIN OperatorName -> Leaf(OperatorName[x])
    [] x \in (Marks \ ({"-"} \cup DOMAIN OperatorName)) \cup SelfKeywords -> Leaf(x)
    [] x \in Ints -> Tree("int", <<Leaf(x)>>)
    [] x = "text" -> Tree("str", <<Leaf(x)>>)
    [] x \in {"true", "false"} -> Tree("bool", <<Leaf(x)>>)
    [] OTHER -> Tree("var", <<Leaf(x)>>)
SelfTokens(text) == [i \in DOMAIN text |-> SelfToken(text, i)]
TypeName(token) == IF token.k = "var" THEN token.c[1] ELSE token

-----------------------------------------------------------------------------
(* parse_expr: the tokens to reverse Polish notation. *)

PrecOf(op) ==
  CASE op \in Ranges -> 5 [] op = "or" -> 10 [] op = "and" -> 20 [] op = "bitor" -> 30 [] op = "bitxor" -> 35
    [] op = "bitand" -> 40 [] op \in {"lt", "le", "gt", "ge", "eq", "ne"} -> 60 [] op \in {"shl", "shr"} -> 70
    [] op \in {"add", "sub"} -> 80 [] op \in {"mul", "div", "mod"} -> 90 [] op = "u-" -> 100 [] OTHER -> 0

(* What `(' and `[' are on the operator stack, and the mark each leaves in *)
(* the notation where it opens and where it closes.                        *)
Brackets == {"(", "(c", "(t", "[", "[a"}
OpenMark == ("(" :> "@PARENSENT@") @@ ("(c" :> "@OPEN@") @@ ("[" :> "@OPEN@") @@ ("[a" :> "@ARRSENT@")
SepMark == ("(c" :> "@ARGSEP@") @@ ("(t" :> "@TUPSEP@") @@ ("(" :> "@TUPSEP@") @@ ("[a" :> "@ARRSEP@")
CloseMark == ("(c" :> "@close-call@") @@ ("(t" :> "@close-tup@") @@ ("[" :> "@close-index@") @@ ("[a" :> "@close-arr@")
Sentinels == {"@OPEN@", "@ARGSEP@", "@PARENSENT@", "@TUPSEP@", "@ARRSENT@", "@ARRSEP@"}
Operands == {"var", "int", "str", "bool", "path"}

Output(q, entry) == [q EXCEPT !.rpn = Append(@, entry)]
Past(q, n, operand) == [q EXCEPT !.at = @ + n, !.operand = operand]
(* The operators over the i-th entry of the stack go to the notation.      *)
Flushed(q, i) == [q EXCEPT !.rpn = @ \o Reverse(Over(q.ops, i)), !.ops = SubSeq(@, 1, i)]
Stopped(q) == [q EXCEPT !.stop = TRUE]

Separated(q, top) ==
  IF top \notin DOMAIN SepMark THEN Stopped(q)
  ELSE Past(Output([q EXCEPT !.ops = IF top = "(" THEN Append(Popped(@), Leaf("(t")) ELSE @], Leaf(SepMark[top])), 1, FALSE)
CommaStep(q) == Separated(q, TopOf(q.ops).k)
ClosedGroup(q, top) ==
  IF q.ops = <<>> THEN Past(q, 1, q.operand)
  ELSE Past([q EXCEPT !.ops = Popped(@), !.rpn = IF top = "(" THEN @ ELSE Append(@, Leaf(CloseMark[top]))], 1, TRUE)
CloseAny(q) == ClosedGroup(q, TopOf(q.ops).k)
Opened(q, bracket) == Past(Output([q EXCEPT !.ops = Append(@, Leaf(bracket))], Leaf(OpenMark[bracket])), 1, FALSE)
Segmented(left, segment) ==
  CASE left.k = "path" -> Tree("path", Append(left.c, segment))
    [] left.k = "var" -> Tree("path", <<left.c[1], segment>>)
    [] OTHER -> Unknown
Operator(q, op) == Past([q EXCEPT !.ops = Append(@, Leaf(op))], 1, FALSE)

ExprStep(ts, q) ==
  LET t == ts[q.at]
      name == IF q.at < Len(ts) THEN TypeName(ts[q.at + 1]) ELSE Unknown
  IN CASE t.k \in {";", "}", "=", ":", "{", "let"} -> Stopped(q)
       [] t.k = "," -> CommaStep(Flushed(q, Highest(q.ops, LAMBDA v : v.k \in Brackets)))
       [] t.k = ")" -> CloseAny(Flushed(q, Highest(q.ops, LAMBDA v : v.k \in {"(", "(c", "(t"})))
       [] t.k = "]" -> CloseAny(Flushed(q, Highest(q.ops, LAMBDA v : v.k \in {"[", "[a"})))
       [] t.k = "pathsep" -> Past([q EXCEPT !.rpn = Append(Popped(@), Segmented(TopOf(@), name))], 2, TRUE)
       [] t.k = "." -> Past(Output(q, Tree("@field@", <<name>>)), 2, TRUE)
       [] t.k = "[" -> Opened(q, IF q.operand THEN "[" ELSE "[a")
       [] t.k = "(" -> Opened(q, IF q.operand THEN "(c" ELSE "(")
       [] t.k \in Ranges -> Operator(Flushed(q, Highest(q.ops, LAMBDA v : v.k \in Brackets \/ PrecOf(v.k) < 6)), t.k)
       [] t.k \in Operands -> Past(Output(q, t), 1, TRUE)
       [] OTHER -> Operator(Flushed(q, Highest(q.ops, LAMBDA v : v.k \in {"(", "(c", "["} \/ PrecOf(v.k) < PrecOf(t.k))), t.k)
RECURSIVE ExprLoop(_, _)
ExprLoop(ts, q) == IF q.stop \/ q.at > Len(ts) THEN q ELSE ExprLoop(ts, ExprStep(ts, q))

-----------------------------------------------------------------------------
(* parse_expr: the notation to a tree. *)

RangeMarks(op) == <<Leaf(IF op = "<.." THEN "0" ELSE "1"), Leaf(IF op = "..<" THEN "0" ELSE "1")>>
NodeAt(stack, skipped) == Highest(stack, LAMBDA v : v.k \notin skipped)
NodeOr(stack, i) == IF i = 0 THEN Unknown ELSE stack[i]
Parts(stack, i, skipped) == SelectSeq(Over(stack, i), LAMBDA v : v.k \notin skipped)
BinNode(stack, op, right, left) ==
  Append(Below(stack, left), Tree("bin", <<Leaf(op), NodeOr(stack, left), NodeOr(stack, right)>>))
Operated(stack, op, right) == BinNode(stack, op, right, NodeAt(Below(stack, right), Sentinels))
CallNode(below, arguments) == Append(Popped(below), Tree("call", <<TopOf(below)>> \o arguments))
CallFrom(stack, i) == CallNode(Below(stack, i), Parts(stack, i, {"@ARGSEP@", "@PARENSENT@"}))
ListNode(stack, i, skipped, label) == Append(Below(stack, i), Tree(label, Parts(stack, i, skipped)))
Indexed(stack, index, i) == Append(Below(stack, i), Tree("index", <<NodeOr(stack, i), index>>))
IndexFrom(stack, index) ==
  IF index.k = "@OPEN@" THEN Append(Popped(stack), Unknown)
  ELSE Indexed(Popped(Popped(stack)), index, NodeAt(Popped(Popped(stack)), {"@PARENSENT@"}))
Negated(stack, i) == Append(Below(stack, i), Tree("neg", <<NodeOr(stack, i)>>))

Reduced(stack, entry) ==
  CASE entry.k \in Operands \cup Sentinels -> Append(stack, entry)
    [] entry.k = "u-" -> Negated(stack, NodeAt(stack, Sentinels))
    [] entry.k = "@field@" -> Append(Popped(stack), Tree("field", <<TopOf(stack), entry.c[1]>>))
    [] entry.k = "@close-index@" -> IndexFrom(stack, TopOf(stack))
    [] entry.k = "@close-call@" -> CallFrom(stack, Highest(stack, LAMBDA v : v.k = "@OPEN@"))
    [] entry.k = "@close-tup@" -> ListNode(stack, Highest(stack, LAMBDA v : v.k = "@PARENSENT@"), {"@TUPSEP@"}, "tuple")
    [] entry.k = "@close-arr@" -> ListNode(stack, Highest(stack, LAMBDA v : v.k = "@ARRSENT@"), {"@ARRSEP@"}, "array-lit")
    [] entry.k \in Ranges ->
         Append(Popped(Popped(stack)), Tree("range", <<TopOf(Popped(stack)), TopOf(stack)>> \o RangeMarks(entry.k)))
    [] OTHER -> Operated(stack, entry.k, NodeAt(stack, Sentinels))
RECURSIVE Built(_, _)
Built(stack, rpn) == IF rpn = <<>> THEN stack ELSE Built(Reduced(stack, Head(rpn)), Tail(rpn))

(* An expression from a token on: its tree, and where it ended.            *)
Notation(q) == q.rpn \o Reverse(SelectSeq(q.ops, LAMBDA v : v.k \notin Brackets))
Ran(ts, at) == ExprLoop(ts, [at |-> at, ops |-> <<>>, rpn |-> <<>>, operand |-> FALSE, stop |-> FALSE])
ExprAt(q, returned) ==
  [at |-> q.at,
   out |-> LET stack == Built(<<>>, Notation(q)) IN
           IF returned THEN Tree("return", IF stack = <<>> THEN <<>> ELSE <<Last(stack)>>) ELSE TopOf(stack)]
ParseExpr(ts, at) == IF Kind(ts, at) = "return" THEN ExprAt(Ran(ts, at + 1), TRUE) ELSE ExprAt(Ran(ts, at), FALSE)

-----------------------------------------------------------------------------
(* TypesOf and patterns. *)

Unsplit(ts) == FlattenSeq([i \in DOMAIN ts |-> IF ts[i].k = "shr" THEN <<Leaf("gt"), Leaf("gt")>> ELSE <<ts[i]>>])

Applied(stack, arguments) ==
  IF stack = <<>> THEN <<Tree("type", <<Unknown>> \o arguments)>>
  ELSE Append(Popped(stack), [Last(stack) EXCEPT !.c = @ \o arguments])
ArrayOf1(parts) ==
  LET sep == FirstFrom(parts, 1, LAMBDA v : v.k = "@ASEP@")
      orUnknown(ps) == IF sep > Len(parts) \/ ps = <<>> THEN <<Unknown>> ELSE ps
  IN Tree("array", orUnknown(Below(parts, sep)) \o orUnknown(Over(parts, sep)))
Mark(q, mark) == [q EXCEPT !.stack = Append(@, Leaf(mark))]
TypeAtom(q, t) ==
  IF q.length THEN t ELSE IF TypeName(t) = Leaf("_") THEN Leaf("infer") ELSE Tree("type", <<TypeName(t)>>)
TypeStep(q, t) ==
  LET opened(mark) == Highest(q.stack, LAMBDA v : v.k = mark)
      since(mark) == Over(q.stack, opened(mark))
  IN CASE t.k = "lt" -> Mark(q, "@GEN@")
       [] t.k = "gt" -> [q EXCEPT !.stack = Applied(Below(@, opened("@GEN@")), since("@GEN@"))]
       [] t.k = "(" -> Mark(q, "@TUP@")
       [] t.k = ")" -> [q EXCEPT !.stack = Append(Below(@, opened("@TUP@")), Tree("tuple-type", since("@TUP@")))]
       [] t.k = "[" -> Mark(q, "@ARR@")
       [] t.k = ";" -> [Mark(q, "@ASEP@") EXCEPT !.length = TRUE]
       [] t.k = "]" -> [stack |-> Append(Below(q.stack, opened("@ARR@")), ArrayOf1(since("@ARR@"))), length |-> FALSE]
       [] t.k = "," -> q
       [] OTHER -> [q EXCEPT !.stack = Append(@, TypeAtom(q, t))]
TypeCore(ts) == TopOf(FoldLeft(TypeStep, [stack |-> <<>>, length |-> FALSE], ts).stack)
TypeTokens(ts) ==
  LET from == IF Kind(ts, 1) = "bitand" THEN Eaten(ts, 2, "mut") ELSE 1 IN
  IF from = 1 THEN TypeCore(ts) ELSE Tree("ref", Append(SubSeq(ts, 2, from - 1), TypeCore(Over(ts, from - 1))))
TypeOf(ts) == TypeTokens(Unsplit(ts))

(* The parts between commas; nothing after the last one is no part.        *)
Segments(ts) ==
  LET cuts == <<0>> \o SetToSortSeq({i \in DOMAIN ts : ts[i].k = ","}, <) \o <<Len(ts) + 1>>
      parts == [i \in 1..(Len(cuts) - 1) |-> SubSeq(ts, cuts[i] + 1, cuts[i + 1] - 1)]
  IN IF Last(parts) = <<>> THEN Popped(parts) ELSE parts

Names(ts) == [i \in DOMAIN ts |-> TypeName(ts[i])]
PatternTokens(ts) ==
  CASE ts = <<>> -> Unknown
    [] Kind(ts, 1) = "(" -> Tree("tuple-pat", Names(SelectSeq(SubSeq(ts, 2, FirstFrom(ts, 2, LAMBDA v : v.k = ")") - 1), LAMBDA v : v.k # ",")))
    [] OTHER -> TypeName(ts[1])

PatAtom(t) ==
  CASE t.k = "var" -> t.c[1]
    [] t.k = "int" -> Tree("lit-int", t.c)
    [] t.k = "str" -> Tree("lit-str", t.c)
    [] t.k = "bool" -> Tree("lit-bool", t.c)
    [] t.k = ".." -> t
    [] OTHER -> Unknown
RangeIn(ts) == FirstFrom(ts, 1, LAMBDA v : v.k \in Ranges)
HasRange(ts) == RangeIn(ts) <= Len(ts)
Bound(ts) == IF Len(ts) = 1 THEN ParseExpr(ts, 1).out ELSE PatAtom(ts[1])
RangeAt(ts, i) == Tree("range-pat", <<Bound(SubSeq(ts, 1, i - 1)), Bound(Over(ts, i))>> \o RangeMarks(ts[i].k))
RangePat(ts) == RangeAt(ts, RangeIn(ts))
OrSide(ts) == IF Len(ts) # 1 /\ HasRange(ts) THEN RangePat(ts) ELSE PatAtom(ts[1])
TuplePat(ts) ==
  LET parts == SelectSeq(Segments(SubSeq(ts, 2, Len(ts) - 1)), LAMBDA s : s # <<>>) IN
  Tree("tuple-pat", [i \in DOMAIN parts |-> OrSide(parts[i])])
OrAlternatives(ts, bar) == Tree("or", <<OrSide(SubSeq(ts, 1, bar - 1)), OrSide(Over(ts, bar))>>)
OnePattern(ts) == IF Kind(ts, 1) = "(" /\ Kind(ts, Len(ts)) = ")" THEN TuplePat(ts) ELSE PatAtom(ts[1])
MatchPattern(ts) ==
  LET bar == FirstFrom(ts, 1, LAMBDA v : v.k = "bitor") IN
  CASE ts = <<>> -> Unknown
    [] ts # <<>> /\ bar <= Len(ts) -> OrAlternatives(ts, bar)
    [] ts # <<>> /\ bar > Len(ts) -> IF HasRange(ts) THEN RangePat(ts) ELSE OnePattern(ts)

-----------------------------------------------------------------------------
(* Declarations: each result is the parts of the tree and where it ended. *)

PubMark(pub) == IF pub THEN <<Leaf("pub")>> ELSE <<>>

GenericsRead(ts) == <<Tree("generics", Names(SelectSeq(ts, LAMBDA v : v.k # ",")))>>
GenericsTo(ts, at, close) == [at |-> close + 1, out |-> GenericsRead(SubSeq(ts, at + 1, close - 1))]
ParseGenerics(ts, at) ==
  IF Kind(ts, at) # "lt" THEN [at |-> at, out |-> <<>>] ELSE GenericsTo(ts, at, FirstFrom(ts, at, LAMBDA v : v.k = "gt"))

RenderParam(ts) ==
  LET k == Eaten(ts, 1, "mut") IN
  Tree("param", SubSeq(ts, 1, k - 1) \o <<IF k <= Len(ts) THEN TypeName(ts[k]) ELSE Unknown,
                  IF Kind(ts, k + 1) = ":" THEN TypeOf(Over(ts, k + 1)) ELSE Unknown>>)
Params(segments) ==
  LET stated == SelectSeq(segments, LAMBDA s : s # <<>>) IN
  Tree("params", [i \in DOMAIN stated |-> RenderParam(stated[i])])
CloseOf(ts, at) ==
  LET count(i, kind) == Cardinality({j \in at..(i - 1) : ts[j].k = kind}) IN
  Min({Len(ts) + 1} \cup {i \in at..Len(ts) : ts[i].k = ")" /\ count(i, "(") = count(i, ")")})
AfterParams(ts, at, close, head) ==
  LET brace == FirstFrom(ts, close + 1, LAMBDA v : v.k = "{")
      parts == Append(head, Params(Segments(SubSeq(ts, at, close - 1))))
  IN IF Kind(ts, close + 1) = "arrow" THEN [at |-> brace, out |-> Append(parts, TypeOf(SubSeq(ts, close + 2, brace - 1)))]
     ELSE [at |-> close + 1, out |-> parts]
ParamsFrom(ts, at, head) == AfterParams(ts, at, CloseOf(ts, at), head)
ParseFnHeader(ts, at, pub) ==
  LET g == ParseGenerics(ts, at + 1) IN ParamsFrom(ts, Eaten(ts, g.at, "("), PubMark(pub) \o <<TypeName(ts[at])>> \o g.out)

(* Fields up to the brace; a type ends at the next comma.                  *)
RECURSIVE FieldsTo(_, _, _)
FieldTo(ts, at, colon, end, out) ==
  FieldsTo(ts, end, Append(out, Tree("field", <<TypeName(ts[at]), TypeOf(SubSeq(ts, colon, end - 1))>>)))
FieldFrom(ts, at, colon, out) == FieldTo(ts, at, colon, FirstFrom(ts, colon, LAMBDA v : v.k \in {",", "}"}), out)
FieldsTo(ts, at, out) ==
  CASE Kind(ts, at) \in {"}", "eof"} -> [at |-> at + 1, out |-> out]
    [] Kind(ts, at) = "," -> FieldsTo(ts, at + 1, out)
    [] OTHER -> FieldFrom(ts, at, Eaten(ts, at + 1, ":"), out)

TupleTo(ts, at, close) ==
  LET parts == Segments(SubSeq(ts, at, close - 1)) IN [at |-> close + 1, out |-> [i \in DOMAIN parts |-> TypeOf(parts[i])]]
TuplePayload(ts, at) ==
  IF Kind(ts, at) = "(" THEN TupleTo(ts, at + 1, FirstFrom(ts, at, LAMBDA v : v.k = ")")) ELSE [at |-> at, out |-> <<>>]
FieldPayload(ts, p) == IF Kind(ts, p.at) = "{" THEN FieldsTo(ts, p.at + 1, p.out) ELSE p
RECURSIVE VariantsTo(_, _, _)
VariantTo(ts, name, payload, out) == VariantsTo(ts, payload.at, Append(out, Tree("variant", <<name>> \o payload.out)))
VariantsTo(ts, at, out) ==
  CASE Kind(ts, at) \in {"}", "eof"} -> [at |-> at + 1, out |-> out]
    [] Kind(ts, at) = "," -> VariantsTo(ts, at + 1, out)
    [] OTHER -> VariantTo(ts, TypeName(ts[at]), FieldPayload(ts, TuplePayload(ts, at + 1)), out)

DeclHead(ts, at, pub, g) == [at |-> Eaten(ts, g.at, "{"), out |-> PubMark(pub) \o <<TypeName(ts[at])>> \o g.out]
DeclBody(ts, kind, head) ==
  IF kind = "struct" THEN FieldsTo(ts, head.at, head.out) ELSE VariantsTo(ts, head.at, head.out)
ParseDecl(ts, kind, at, pub) == DeclBody(ts, kind, DeclHead(ts, at, pub, ParseGenerics(ts, at + 1)))

-----------------------------------------------------------------------------
(* parse_program *)

Frame(q, kind, cond, elseif, sink) ==
  [kind |-> kind, cond |-> cond, then |-> <<>>, else |-> <<>>, state |-> "0", elseif |-> elseif, sink |-> sink,
   depth |-> Len(q.buf)]
PushFrame(q, kind, cond, elseif, sink) == [q EXCEPT !.frames = Append(@, Frame(q, kind, cond, elseif, sink))]
GoneTo(q, at) == [q EXCEPT !.at = at]
Top(q) == Last(q.frames)
WithTop(q, frame) == [q EXCEPT !.frames = Append(Popped(@), frame)]
OpenBlock(q) == [q EXCEPT !.at = @ + 1, !.buf = Append(@, <<>>)]
Onto(q, node) == [q EXCEPT !.buf = Append(Popped(@), Append(Last(@), node))]
Semi(node) == Tree("semi", <<node>>)

(* A statement lands in the buffer: bare before a brace.                   *)
Landed(ts, q, node) ==
  CASE Kind(ts, q.at) = ";" -> Onto(GoneTo(q, q.at + 1), Semi(node))
    [] Kind(ts, q.at) = "}" -> Onto(q, node)
    [] OTHER -> Onto(q, Semi(node))

(* A frame goes; `pats' is a stack of its own, which a `for' pushes its    *)
(* pattern on, a match and a function an empty one, and every frame pops.  *)
PopFrame(q) == [q EXCEPT !.frames = Popped(@), !.pats = Popped(@)]
MatchClosed(ts, q) ==
  Landed(ts, [PopFrame(q) EXCEPT !.at = @ + 1, !.heads = Popped(@), !.pattern = <<>>, !.kept = <<>>],
         Tree("match", Top(q).cond \o Top(q).then))
ArmHead(q) ==
  IF Top(q).state = "3" THEN <<MatchPattern(q.kept), ParseExpr(q.pattern, 1).out>> ELSE <<MatchPattern(q.pattern)>>
ArmBegun(q) ==
  [WithTop(q, [Top(q) EXCEPT !.state = "1"])
     EXCEPT !.at = @ + 1, !.heads[Len(q.frames)] = ArmHead(q), !.pattern = <<>>,
            !.kept = IF Top(q).state = "3" THEN <<>> ELSE @]
GuardBegun(q) ==
  [WithTop(q, [Top(q) EXCEPT !.state = "3"]) EXCEPT !.at = @ + 1, !.kept = @ \o q.pattern, !.pattern = <<>>]
MatchStep(ts, q) ==
  LET t == ts[q.at] IN
  CASE t.k = "{" -> OpenBlock(q)
    [] t.k = "}" -> MatchClosed(ts, q)
    [] t.k = "fatarrow" -> ArmBegun(q)
    [] t.k = "if" /\ Top(q).state = "0" -> GuardBegun(q)
    [] t.k = "," /\ q.pattern = <<>> -> GoneTo(q, q.at + 1)
    [] OTHER -> [q EXCEPT !.at = @ + 1, !.pattern = Append(@, t)]

(* A control frame is done: it is the else of the frame below, the init of *)
(* a let, or a statement.                                                  *)
Node(f, pattern) ==
  CASE f.kind = "if" -> Tree("if", f.cond \o f.then \o f.else)
    [] f.kind = "while" -> Tree("while", f.cond \o f.then)
    [] f.kind = "for" -> Tree("for", pattern \o f.cond \o f.then)
    [] OTHER -> Tree("loop", f.then)
LetNode(l, init) == Tree("let", l.mut \o <<l.pattern>> \o l.type \o <<init>>)
(* mutant: an else-if hangs below the if as it is, outside of a block.     *)
ElseOfBare(q, node) == WithTop(q, [Top(q) EXCEPT !.else = <<node>>, !.state = "1"])
ElseOf(q, node) == WithTop(q, [Top(q) EXCEPT !.else = <<Tree("block", <<node>>)>>, !.state = "1"])
RECURSIVE FinishFrame(_, _)
FinishAs(ts, f, q, node) ==
  CASE f.elseif -> FinishFrame(ts, ElseOf(q, node))
    [] ~f.elseif /\ f.sink = "let" -> Onto([q EXCEPT !.lets = Popped(@)], LetNode(Last(q.lets), node))
    [] OTHER -> Landed(ts, q, node)
FinishFrame(ts, q) == FinishAs(ts, Top(q), PopFrame(q), Node(Top(q), IF q.pats = <<>> THEN <<>> ELSE Last(q.pats)))

(* The block of the top frame has ended. *)
Condition(q, kind, r, elseif, sink) == PushFrame(GoneTo(q, r.at), kind, <<r.out>>, elseif, sink)
ElseIf(ts, q) == Condition(q, "if", ParseExpr(ts, q.at + 2), TRUE, "stmt")
ThenEnded(ts, q) ==
  LET next == Kind(ts, q.at + 1) IN
  CASE Kind(ts, q.at) # "else" -> FinishFrame(ts, q)
    [] Kind(ts, q.at) = "else" /\ next = "{" -> GoneTo(WithTop(q, [Top(q) EXCEPT !.state = "2"]), q.at + 1)
    [] Kind(ts, q.at) = "else" /\ next = "if" -> ElseIf(ts, q)
    [] Kind(ts, q.at) = "else" /\ next \notin {"{", "if"} -> FinishFrame(ts, GoneTo(q, q.at + 1))
ControlBlock(ts, q, f, block) ==
  CASE f.state = "0" -> ThenEnded(ts, WithTop(q, [f EXCEPT !.then = <<block>>, !.state = "1"]))
    [] f.state = "2" -> FinishFrame(ts, WithTop(q, [f EXCEPT !.else = <<block>>, !.state = "1"]))
    [] OTHER -> FinishFrame(ts, q)
FrameBlock(ts, q, f, block) ==
  CASE f.kind = "match" ->
         WithTop(q, [f EXCEPT !.then = Append(@, Tree("arm", Append(q.heads[Len(q.frames)], block))), !.state = "0"])
    [] f.kind = "fn" -> Onto(PopFrame(q), Tree("fn", Append(f.cond, block)))
    [] OTHER -> ControlBlock(ts, q, f, block)
OfFrame(q) == q.frames # <<>> /\ Len(q.buf) = Top(q).depth
BlockEnded(ts, q, block) == IF OfFrame(q) THEN FrameBlock(ts, q, Top(q), block) ELSE Landed(ts, q, block)
BraceStep(ts, q) ==
  IF Len(q.buf) = 1 THEN GoneTo(q, q.at + 1)
  ELSE BlockEnded(ts, [q EXCEPT !.at = @ + 1, !.buf = Popped(@)], Tree("block", Last(q.buf)))

(* let: pattern, type, and an initial value or the control frame that gives it. *)
LetPlain(ts, q, l, r) == Onto(GoneTo(q, Eaten(ts, r.at, ";")), LetNode(l, r.out))
LetInit(ts, q, l) ==
  LET pending == [q EXCEPT !.lets = Append(@, l)] IN
  CASE Kind(ts, q.at) = "loop" -> PushFrame(GoneTo(pending, q.at + 1), "loop", <<>>, FALSE, "let")
    [] Kind(ts, q.at) \in {"if", "while"} -> Condition(pending, Kind(ts, q.at), ParseExpr(ts, q.at + 1), FALSE, "let")
    [] OTHER -> LetPlain(ts, q, l, ParseExpr(ts, q.at))
LetFrom(ts, q, at, colon, equals) ==
  LetInit(ts, GoneTo(q, Eaten(ts, equals, "=")),
          [mut |-> SubSeq(ts, q.at + 1, at - 1), pattern |-> PatternTokens(SubSeq(ts, at, colon - 1)),
           type |-> IF Kind(ts, colon) = ":" THEN <<TypeOf(SubSeq(ts, colon + 1, equals - 1))>> ELSE <<>>])
LetTo(ts, q, at, colon) == LetFrom(ts, q, at, colon, FirstFrom(ts, colon, LAMBDA v : v.k = "="))
LetStep(ts, q) ==
  LET at == Eaten(ts, q.at + 1, "mut") IN LetTo(ts, q, at, FirstFrom(ts, at, LAMBDA v : v.k \in {":", "="}))

ForFrame(q, pattern, r) == Condition([q EXCEPT !.pats = Append(@, <<pattern>>)], "for", r, FALSE, "stmt")
ForTo(ts, q, in) == ForFrame(q, PatternTokens(SubSeq(ts, q.at + 1, in - 1)), ParseExpr(ts, Eaten(ts, in, "in")))
MatchFrame(ts, q, r) ==
  [Condition(q, "match", [r EXCEPT !.at = Eaten(ts, r.at, "{")], FALSE, "stmt")
     EXCEPT !.pats = Append(@, <<>>), !.heads = Append(@, <<>>), !.pattern = <<>>, !.kept = <<>>]
FnFrame(q, header) == [PushFrame(GoneTo(q, header.at), "fn", header.out, FALSE, "stmt") EXCEPT !.pats = Append(@, <<>>)]
ItemDeclared(q, kind, d) == Onto(GoneTo(q, d.at), Tree(kind, d.out))
ItemAt(ts, q, at, pub) ==
  IF Kind(ts, at) = "fn" THEN FnFrame(q, ParseFnHeader(ts, at + 1, pub))
  ELSE ItemDeclared(q, Kind(ts, at), ParseDecl(ts, Kind(ts, at), at + 1, pub))
ExprStatement(ts, q, r) == Landed(ts, GoneTo(q, r.at), r.out)
Items == {"fn", "struct", "enum"}

StatementAt(ts, q) ==
  LET kind == ts[q.at].k IN
  CASE kind = ";" -> GoneTo(q, q.at + 1)
    [] kind = "}" -> BraceStep(ts, q)
    [] kind = "{" -> OpenBlock(q)
    [] kind = "let" -> LetStep(ts, q)
    [] kind \in {"if", "while"} -> Condition(q, kind, ParseExpr(ts, q.at + 1), FALSE, "stmt")
    [] kind = "loop" -> PushFrame(GoneTo(q, q.at + 1), "loop", <<>>, FALSE, "stmt")
    [] kind = "for" -> ForTo(ts, q, FirstFrom(ts, q.at + 1, LAMBDA v : v.k = "in"))
    [] kind = "match" -> MatchFrame(ts, q, ParseExpr(ts, q.at + 1))
    [] kind \in Items -> ItemAt(ts, q, q.at, FALSE)
    [] kind = "pub" -> IF Kind(ts, q.at + 1) \in Items THEN ItemAt(ts, q, q.at + 1, TRUE) ELSE GoneTo(q, q.at + 1)
    [] OTHER -> ExprStatement(ts, q, ParseExpr(ts, q.at))
ProgramStep(ts, q) ==
  IF Kind(ts, q.at) # ";" /\ OfFrame(q) /\ Top(q).kind = "match" THEN MatchStep(ts, q) ELSE StatementAt(ts, q)
RECURSIVE ProgramLoop(_, _)
ProgramLoop(ts, q) == IF q.at > Len(ts) THEN Tree("program", Last(q.buf)) ELSE ProgramLoop(ts, ProgramStep(ts, q))
ParseProgram(text) ==
  ProgramLoop(SelfTokens(text),
              [at |-> 1, buf |-> <<<<>>>>, frames |-> <<>>, pats |-> <<>>, lets |-> <<>>, heads |-> <<>>,
               pattern |-> <<>>, kept |-> <<>>])

-----------------------------------------------------------------------------
(* The canonical S-expressions of the parser's trees (lib.rs, the oracle). *)

OracleName == OperatorName @@ ("-" :> "sub")
May(part, tree) == IF part = None THEN <<>> ELSE <<tree>>
PubOf(part) == IF part = None THEN <<>> ELSE <<Leaf("pub")>>

RECURSIVE Canonical(_), CanonicalPattern(_), CanonicalType(_)
EachOf(ts) == [i \in DOMAIN ts |-> Canonical(ts[i])]
TypesOf(ts) == [i \in DOMAIN ts |-> CanonicalType(ts[i])]
CanonicalLiteral(x) ==
  CASE x \in Ints -> Tree("int", <<Leaf(x)>>)
    [] x = "text" -> Tree("str", <<Leaf(x)>>)
    [] x \in {"true", "false"} -> Tree("bool", <<Leaf(x)>>)
    [] x = "()" -> Leaf("unit")
    [] IsIdent(x) /\ x # "()" -> Tree("var", <<Leaf(x)>>)
    [] OTHER -> Leaf("unsupported")
CanonicalGenerics(list) == May(list, Tree("generics", [i \in DOMAIN list.c |-> list.c[i].c[1]]))
CanonicalFields(list) ==
  [i \in DOMAIN list.c |-> Tree("field", PubOf(list.c[i].c[2]) \o <<list.c[i].c[3], CanonicalType(list.c[i].c[4])>>)]
CanonicalVariant(v) ==
  Tree("variant", <<v.c[2]>> \o [i \in DOMAIN v.c[3].c |->
                     IF v.c[3].c[i].k # "payloadfield" THEN CanonicalType(v.c[3].c[i])
                     ELSE Tree("field", <<v.c[3].c[i].c[1], CanonicalType(v.c[3].c[i].c[2])>>)])
CanonicalParam(p) ==
  Tree("param", May(p.c[1], Leaf("mut")) \o <<p.c[2], CanonicalType(p.c[3])>>)
CanonicalFn(f) ==
  Tree("fn", PubOf(f.c[1].c[1]) \o <<f.c[2]>> \o CanonicalGenerics(f.c[3])
               \o <<Tree("params", [i \in DOMAIN f.c[4].c |-> CanonicalParam(f.c[4].c[i])])>>
               \o May(f.c[5], CanonicalType(f.c[5])) \o May(f.c[6], Canonical(f.c[6])))
CanonicalLet(l) ==
  Tree("let", May(l.c[1], Leaf("mut")) \o <<CanonicalPattern(l.c[2])>> \o May(l.c[3], CanonicalType(l.c[3]))
                \o <<Canonical(l.c[4])>>)
CanonicalArm(a) == Tree("arm", <<CanonicalPattern(a.c[1])>> \o May(a.c[2], Canonical(a.c[2])) \o <<Canonical(a.c[3])>>)

Canonical(t) ==
  CASE t.c = <<>> -> CanonicalLiteral(t.k)
    [] t.k = "path" -> t
    [] t.k = "neg" -> Tree("neg", EachOf(t.c))
    [] t.k \in {"invert", "deref"} -> Tree("unary-unsupported", EachOf(t.c))
    [] t.k = "binary" \/ (t.k = "chain" /\ Len(t.c) = 3) ->
         Tree("bin", <<Leaf(OracleName[t.c[2].k]), Canonical(t.c[1]), Canonical(t.c[3])>>)
    [] t.k = "chain" /\ Len(t.c) # 3 -> Leaf("cmpchain-unsupported")
    [] t.k = "return" -> Tree("return", May(t.c[1], Canonical(t.c[1])))
    [] t.k = "block" -> Tree("block", EachOf(t.c[1].c) \o May(t.c[2], Canonical(t.c[2])))
    [] t.k = "if" -> Tree("if", <<Canonical(t.c[1]), Canonical(t.c[2])>> \o May(t.c[3], Canonical(t.c[3])))
    [] t.k \in {"while", "loop", "index"} -> Tree(t.k, EachOf(t.c))
    [] t.k = "field" -> Tree("field", <<Canonical(t.c[1]), t.c[2]>>)
    [] t.k = "call" -> Tree("call", <<Canonical(t.c[1])>> \o EachOf(t.c[3].c))
    [] t.k = "method" -> Tree("call", <<Tree("field", <<Canonical(t.c[1]), t.c[2]>>)>> \o EachOf(Last(t.c).c))
    [] t.k = "tuple" -> Tree("tuple", EachOf(t.c[1].c))
    [] t.k = "array" -> Tree("array-lit", EachOf(t.c[1].c))
    [] t.k = "range" ->
         Tree("range", <<IF t.c[1] = None THEN Unknown ELSE Canonical(t.c[1]),
                         IF t.c[3] = None THEN Unknown ELSE Canonical(t.c[3])>> \o RangeMarks(t.c[2].k))
    [] t.k = "for" -> Tree("for", <<CanonicalPattern(t.c[1]), Canonical(t.c[2]), Canonical(t.c[3])>>)
    [] t.k = "match" -> Tree("match", <<Canonical(t.c[1])>> \o [i \in DOMAIN t.c[2].c |-> CanonicalArm(t.c[2].c[i])])
    [] t.k = "let" -> CanonicalLet(t)
    [] t.k \in {"expr", "semi"} -> Tree("semi", EachOf(t.c))
    [] OTHER -> Leaf("unsupported")

CanonicalPattern(p) ==
  CASE p.c = <<>> /\ p.k \in Ints -> Tree("lit-int", <<p>>)
    [] p.k = "text" -> Tree("lit-str", <<p>>)
    [] p.k \in {"true", "false"} -> Tree("lit-bool", <<p>>)
    [] p.k = "tuplepat" -> Tree("tuple-pat", [i \in DOMAIN p.c[1].c |-> CanonicalPattern(p.c[1].c[i])])
    [] p.k = "rangepat" -> Tree("range-pat", <<Canonical(p.c[1]), Canonical(p.c[3])>> \o RangeMarks(p.c[2].k))
    [] p.k = "or" -> Tree("or", [i \in DOMAIN p.c |-> CanonicalPattern(p.c[i])])
    [] p.c = <<>> /\ p.k \notin Literals -> p
    [] OTHER -> Leaf("pat-unsupported")

CanonicalType(t) ==
  CASE t.k = "pathtype" -> Tree("type", <<Last(t.c[1].c)>> \o TypesOf(t.c[2].c))
    [] t.k = "ref" -> Tree("ref", May(t.c[2], Leaf("mut")) \o <<CanonicalType(t.c[3])>>)
    [] t.k = "tupletype" -> Tree("tuple-type", TypesOf(t.c[1].c))
    [] t.k = "arraytype" ->
         Tree("array", <<CanonicalType(t.c[1]), IF t.c[2] = None THEN Unknown ELSE Canonical(t.c[2])>>)
    [] t.k = "infer" -> Leaf("infer")
    [] OTHER -> Leaf("type-unsupported")

CanonicalDecl(t, at, parts) == Tree(t.k, PubOf(t.c[1]) \o <<t.c[at]>> \o CanonicalGenerics(t.c[at + 2]) \o parts)
CanonicalItem(t) ==
  CASE t.k = "fn" -> CanonicalFn(t)
    [] t.k = "struct" -> CanonicalDecl(t, 5, CanonicalFields(t.c[9]))
    [] t.k = "enum" -> CanonicalDecl(t, 4, [i \in DOMAIN t.c[8].c |-> CanonicalVariant(t.c[8].c[i])])
    [] t.k \in {"let", "expr", "semi"} -> Canonical(t)
    [] OTHER -> Leaf("item-unsupported")
CanonicalProgram(tree) == Tree("program", [i \in DOMAIN tree.c |-> CanonicalItem(tree.c[i])])
-----------------------------------------------------------------------------
(* The programs of the slices parser.rl announces, where the two agree.    *)

(* What the sources do to a text and the header does not say: a minus is   *)
(* taken for the other one after `]' and after a keyword, and the sentinel *)
(* of a group stays where a list or the bound of a range begins with it.   *)
EndsOperand(x) == x \in Literals \cup {")", "]"} \/ IsIdent(x)
MinusMisread(text) ==
  \E i \in 2..Len(text) : text[i] = "-" /\ SetsOperand(text[i - 1]) # EndsOperand(text[i - 1])
Around(text, i) ==
  LET count(j, marks) == Cardinality({k \in j..(i - 1) : text[k] \in marks}) IN
  Max({0} \cup {j \in 1..(i - 1) : text[j] \in {"(", "[", "{"} /\ count(j, {"(", "[", "{"}) = count(j, {")", "]", "}"}) + 1})
Follows(text, i) == i > 1 /\ EndsOperand(text[i - 1])
HasComma(text, i) == \E k \in DOMAIN text : text[k] = "," /\ Around(text, k) = i
GroupAt(text, i) == text[i] = "(" /\ ~Follows(text, i) /\ ~HasComma(text, i)
ListAt(text, i) == i > 0 /\ (text[i] = "[" \/ (text[i] = "(" /\ ~Follows(text, i) /\ HasComma(text, i)))
OperandBefore(text, i) == IF i > 2 /\ text[i - 1] = "-" THEN text[i - 2] ELSE IF i > 1 THEN text[i - 1] ELSE ";"
Stranded(text) ==
  \E i \in DOMAIN text :
     /\ GroupAt(text, i)
     /\ \/ OperandBefore(text, i) \in Ranges
        \/ OperandBefore(text, i) \in {"(", "[", ","} /\ ListAt(text, Around(text, i))

RECURSIVE SlicedExpr(_), InnerType(_), PlainType(_), SlicedNode(_, _), SlicedBlock(_, _)
EachSliced(ts) == \A i \in DOMAIN ts : SlicedExpr(ts[i])
Loose == {"&&", "||", "|", "^", "&"}
IsLoose(t) == t.k = "range" \/ (t.k = "binary" /\ t.c[2].k \in Loose)
SlicedExpr(t) ==
  CASE t.c = <<>> -> t.k \in Ints \cup {"text", "true", "false"} \/ (IsIdent(t.k) /\ t.k # "()")
    [] t.k = "path" -> TRUE
    [] t.k = "neg" -> t.c[1].k # "neg" /\ SlicedExpr(t.c[1])
    [] t.k = "range" -> \A i \in {1, 3} : t.c[i] # None /\ ~IsLoose(t.c[i]) /\ SlicedExpr(t.c[i])
    [] t.k = "binary" -> \A i \in {1, 3} : SlicedExpr(t.c[i]) /\ ~(t.c[2].k \in Loose /\ t.c[i].k = "range")
    [] t.k = "chain" -> Len(t.c) = 3 /\ SlicedExpr(t.c[1]) /\ SlicedExpr(t.c[3])
    [] t.k = "index" -> EachSliced(t.c)
    [] t.k = "field" -> SlicedExpr(t.c[1])
    [] t.k \in {"call", "method"} -> Len(t.c) = 3 /\ (t.k = "method" \/ t.c[2] = None) /\ SlicedExpr(t.c[1]) /\ EachSliced(t.c[3].c)
    [] t.k \in {"tuple", "array"} -> EachSliced(t.c[1].c)
    [] OTHER -> FALSE

InnerType(t) ==
  CASE t.k = "pathtype" -> Len(t.c[1].c) = 1 /\ \A i \in DOMAIN t.c[2].c : InnerType(t.c[2].c[i])
    [] t.k = "tupletype" -> \A i \in DOMAIN t.c[1].c : InnerType(t.c[1].c[i])
    [] t.k = "arraytype" -> InnerType(t.c[1]) /\ t.c[2] # None /\ t.c[2].c = <<>> /\ SlicedExpr(t.c[2])
    [] OTHER -> t.k = "infer"
SlicedType(t) == IF t.k = "ref" THEN t.c[1] = None /\ InnerType(t.c[3]) ELSE t = None \/ InnerType(t)
(* A comma or a parenthesis ends the type of a parameter or a field.       *)
PlainType(t) ==
  CASE t.k = "ref" -> PlainType(t.c[3])
    [] t.k = "pathtype" -> Len(t.c[2].c) <= 1 /\ \A i \in DOMAIN t.c[2].c : PlainType(t.c[2].c[i])
    [] t.k = "arraytype" -> PlainType(t.c[1])
    [] OTHER -> t.k = "infer"
SlicedField(t) == SlicedType(t) /\ PlainType(t)

NameIn(p) == p.c = <<>> /\ IsIdent(p.k)
SlicedLetPattern(p) == NameIn(p) \/ (p.k = "tuplepat" /\ \A i \in DOMAIN p.c[1].c : NameIn(p.c[1].c[i]))
AtomPattern(p) == NameIn(p) \/ (p.c = <<>> /\ p.k \in Ints \cup {"text", "true", "false", ".."})
SidePattern(p) == AtomPattern(p) \/ (p.k = "rangepat" /\ AtomPattern(p.c[1]) /\ AtomPattern(p.c[3]))
SlicedPattern(p) ==
  CASE p.k = "or" -> Len(p.c) = 2 /\ SidePattern(p.c[1]) /\ SidePattern(p.c[2])
    [] p.k = "tuplepat" -> \A i \in DOMAIN p.c[1].c : AtomPattern(p.c[1].c[i])
    [] OTHER -> SidePattern(p)

(* Where a control statement may stand, and a match: an inner frame pops   *)
(* the pattern of the `for' around it, and a match finds its own arms only *)
(* when no frame but a match is around it.                                 *)
Arms(t, may) ==
  \A i \in DOMAIN t.c[2].c : LET a == t.c[2].c[i] IN
     SlicedPattern(a.c[1]) /\ (a.c[2] = None \/ SlicedExpr(a.c[2])) /\ SlicedBlock(a.c[3], may)
Returned(t) == IF t.k = "return" THEN t.c[1] = None \/ SlicedExpr(t.c[1]) ELSE SlicedExpr(t)
SlicedNode(t, may) ==
  CASE t.k = "block" -> SlicedBlock(t, may)
    [] t.k = "if" -> "control" \in may /\ SlicedExpr(t.c[1]) /\ SlicedBlock(t.c[2], may \ {"match"})
                       /\ (t.c[3] = None \/ SlicedBlock(t.c[3], may \ {"match"}))
    [] t.k = "while" -> "control" \in may /\ SlicedExpr(t.c[1]) /\ SlicedBlock(t.c[2], may \ {"match"})
    [] t.k = "loop" -> "control" \in may /\ SlicedBlock(t.c[1], may \ {"match"})
    [] t.k = "for" -> SlicedLetPattern(t.c[1]) /\ SlicedExpr(t.c[2]) /\ SlicedBlock(t.c[3], {})
    [] t.k = "match" -> "match" \in may /\ SlicedExpr(t.c[1]) /\ Arms(t, may)
    [] OTHER -> Returned(t)
SlicedStatement(t, may) ==
  CASE t.k = "let" -> SlicedLetPattern(t.c[2]) /\ SlicedType(t.c[3])
                        /\ IF t.c[4].k \in {"if", "while", "loop"} THEN SlicedNode(t.c[4], may) ELSE Returned(t.c[4])
    [] t.k \in {"expr", "semi"} -> SlicedNode(t.c[1], may)
    [] OTHER -> FALSE
SlicedBlock(t, may) ==
  /\ t.k = "block"
  /\ \A i \in DOMAIN t.c[1].c : SlicedStatement(t.c[1].c[i], may)
  /\ t.c[2] = None \/ SlicedNode(t.c[2], may)

SlicedGenerics(list) == \A i \in DOMAIN list.c : list.c[i].c[2] = None
Absent(t, parts) == \A i \in parts : t.c[i] = None
SlicedFn(t) ==
  /\ Absent(t.c[1], {2, 3}) /\ SlicedGenerics(t.c[3]) /\ SlicedType(t.c[5]) /\ SlicedBlock(t.c[6], {"control"})
  /\ \A i \in DOMAIN t.c[4].c : t.c[4].c[i].c[4] = None /\ SlicedField(t.c[4].c[i].c[3])
SlicedVariant(v) ==
  /\ Absent(v, {1, 4})
  /\ \A i \in DOMAIN v.c[3].c : SlicedField(IF v.c[3].c[i].k = "payloadfield" THEN v.c[3].c[i].c[2] ELSE v.c[3].c[i])
SlicedItem(t) ==
  CASE t.k = "fn" -> SlicedFn(t)
    [] t.k = "struct" -> Absent(t, {2, 3, 4, 6, 8, 10, 11}) /\ SlicedGenerics(t.c[7])
                           /\ \A i \in DOMAIN t.c[9].c : Absent(t.c[9].c[i], {1, 2}) /\ SlicedField(t.c[9].c[i].c[4])
    [] t.k = "enum" -> Absent(t, {2, 3, 5, 7, 9, 10}) /\ SlicedGenerics(t.c[6])
                         /\ \A i \in DOMAIN t.c[8].c : SlicedVariant(t.c[8].c[i])
    [] OTHER -> SlicedStatement(t, {"control", "match"})
Unended(t) == t.k = "semi" /\ t.c[1].k \notin {"block", "if", "while", "loop", "for", "match"}
Sliced(text, tree) ==
  /\ tree # None /\ ~MinusMisread(text) /\ ~Stranded(text)
  /\ \A i \in DOMAIN tree.c : SlicedItem(tree.c[i]) /\ (Unended(tree.c[i]) => i = Len(tree.c))

-----------------------------------------------------------------------------
(* Programs to parse: a piece of one sort inside a piece of another.       *)

CONSTANTS Pieces,     \* of each sort, the pieces with nothing inside
          Settings,   \* of each sort, what is written around it ("@"), and the sort that makes
          MaxInside   \* how often

VARIABLE program

Piece(sort, text) == [sort |-> sort, text |-> text, inside |-> 0]
NoProgram == Piece("stmt", <<>>)
ProgramInit == \E sort \in DOMAIN Pieces : \E text \in Pieces[sort] : program = Piece(sort, text)
Placed(around, text) == FlattenSeq([i \in DOMAIN around |-> IF around[i] = "@" THEN text ELSE <<around[i]>>])
WriteProgram ==
  /\ program.inside < MaxInside
  /\ \E setting \in Settings[program.sort] :
       program' = [sort |-> setting[2], text |-> Placed(setting[1], program.text), inside |-> program.inside + 1]

(* The Rlyeh parser makes of every program of the slices what the parser   *)
(* makes of it.                                                            *)
ParsersAgree ==
  (program.sort \in {"stmt", "item"} /\ program # NoProgram) =>
     \A tree \in {Parsed("program", program.text)} :
        Sliced(program.text, tree) => ParseProgram(program.text) = CanonicalProgram(tree)

(* The front end written in Rlyeh and the compiler's agree: on the tokens  *)
(* of a text, on the tree of a program (parser.rl, lexer.rl: byte for      *)
(* byte; tests/self_host_*.rs compare single programs).                    *)
SelfHostAgrees == LexersAgree /\ ParsersAgree
=============================================================================
