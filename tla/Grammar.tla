-------------------------------- MODULE Grammar --------------------------------
(***************************************************************************)
(* The parser (rlyeh-parser): recursive descent over the tokens of the     *)
(* lexer, with a precedence climbing loop for expressions.                 *)
(*                                                                         *)
(* A text is a sequence of tokens, "nl" one of them where a line ends;     *)
(* `::' is one token.  A tree is a label with its parts: identifiers,      *)
(* literals and operators are leaves, an absent part is an empty list.     *)
(* Positions, spans and error messages are left out; a parse that fails    *)
(* has no tree.  No identifier of a text is also a label.                  *)
(*                                                                         *)
(* A cursor counts eight to a token: its remainder is pending_gt, the      *)
(* closing brackets still owed by a split `>>'.                            *)
(*                                                                         *)
(* Most functions of the parser are a straight sequence of expect, eat and *)
(* calls: such a function is a rule, the sequence of its steps, and its    *)
(* tree the trees of its parts under the rule's name.  The others are      *)
(* operators.                                                              *)
(***************************************************************************)
EXTENDS Integers, FiniteSets, SequencesExt

Tree(label, parts) == [k |-> label, c |-> parts]
Leaf(label) == Tree(label, <<>>)
None == Tree("list", <<>>)

-----------------------------------------------------------------------------
(* Tokens (rlyeh-lexer). *)

Keywords ==
  {"let", "mut", "const", "static", "fn", "return", "pub", "if", "else", "match", "for", "while",
   "loop", "break", "continue", "try", "not", "struct", "enum", "impl", "protocol", "type", "where",
   "Self", "region", "gc_region", "in", "not in", "transfer", "out", "of", "unsafe", "actor", "async",
   "await", "send", "recv", "mod", "import", "as", "extern", "dyn"}
AssignMarks == {"=", "+=", "-=", "*=", "/="}
Compares == {"<", "<=", ">", ">=", "==", "!="}
Ranges == {"..<", "...", "<.."}
Marks ==
  AssignMarks \cup Compares \cup Ranges
  \cup {"+", "-", "*", "/", "%", "&&", "||", "!", "&", "|", "^", "<<", ">>", "..", "->", "=>", "(", ")",
        "{", "}", "[", "]", ",", ":", "::", ";", ".", "$", "#", "?", "eof"}
Ints == {"1", "2"}
Literals == Ints \cup {"1.5", "9am", "text", "char", "true", "false"}
Lifetimes == {"'r", "'q"}
IsIdent(t) == t \notin Keywords \cup Marks \cup Literals \cup Lifetimes

(* A token stream: the tokens and the line of each. *)
Stream(text) ==
  [t |-> SelectSeq(text, LAMBDA x : x # "nl"),
   line |-> LET at == SelectSeq([i \in DOMAIN text |-> i], LAMBDA i : text[i] # "nl")
            IN [j \in DOMAIN at |-> Cardinality({i \in 1..at[j] : text[i] = "nl"})]]

TokenAt(c) == c \div 8
Token(s, c) == IF TokenAt(c) \in DOMAIN s.t THEN s.t[TokenAt(c)] ELSE "eof"
Ahead(s, c, n) == Token(s, c + 8 * n)
SameLine(s, c) == s.line[TokenAt(c)] = s.line[TokenAt(c) - 1]

-----------------------------------------------------------------------------
(* Results: the cursor after the part, and the trees so far. *)

Start(c) == [at |-> c, out |-> <<>>]
Fails == [at |-> 0, out |-> <<>>]
Skip(r) == [r EXCEPT !.at = @ + 8]
Put(r, tree) == [r EXCEPT !.out = Append(@, tree)]
Wrap(label, r) == [r EXCEPT !.out = <<Tree(label, @)>>]
Follow(r, q) == [at |-> q.at, out |-> r.out \o q.out]

(* The steps of a rule. *)
Tk(t) == <<"token", t>>                    \* expect(t)
Id == <<"ident">>                          \* expect_ident
Life == <<"lifetime">>                     \* expect_lifetime
MayLife == <<"may lifetime">>
Flagged(t) == <<"flag", t>>                \* is_t = eat(t)
OneOf(ts) == <<"one of", ts>>
Nt(rule) == <<"rule", rule>>
Opt(t, steps) == <<"opt", t, steps>>       \* if eat(t) { steps }
Unless(ts, steps) == <<"unless", ts, steps>>
List(rule, stop) == <<"list", rule, stop>> \* comma separated, up to and with stop
Until(rule, stop) == <<"until", rule, stop>>
Sep(step, t, label) == <<"sep", step, t, label>>
Above(prec) == <<"above", prec>>           \* parse_expr_prec(prec)
Members(rule) == <<"members", rule>>
Where(part) == <<"where", part>>           \* parse_where_clause into that part
Segment == <<"segment">>
Member == <<"member">>
Paths == Sep(Id, "::", "path")
NamePath == Sep(Id, "::", "name")

-----------------------------------------------------------------------------
(* ty.rs *)

PrimaryType(t) ==
  CASE t = "&" -> "ref" [] t = "*" -> "rawptr" [] t = "(" -> "tupletype" [] t = "[" -> "arraytype"
    [] t = "fn" -> "fntype" [] t = "dyn" -> "dyn" [] t = "Self" -> "selftype" [] t = "_" -> "infer"
    [] OTHER -> "pathtype"
TypeRule == <<Sep(Nt("primary"), "|", "union")>>
RefType == <<Tk("&"), MayLife, Flagged("mut"), Nt("primary")>>
RawPtrType == <<Tk("*"), OneOf({"mut", "const"}), Nt("primary")>>
TupleType == <<Tk("("), List("type", ")")>>
ArrayType == <<Tk("["), Nt("type"), Opt(";", <<Nt("expr")>>), Tk("]")>>
FnType == <<Tk("fn"), Tk("("), List("type", ")"), Opt("->", <<Nt("type")>>)>>
DynType == <<Tk("dyn"), Id>>
SelfType == <<Tk("Self"), Opt("::", <<Id>>)>>
InferType == <<Tk("_")>>
PathType == <<NamePath, Nt("arguments")>>

(* One `>' closes a list of type arguments: it may be half of a `>>'. *)
Close(s, r) ==
  CASE Token(s, r.at) = ">" -> Skip(r)
    [] Token(s, r.at) = ">>" -> [r EXCEPT !.at = @ + 9]
    [] Token(s, r.at) \notin {">", ">>"} /\ r.at % 8 > 0 -> [r EXCEPT !.at = @ - 1]
    [] OTHER -> Fails
(* ... after a turbofish and after the self type of an impl the owed one goes first. *)
CloseOwed(s, r) ==
  IF r.at % 8 > 0 THEN [r EXCEPT !.at = @ - 1] ELSE Close(s, r)

-----------------------------------------------------------------------------
(* pattern.rs *)

OrPattern == <<Sep(Nt("pattern"), "|", "or")>>
MutPattern == <<Tk("mut"), Nt("pattern")>>
TuplePattern == <<Tk("("), List("element", ")")>>
RefPattern == <<Id, Flagged("mut"), Nt("pattern")>>
EnumPattern == <<NamePath, Tk("("), List("element", ")")>>
StructPattern == <<NamePath, Tk("{"), Nt("fields")>>
FieldPattern == <<Flagged("mut"), Id, Opt(":", <<Nt("pattern")>>)>>

-----------------------------------------------------------------------------
(* expr/control.rs, region.rs, stmt.rs *)

Terminators == {";", "}", ",", "eof"}
IfRule == <<Tk("if"), Nt("expr"), Nt("block"), Opt("else", <<Nt("otherwise")>>)>>
IfLetRule ==
  <<Tk("if"), Tk("let"), Nt("orpattern"), Tk("="), Nt("expr"), Nt("block"), Opt("else", <<Nt("otherwise")>>)>>
WhileRule == <<Tk("while"), Nt("expr"), Nt("block")>>
WhileLetRule == <<Tk("while"), Tk("let"), Nt("orpattern"), Tk("="), Nt("expr"), Nt("block")>>
MatchRule == <<Tk("match"), Nt("expr"), Tk("{"), Until("arm", "}")>>
ArmRule == <<Nt("orpattern"), Opt("if", <<Nt("expr")>>), Tk("=>"), Nt("expr")>>
LoopRule == <<Tk("loop"), Nt("block")>>
TryRule == <<Tk("try"), Nt("block")>>
UnsafeRule == <<Tk("unsafe"), Nt("block")>>
ForRule == <<Tk("for"), Nt("pattern"), Tk("in"), Nt("expr"), Nt("block")>>
ReturnRule == <<Tk("return"), Unless(Terminators, <<Nt("expr")>>)>>
BreakRule == <<Tk("break"), Unless(Terminators, <<Nt("expr")>>)>>
ContinueRule == <<Tk("continue")>>
SendRule == <<Tk("send"), Nt("prefix"), Tk("."), Id, Tk("("), List("expr", ")")>>
ParameterRule == <<Nt("pattern"), Opt(":", <<Nt("primary")>>)>>
GcRegionRule == <<Tk("gc_region"), Nt("block")>>
RegionRule == <<Tk("region"), MayLife, Nt("options"), Nt("block")>>
TransferRule == <<Tk("transfer"), Nt("expr"), Tk("out"), Tk("of"), Life>>
LetRule ==
  <<Tk("let"), Flagged("mut"), Nt("pattern"), Opt(":", <<Nt("type")>>), Tk("="), Nt("expr"), Tk(";")>>
ArrayRule == <<Tk("["), List("expr", "]")>>
FieldInit == <<Id, Opt(":", <<Nt("expr")>>)>>
BaseInit == <<Tk(".."), Nt("expr")>>

-----------------------------------------------------------------------------
(* item.rs, actor.rs *)

ParamRule == <<Flagged("mut"), Id, Tk(":"), Nt("type"), Opt("=", <<Nt("expr")>>)>>
ConformanceRule == <<NamePath, Opt("<", <<List("type", ">")>>)>>
Conformances == Opt(":", <<Sep(Nt("conformance"), ",", "list")>>)
FnRule ==
  <<Nt("modifiers"), Tk("fn"), Id, Nt("generics"), Tk("("), List("param", ")"), Opt("->", <<Nt("type")>>),
    Where(3), Nt("body")>>
AssocRule == <<Tk("type"), Id, Tk("="), Nt("type"), Tk(";")>>
AssocName == <<Tk("type"), Id, Opt("=", <<Nt("type")>>), Tk(";")>>
GenericRule == <<Id, Opt(":", <<Sep(Nt("bound"), "+", "list")>>)>>
BoundRule == <<NamePath>>
FieldRule == <<Nt("memberattrs"), Flagged("pub"), Id, Tk(":"), Nt("type")>>
VariantRule == <<Nt("memberattrs"), Id, Nt("payload"), Opt("=", <<OneOf(Ints)>>)>>
AttrRule == <<Tk("#"), Tk("["), OneOf({"error"}), Tk("("), OneOf({"text"}), Tk(")"), Tk("]")>>
MarkRule == <<Tk("#"), Tk("["), OneOf({"from", "source"}), Tk("]")>>
DeriveRule ==
  <<Tk("#"), Tk("["), Tk("derive"), Opt("(", <<Unless({")"}, <<Sep(Id, ",", "list")>>), Tk(")")>>), Tk("]")>>
ReprRule == <<Tk("#"), Tk("["), Tk("repr"), Tk("("), Tk("C"), Tk(")"), Tk("]")>>
MemoryRule == <<Tk("#"), Tk("["), Tk("memory"), Tk("("), Tk("gc"), Tk(")"), Tk("]")>>
PayloadField == <<Id, Tk(":"), Nt("type")>>
ActorField == <<Flagged("pub"), Id, Tk(":"), Nt("type"), Opt("=", <<Nt("expr")>>)>>
StructRule == <<Tk("struct"), Id, MayLife, Nt("generics"), Conformances, Tk("{"), Members("field")>>
EnumRule == <<Tk("enum"), Id, MayLife, Nt("generics"), Conformances, Tk("{"), Members("variant")>>
ActorRule == <<Tk("actor"), Id, Tk("{"), Members("actorfield")>>
ProtocolRule == <<Tk("protocol"), Id, MayLife, Nt("generics"), Conformances, Tk("{"), Members("assocname")>>
ImplRule ==
  <<Tk("impl"), Nt("generics"), Id, Nt("selfargs"), Conformances, Where(1), Tk("{"), Members("assoc")>>
AliasRule == <<Tk("type"), Id, Nt("generics"), Tk("="), Nt("type"), Tk(";")>>
ModRule == <<Tk("mod"), Id, Nt("module")>>
UseRule == <<Tk("import"), Nt("segments"), Nt("group"), Nt("alias name"), Tk(";")>>
ConstRule ==
  <<OneOf({"const", "static"}), Nt("staticmut"), Id, Opt(":", <<Nt("type")>>), Tk("="), Nt("expr"), Tk(";")>>

ItemStart(s, c) ==
  /\ Token(s, c) \in {"fn", "struct", "enum", "protocol", "impl", "mod", "import", "const", "static",
                      "actor", "pub", "async", "unsafe", "#"}
  /\ ~(Token(s, c) = "unsafe" /\ Ahead(s, c, 1) = "{")

Rules ==
  [type |-> TypeRule, ref |-> RefType, rawptr |-> RawPtrType, tupletype |-> TupleType,
   arraytype |-> ArrayType, fntype |-> FnType, dyn |-> DynType, selftype |-> SelfType,
   infer |-> InferType, pathtype |-> PathType,
   orpattern |-> OrPattern, mutpat |-> MutPattern, tuplepat |-> TuplePattern, refpat |-> RefPattern,
   enumpat |-> EnumPattern, structpat |-> StructPattern, fieldpat |-> FieldPattern,
   if |-> IfRule, iflet |-> IfLetRule, while |-> WhileRule, whilelet |-> WhileLetRule, match |-> MatchRule,
   arm |-> ArmRule, loop |-> LoopRule, try |-> TryRule, unsafe |-> UnsafeRule, for |-> ForRule,
   return |-> ReturnRule, break |-> BreakRule, continue |-> ContinueRule, send |-> SendRule,
   parameter |-> ParameterRule, gc_region |-> GcRegionRule, region |-> RegionRule,
   transfer |-> TransferRule, let |-> LetRule, array |-> ArrayRule, fieldinit |-> FieldInit, base |-> BaseInit,
   param |-> ParamRule, conformance |-> ConformanceRule, fn |-> FnRule, assoc |-> AssocRule,
   field |-> FieldRule, variant |-> VariantRule, payloadfield |-> PayloadField,
   actorfield |-> ActorField, struct |-> StructRule, enum |-> EnumRule, actor |-> ActorRule,
   protocol |-> ProtocolRule, impl |-> ImplRule, alias |-> AliasRule, mod |-> ModRule,
   use |-> UseRule, const |-> ConstRule, assocname |-> AssocName, generic |-> GenericRule, bound |-> BoundRule,
   attr |-> AttrRule, mark |-> MarkRule, derive |-> DeriveRule, repr |-> ReprRule, memory |-> MemoryRule]

-----------------------------------------------------------------------------
(* parser.rs: the steps. *)

RECURSIVE Steps(_, _, _), Parse(_, _, _), ListFrom(_, _, _, _), UntilFrom(_, _, _, _), SepFrom(_, _, _)

Taken(s, r) == Skip(Put(r, Leaf(Token(s, r.at))))
Only1(ok, r) == IF ok THEN r ELSE Fails

(* loop { element; if !eat(',') break } with the stop tested before an element *)
AfterElement(rule, stop, s, r) ==
  CASE Token(s, r.at) = "," -> ListFrom(rule, stop, s, Skip(r))
    [] Token(s, r.at) = stop -> Skip(Wrap("list", r))
    [] OTHER -> Fails
ListFrom(rule, stop, s, r) ==
  IF Token(s, r.at) = stop THEN Skip(Wrap("list", r))
  ELSE AfterElement(rule, stop, s, Follow(r, Parse(rule, s, r.at)))

(* while !check(stop) { element } *)
UntilFrom(rule, stop, s, r) ==
  CASE Token(s, r.at) = stop -> Skip(Wrap("list", r))
    [] Token(s, r.at) = "eof" -> Fails
    [] OTHER -> UntilFrom(rule, stop, s, Follow(r, Parse(rule, s, r.at)))

(* A path in an expression ends where a turbofish begins. *)
Goes(e, s, r) == Token(s, r.at) = e[3] /\ ~(e[4] = "path" /\ Ahead(s, r.at, 1) = "<")
Gathered(label, r) == IF Len(r.out) = 1 /\ label \notin {"list", "name"} THEN r ELSE Wrap(label, r)
SepFrom(e, s, r) ==
  CASE r.at = 0 -> Fails
    [] Goes(e, s, r) -> SepFrom(e, s, Steps(<<e[2]>>, s, Skip(r)))
    [] OTHER -> Gathered(e[4], r)

-----------------------------------------------------------------------------
(* item.rs: members, where clauses *)

RECURSIVE MembersFrom(_, _, _), WhereFrom(_, _, _)

MethodStart(kind) ==
  IF kind = "actorfield" THEN {"fn", "pub", "async", "unsafe"} ELSE {"fn"}
NoFields == {"assoc", "assocname"}    \* impl and protocol: what is not a `type' is a method
FieldEnds(kind) == IF kind = "actorfield" THEN {"}"} ELSE {"}", "fn", "type"}
Joined(r, part, q) == [at |-> q.at, out |-> [r.out EXCEPT ![part].c = @ \o q.out]]
AfterField(kind, s, r) ==
  CASE Token(s, r.at) = "," -> MembersFrom(kind, s, Skip(r))
    [] Token(s, r.at) \in FieldEnds(kind) -> MembersFrom(kind, s, r)
    [] OTHER -> Fails
MembersFrom(kind, s, r) ==
  CASE Token(s, r.at) = "}" -> Skip(r)
    [] Token(s, r.at) = "eof" -> Fails
    [] Token(s, r.at) = "type" /\ kind # "actorfield" ->
         MembersFrom(kind, s, Joined(r, 3, Parse(IF kind = "assocname" THEN kind ELSE "assoc", s, r.at)))
    [] Token(s, r.at) \in MethodStart(kind) \/ kind \in NoFields ->
         MembersFrom(kind, s, Joined(r, 2, Parse("fn", s, r.at)))
    [] OTHER -> AfterField(kind, s, Joined(r, 1, Parse(kind, s, r.at)))

(* The bounds of a where clause join those of the first parameter of that name. *)
RECURSIVE BoundName(_)
BoundName(type) ==
  CASE type.k = "pathtype" -> type.c[1]
    [] type.k = "selftype" -> Tree("name", <<Leaf("Self")>>)
    [] type.k = "dyn" -> Tree("name", type.c)
    [] type.k \in {"ref", "rawptr", "fntype"} -> BoundName(Last(type.c))
    [] type.k \in {"arraytype", "union"} -> BoundName(type.c[1])
    [] type.k = "tupletype" -> IF type.c[1].c = <<>> THEN Leaf("Tuple") ELSE BoundName(type.c[1].c[1])
    [] OTHER -> type
Bounded(generics, name, types) ==
  LET named == {i \in DOMAIN generics.c : generics.c[i].c[1] = name}
      bounds == [i \in DOMAIN types.c |-> Tree("bound", <<BoundName(types.c[i])>>)]
  IN IF named = {} THEN generics
     ELSE [generics EXCEPT !.c[CHOOSE i \in named : \A j \in named : i <= j].c[2].c = @ \o bounds]
Merged(part, r, q) == [at |-> q.at, out |-> [r.out EXCEPT ![part] = Bounded(@, q.out[1], q.out[2])]]
AfterClause(part, s, r, q) ==
  CASE q.at = 0 -> Fails
    [] Token(s, q.at) = "," -> WhereFrom(part, s, Merged(part, r, q))
    [] OTHER -> Merged(part, r, q)
WhereFrom(part, s, r) ==
  AfterClause(part, s, r, Steps(<<Id, Tk(":"), Sep(Nt("type"), "+", "list")>>, s, Start(r.at + 8)))

-----------------------------------------------------------------------------
(* expr/mod.rs: precedence climbing *)

Precedence ==
  [t \in AssignMarks |-> 5] @@ ("||" :> 10) @@ ("&&" :> 20) @@ ("|" :> 30) @@ ("^" :> 35) @@ ("&" :> 40)
  @@ [t \in Ranges |-> 45] @@ [t \in Compares |-> 60] @@ [t \in {"<<", ">>"} |-> 70]
  @@ [t \in {"+", "-"} |-> 80] @@ [t \in {"*", "/", "%"} |-> 90] @@ ("as" :> 100)
BlockLike == {"if", "match", "while", "loop", "for", "region"}

RECURSIVE ExprFrom(_, _, _), ChainFrom(_, _), Prefix(_, _), SegmentsFrom(_, _)

Turbofish(s, r) == Token(s, r.at) = "::" /\ Ahead(s, r.at, 1) = "<"

Arguments(s, r) == Steps(<<Tk("("), List("expr", ")")>>, s, r)
(* `::' after a turbofish lengthens the path that is called. *)
Longer(callee, name) ==
  IF callee.k = "path" THEN [callee EXCEPT !.c = Append(@, name)] ELSE Tree("path", <<callee, name>>)
SegmentsFrom(s, r) ==
  CASE Token(s, r.at) # "::" -> r
    [] IsIdent(Ahead(s, r.at, 1)) /\ (r.out[1].k = "path" \/ (r.out[1].c = <<>> /\ IsIdent(r.out[1].k))) ->
         SegmentsFrom(s, [at |-> r.at + 16,
                          out |-> [r.out EXCEPT ![1] = Longer(@, Leaf(Ahead(s, r.at, 1)))]])
    [] OTHER -> Fails
Called(s, r) ==
  IF Turbofish(s, r)
  THEN SegmentsFrom(s, CloseOwed(s, Steps(<<Tk("::"), Tk("<"), Sep(Nt("type"), ",", "list")>>, s, r)))
  ELSE Put(r, None)

Dotted(s, r) ==
  IF Token(s, r.at) = "(" THEN Wrap("method", Arguments(s, r)) ELSE Wrap("field", r)
Within(q) == Wrap(IF q.at # 0 /\ q.out[3].k = "range" THEN "inrange" ELSE "incontainer", q)
Element(s, r) ==
  CASE Token(s, r.at) = "in" /\ Ahead(s, r.at, 1) \in Lifetimes -> Wrap("inregion", Steps(<<Tk("in"), Life>>, s, r))
    [] Ahead(s, r.at, 1) = "{" -> Wrap("inset", Steps(<<OneOf({"in", "not in"}), Tk("{"), List("expr", "}")>>, s, r))
    [] Ahead(s, r.at, 1) = "(" -> Wrap("incontainer", Steps(<<OneOf({"in", "not in"}), Above(0)>>, s, r))
    [] OTHER -> Within(Steps(<<OneOf({"in", "not in"}), Above(45)>>, s, r))
IsPostfix(s, r) == Token(s, r.at) \in {".", "(", "[", "?", "in", "not in"} \/ Turbofish(s, r)
Postfix(s, r) ==
  CASE Token(s, r.at) = "." /\ Ahead(s, r.at, 1) = "await" -> Wrap("await", Steps(<<Tk("."), Tk("await")>>, s, r))
    [] Token(s, r.at) = "." -> Dotted(s, Steps(<<Tk("."), Member>>, s, r))
    [] Token(s, r.at) = "[" -> Wrap("index", Steps(<<Tk("["), Nt("subscript"), Tk("]")>>, s, r))
    [] Token(s, r.at) = "?" -> Wrap("question", Skip(r))
    [] Token(s, r.at) \in {"in", "not in"} -> Element(s, r)
    [] OTHER -> Wrap("call", Arguments(s, Called(s, r)))

ChainFrom(s, r) ==
  IF Token(s, r.at) \in Compares THEN ChainFrom(s, Steps(<<OneOf(Compares), Above(61)>>, s, r))
  ELSE Wrap("chain", r)
Infix(p, s, r) ==
  CASE p = 5 -> Wrap("assign", Steps(<<OneOf(AssignMarks), Above(5)>>, s, r))
    [] p = 45 -> Wrap("range", Steps(<<OneOf(Ranges), Unless({"]"}, <<Above(46)>>)>>, s, r))
    [] p = 60 -> ChainFrom(s, r)
    [] p = 100 -> Wrap("cast", Steps(<<Tk("as"), Nt("type")>>, s, r))
    [] OTHER -> Wrap("binary", Steps(<<OneOf({Token(s, r.at)}), Above(p + 1)>>, s, r))

Continues(min, s, r) ==
  /\ Token(s, r.at) \in DOMAIN Precedence
  /\ Precedence[Token(s, r.at)] >= min
  /\ r.out[1].k \in BlockLike => SameLine(s, r.at)
ExprFrom(min, s, r) ==
  CASE r.at = 0 \/ Token(s, r.at) = ".." -> Fails
    [] IsPostfix(s, r) -> ExprFrom(min, s, Postfix(s, r))
    [] Continues(min, s, r) -> ExprFrom(min, s, Infix(Precedence[Token(s, r.at)], s, r))
    [] OTHER -> r

-----------------------------------------------------------------------------
(* expr/primary.rs, expr/macro_.rs *)

UnaryMarks == {"-", "!", "not", "*", "&"}
UnaryLabel == [t \in UnaryMarks |-> CASE t = "-" -> "neg" [] t \in {"!", "not"} -> "invert" [] t = "*" -> "deref"
                                 [] t = "&" -> "borrow"]
PrefixKeywords ==
  {"if", "match", "while", "loop", "for", "region", "gc_region", "transfer", "return", "break",
   "continue", "send", "try", "unsafe"}
PrefixRule(s, c) ==
  CASE Token(s, c) \in {"if", "while"} /\ Ahead(s, c, 1) = "let" -> Token(s, c) \o "let"
    [] Token(s, c) = "[" -> "array"
    [] Token(s, c) = "{" -> "block"
    [] OTHER -> Token(s, c)

(* () is the unit, (e) is e, a comma makes a tuple. *)
AfterFirst(s, r) ==
  CASE Token(s, r.at) = ")" -> Skip(r)
    [] Token(s, r.at) = "," -> Wrap("tuple", ListFrom("expr", ")", s, Skip(r)))
    [] OTHER -> Fails
Parenthesised(s, c) ==
  IF Ahead(s, c, 1) = ")" THEN [at |-> c + 16, out |-> <<Leaf("()")>>]
  ELSE AfterFirst(s, Steps(<<Tk("("), Nt("expr")>>, s, Start(c)))

(* A struct literal is told from a block, and type arguments from a comparison, by what follows. *)
StructCtor(s, c) ==
  /\ Token(s, c) = "{"
  /\ \/ Ahead(s, c, 1) = ".."
     \/ IsIdent(Ahead(s, c, 1)) /\ Ahead(s, c, 2) = ":"
RECURSIVE GenericCtor(_, _, _)
GenericCtor(s, c, depth) ==
  CASE Token(s, c) = "<" -> GenericCtor(s, c + 8, depth + 1)
    [] Token(s, c) = ">" /\ depth > 1 -> GenericCtor(s, c + 8, depth - 1)
    [] Token(s, c) = ">" /\ depth = 1 -> Ahead(s, c, 1) = "{"
    [] Token(s, c) \in {"}", "eof"} -> FALSE
    [] OTHER -> GenericCtor(s, c + 8, depth)
Constructed(r) ==
  LET inits == r.out[3].c
      bases == SelectSeq(inits, LAMBDA x : x.k = "base")
      fields == SelectSeq(inits, LAMBDA x : x.k # "base")
  IN CASE r.at = 0 \/ Len(bases) > 1 -> Fails
       [] OTHER -> [at |-> r.at,
                    out |-> <<Tree("ctor", <<Tree("name", IF r.out[1].k = "path" THEN r.out[1].c ELSE <<r.out[1]>>),
                                             r.out[2], Tree("list", fields),
                                             IF bases = <<>> THEN None ELSE bases[1].c[1]>>)>>]

(* A macro: its group of tokens is parsed on its own. *)
Closer == ("(" :> ")") @@ ("[" :> "]") @@ ("{" :> "}")
RECURSIVE GroupEnd(_, _, _)
GroupEnd(s, c, depth) ==
  CASE Token(s, c) = "eof" -> c
    [] Token(s, c) \in DOMAIN Closer -> GroupEnd(s, c + 8, depth + 1)
    [] Token(s, c) \in {")", "]", "}"} /\ depth > 1 -> GroupEnd(s, c + 8, depth - 1)
    [] Token(s, c) \in {")", "]", "}"} /\ depth = 1 -> c
    [] OTHER -> GroupEnd(s, c + 8, depth)
Group(s, from, to) ==
  LET tokens == <<"(">> \o SubSeq(s.t, TokenAt(from), TokenAt(to) - 1) \o <<")">>
  IN [t |-> tokens, line |-> [i \in DOMAIN tokens |-> 1]]
Whole(g, r) == IF TokenAt(r.at) = Len(g.t) + 1 THEN r ELSE Fails
BuiltinMacros == {"println", "format", "assert"}

(* vec! and map! become a block that fills a fresh collection. *)
Filled(map, entries) ==
  LET name == Leaf(IF map THEN "__map" ELSE "__vec")
      type == IF map THEN "HashMap" ELSE "Vec"
      new == IF entries = <<>> THEN Tree("call", <<Leaf(type \o "::new"), None, None>>)
             ELSE Tree("call", <<Leaf(type \o "::with_capacity"), None, Tree("list", <<Leaf(<<"1", "2">>[Len(entries)])>>)>>)
      add(e) == Tree("semi", <<Tree("method", <<name, Leaf(IF map THEN "insert" ELSE "push"),
                                                Tree("list", IF map THEN e.c ELSE <<e.c[1]>>)>>)>>)
  IN Tree("block", <<Tree("list", <<Tree("let", <<Leaf("mut"), name, None, new>>)>>
                                  \o [i \in DOMAIN entries |-> add(entries[i])]), name>>)
Collected(map, r) ==
  IF r.at = 0 \/ (map /\ \E e \in ToSet(r.out[1].c) : e.c[2] = None) THEN Fails
  ELSE [r EXCEPT !.out = <<Filled(map, r.out[1].c)>>]
Expanded(name, g) ==
  CASE name \in BuiltinMacros -> Wrap("macro", Follow([at |-> 8, out |-> <<Leaf(name)>>], Whole(g, ListFrom("expr", ")", g, Start(16)))))
    [] name = "arr" -> Wrap("array", Whole(g, ListFrom("expr", ")", g, Start(16))))
    [] name \in {"vec", "map"} -> Collected(name = "map", Whole(g, ListFrom("entry", ")", g, Start(16))))
    [] OTHER -> Fails
MacroOver(name, s, from, to) ==
  IF Token(s, to) # Closer[Token(s, from - 8)] THEN Fails
  ELSE [Expanded(name, Group(s, from, to)) EXCEPT !.at = IF @ = 0 THEN 0 ELSE to + 8]
MacroCall(name, s, c) ==
  IF Token(s, c) \in DOMAIN Closer THEN MacroOver(name, s, c + 8, GroupEnd(s, c + 8, 1)) ELSE Fails

AfterPath(s, r) ==
  CASE r.at = 0 -> Fails
    [] Token(s, r.at) = "!" /\ r.out[1].k # "path" -> MacroCall(r.out[1].k, s, r.at + 8)
    [] StructCtor(s, r.at) -> Constructed(Steps(<<Tk("{"), List("init", "}")>>, s, Put(r, None)))
    [] Token(s, r.at) = "<" /\ GenericCtor(s, r.at, 0) ->
         Constructed(Steps(<<Tk("<"), Sep(Nt("type"), ",", "list"), Tk(">"), Tk("{"), List("init", "}")>>, s, r))
    [] OTHER -> r

Borrowed(s, r) == Wrap("borrow", Steps(<<Flagged("mut"), Above(101)>>, s, r))
Closure(move, s, c) ==
  Wrap("closure",
        IF Token(s, c) = "||" THEN Steps(<<Nt("expr")>>, s, [at |-> c + 8, out |-> <<move, None>>])
        ELSE Steps(<<Tk("|"), List("parameter", "|"), Nt("expr")>>, s, [at |-> c, out |-> <<move>>]))
Prefix(s, c) ==
  CASE Token(s, c) \in Literals -> Taken(s, Start(c))
    [] Token(s, c) = "Self" -> [at |-> c + 8, out |-> <<Leaf("self")>>]
    [] Token(s, c) = "move" /\ Ahead(s, c, 1) \in {"|", "||"} -> Closure(Leaf("move"), s, c + 8)
    [] IsIdent(Token(s, c)) -> AfterPath(s, Steps(<<Paths>>, s, Start(c)))
    [] Token(s, c) = "(" -> Parenthesised(s, c)
    [] Token(s, c) = "&" -> Borrowed(s, Start(c + 8))
    [] Token(s, c) \in UnaryMarks \ {"&"} -> Wrap(UnaryLabel[Token(s, c)], Steps(<<Above(101)>>, s, Start(c + 8)))
    [] Token(s, c) \in {"|", "||"} -> Closure(None, s, c)
    [] Token(s, c) \in PrefixKeywords \cup {"[", "{"} -> Parse(PrefixRule(s, c), s, c)
    [] OTHER -> Fails
-----------------------------------------------------------------------------
(* stmt.rs *)

RECURSIVE BlockFrom(_, _)
StatementLike ==
  {"if", "match", "for", "while", "loop", "region", "gc_region", "block", "unsafe", "try"}
BlockEnd(s, at, statements, final) ==
  IF Token(s, at) = "}" THEN [at |-> at + 8, out |-> <<Tree("block", <<Tree("list", statements), final>>)>>]
  ELSE Fails
AfterExpr(s, r, q) ==
  CASE q.at = 0 -> Fails
    [] Token(s, q.at) = ";" -> BlockFrom(s, [at |-> q.at + 8, out |-> Append(r.out, Tree("expr", q.out))])
    [] q.out[1].k \in StatementLike /\ Token(s, q.at) # "}" ->
         BlockFrom(s, [at |-> q.at, out |-> Append(r.out, Tree("semi", q.out))])
    [] OTHER -> BlockEnd(s, q.at, r.out, q.out[1])
BlockFrom(s, r) ==
  CASE Token(s, r.at) \in {"}", "eof"} -> BlockEnd(s, r.at, r.out, None)
    [] Token(s, r.at) = ";" -> BlockFrom(s, Skip(r))
    [] ItemStart(s, r.at) -> BlockFrom(s, Follow(r, Parse("item", s, r.at)))
    [] Token(s, r.at) = "let" -> BlockFrom(s, Follow(r, Parse("let", s, r.at)))
    [] OTHER -> AfterExpr(s, r, Parse("expr", s, r.at))

Ended(s, r) == IF Token(s, r.at) = ";" THEN Skip(Wrap("expr", r)) ELSE Wrap("semi", r)
Statement(s, c) == IF Token(s, c) = "let" THEN Parse("let", s, c) ELSE Ended(s, Parse("expr", s, c))

(* A block ends an arm, anything else needs a comma or the end of the match. *)
AfterArm(s, r) ==
  CASE r.at = 0 -> Fails
    [] Token(s, r.at) = "," -> Skip(r)
    [] r.at # 0 /\ Token(s, r.at) # "," /\ (r.out[1].c[3].k \in {"block", "unsafe"} \/ Token(s, r.at) = "}") -> r
    [] OTHER -> Fails

-----------------------------------------------------------------------------
(* pattern.rs *)

AfterIdent(s, r) ==
  CASE Token(s, r.at) = "(" -> Wrap("enumpat", Steps(<<Tk("("), List("element", ")")>>, s, r))
    [] Token(s, r.at) = "{" -> Wrap("structpat", Steps(<<Tk("{"), Nt("fields")>>, s, r))
    [] Len(r.out[1].c) > 1 -> Wrap("enumpat", Put(r, None))
    [] OTHER -> [r EXCEPT !.out = r.out[1].c]
Atom(s, c) ==
  CASE Token(s, c) = "mut" -> Parse("mutpat", s, c)
    [] Token(s, c) \in Literals \cup {"_"} -> Taken(s, Start(c))
    [] Token(s, c) = "ref" /\ (Ahead(s, c, 1) = "mut" \/ IsIdent(Ahead(s, c, 1))) -> Parse("refpat", s, c)
    [] Token(s, c) = "(" -> Parse("tuplepat", s, c)
    [] IsIdent(Token(s, c)) -> AfterIdent(s, Steps(<<NamePath>>, s, Start(c)))
    [] OTHER -> Fails
OfLiterals(r) == IF r.at # 0 /\ r.out[1].k \in Literals /\ r.out[3].k \in Literals THEN Wrap("rangepat", r) ELSE Fails
AfterAtom(s, r) ==
  CASE Token(s, r.at) \in Ranges -> OfLiterals(Steps(<<OneOf(Ranges), Nt("atom")>>, s, r))
    [] Token(s, r.at) = ".." -> Fails
    [] OTHER -> r
RECURSIVE FieldsFrom(_, _)
AfterPatternField(s, r) ==
  CASE Token(s, r.at) = "," -> FieldsFrom(s, Skip(r))
    [] Token(s, r.at) = "}" -> Skip(Wrap("list", r))
    [] OTHER -> Fails
FieldsFrom(s, r) ==
  CASE Token(s, r.at) = "}" -> Skip(Wrap("list", r))
    [] Token(s, r.at) = ".." /\ Ahead(s, r.at, 1) # "," -> AfterPatternField(s, Taken(s, r))
    [] OTHER -> AfterPatternField(s, Follow(r, Parse("fieldpat", s, r.at)))

-----------------------------------------------------------------------------
(* region.rs: the options, each in its slot *)

RECURSIVE OptionsFrom(_, _)
Options(s, r) ==
  CASE Token(s, r.at) = "strategy" /\ <<Ahead(s, r.at, 1), Ahead(s, r.at, 2), Ahead(s, r.at, 3)>> = <<"(", "bump", ")">> ->
         <<1, Leaf("bump"), 4>>
    [] Token(s, r.at) = "with_size" /\ Ahead(s, r.at, 1) = "(" /\ Ahead(s, r.at, 2) \in Ints /\ Ahead(s, r.at, 3) = ")" ->
         <<2, Leaf(Ahead(s, r.at, 2)), 4>>
    [] Token(s, r.at) = "adaptive" -> <<4, Leaf("adaptive"), 1>>
    [] Token(s, r.at) = "exact" -> <<5, Leaf("exact"), 1>>
    [] OTHER -> <<>>
AfterOption(s, r, o) ==
  IF o = <<>> THEN (IF Token(s, r.at) \in {"strategy", "with_size", "allow_growth"} THEN Fails ELSE r)
  ELSE OptionsFrom(s, [at |-> r.at + 8 * o[3], out |-> [r.out EXCEPT ![1].c[o[1]] = o[2]]])
(* Growth is allowed in any case: only the factor says something. *)
Factored(s, c) ==
  <<Ahead(s, c, 1), Ahead(s, c, 2), Ahead(s, c, 3), Ahead(s, c, 5)>> = <<"(", "growth_factor", "=", ")">>
  /\ Ahead(s, c, 4) \in Ints \cup {"1.5"}
OptionsFrom(s, r) ==
  CASE Token(s, r.at) = "allow_growth" /\ Factored(s, r.at) ->
         OptionsFrom(s, [at |-> r.at + 48, out |-> [r.out EXCEPT ![1].c[3] = Leaf(Ahead(s, r.at, 4))]])
    [] Token(s, r.at) = "allow_growth" /\ Ahead(s, r.at, 1) # "(" -> OptionsFrom(s, Skip(r))
    [] Token(s, r.at) = "allow_growth" /\ Ahead(s, r.at, 1) = "(" /\ Ahead(s, r.at, 2) = ")" ->
         OptionsFrom(s, Skip(Skip(Skip(r))))
    [] OTHER -> AfterOption(s, r, Options(s, r))

-----------------------------------------------------------------------------
(* parser.rs, item.rs: items *)

Modifiers == {"pub", "async", "unsafe", "extern"}
RECURSIVE PastModifiers(_, _), GenericsFrom(_, _), PastBound(_, _), MemberAttrs(_, _), AttributesFrom(_, _),
          SegmentPath(_, _), UseMember(_, _)
PastModifiers(s, c) == IF Token(s, c) \in Modifiers THEN PastModifiers(s, c + 8) ELSE c
ModifiersAt(s, c, past) ==
  LET present == {Token(s, 8 * i) : i \in TokenAt(c)..(TokenAt(past) - 1)}
  IN [at |-> past,
      out |-> <<Tree("modifiers", [i \in 1..3 |-> LET m == <<"pub", "async", "extern">>[i]
                                                   IN IF m \in present THEN Leaf(m) ELSE None])>>]

(* Lifetime parameters are read and dropped. *)
PastBound(s, c) == IF Token(s, c) \in {",", ">", "eof"} THEN c ELSE PastBound(s, c + 8)
AfterGeneric(s, r) ==
  CASE Token(s, r.at) = ">" -> Skip(Wrap("list", r))
    [] Token(s, r.at) = "," -> GenericsFrom(s, Skip(r))
    [] OTHER -> Fails
GenericsFrom(s, r) ==
  CASE Token(s, r.at) \in Lifetimes /\ Ahead(s, r.at, 1) = ":" -> AfterGeneric(s, [r EXCEPT !.at = PastBound(s, @)])
    [] Token(s, r.at) \in Lifetimes /\ Ahead(s, r.at, 1) # ":" -> AfterGeneric(s, Skip(r))
    [] OTHER -> AfterGeneric(s, Follow(r, Parse("generic", s, r.at)))

SelfNamed == Tree("selftype", <<None>>)
SelfParam(type) == <<Tree("param", <<None, Leaf("self"), type, None>>)>>
ParamTree(s, c) ==
  CASE Token(s, c) = "self" -> [at |-> c + 8, out |-> SelfParam(SelfNamed)]
    [] Token(s, c) = "&" /\ Ahead(s, c, 1) = "self" -> [at |-> c + 16, out |-> SelfParam(Tree("ref", <<None, None, SelfNamed>>))]
    [] Token(s, c) = "&" /\ Ahead(s, c, 1) = "mut" ->
         Only1(Ahead(s, c, 2) = "self", [at |-> c + 24, out |-> SelfParam(Tree("ref", <<None, Leaf("mut"), SelfNamed>>))])
    [] OTHER -> Wrap("param", Steps(ParamRule, s, Start(c)))

MemberAttrs(s, r) ==
  CASE r.at = 0 -> Fails
    [] Token(s, r.at) # "#" -> Wrap("list", r)
    [] OTHER -> MemberAttrs(s, Follow(r, Parse(IF Ahead(s, r.at, 2) = "error" THEN "attr" ELSE "mark", s, r.at)))
(* The attributes of an item: what it derives, repr(C), memory(gc), messages. *)
AttributeRule ==
  ("derive" :> "derive") @@ ("repr" :> "repr") @@ ("memory" :> "memory") @@ ("error" :> "attr")
AttributesFrom(s, r) ==
  CASE r.at = 0 -> Fails
    [] Token(s, r.at) # "#" -> r
    [] Ahead(s, r.at, 2) \in DOMAIN AttributeRule ->
         AttributesFrom(s, Follow(r, Parse(AttributeRule[Ahead(s, r.at, 2)], s, r.at)))
    [] OTHER -> Fails
Of(attributes, label) == SelectSeq(attributes, LAMBDA a : a.k = label)
FlagLeaf(present, label) == IF present THEN Leaf(label) ELSE None
Header(kind, public, a) ==
  LET derives == Tree("list", FlattenSeq([i \in DOMAIN Of(a, "derive") |-> Of(a, "derive")[i].c[1].c]))
      attrs == Tree("list", Of(a, "attr"))
      pub == FlagLeaf(public, "pub")
  IN CASE kind = "struct" -> <<pub, derives, attrs, FlagLeaf(~public /\ Of(a, "repr") # <<>>, "repr")>>
       [] kind = "enum" -> <<pub, derives, attrs>>
       [] kind = "mod" -> <<pub, FlagLeaf(Of(a, "memory") # <<>>, "memory")>>
       [] kind \in {"use", "actor", "protocol", "alias"} -> <<pub>>
       [] OTHER -> <<>>

ItemKind ==
  [t \in {"struct", "enum", "protocol", "impl", "mod", "actor"} |-> t]
  @@ ("import" :> "use") @@ ("const" :> "const") @@ ("static" :> "const") @@ ("type" :> "alias")
Headed(kind, public, a, r) == IF r.at = 0 THEN Fails ELSE [r EXCEPT !.out[1].c = Header(kind, public, a) \o @]
ItemAfter(s, a) ==
  CASE a.at = 0 -> Fails
    [] Token(s, a.at) \in DOMAIN ItemKind ->
         Headed(ItemKind[Token(s, a.at)], FALSE, a.out, Parse(ItemKind[Token(s, a.at)], s, a.at))
    [] Token(s, a.at) = "pub" /\ Ahead(s, a.at, 1) \in DOMAIN ItemKind ->
         Headed(ItemKind[Ahead(s, a.at, 1)], TRUE, a.out, Parse(ItemKind[Ahead(s, a.at, 1)], s, a.at + 8))
    [] Token(s, a.at) \in Modifiers \cup {"fn"} -> Parse("fn", s, a.at)
    [] OTHER -> Statement(s, a.at)

SegmentPath(s, r) ==
  CASE r.at = 0 -> Fails
    [] Token(s, r.at) = "::" /\ Ahead(s, r.at, 1) # "{" -> SegmentPath(s, Steps(<<Tk("::"), Segment>>, s, r))
    [] Token(s, r.at) = "::" /\ Ahead(s, r.at, 1) = "{" -> Skip(Wrap("list", r))
    [] OTHER -> Wrap("list", r)
(* A member of an import group: a subgroup has no alias. *)
UseMember(s, r) ==
  CASE Token(s, r.at) = "::" /\ Ahead(s, r.at, 1) = "{" -> Put(Follow(r, Parse("group", s, r.at + 8)), None)
    [] Token(s, r.at) = "::" /\ Ahead(s, r.at, 1) # "{" -> UseMember(s, Skip(r))
    [] OTHER -> Steps(<<Opt("as", <<Id>>)>>, s, Put(r, None))
UseMembers(s, c) ==
  IF Token(s, c) = "{" THEN Steps(<<List("usemember", "}")>>, s, Start(c + 8)) ELSE [at |-> c, out |-> <<None>>]
-----------------------------------------------------------------------------
(* Every part by its name. *)

OneStep(e, s, r) ==
  CASE e[1] = "token" -> Only1(Token(s, r.at) = e[2], Skip(r))
    [] e[1] = "ident" -> Only1(IsIdent(Token(s, r.at)), Taken(s, r))
    [] e[1] = "segment" -> Only1(IsIdent(Token(s, r.at)) \/ Token(s, r.at) = "*", Taken(s, r))
    [] e[1] = "member" -> Only1(IsIdent(Token(s, r.at)) \/ Token(s, r.at) \in {"send", "recv"}, Taken(s, r))
    [] e[1] = "lifetime" -> Only1(Token(s, r.at) \in Lifetimes, Taken(s, r))
    [] e[1] = "may lifetime" -> IF Token(s, r.at) \in Lifetimes THEN Taken(s, r) ELSE Put(r, None)
    [] e[1] = "flag" -> IF Token(s, r.at) = e[2] THEN Taken(s, r) ELSE Put(r, None)
    [] e[1] = "one of" -> Only1(Token(s, r.at) \in e[2], Taken(s, r))
    [] e[1] = "rule" -> Follow(r, Parse(e[2], s, r.at))
    [] e[1] = "above" -> Follow(r, ExprFrom(e[2], s, Prefix(s, r.at)))
    [] e[1] = "opt" -> IF Token(s, r.at) = e[2] THEN Steps(e[3], s, Skip(r)) ELSE Put(r, None)
    [] e[1] = "unless" -> IF Token(s, r.at) \in e[2] THEN Put(r, None) ELSE Steps(e[3], s, r)
    [] e[1] = "list" -> Follow(r, ListFrom(e[2], e[3], s, Start(r.at)))
    [] e[1] = "until" -> Follow(r, UntilFrom(e[2], e[3], s, Start(r.at)))
    [] e[1] = "sep" -> Follow(r, SepFrom(e, s, Steps(<<e[2]>>, s, Start(r.at))))
    [] e[1] = "where" -> IF Token(s, r.at) = "where" THEN WhereFrom(e[2], s, r) ELSE r
    [] e[1] = "members" -> Follow(r, MembersFrom(e[2], s, [at |-> r.at, out |-> <<None, None, None>>]))
Steps(es, s, r) == IF es = <<>> \/ r.at = 0 THEN r ELSE Steps(Tail(es), s, OneStep(Head(es), s, r))

(* What becomes of the parts of a rule: a loop and a match for the `let' forms. *)
WildArm(body) == Tree("arm", <<Leaf("_"), None, body>>)
NoBlock == Tree("block", <<None, None>>)
Matched(pattern, e, body, other) ==
  Tree("match", <<e, Tree("list", <<Tree("arm", <<pattern, None, body>>), WildArm(other)>>)>>)
FieldTree(mut, name, pattern) ==
  Tree("fieldpat", <<name, IF mut = None THEN pattern ELSE Tree("mutpat", <<pattern>>)>>)
Shaped(n, out) ==
  CASE n \in {"type", "orpattern"} -> out[1]
    [] n = "if" /\ out[3].k \notin {"list", "block"} -> Tree(n, <<out[1], out[2], Tree("block", <<None, out[3]>>)>>)
    [] n = "iflet" -> Matched(out[1], out[2], out[3], IF out[4] = None THEN NoBlock ELSE out[4])
    [] n = "whilelet" ->
         Tree("loop", <<Tree("block", <<None, Matched(out[1], out[2], out[3], Tree("break", <<None>>))>>)>>)
    [] n = "fntype" /\ out[2] = None -> Tree(n, <<out[1], Tree("pathtype", <<Tree("name", <<Leaf("()")>>), None>>)>>)
    [] n = "fieldinit" /\ out[2] = None -> Tree(n, <<out[1], out[1]>>)
    [] n = "assocname" -> Tree(n, <<out[1], None>>)
    [] n = "refpat" -> Tree(n, Tail(out))
    [] n = "fieldpat" -> FieldTree(out[1], out[2], IF out[3] = None THEN out[2] ELSE out[3])
    [] OTHER -> Tree(n, out)
Ruled(n, r) == IF r.at = 0 THEN Fails ELSE [r EXCEPT !.out = <<Shaped(n, r.out)>>]

RECURSIVE TypeArgs(_, _), SelfArgs(_, _)
ClosesHere(s, r) == Token(s, r.at) \in {">", ">>"} \/ r.at % 8 > 0
TypeArgs(s, r) ==
  CASE r.at = 0 -> Fails
    [] ClosesHere(s, r) -> Wrap("list", Close(s, r))
    [] Token(s, r.at) = "," -> TypeArgs(s, Follow(r, Parse("type", s, r.at + 8)))
    [] OTHER -> Fails
(* The arguments of the type an impl is for. *)
SelfClosed(s, r) ==
  IF r.at % 8 > 0 THEN [Wrap("list", r) EXCEPT !.at = @ - 1]
  ELSE Only1(Token(s, r.at) = ">", Skip(Wrap("list", r)))
AfterSelfArg(s, r) == IF Token(s, r.at) = "," THEN SelfArgs(s, Skip(r)) ELSE SelfClosed(s, r)
SelfArgs(s, r) ==
  IF Token(s, r.at) = ">" \/ r.at % 8 > 0 THEN SelfClosed(s, r)
  ELSE AfterSelfArg(s, Follow(r, Parse("type", s, r.at)))

Subscript(s, c, r) ==
  Wrap("range", [r EXCEPT !.out = <<None, Leaf(IF Token(s, c) = ".." THEN "..<" ELSE Token(s, c))>> \o @])
Payload(s, c) ==
  CASE Token(s, c) = "(" -> Steps(<<Tk("("), List("type", ")")>>, s, Start(c))
    [] Token(s, c) = "{" -> Steps(<<Tk("{"), List("payloadfield", "}")>>, s, Start(c))
    [] OTHER -> [at |-> c, out |-> <<None>>]

Parse(n, s, c) ==
  CASE n = "expr" -> ExprFrom(0, s, Prefix(s, c))
    [] n = "prefix" -> Prefix(s, c)
    [] n = "primary" -> Parse(PrimaryType(Token(s, c)), s, c)
    [] n = "arguments" -> IF Token(s, c) = "<" THEN TypeArgs(s, Steps(<<Nt("type")>>, s, Start(c + 8))) ELSE [at |-> c, out |-> <<None>>]
    [] n = "selfargs" -> IF Token(s, c) = "<" THEN SelfArgs(s, Start(c + 8)) ELSE [at |-> c, out |-> <<None>>]
    [] n = "pattern" -> AfterAtom(s, Atom(s, c))
    [] n = "atom" -> Atom(s, c)
    [] n = "element" -> IF Token(s, c) = ".." THEN Taken(s, Start(c)) ELSE Parse("pattern", s, c)
    [] n = "fields" -> FieldsFrom(s, Start(c))
    [] n = "init" -> Parse(IF Token(s, c) = ".." THEN "base" ELSE "fieldinit", s, c)
    [] n = "entry" -> Wrap("entry", Steps(<<Nt("expr"), Opt("=>", <<Nt("expr")>>)>>, s, Start(c)))
    [] n = "subscript" ->
         IF Token(s, c) \in Ranges \cup {".."} THEN Subscript(s, c, Steps(<<Unless({"]"}, <<Nt("expr")>>)>>, s, Start(c + 8)))
         ELSE Parse("expr", s, c)
    [] n = "block" -> Only1(Token(s, c) = "{", BlockFrom(s, Start(c + 8)))
    [] n = "otherwise" -> Parse(IF Token(s, c) = "if" THEN PrefixRule(s, c) ELSE "block", s, c)
    [] n = "arm" -> AfterArm(s, Wrap("arm", Steps(ArmRule, s, Start(c))))
    [] n = "options" -> OptionsFrom(s, [at |-> c, out |-> <<Tree("options", <<None, None, None, None, None>>)>>])
    [] n = "modifiers" -> ModifiersAt(s, c, PastModifiers(s, c))
    [] n = "generics" -> IF Token(s, c) = "<" THEN GenericsFrom(s, Start(c + 8)) ELSE [at |-> c, out |-> <<None>>]
    [] n = "param" -> ParamTree(s, c)
    [] n = "body" -> IF Token(s, c) = "{" THEN Parse("block", s, c) ELSE Steps(<<Tk(";")>>, s, [at |-> c, out |-> <<None>>])
    [] n = "memberattrs" -> MemberAttrs(s, Start(c))
    [] n = "payload" -> Payload(s, c)
    [] n = "module" -> IF Token(s, c) = "{" THEN Steps(<<Until("item", "}")>>, s, Start(c + 8))
                       ELSE Steps(<<Tk(";")>>, s, [at |-> c, out |-> <<Leaf("external")>>])
    [] n = "segments" -> SegmentPath(s, Steps(<<Segment>>, s, Start(c)))
    [] n = "group" -> UseMembers(s, c)
    [] n = "usemember" -> Wrap("usemember", UseMember(s, Steps(<<Id>>, s, Start(c))))
    [] n = "alias name" -> IF Token(s, c - 8) = "}" THEN [at |-> c, out |-> <<None>>] ELSE Steps(<<Opt("as", <<Id>>)>>, s, Start(c))
    [] n = "staticmut" -> IF Token(s, c - 8) = "static" THEN Steps(<<Flagged("mut")>>, s, Start(c)) ELSE [at |-> c, out |-> <<None>>]
    [] n = "stmt" -> Statement(s, c)
    [] n = "item" -> ItemAfter(s, AttributesFrom(s, Start(c)))
    [] n = "program" -> [UntilFrom("item", "eof", s, Start(c)) EXCEPT !.at = @ - 8]
    [] OTHER -> Ruled(n, Steps(Rules[n], s, Start(c)))

(* The tree of a whole text, or None. *)
Parsed(kind, text) ==
  LET s == Stream(text)
      whole(r) == IF r.at > 0 /\ TokenAt(r.at) = Len(s.t) + 1 THEN r.out[1] ELSE None
  IN whole(Parse(kind, s, 8))
=============================================================================
