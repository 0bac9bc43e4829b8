------------------------------- MODULE Formatter -------------------------------
(***************************************************************************)
(* The formatter (tools/rlyeh-fmt): a program is parsed and its tree       *)
(* printed again, parentheses put back from the precedence of the          *)
(* operators.  Texts are tokens, as in Grammar: blanks are left out but    *)
(* for the marks that fuse without one, and "nl" ends a line.              *)
(***************************************************************************)
EXTENDS Grammar

(* Two marks printed without a blank between them are one token. *)
Fused == (<<"&", "&">> :> "&&") @@ (<<">", ">">> :> ">>") @@ (<<"|", "|">> :> "||")
Glue(a, b) ==
  IF a # <<>> /\ b # <<>> /\ <<Last(a), Head(b)>> \in DOMAIN Fused
  THEN Front(a) \o <<Fused[<<Last(a), Head(b)>>]>> \o Tail(b)
  ELSE a \o b
JoinWith(texts, mark) ==
  FlattenSeq([i \in DOMAIN texts |-> IF i = 1 THEN texts[i] ELSE <<mark>> \o texts[i]])
Comma(texts) == JoinWith(texts, ",")
Parens(text) == <<"(">> \o text \o <<")">>
Braces(text) == <<"{">> \o text \o <<"}">>
Line(text) == text \o <<"nl">>
(* A part that may be absent, with what is printed before it. *)
Present(tree, before, text) == IF tree = None THEN <<>> ELSE before \o text
Word(tree) == IF tree = None THEN <<>> ELSE <<tree.k>>
Words(trees) == [i \in DOMAIN trees |-> <<trees[i].k>>]
(* The name of a path; the constructors of vec! and map! are one identifier. *)
PathText(trees) == JoinWith(Words(trees), "::")

-----------------------------------------------------------------------------
(* Precedence (lib.rs) *)

BinaryPrec ==
  ("||" :> 2) @@ ("&&" :> 3) @@ ("|" :> 4) @@ ("^" :> 5) @@ ("&" :> 6) @@ ("<<" :> 8) @@ (">>" :> 8)
  @@ ("+" :> 9) @@ ("-" :> 9) @@ ("*" :> 10) @@ ("/" :> 10) @@ ("%" :> 10)
Prec(e) ==
  CASE e.k \in {"assign", "return", "break"} -> 1
    [] e.k = "binary" -> BinaryPrec[e.c[2].k]
    [] e.k \in {"chain", "inset", "inrange", "inregion"} -> 7
    [] e.k = "cast" -> 11
    [] e.k \in {"neg", "invert", "deref", "borrow"} -> 12
    [] e.k \in {"call", "method", "field", "index", "await", "send", "question"} -> 13
    [] OTHER -> 14
(* mutant: operands on the right as on the left *)
NeedsParensLeft(e, prec, right) == Prec(e) < prec
NeedsParens(e, prec, right) == Prec(e) < prec \/ (right /\ Prec(e) = prec)

Postfixes == {"call", "method", "field", "index", "await", "question"}
BlockForms ==
  {"block", "unsafe", "try", "if", "match", "for", "while", "loop", "region", "gc_region"}

-----------------------------------------------------------------------------
(* One line (fmt_expr.rs, fmt_pattern.rs) *)

RECURSIVE Fmt(_)

All(trees) == [i \in DOMAIN trees |-> Fmt(trees[i])]
Operand(e, prec, right) == IF NeedsParens(e, prec, right) THEN Parens(Fmt(e)) ELSE Fmt(e)

(* What a function type without an arrow returns: a type of that name. *)
UnitName == Tree("pathtype", <<Tree("name", <<Leaf("()")>>), None>>)
FmtType(t) ==
  CASE t = UnitName -> <<"(", ")">>
    [] t.k = "pathtype" /\ t # UnitName -> PathText(t.c[1].c) \o Present(t.c[2], <<"<">>, Glue(Comma(All(t.c[2].c)), <<">">>))
    [] t.k = "selftype" -> <<"Self">> \o Present(t.c[1], <<"::">>, Word(t.c[1]))
    [] t.k = "ref" -> Glue(<<"&">> \o Word(t.c[2]), Fmt(t.c[3]))
    [] t.k = "rawptr" -> <<"*", t.c[1].k>> \o Fmt(t.c[2])
    [] t.k = "dyn" -> <<"dyn", t.c[1].k>>
    [] t.k = "tupletype" -> Parens(Comma(All(t.c[1].c)))
    [] t.k = "arraytype" -> <<"[">> \o Fmt(t.c[1]) \o Present(t.c[2], <<";">>, Fmt(t.c[2])) \o <<"]">>
    [] t.k = "fntype" -> <<"fn">> \o Parens(Comma(All(t.c[1].c))) \o <<"->">> \o Fmt(t.c[2])
    [] t.k = "union" -> JoinWith(All(t.c), "|")
    [] t.k = "infer" -> <<"_">>
Types == {"pathtype", "selftype", "ref", "rawptr", "dyn", "tupletype", "arraytype", "fntype", "union", "infer"}

(* a<..b is printed <a...b: a mark of its own before the lower bound. *)
FmtRange(lower, op, upper) ==
  (IF op = "<.." THEN <<"<">> ELSE <<>>) \o lower \o <<IF op = "<.." THEN "..." ELSE op>> \o upper
FmtFields(fields) ==
  Braces(Comma([i \in DOMAIN fields |->
                  IF fields[i].c = <<>> THEN <<"..", ":", "..">> ELSE <<fields[i].c[1].k, ":">> \o Fmt(fields[i].c[2])]))
FmtPattern(p) ==
  CASE p.k = "tuplepat" -> Parens(Comma(All(p.c[1].c)))
    [] p.k = "structpat" -> PathText(p.c[1].c) \o FmtFields(p.c[2].c)
    [] p.k = "enumpat" -> PathText(p.c[1].c) \o Parens(Comma(All(p.c[2].c)))
    [] p.k = "rangepat" -> FmtRange(Fmt(p.c[1]), p.c[2].k, Fmt(p.c[3]))
    [] p.k = "refpat" -> <<"ref">> \o Word(p.c[1]) \o Fmt(p.c[2])
    [] p.k = "or" -> JoinWith(All(p.c), "|")
    [] p.k = "mutpat" -> <<"mut">> \o Fmt(p.c[1])
Patterns == {"tuplepat", "structpat", "enumpat", "rangepat", "refpat", "or", "mutpat"}

(* Statements on one line are separated by a semicolon, each with its own; items are dropped. *)
FmtStmt(s) ==
  CASE s.k = "let" -> <<"let">> \o Word(s.c[1]) \o Fmt(s.c[2]) \o Present(s.c[3], <<":">>, Fmt(s.c[3])) \o <<"=">> \o Fmt(s.c[4]) \o <<";">>
    [] s.k = "expr" -> Fmt(s.c[1]) \o <<";">>
    [] s.k = "semi" -> Fmt(s.c[1])
    [] OTHER -> <<>>
FmtBlock(b) ==
  LET stmts == SelectSeq([i \in DOMAIN b.c[1].c |-> FmtStmt(b.c[1].c[i])], LAMBDA text : text # <<>>)
  IN Braces(JoinWith(IF b.c[2] = None THEN stmts ELSE Append(stmts, Fmt(b.c[2])), ";"))
FmtArm(a) == Fmt(a.c[1]) \o Present(a.c[2], <<"if">>, Fmt(a.c[2])) \o <<"=>">> \o Fmt(a.c[3])
FmtBlockForm(e) ==
  CASE e.k = "block" -> FmtBlock(e)
    [] e.k \in {"unsafe", "try", "loop", "gc_region"} -> <<e.k>> \o FmtBlock(e.c[1])
    [] e.k = "if" -> <<"if">> \o Fmt(e.c[1]) \o FmtBlock(e.c[2]) \o Present(e.c[3], <<"else">>, FmtBlock(e.c[3]))
    [] e.k = "match" -> <<"match">> \o Fmt(e.c[1]) \o Braces(Comma([i \in DOMAIN e.c[2].c |-> FmtArm(e.c[2].c[i])]))
    [] e.k = "for" -> <<"for">> \o Fmt(e.c[1]) \o <<"in">> \o Fmt(e.c[2]) \o FmtBlock(e.c[3])
    [] e.k = "while" -> <<"while">> \o Fmt(e.c[1]) \o FmtBlock(e.c[2])
    [] e.k = "region" -> <<"region">> \o Word(e.c[1]) \o Word(e.c[2].c[4]) \o FmtBlock(e.c[3])

FmtParam(p) == Fmt(p.c[1]) \o Present(p.c[2], <<":">>, Fmt(p.c[2]))
FmtChain(parts) ==
  FlattenSeq([i \in DOMAIN parts |-> IF i % 2 = 0 THEN <<parts[i].k>> ELSE Operand(parts[i], 7, FALSE)])
Sign == ("neg" :> "-") @@ ("invert" :> "!") @@ ("deref" :> "*")
Maybe(e) == Present(e, <<>>, Operand(e, 1, FALSE))
RangeEnd(e) == Present(e, <<>>, Operand(e, 7, FALSE))
FmtExpr(e) ==
  CASE e.k \in {"path", "name"} -> PathText(e.c)
    [] e.k = "tuple" -> Parens(Comma(All(e.c[1].c)))
    [] e.k = "array" -> <<"[">> \o Comma(All(e.c[1].c)) \o <<"]">>
    [] e.k = "range" -> FmtRange(RangeEnd(e.c[1]), e.c[2].k, RangeEnd(e.c[3]))
    [] e.k = "binary" -> Operand(e.c[1], Prec(e), FALSE) \o <<e.c[2].k>> \o Operand(e.c[3], Prec(e), TRUE)
    [] e.k \in DOMAIN Sign -> <<Sign[e.k]>> \o Operand(e.c[1], 12, FALSE)
    [] e.k = "borrow" -> Glue(<<"&">> \o Word(e.c[1]), Operand(e.c[2], 12, FALSE))
    [] e.k = "chain" -> FmtChain(e.c)
    [] e.k = "inset" -> Operand(e.c[1], 7, FALSE) \o <<e.c[2].k>> \o Parens(Comma(All(e.c[3].c)))
    [] e.k \in {"inrange", "incontainer"} -> Operand(e.c[1], 7, FALSE) \o <<e.c[2].k>> \o Fmt(e.c[3])
    [] e.k = "inregion" -> Fmt(e.c[1]) \o <<"in", e.c[2].k>>
    [] e.k = "assign" -> Operand(e.c[1], 1, FALSE) \o <<e.c[2].k>> \o Operand(e.c[3], 1, TRUE)
    [] e.k = "transfer" -> <<"transfer">> \o Fmt(e.c[1]) \o <<"out", "of", e.c[2].k>>
    [] e.k = "call" -> Operand(e.c[1], 13, FALSE) \o Parens(Comma(All(e.c[3].c)))
    [] e.k = "macro" -> <<e.c[1].k, "!">> \o Parens(Comma(All(e.c[2].c)))
    [] e.k = "method" -> Operand(e.c[1], 13, FALSE) \o <<".", e.c[2].k>> \o Parens(Comma(All(e.c[3].c)))
    [] e.k = "field" -> Operand(e.c[1], 13, FALSE) \o <<".", e.c[2].k>>
    [] e.k = "await" -> Operand(e.c[1], 13, FALSE) \o <<".", "await">>
    [] e.k = "question" -> Operand(e.c[1], 13, FALSE) \o <<"?">>
    [] e.k = "index" -> Operand(e.c[1], 13, FALSE) \o <<"[">> \o Fmt(e.c[2]) \o <<"]">>
    [] e.k = "ctor" -> PathText(e.c[1].c) \o FmtFields(e.c[3].c)
    [] e.k = "closure" ->
         Word(e.c[1])
         \o Glue(Glue(<<"|">>, Comma([i \in DOMAIN e.c[2].c |-> FmtParam(e.c[2].c[i])])), <<"|">>) \o Fmt(e.c[3])
    [] e.k = "cast" -> Operand(e.c[1], 11, FALSE) \o <<"as">> \o Fmt(e.c[2])
    [] e.k \in {"return", "break"} -> <<e.k>> \o Maybe(e.c[1])
    [] e.k = "send" -> <<"send">> \o Fmt(e.c[1]) \o <<".", e.c[2].k>> \o Parens(Comma(All(e.c[3].c)))

Constructors ==
  [name \in {"Vec::new", "Vec::with_capacity", "HashMap::new", "HashMap::with_capacity"} |->
     <<IF name \in {"Vec::new", "Vec::with_capacity"} THEN "Vec" ELSE "HashMap", "::",
       IF name \in {"Vec::new", "HashMap::new"} THEN "new" ELSE "with_capacity">>]
FmtLeaf(t) ==
  CASE t.k = "()" -> <<"(", ")">>
    [] t.k \in DOMAIN Constructors -> Constructors[t.k]
    [] OTHER -> <<t.k>>
Fmt(t) ==
  CASE t.k \in Types -> FmtType(t)
    [] t.k \in Patterns -> FmtPattern(t)
    [] t.k \in BlockForms -> FmtBlockForm(t)
    [] t.c = <<>> -> FmtLeaf(t)
    [] OTHER -> FmtExpr(t)

-----------------------------------------------------------------------------
(* Statements and items, a line each (lib.rs) *)

RECURSIVE Lines(_)

Every(trees) == FlattenSeq([i \in DOMAIN trees |-> Lines(trees[i])])
Final(e) == Present(e, <<>>, Lines(e))
Body(b) == Every(b.c[1].c) \o Final(b.c[2])
Lined(head, block) == Line(head \o <<"{">>) \o Body(block) \o <<"}">>
RegionHead(e) ==
  <<"region">> \o Word(e.c[1]) \o Word(e.c[2].c[4]) \o Word(e.c[2].c[5])
  \o Present(e.c[2].c[2], <<"with_size", "(">>, Word(e.c[2].c[2]) \o <<")">>)
  \o Present(e.c[2].c[3], <<"allow_growth", "(", "growth_factor", "=">>, Word(e.c[2].c[3]) \o <<")">>)
(* A value: a block form over several lines, anything else on one. *)
ValueText(e) ==
  CASE e.k = "block" -> Lined(<<>>, e)
    [] e.k \in {"unsafe", "loop", "gc_region"} -> Lined(<<e.k>>, e.c[1])
    [] e.k = "if" -> Lined(<<"if">> \o Fmt(e.c[1]), e.c[2]) \o Present(e.c[3], <<>>, Lined(<<"else">>, e.c[3]))
    [] e.k = "match" ->
         Line(<<"match">> \o Fmt(e.c[1]) \o <<"{">>)
         \o FlattenSeq([i \in DOMAIN e.c[2].c |-> Line(FmtArm(e.c[2].c[i]) \o <<",">>)]) \o <<"}">>
    [] e.k = "for" -> Lined(<<"for">> \o Fmt(e.c[1]) \o <<"in">> \o Fmt(e.c[2]), e.c[3])
    [] e.k = "while" -> Lined(<<"while">> \o Fmt(e.c[1]), e.c[2])
    [] e.k = "region" -> Lined(RegionHead(e), e.c[3])
    [] OTHER -> Fmt(e)

FmtGenerics(generics) ==
  Present(generics, <<"<">>,
     Comma([i \in DOMAIN generics.c |->
              <<generics.c[i].c[1].k>>
              \o Present(generics.c[i].c[2], <<":">>,
                    JoinWith([j \in DOMAIN generics.c[i].c[2].c |-> PathText(generics.c[i].c[2].c[j].c[1].c)], "+"))])
     \o <<">">>)
GenericNames(generics) ==
  Present(generics, <<"<">>, Comma([i \in DOMAIN generics.c |-> <<generics.c[i].c[1].k>>]) \o <<">">>)
ProtocolRef(c) == PathText(c.c[1].c) \o Present(c.c[2], <<"<">>, Glue(Comma(All(c.c[2].c)), <<">">>))
Conforms(list) == Present(list, <<":">>, Comma([i \in DOMAIN list.c |-> ProtocolRef(list.c[i])]))
MemberAttrLines(list) ==
  FlattenSeq([i \in DOMAIN list.c |->
                Line(<<"#", "[">> \o <<list.c[i].c[1].k>>
                     \o (IF list.c[i].k = "attr" THEN <<"(", list.c[i].c[2].k, ")">> ELSE <<>>) \o <<"]">>)])
DeriveLines(list) ==
  FlattenSeq([i \in DOMAIN list.c |-> Line(<<"#", "[", "derive", "(", list.c[i].k, ")", "]">>)])

FnParam(p) ==
  IF p.c[2].k = "self" /\ p.c[4] = None /\ (p.c[3] = SelfNamed \/ (p.c[3].k = "ref" /\ p.c[3].c[3] = SelfNamed))
  THEN (IF p.c[3] = SelfNamed THEN <<>> ELSE <<"&">> \o Word(p.c[3].c[2])) \o <<"self">>
  ELSE Word(p.c[1]) \o <<p.c[2].k, ":">> \o Fmt(p.c[3]) \o Present(p.c[4], <<"=">>, Fmt(p.c[4]))
FnLines(f, public) ==
  LET head == (IF public THEN Word(f.c[1].c[1]) ELSE <<>>) \o Word(f.c[1].c[3]) \o Word(f.c[1].c[2])
              \o <<"fn", f.c[2].k>> \o FmtGenerics(f.c[3])
              \o Parens(Comma([i \in DOMAIN f.c[4].c |-> FnParam(f.c[4].c[i])])) \o Present(f.c[5], <<"->">>, Fmt(f.c[5]))
  IN Line(IF f.c[6] = None THEN head \o <<";">> ELSE Lined(head, f.c[6]))
Methods(list, public) == FlattenSeq([i \in DOMAIN list.c |-> FnLines(list.c[i], public)])
AssocLines(list) ==
  FlattenSeq([i \in DOMAIN list.c |->
                Line(<<"type", list.c[i].c[1].k>> \o Present(list.c[i].c[2], <<"=">>, Fmt(list.c[i].c[2])) \o <<";">>)])
FieldText(f) == Word(f.c[2]) \o <<f.c[3].k, ":">> \o Fmt(f.c[4])
TypeHead(keyword, name, life, generics, protocols) ==
  <<keyword, name.k>> \o Word(life) \o FmtGenerics(generics) \o Conforms(protocols)
Inline(s) == s.c[10] = None /\ s.c[11] = None /\ \A i \in DOMAIN s.c[9].c : s.c[9].c[i].c[1] = None
StructMembers(s) ==
  IF Inline(s) THEN Comma([i \in DOMAIN s.c[9].c |-> FieldText(s.c[9].c[i])])
  ELSE <<"nl">> \o FlattenSeq([i \in DOMAIN s.c[9].c |->
                                 MemberAttrLines(s.c[9].c[i].c[1]) \o Line(FieldText(s.c[9].c[i]) \o <<",">>)])
       \o AssocLines(s.c[11]) \o Methods(s.c[10], FALSE)
StructLines(s) ==
  DeriveLines(s.c[2]) \o MemberAttrLines(s.c[3])
  \o (IF s.c[4] = None THEN <<>> ELSE Line(<<"#", "[", "repr", "(", "C", ")", "]">>))
  \o TypeHead("struct", s.c[5], s.c[6], s.c[7], s.c[8]) \o Braces(StructMembers(s))
Payload1(p) ==
  CASE p = None -> <<>>
    [] p # None /\ p.c[1].k = "payloadfield" ->
         Braces(Comma([i \in DOMAIN p.c |-> <<p.c[i].c[1].k, ":">> \o Fmt(p.c[i].c[2])]))
    [] OTHER -> Parens(Comma(All(p.c)))
Variant(v) == MemberAttrLines(v.c[1]) \o Line(<<v.c[2].k>> \o Payload1(v.c[3]) \o <<",">>)
EnumLines(e) ==
  DeriveLines(e.c[2]) \o MemberAttrLines(e.c[3])
  \o TypeHead("enum", e.c[4], e.c[5], e.c[6], e.c[7])
  \o Braces(<<"nl">> \o FlattenSeq([i \in DOMAIN e.c[8].c |-> Variant(e.c[8].c[i])])
            \o AssocLines(e.c[10]) \o Methods(e.c[9], FALSE))
ProtocolLines(p) ==
  TypeHead("protocol", p.c[2], p.c[3], p.c[4], p.c[5])
  \o Braces(<<"nl">> \o AssocLines(p.c[8]) \o Methods(p.c[7], FALSE))
ImplLines(i) ==
  <<"impl">> \o FmtGenerics(i.c[1]) \o <<i.c[2].k>> \o GenericNames(i.c[1])
  \o Present(i.c[4], <<":">>, ProtocolRef(i.c[4].c[1]))
  \o Braces(<<"nl">> \o AssocLines(i.c[7]) \o Methods(i.c[6], FALSE))
ActorLines(a) ==
  <<"actor", a.c[2].k>>
  \o Braces(<<"nl">>
            \o FlattenSeq([i \in DOMAIN a.c[3].c |->
                 LET f == a.c[3].c[i]
                 IN Line(Word(f.c[1]) \o <<f.c[2].k, ":">> \o Fmt(f.c[3]) \o Present(f.c[4], <<"=">>, Fmt(f.c[4])) \o <<",">>)])
            \o Methods(a.c[4], TRUE))
ModLines(m) ==
  <<"mod", m.c[3].k>>
  \o (IF m.c[4].k = "external" THEN <<";">> ELSE Braces(<<"nl">> \o Every(m.c[4].c)))
(* An import is printed with a word that is no keyword. *)
UseLines(u) == <<"use">> \o PathText(u.c[2].c) \o Present(u.c[4], <<"as">>, Word(u.c[4])) \o <<";">>
AliasLines(a) == Word(a.c[1]) \o <<"type", a.c[2].k>> \o GenericNames(a.c[3]) \o <<"=">> \o Fmt(a.c[4]) \o <<";">>
ConstLines(c) == <<c.c[1].k, c.c[3].k>> \o Present(c.c[4], <<":">>, Fmt(c.c[4])) \o <<"=">> \o ValueText(c.c[5]) \o <<";">>
LetLines(l) ==
  <<"let">> \o Word(l.c[1]) \o Fmt(l.c[2]) \o Present(l.c[3], <<":">>, Fmt(l.c[3])) \o <<"=">> \o ValueText(l.c[4]) \o <<";">>

Lines(t) ==
  CASE t.k = "let" -> Line(LetLines(t))
    [] t.k = "expr" -> Line(ValueText(t.c[1]) \o <<";">>)
    [] t.k = "semi" -> Line(ValueText(t.c[1]))
    [] t.k = "fn" -> FnLines(t, TRUE)
    [] t.k = "struct" -> Line(StructLines(t))
    [] t.k = "enum" -> Line(EnumLines(t))
    [] t.k = "protocol" -> Line(ProtocolLines(t))
    [] t.k = "impl" -> Line(ImplLines(t))
    [] t.k = "actor" -> Line(ActorLines(t))
    [] t.k = "mod" -> Line(ModLines(t))
    [] t.k = "use" -> Line(UseLines(t))
    [] t.k = "alias" -> Line(AliasLines(t))
    [] t.k = "const" -> Line(ConstLines(t))
    [] OTHER -> Line(ValueText(t))

-----------------------------------------------------------------------------
(* What the formatter does not print, or prints so that it is read as something else. *)

(* What a tree prints at its right end without parentheses, and the mark it begins with. *)
RECURSIVE RightEdge(_)
Bare(e, prec, right) == IF e = None \/ NeedsParens(e, prec, right) THEN {} ELSE {e}
RightPart(e) ==
  CASE e.k = "binary" -> Bare(e.c[3], Prec(e), TRUE)
    [] e.k = "assign" -> Bare(e.c[3], 1, TRUE)
    [] e.k = "chain" -> Bare(Last(e.c), 7, FALSE)
    [] e.k \in DOMAIN Sign -> Bare(e.c[1], 12, FALSE)
    [] e.k = "borrow" -> Bare(e.c[2], 12, FALSE)
    [] e.k = "range" -> Bare(e.c[3], 7, FALSE)
    [] e.k \in {"inrange", "incontainer", "closure"} -> {e.c[3]}
    [] e.k \in {"return", "break"} -> Bare(e.c[1], 1, FALSE)
    [] OTHER -> {}
RightEdge(e) == {e} \cup UNION {RightEdge(part) : part \in RightPart(e)}
LeftOperand(e) ==
  CASE e.k \in {"binary", "assign"} -> <<e.c[1], Prec(e)>>
    [] e.k \in {"chain", "inset", "inrange", "incontainer", "range"} -> <<e.c[1], 7>>
    [] e.k = "cast" -> <<e.c[1], 11>>
    [] e.k \in Postfixes -> <<e.c[1], 13>>
    [] e.k = "inregion" -> <<e.c[1], 0>>
    [] OTHER -> <<None, 0>>
RECURSIVE FirstMark(_)
FirstMark(e) ==
  CASE LeftOperand(e)[1] # None ->
         IF NeedsParens(LeftOperand(e)[1], LeftOperand(e)[2], FALSE) THEN "(" ELSE FirstMark(LeftOperand(e)[1])
    [] LeftOperand(e)[1] = None /\ e.k \in {"tuple", "()"} -> "("
    [] LeftOperand(e)[1] = None /\ e.k = "block" -> "{"
    [] OTHER -> e.k

Elements == {"inset", "inrange", "incontainer", "inregion"}
(* What these print at their end reads on: a body or a value over everything, a bound and the right *)
(* of `in' over what binds tighter, the right of `in (' over everything.                            *)
Swallows(e, mark) ==
  LET next == IF mark \in DOMAIN Precedence THEN Precedence[mark] ELSE 110
  IN \E end \in RightEdge(e) :
       \/ end.k \in {"closure", "return", "break"}
       \/ end.k \in {"incontainer", "inset"} /\ FirstMark(end.c[3]) = "("
       \/ end.k \in {"inrange", "incontainer"} /\ next >= 45
       \/ end.k = "range" /\ next > 45
ReadsOn(e, prec, mark) == \E part \in Bare(e, prec, FALSE) : Swallows(part, mark)
(* After a type, a mark may go on with the type. *)
ReadsType(e, prec, mark) ==
  mark \in {"<", "|"} /\ \E part \in Bare(e, prec, FALSE) : \E end \in RightEdge(part) : end.k = "cast"
(* A range gets no parentheses whatever it is an operand of.  A `return' without a value is not     *)
(* read before a closing bracket: neither in parentheses of the formatter nor at the end of a list. *)
NoValue(e) == \E end \in RightEdge(e) : end.k \in {"return", "break"} /\ end.c[1] = None
Unreadable(e, prec, right) ==
  (e.k = "range" /\ prec >= 7) \/ (NeedsParens(e, prec, right) /\ NoValue(e))
NoLastValue(list) == list # None /\ NoValue(Last(list.c))

(* `in' is read as a postfix: it goes to the last operand of what is printed before it. *)
BeforeIn == {"binary", "chain", "assign", "borrow"} \cup DOMAIN Sign
LosesIn(e) == e.k \in BeforeIn \/ Swallows(e, "in")
InValue(e) == \E part \in Bare(e, 7, FALSE) : LosesIn(part)

(* After a sign the parser takes an operand that has no cast of its own. *)
RECURSIVE CastFirst(_)
CastFirst(e) == e.k = "cast" \/ (e.k \in Elements /\ CastFirst(e.c[1]))
Unsigned(e) == Unreadable(e, 12, FALSE) \/ (e.k = "incontainer" /\ CastFirst(e))

Misread(e) ==
  CASE e.k = "binary" ->
         \/ ReadsOn(e.c[1], Prec(e), e.c[2].k) \/ ReadsType(e.c[1], Prec(e), e.c[2].k)
         \/ Unreadable(e.c[1], Prec(e), FALSE) \/ Unreadable(e.c[3], Prec(e), TRUE)
    [] e.k = "assign" -> e.c[1].k = "assign" \/ ReadsOn(e.c[1], 1, "=") \/ Unreadable(e.c[3], 1, TRUE)
    [] e.k = "chain" ->
         \/ \E i \in {j \in DOMAIN e.c : j % 2 = 1} : e.c[i].k = "chain" \/ Unreadable(e.c[i], 7, FALSE)
         \/ \E i \in {j \in DOMAIN e.c : j % 2 = 1 /\ j < Len(e.c)} :
              ReadsOn(e.c[i], 7, e.c[i + 1].k) \/ ReadsType(e.c[i], 7, e.c[i + 1].k)
    [] e.k \in DOMAIN Sign -> Unsigned(e.c[1])
    [] e.k = "borrow" -> Unsigned(e.c[2]) \/ (e.c[1] = None /\ e.c[2].k = "borrow")
    [] e.k = "cast" -> ReadsOn(e.c[1], 11, "as") \/ Unreadable(e.c[1], 11, FALSE)
    [] e.k \in Postfixes ->
         \/ ReadsOn(e.c[1], 13, ".") \/ Unreadable(e.c[1], 13, FALSE)
         \/ e.k = "call" /\ e.c[1].k = "field"
         \/ e.k \in {"call", "method"} /\ NoLastValue(e.c[3])
    [] e.k = "send" -> (Prec(e.c[1]) < 14 /\ e.c[1].k # "send") \/ Swallows(e.c[1], ".") \/ NoLastValue(e.c[3])
    [] e.k = "range" ->
         \/ e.c[1] # None /\ (ReadsOn(e.c[1], 7, e.c[2].k) \/ (e.c[1].k # "range" /\ Unreadable(e.c[1], 7, FALSE)))
         \/ e.c[3] # None /\ IF e.c[3].k = "range" THEN e.c[1] # None ELSE Unreadable(e.c[3], 7, FALSE)
    [] e.k = "inset" -> TRUE
    [] e.k = "inrange" -> InValue(e.c[1]) \/ FirstMark(e.c[3]) \in {"(", "{"}
    [] e.k = "incontainer" ->
         \/ InValue(e.c[1])
         \/ FirstMark(e.c[3]) = "{"
         \/ FirstMark(e.c[3]) # "(" /\ (e.c[3].k \in {"range", "assign"} \/ Prec(e.c[3]) \in 2..6)
    [] e.k = "inregion" -> LosesIn(e.c[1])
    [] e.k \in {"tuple", "array"} -> NoLastValue(e.c[1])
    [] e.k = "macro" -> NoLastValue(e.c[2])
    [] OTHER -> FALSE

PublicIn(methods) == \E i \in DOMAIN methods.c : methods.c[i].c[1].c[1] # None
GenericTypes(generics) == [i \in DOMAIN generics.c |-> Tree("pathtype", <<Tree("name", <<generics.c[i].c[1]>>), None>>)]
(* In a block an item is told by its first token; these are not.  They get there behind an attribute. *)
Unbegun(s) ==
  \/ s.k = "alias" /\ s.c[1] = None
  \/ s.k = "fn" /\ s.c[1].c[1] = None /\ s.c[1].c[3] # None
Unprinted(t, lined) ==
  CASE t.k = "call" -> t.c[2] # None
    [] t.k = "ctor" -> t.c[2] # None \/ t.c[4] # None
    [] t.k = "tuple" -> Len(t.c[1].c) = 1
    [] t.k \in {"range", "rangepat"} -> t.c[2].k = "<.."
    [] t.k = "structpat" -> \E i \in DOMAIN t.c[2].c : t.c[2].c[i].c = <<>>
    [] t.k = "ref" -> t.c[1] # None \/ (t.c[2] = None /\ t.c[3].k = "ref")
    [] t.k = "region" -> t.c[2].c[1] # None \/ (~lined /\ \E i \in {2, 3, 5} : t.c[2].c[i] # None)
    [] t.k = "semi" -> ~lined \/ t.c[1].k \notin StatementLike
    [] t.k = "impl" -> t.c[3].c # GenericTypes(t.c[1]) \/ Len(t.c[4].c) > 1 \/ PublicIn(t.c[6])
    [] t.k = "fn" -> ~lined
    [] t.k = "use" -> TRUE
    [] t.k \in {"struct", "enum", "actor"} -> ~lined \/ t.c[1] # None
    [] t.k = "protocol" -> ~lined \/ t.c[1] # None \/ PublicIn(t.c[7])
    [] t.k = "mod" -> ~lined \/ t.c[1] # None \/ t.c[2] # None
    [] t.k = "pathtype" -> t = UnitName
    [] t.k = "block" ->
         \/ \E i \in DOMAIN t.c[1].c : Unbegun(t.c[1].c[i])
         \/ t.c[2] = None /\ t.c[1] # None /\ Last(t.c[1].c).k = "semi"
    [] t.k = "alias" -> ~lined \/ \E i \in DOMAIN t.c[3].c : t.c[3].c[i].c[2] # None
    [] t.k = "const" /\ t.c # <<>> -> ~lined \/ t.c[2] # None
    [] t.k = "variant" -> t.c[4] # None
    [] t.k \in DOMAIN Constructors -> TRUE
    [] OTHER -> FALSE

(* The parts that are printed over several lines when the tree is. *)
LinedParts ==
  ("unsafe" :> {1}) @@ ("loop" :> {1}) @@ ("gc_region" :> {1}) @@ ("if" :> {2, 3}) @@ ("for" :> {3})
  @@ ("while" :> {2}) @@ ("region" :> {3}) @@ ("block" :> {1, 2}) @@ ("list" :> Nat) @@ ("let" :> {4})
  @@ ("expr" :> {1}) @@ ("semi" :> {1}) @@ ("fn" :> {6}) @@ ("const" :> {5})
  @@ [kind \in {"struct", "enum", "protocol", "impl", "mod", "actor"} |-> Nat]
RECURSIVE Loses(_, _)
Loses(t, lined) ==
  \/ Misread(t)
  \/ Unprinted(t, lined)
  \/ \E i \in DOMAIN t.c : Loses(t.c[i], lined /\ t.k \in DOMAIN LinedParts /\ i \in LinedParts[t.k])
-----------------------------------------------------------------------------
(* Sources to format: a text of a sort, written around a shorter one of the same sort; "@" marks   *)
(* the place.                                                                                      *)

CONSTANTS SourceSeeds,     \* the shortest texts of each sort
          SourceContexts,  \* what is written around a text of each sort
          MaxNest          \* how often

VARIABLE source

Seed(sort, text) == [sort |-> sort, text |-> text, nest |-> 0]
NoText == Seed("item", <<>>)
SourceInit == \E sort \in DOMAIN SourceSeeds : \E text \in SourceSeeds[sort] : source = Seed(sort, text)
Filled1(around, text) == FlattenSeq([i \in DOMAIN around |-> IF around[i] = "@" THEN text ELSE <<around[i]>>])
WriteSource ==
  /\ source.nest < MaxNest
  /\ \E around \in SourceContexts[source.sort] :
     \E text \in {source.text} \cup (IF source.sort = "expr" THEN {Parens(source.text)} ELSE {}) :
       source' = [source EXCEPT !.text = Filled1(around, text), !.nest = @ + 1]

(* The program a text of a sort stands in. *)
ProgramAround ==
  [expr |-> <<"let", "v", "=", "@", ";", "fn", "f", "(", ")", "{", "@", "}">>,
   type |-> <<"type", "A", "=", "@", ";", "fn", "f", "(", "x", ":", "@", ")", "->", "@", "{", "x", "as", "@", "}">>,
   pattern |-> <<"match", "x", "{", "@", "=>", "y", "}">>,
   item |-> <<"@">>]
SourceProgram == Filled1(ProgramAround[source.sort], source.text)

(* The formatter keeps the program, but where it is known to lose something: the text it prints is *)
(* parsed to the tree that was printed (lib.rs: parentheses are put back so that the meaning is    *)
(* kept, and what is printed can be parsed again).  What it loses is lost in every program.        *)
FormatKeepsProgram ==
  source # NoText => \A tree \in {Parsed("program", SourceProgram)} :
    tree # None => (Parsed("program", Every(tree.c)) = tree <=> ~Loses(tree, TRUE))
=============================================================================
