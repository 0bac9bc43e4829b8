----------------------------- MODULE MCToolchain -----------------------------
(* Instances of the parts of the toolchain; a behaviour uses one of them,  *)
(* the others stay in an initial state.                                    *)
EXTENDS IncrementalCache, MirPasses, AsyncDesugar, Elaborate, Serde, Formatter, SelfHost, Dagon

CONSTANTS Tools, Owners, Other

VARIABLE tool

tVars == <<cVars, mirVars, asyncVars, elabBody, document, source, program, typed, pkgVars, tool>>

(* Builds, files, sources and the owners of one package are alike.         *)
CacheSymmetry ==
  Permutations(Builders) \cup Permutations(Files) \cup Permutations(Sources) \cup Permutations(Owners)

-----------------------------------------------------------------------------
(* Statements of the programs. *)
VA == User("a")
VO == User("o")
VX == User("x")
VZ == User("z")
VI == User("i")
Stmts(stmts) == Block(stmts, Unit)
Value1(e) == Block(<<>>, e)
Out(e) == Call("out", <<e>>)
CallF(e) == Call("f", <<e>>)
AwaitG(e) == Await("g", <<e>>)
Plus1(x) == Bin("add", Place(x), Num(1))
Inc(x) == Set(x, Plus1(x))
Less(x, n) == Bin("lt", Place(x), Num(n))
Ge(x, n) == Bin("ge", Place(x), Num(n))
Is(x, n) == Bin("eq", Place(x), Num(n))
SomeOf(e) == Ctor(SomeTag, <<e>>)
NoneOf == Ctor(NoneTag, <<>>)
SomeBelow(n) == If(Less(VA, n), Value1(SomeOf(Place(VA))), Value1(NoneOf))
HalfOpen(lo, hi) == Span(lo, hi, TRUE, FALSE)
Only(n) == Span(n, n, TRUE, TRUE)
OutOr9(e) ==
  Match(e, <<Arm(PVariant(SomeTag, <<PBind(VX)>>), Unit, Out(Place(VX))), Arm(PAny, Unit, Out(Num(9)))>>)

MCStatements ==
  { Set(B, Is(Y, 1)),
    Set(B, Flag(1)),
    Set(Y, CallF(Place(Y))),
    Out(Place(Y)),
    If(Place(B), Stmts(<<Inc(Y)>>), Stmts(<<Out(CallF(Num(2)))>>)),
    While(Less(Y, 3), Stmts(<<Inc(Y), If(Place(B), Stmts(<<Break(Unit)>>), Unit)>>)),
    Set(Y, Loop(Stmts(<<Inc(Y), If(Ge(Y, 3), Stmts(<<Break(Plus1(Y))>>), Unit),
                   If(Place(B), Stmts(<<Continue>>), Unit), Out(Place(Y))>>))),
    If(Is(Y, 2), Stmts(<<Return(Plus1(Y))>>), Unit),
    Set(Y, If(Bin("and", Place(B), Not(Bin("lt", Num(2), Num(1)))), Value1(CallF(Num(1))), Value1(Num(0)))),
    If(Bin("lt", Num(1), Num(2)), Stmts(<<Set(Y, Num(5))>>), Stmts(<<Out(Num(7))>>)),
    Set(B, SetLookup(Place(Y), <<1, 2>>, FALSE)),
    Set(B, RangeCheck(Place(Y), 1, 3, TRUE)) }
MCHelpers ==
  { Value1(Plus1(P)),
    Block(<<LetStmt(Y, Bin("add", Place(P), Place(P))), Out(Place(Y))>>, Place(Y)),
    Block(<<If(Is(P, 1), Stmts(<<Return(Num(2))>>), Unit)>>, Place(P)),
    Block(<<Set(P, Num(2))>>, Place(P)),
    Block(<<Set(Global, Bin("add", Place(Global), Place(P)))>>, Place(Global)) }

MCAsync ==
  { LetStmt(VZ, AwaitG(Place(Y))),
    LetStmt(VZ, Plus1(Y)),
    Set(Y, Place(VZ)),
    AwaitG(Place(Y)),
    Out(Place(Y)),
    Set(Y, Bin("add", AwaitG(Place(Y)), AwaitG(Num(1)))),
    If(Less(Y, 3), Stmts(<<AwaitG(Num(5)), Inc(Y)>>), Stmts(<<Out(Num(6))>>)),
    If(Less(Y, 2), Block(<<AwaitG(Num(5))>>, Out(Num(6))), Unit),
    If(Bin("lt", AwaitG(Place(Y)), Num(3)), Stmts(<<Return(AwaitG(Num(4)))>>), Unit),
    If(Less(Y, 2), Stmts(<<LetStmt(Y, Num(7)), Out(Place(Y))>>), Stmts(<<Return(Place(Y))>>)),
    While(Less(Y, 4), Stmts(<<Inc(Y), If(Less(Y, 3), Stmts(<<AwaitG(Place(Y))>>), Unit)>>)),
    While(Bin("lt", AwaitG(Place(Y)), Num(3)), Stmts(<<Inc(Y)>>)),
    Loop(Stmts(<<Inc(Y), AwaitG(Num(8)), If(Ge(Y, 3), Stmts(<<Return(Place(Y))>>), Unit)>>)),
    For(VI, Num(0), Place(Y), Stmts(<<LetStmt(VZ, AwaitG(Place(VI))), Out(Place(VZ))>>)),
    Match(Place(Y), <<Arm(PLit(1), Unit, Stmts(<<Inc(Y), AwaitG(Num(9))>>)), Arm(PAny, Unit, Stmts(<<Out(Num(3))>>))>>) }
MCTails == {Place(Y), AwaitG(Place(Y))}

MCElab ==
  { LetStmt(VX, Plus1(VA)),
    LetStmt(VA, CallF(Place(VX))),
    Block(<<LetStmt(VA, Num(5)), Inc(VA), Block(<<LetStmt(VA, Plus1(VA))>>, Out(Place(VA)))>>, Out(Place(VA))),
    For(VA, Num(0), Place(VA), Stmts(<<If(Is(VA, 1), Stmts(<<Continue>>), Unit), Out(Place(VA))>>)),
    Stmts(<<Own(VX, Place(VA)), Own(VO, Num(2)), Stmts(<<Own(VX, Num(3))>>)>>),
    Stmts(<<Own(VX, Num(1)), If(Less(VA, 2), Stmts(<<Return(Place(VX))>>), Unit)>>),
    Stmts(<<Own(VX, Num(1)), Own(VX, Num(2))>>),
    Set(VA, Match(Place(VA), <<Arm(PLit(1), Unit, Num(3)),
                        Arm(PRange(Span(2, 4, FALSE, TRUE)), Unit, Num(0)),
                        Arm(PBind(VX), Unit, Plus1(VX))>>)),
    LetStmt(VO, SomeBelow(3)),
    Match(Place(VO), <<Arm(PVariant(SomeTag, <<PBind(VA)>>), Bin("gt", CallF(Place(VA)), Num(1)), Inc(VA)),
                        Arm(POr(<<PVariant(NoneTag, <<>>), PVariant(SomeTag, <<PLit(1)>>)>>), Unit, Inc(VA))>>),
    Match(Ctor(2, <<Place(VO), Place(VA)>>),
          <<Arm(PTuple(<<PLit(2), PAny, PBind(VX)>>), Unit, Out(Place(VX))), Arm(PAny, Unit, Unit)>>),
    Match(If(Less(VA, 2), Value1(SomeOf(SomeOf(Num(3)))), Value1(NoneOf)),
          <<Arm(PVariant(SomeTag, <<PVariant(SomeTag, <<PBind(VX)>>)>>), Unit, Out(Place(VX))), Arm(PAny, Unit, Unit)>>),
    Match(Ctor(3, <<Num(4), Num(5)>>),
          <<Arm(POr(<<PVariant(4, <<PBind(VX), PAny>>), PVariant(3, <<PAny, PBind(VX)>>)>>), Unit, Out(Place(VX)))>>),
    If(Chain(<<Num(0), Place(VA), Num(3)>>, <<"lt", "le">>), Stmts(<<Out(Num(1))>>), Unit),
    If(Chain(<<Num(3), CallF(Place(VA)), Num(5)>>, <<"gt", "ge">>), Stmts(<<Out(Num(2))>>), Unit),
    If(InSet(CallF(Place(VA)), <<HalfOpen(0, 4), Only(6), Span(6, 8, FALSE, TRUE)>>, FALSE), Stmts(<<Out(Num(3))>>), Unit),
    If(InSet(Place(VA), <<HalfOpen(0, 2), Only(3)>>, TRUE), Stmts(<<Out(Num(4))>>), Unit),
    If(InSet(CallF(Place(VA)), <<HalfOpen(2, 2)>>, TRUE), Stmts(<<Out(Num(4))>>), Unit),
    Set(VA, Question(Place(VO))),
    OutOr9(Try(Block(<<Inc(VA), Set(VA, Question(Place(VO)))>>, Place(VA)))),
    OutOr9(Try(Block(<<While(Less(VA, 4), Stmts(<<Inc(VA), Out(Question(SomeBelow(3)))>>))>>, Num(6)))),
    Loop(Stmts(<<Inc(VA), Match(Place(VA), <<Arm(PRange(Span(3, 99, TRUE, TRUE)), Unit, Break(Unit)), Arm(PAny, Unit, Unit)>>), LetStmt(VX, Place(VA))>>)) }
MCTail == Place(VA)

-----------------------------------------------------------------------------
(* Values of the serialised types. *)
Chars == {"a", ",", ":", Quote, Escaping, "nl", "=", "{", " "}
Texts(n) == UNION {[1..k -> Chars] : k \in 0..n}
Short == Texts(1)
ValuesOf(t, values) == {<<t, v>> : v \in values}
MapsOf(K, V) ==
  {{}} \cup {{<<k, v>>} : k \in K, v \in V}
  \cup {{<<p[1], v>>, <<p[2], w>>} : p \in {q \in K \X K : q[1] # q[2]}, v \in V, w \in V}
FieldsOf(fields) == StructOf([i \in DOMAIN fields |-> << <<fields[i][1]>>, fields[i][2]>>])
Small == FieldsOf(<< <<"a", I64>>, <<"b", Str>> >>)
Mid == FieldsOf(<< <<"x", Str>>, <<"s", Small>> >>)
Large == FieldsOf(<< <<"a", Bool>>, <<"s", Mid>>, <<"u", Small>> >>)
Late == FieldsOf(<< <<"s", Small>>, <<"a", VecOf(Str)>> >>)
Lists == FieldsOf(<< <<"a", VecOf(Str)>>, <<"m", MapOf(I64, Str)>> >>)
MCDocuments ==
  LET small == {-12} \X Short IN
  ValuesOf(I64, {0, 7, 10, -305}) \cup ValuesOf(Bool, BOOLEAN) \cup ValuesOf(Str, Texts(3))
  \cup ValuesOf(VecOf(Str), UNION {[1..k -> Short] : k \in 0..2})
  \cup ValuesOf(ArrayOf(ArrayOf(Str, 1), 2), [1..2 -> [1..1 -> Short]])
  \cup ValuesOf(MapOf(Str, Str), MapsOf(Short, {<<>>, <<",">>, <<"nl">>, <<Escaping>>}))
  \cup ValuesOf(MapOf(I64, VecOf(I64)), MapsOf({1, -2}, {<<>>, <<3>>, <<3, 4>>}))
  \cup ValuesOf(MapOf(Str, Small), MapsOf({<<"a">>}, small))
  \cup ValuesOf(Small, {0, -12} \X Texts(2)) \cup ValuesOf(Mid, Short \X small)
  \cup ValuesOf(Large, {TRUE} \X ({<<"=">>, <<"{">>} \X small) \X small)
  \cup ValuesOf(Late, small \X {<<>>, <<<<"a">>>>})
  \cup ValuesOf(Lists, {<<>>, <<<<"a">>, <<",">>>>} \X MapsOf({1}, Short))

-----------------------------------------------------------------------------
(* Texts to format; "@" is the place of a shorter text. *)
MCContexts ==
  [expr |->
     {<<"@", "+", "y">>, <<"y", "*", "@">>, <<"@", "<", "y">>, <<"y", "==", "@">>, <<"@", "||", "y">>,
      <<"@", "|", "y">>, <<"-", "@">>, <<"&", "@">>, <<"@", "as", "T">>, <<"@", "(", "y", ")">>,
      <<"@", ".", "m", "(", "y", ")">>, <<"@", ".", "f">>, <<"x", "[", "..", "@", "]">>,
      <<"f", "(", "@", ",", "y", ")">>, <<"y", "in", "@">>, <<"y", "in", "{", "@", ",", "x", "}">>,
      <<"@", "in", "'r">>, <<"y", "in", "(", "@", ")">>, <<"@", "..<", "y">>, <<"y", "...", "@">>,
      <<"x", "<..", "@">>, <<"@", "=", "y">>, <<"(", "@", ",", ")">>,
      <<"S", "{", "f", ":", "@", ",", "..", "y", "}">>, <<"|", "a", "|", "@">>, <<"move", "||", "@">>,
      <<"{", "@", ";", "y", "}">>, <<"if", "@", "{", "x", "}", "else", "{", "y", "}">>,
      <<"match", "@", "{", "a", "if", "y", "=>", "x", ",", "}">>, <<"transfer", "@", "out", "of", "'r">>,
      <<"return", "@">>, <<"send", "@", ".", "m", "(", "y", ")">>, <<"vec", "!", "[", "@", "]">>,
      <<"{", "if", "x", "{", "y", "}", "@", "}">>},
   type |->
     {<<"&", "@">>, <<"&", "mut", "@">>, <<"&", "'r", "@">>, <<"*", "const", "@">>, <<"(", "@", ")">>,
      <<"(", "U", ",", "@", ")">>, <<"[", "@", "]">>, <<"[", "@", ";", "1", "]">>,
      <<"fn", "(", "@", ")", "->", "U">>, <<"fn", "(", "U", ")", "->", "@">>, <<"fn", "(", "@", ")">>,
      <<"A", "<", "@", ">">>, <<"A", "<", "U", ",", "@", ">">>, <<"@", "|", "U">>, <<"U", "|", "@">>},
   pattern |->
     {<<"(", "@", ")">>, <<"(", "q", ",", "@", ")">>, <<"(", "@", ",", "..", ")">>, <<"A", "(", "@", ")">>,
      <<"A", "::", "B", "(", "@", ",", "q", ")">>, <<"S", "{", "f", ":", "@", "}">>,
      <<"S", "{", "f", ":", "@", ",", "..", "}">>, <<"S", "{", "mut", "f", ",", "g", ":", "@", "}">>,
      <<"ref", "mut", "@">>, <<"mut", "@">>, <<"@", "|", "q">>, <<"q", "|", "@">>},
   item |->
     {<<"mod", "m", "{", "@", "}">>, <<"fn", "g", "(", ")", "{", "@", "}">>,
      <<"let", "v", "=", "{", "@", "}", ";">>, <<"f", "(", "{", "@", "}", ")", ";">>, <<"pub", "@">>,
      <<"#", "[", "memory", "(", "gc", ")", "]", "@">>,
      <<"#", "[", "derive", "(", "C", ",", "D", ")", "]", "@">>, <<"#", "[", "repr", "(", "C", ")", "]", "@">>,
      <<"#", "[", "error", "(", "text", ")", "]", "@">>}]
MCSeeds ==
  [expr |->
     {<<"x">>, <<"break">>},
   type |->
     {<<"T">>, <<"dyn", "P">>, <<"Self">>, <<"Self", "::", "I">>},
   pattern |->
     {<<"a">>, <<"_">>, <<"A", "::", "B">>, <<"ref", "a">>, <<"1", "...", "2">>, <<"1", "<..", "2">>},
   item |->
     {<<"fn", "f", "(", ")", ";">>,
      <<"extern", "fn", "f", "(", "a", ":", "T", ",", "mut", "b", ":", "&", "U", "=", "1", ")", "->", "T", ";">>,
      <<"async", "fn", "f", "<", "T", ":", "P", "+", "A", "::", "Q", ">", "(", "&", "mut", "self", ")", "where", "T", ":", "R", "{", "x", ";", "y", "}">>,
      <<"struct", "S", "{", "a", ":", "T", ",", "pub", "b", ":", "U", "}">>,
      <<"struct", "S", "{", "#", "[", "source", "]", "a", ":", "T", ",", "}">>,
      <<"struct", "S", "'r", "<", "T", ">", ":", "P", "<", "T", ">", ",", "Q", "{", "a", ":", "T", "type", "I", "=", "U", ";", "fn", "f", "(", "self", ")", "{", "a", "}", "}">>,
      <<"enum", "E", "{", "A", ",", "#", "[", "from", "]", "B", "(", "T", ",", "U", ")", ",", "C", "{", "x", ":", "T", "}", "}">>,
      <<"enum", "E", "{", "A", "=", "1", ",", "B", "}">>,
      <<"enum", "E", ":", "P", "{", "A", "type", "I", "=", "T", ";", "fn", "f", "(", ")", "{", "}", "}">>,
      <<"protocol", "P", ":", "Q", "<", "T", ">", "{", "type", "I", ";", "type", "J", "=", "T", ";", "fn", "f", "(", "&", "self", ")", "->", "T", ";", "}">>,
      <<"impl", "S", "{", "fn", "f", "(", "&", "self", ")", "{", "}", "}">>,
      <<"impl", "<", "T", ">", "V", "<", "T", ">", ":", "P", "<", "T", ">", "{", "type", "I", "=", "T", ";", "fn", "f", "(", "self", ")", "->", "T", "{", "x", "}", "}">>,
      <<"impl", "<", "T", ">", "V", "<", "A", "<", "T", ">", ">", "{", "}">>,
      <<"impl", "V", ":", "P", ",", "Q", "{", "}">>,
      <<"impl", "V", "{", "pub", "fn", "f", "(", ")", "{", "}", "}">>,
      <<"actor", "A", "{", "a", ":", "T", "=", "1", ",", "fn", "f", "(", ")", "{", "}", "pub", "async", "fn", "g", "(", ")", "{", "}", "}">>,
      <<"mod", "m", ";">>, <<"import", "a", "::", "b", ";">>,
      <<"import", "a", "::", "{", "b", "as", "c", ",", "d", "::", "{", "e", "}", "}", ";">>,
      <<"const", "c", ":", "T", "=", "if", "x", "{", "y", "}", "else", "{", "z", "}", ";">>,
      <<"const", "c", "=", "x", ";">>, <<"static", "mut", "c", ":", "T", "=", "1", ";">>,
      <<"type", "A", "<", "T", ">", "=", "B", "<", "T", ">", ";">>,
      <<"type", "A", "<", "T", ":", "P", ">", "=", "T", ";">>, <<"let", "x", ":", "T", "=", "y", ";">>,
      <<"if", "x", "{", "y", "}", "else", "{", "z", "}", ";">>,
      <<"match", "x", "{", "a", "|", "1", "=>", "y", ",", "_", "=>", "{", "z", "}", "}">>,
      <<"loop", "{", "x", "}">>, <<"for", "a", "in", "x", "...", "y", "{", "x", ".", "await", ";", "}">>,
      <<"println", "!", "(", "f", "::", "<", "T", ">", "(", "x", ")", ")", ";">>,
      <<"x", "[", "try", "{", "y", "}", "]", ";">>, <<"(", "region", "'r", "exact", "{", "x", "}", ")", ";">>,
      <<"while", "let", "a", "=", "x", "{", "unsafe", "{", "y", "}", "}">>,
      <<"region", "'r", "adaptive", "with_size", "(", "2", ")", "allow_growth", "(", "growth_factor", "=", "2", ")", "{", "x", ";", "}">>,
      <<"region", "exact", "{", "x", "}">>, <<"region", "strategy", "(", "bump", ")", "{", "x", "}">>,
      <<"gc_region", "{", "let", "a", "=", "x", ";", "}">>,
      <<"x", "=", "map", "!", "{", "y", "=>", "1", ",", "z", "=>", "2", "}", ";">>,
      <<"let", "v", "=", "vec", "!", "[", "]", ";">>}]

-----------------------------------------------------------------------------
(* Pieces and settings of the programs both parsers read. *)
MCPieces ==
  [expr |->
     {<<"x">>, <<"1">>, <<"text">>, <<"A", "::", "B">>, <<"(", "x", ",", "y", ")">>},
   type |->
     {<<"T">>, <<"_">>},
   pat |->
     {<<"a">>, <<"1">>, <<"1", "..<", "2">>, <<"1", "|", "2">>, <<"(", "a", ",", "_", ")">>},
   stmt |->
     {<<"let", "b", "=", "true", ";">>},
   item |->
     {<<"struct", "S", "<", "T", ",", "U", ">", "{", "a", ":", "T", ",", "b", ":", "&", "U", "}">>,
      <<"enum", "E", "<", "T", ">", "{", "A", ",", "B", "(", "T", ",", "U", ")", ",", "C", "{", "x", ":", "T", "}", "}">>,
      <<"pub", "enum", "E", "{", "A", ",", "B", "(", "T", ")", ",", "}">>,
      <<"fn", "f", "<", "T", ",", "U", ">", "(", "mut", "a", ":", "T", ",", "b", ":", "U", ")", "{", "return", ";", "}">>,
      <<"pub", "struct", "S", "{", "}">>}]
MCSettings ==
  [expr |->
     {<<<<"@", "+", "y">>, "expr">>, <<<<"y", "-", "@">>, "expr">>, <<<<"y", "*", "@">>, "expr">>,
      <<<<"-", "@">>, "expr">>, <<<<"(", "@", ")">>, "expr">>, <<<<"@", ".", "f">>, "expr">>,
      <<<<"@", "[", "y", "]">>, "expr">>, <<<<"y", "[", "@", "]">>, "expr">>,
      <<<<"f", "(", "y", ",", "@", ")">>, "expr">>, <<<<"@", "(", ")">>, "expr">>,
      <<<<"@", ".", "m", "(", "y", ")">>, "expr">>, <<<<"(", "@", ",", "y", ")">>, "expr">>,
      <<<<"[", "y", ",", "@", "]">>, "expr">>, <<<<"@", "<", "y">>, "expr">>, <<<<"y", "==", "@">>, "expr">>,
      <<<<"@", "&&", "y">>, "expr">>, <<<<"y", "|", "@">>, "expr">>, <<<<"@", "..<", "y">>, "expr">>,
      <<<<"y", "<..", "@">>, "expr">>, <<<<"y", "<<", "@">>, "expr">>,
      <<<<"let", "v", "=", "@", ";">>, "stmt">>, <<<<"@", ";">>, "stmt">>, <<<<"@">>, "stmt">>,
      <<<<"return", "@", ";">>, "stmt">>, <<<<"if", "@", "{", "y", "}">>, "stmt">>,
      <<<<"while", "@", "{", "y", ";", "}">>, "stmt">>, <<<<"for", "a", "in", "@", "{", "y", "}">>, "stmt">>,
      <<<<"match", "@", "{", "1", "=>", "{", "y", "}", ",", "a", "if", "y", "=>", "{", "a", "}", ",", "}">>, "stmt">>,
      <<<<"match", "y", "{", "a", "if", "@", "=>", "{", "a", "}", "_", "=>", "{", "1", "}", "}">>, "stmt">>,
      <<<<"let", "v", "=", "if", "@", "{", "1", "}", "else", "{", "2", "}", ";">>, "stmt">>,
      <<<<"if", "y", "{", "1", "}", "else", "if", "@", "{", "2", "}", "else", "{", "y", "}">>, "stmt">>,
      <<<<"{", "y", ";", "@", "}">>, "stmt">>},
   type |->
     {<<<<"V", "<", "@", ">">>, "type">>, <<<<"V", "<", "U", ",", "@", ">">>, "type">>,
      <<<<"(", "@", ",", "U", ")">>, "type">>, <<<<"[", "@", ";", "1", "]">>, "type">>,
      <<<<"&", "mut", "@">>, "type">>, <<<<"&", "@">>, "type">>,
      <<<<"let", "v", ":", "@", "=", "1", ";">>, "stmt">>,
      <<<<"let", "mut", "v", ":", "@", "=", "if", "x", "{", "1", "}", "else", "{", "2", "}", ";">>, "stmt">>,
      <<<<"fn", "f", "(", "a", ":", "@", ",", "mut", "b", ":", "@", ")", "->", "@", "{", "a", "}">>, "item">>,
      <<<<"pub", "struct", "S", "{", "a", ":", "@", ",", "b", ":", "@", "}">>, "item">>,
      <<<<"enum", "E", "{", "A", "(", "@", ",", "T", ")", ",", "B", "{", "x", ":", "@", "}", "}">>, "item">>},
   pat |->
     {<<<<"(", "@", ",", "q", ")">>, "pat">>, <<<<"@", "|", "q">>, "pat">>,
      <<<<"let", "@", "=", "x", ";">>, "stmt">>, <<<<"for", "@", "in", "x", "{", "y", "}">>, "stmt">>,
      <<<<"match", "x", "{", "@", "=>", "{", "y", "}", ",", "@", "if", "y", ">", "1", "=>", "{", "1", "}", "}">>, "stmt">>},
   stmt |->
     {<<<<"{", "@", "}">>, "stmt">>, <<<<"{", "@", "y", "}">>, "stmt">>,
      <<<<"if", "x", "{", "@", "}", "else", "{", "y", "}">>, "stmt">>,
      <<<<"if", "x", "{", "y", "}", "else", "{", "@", "}">>, "stmt">>,
      <<<<"if", "x", "{", "y", "}", "else", "if", "z", "{", "@", "}">>, "stmt">>,
      <<<<"while", "x", "{", "@", "}">>, "stmt">>, <<<<"loop", "{", "@", "y", ";", "}">>, "stmt">>,
      <<<<"let", "v", "=", "if", "x", "{", "@", "}", "else", "if", "y", "{", "1", "}", "else", "{", "2", "}", ";">>, "stmt">>,
      <<<<"let", "v", "=", "loop", "{", "@", "}", ";">>, "stmt">>,
      <<<<"for", "(", "a", ",", "_", ")", "in", "x", "{", "@", "}">>, "stmt">>,
      <<<<"match", "x", "{", "1", "=>", "{", "@", "}", ",", "_", "=>", "{", "2", "}", "}">>, "stmt">>,
      <<<<"match", "x", "{", "a", "if", "a", "=>", "{", "1", "}", ",", "2", "=>", "{", "@", "}", "}">>, "stmt">>,
      <<<<"pub", "fn", "f", "(", "a", ":", "T", ")", "->", "U", "{", "@", "}">>, "item">>,
      <<<<"@", "y", ";">>, "stmt">>, <<<<"y", ";", "@">>, "stmt">>, <<<<"@", ";">>, "stmt">>},
   item |->
     {<<<<"@", "y", ";">>, "item">>, <<<<"y", ";", "@">>, "item">>,
      <<<<"fn", "g", "(", ")", "{", "y", ";", "}", "@">>, "item">>}]

(* Pieces of the texts both lexers split. *)
MCLexemes ==
  {<<"a">>, <<"r">>, <<"e">>, <<"E">>, <<"a", "m">>, <<"p", "m">>, <<"i", "n">>, <<"n", "o", "t">>,
   <<"u", "s", "e">>, <<"0">>, <<"1">>, <<"1", "3">>, <<":", "3", "0">>, <<"7", "_">>, <<"0", "x">>,
   <<"0", "b">>, <<"1", ".", "5">>, <<"f", "6", "4">>, <<"#">>, <<"#", "\"">>, <<"\"">>, <<"'">>, <<"\\", "n">>,
   <<"'", "\\", "t", "'">>, <<"\\", "x", "4", "1">>, <<"\\", "u", "{", "4", "1", "}">>, <<".">>, <<".", ".">>,
   <<"<">>, <<"=">>, <<"-">>, <<"&">>, <<"/">>, <<"*">>, <<"/", "/">>, <<"/", "*">>, <<"*", "/">>, <<" ">>,
   <<"\n">>, <<"~">>}

-----------------------------------------------------------------------------
(* Two owners of package a; another user, who has no project yet. *)
MCPackageOf == [u \in Owners \cup {Other} |-> IF u = Other THEN "app" ELSE "a"]
MCManifests ==
  [u \in Owners \cup {Other} |->
     IF u = Other THEN NoFile
     ELSE ManifestFile(<<0, 1, 0>>, <<>>, <<>>, "b" :> Requires(">=", <<1, 0, 0>>))]
MCRegistries ==
  {[a |-> {}, b |-> {IndexEntry(<<1, 0, 0>>, <<>>, "registry")}, app |-> {}],
   [a |-> {IndexEntry(<<0, 1, 1>>, <<>>, "registry"), IndexEntry(<<0, 2, 0>>, <<>>, "registry")},
    b |-> {IndexEntry(<<1, 0, 0>>, "a" :> Requires("^", <<0, 1, 0>>), "registry"),
           IndexEntry(<<1, 1, 0>>, "a" :> Requires("<", <<0, 1, 0>>), "registry")},
    app |-> {}]}
MCAdditions == {<<"a", Requires(">", <<0, 1, 1>>), FALSE>>, <<"b", AnyVersion, TRUE>>}

-----------------------------------------------------------------------------
Init ==
  /\ tool \in Tools
  /\ CacheInit /\ (tool # "cache" => index = Missing)
  /\ MirInit /\ (tool # "mir" => helper = CHOOSE h \in Helpers : TRUE)
  /\ AsyncInit /\ (tool # "desugar" => asyncTail = Place(Y) /\ delay = 0)
  /\ ElabInit /\ SerdeInit
  /\ IF tool = "format" THEN SourceInit ELSE source = NoText
  /\ IF tool = "selfhost" THEN ProgramInit ELSE program = NoProgram
  /\ LexInit
  /\ PackagesInit /\ (tool # "dagon" => registryKind = "file" /\ pkgIndex["a"] = NoFile)
Next ==
  /\ UNCHANGED tool
  /\ \/ tool = "cache" /\ CacheNext /\ UNCHANGED <<mirVars, asyncVars, elabBody, document, source, program, typed, pkgVars>>
     \/ tool = "mir" /\ WriteMain /\ UNCHANGED <<cVars, asyncVars, elabBody, document, source, program, typed, pkgVars>>
     \/ tool = "desugar" /\ WriteAsync /\ UNCHANGED <<cVars, mirVars, elabBody, document, source, program, typed, pkgVars>>
     \/ tool = "elaborate" /\ WriteElab /\ UNCHANGED <<cVars, mirVars, asyncVars, document, source, program, typed, pkgVars>>
     \/ tool = "serde" /\ WriteDocument /\ UNCHANGED <<cVars, mirVars, asyncVars, elabBody, source, program, typed, pkgVars>>
     \/ tool = "format" /\ WriteSource /\ UNCHANGED <<cVars, mirVars, asyncVars, elabBody, document, program, typed, pkgVars>>
     \/ tool = "selfhost" /\ WriteProgram /\ UNCHANGED <<cVars, mirVars, asyncVars, elabBody, document, source, typed, pkgVars>>
     \/ tool = "lexers" /\ Type /\ UNCHANGED <<cVars, mirVars, asyncVars, elabBody, document, source, program, pkgVars>>
     \/ tool = "dagon" /\ PackagesNext /\ UNCHANGED <<cVars, mirVars, asyncVars, elabBody, document, source, program, typed>>
Spec == Init /\ [][Next]_tVars
=============================================================================
