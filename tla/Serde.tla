--------------------------------- MODULE Serde ---------------------------------
(***************************************************************************)
(* json::stringify, json::parse, toml::stringify, toml::parse and the      *)
(* try_parse of both: the code the type checker generates for a type, and  *)
(* the library functions it calls.                                         *)
(*                                                                         *)
(* Types are scalars, vectors, arrays, maps with scalar keys and structs;  *)
(* a struct value is the sequence of its fields, a map a set of pairs (the *)
(* order of the slots is any).  Floats are left out.                       *)
(***************************************************************************)
EXTENDS SerdeText

CONSTANT Documents      \* pairs of a type and a value of it

VARIABLE document

I64 == [k |-> "i64"]
Bool == [k |-> "bool"]
Str == [k |-> "string"]
VecOf(t) == [k |-> "vec", of |-> t]
ArrayOf(t, n) == [k |-> "array", of |-> t, n |-> n]
MapOf(key, val) == [k |-> "map", key |-> key, val |-> val]
StructOf(fields) == [k |-> "struct", fields |-> fields]   \* pairs of name and type

Find(s, c) == IF \E i \in DOMAIN s : s[i] = c THEN SelectInSeq(s, LAMBDA x : x = c) ELSE 0
Before(s, i) == SubSeq(s, 1, i - 1)
After(s, i) == SubSeq(s, i + 1, Len(s))

-----------------------------------------------------------------------------
(* Writing. *)

BoolText(b) == IF b THEN <<"true">> ELSE <<"false">>
KeyText(t, key) == Quoted(IF t = I64 THEN IntText(key) ELSE Escape(key))

RECURSIVE JsonText(_, _)
JsonListText(t, v) == Listed(<<"[">>, [i \in DOMAIN v |-> JsonText(t.of, v[i])], <<"]">>)
JsonMapText(t, v) ==
  LET pairs == SetToSeq(v)
      Pair(i) == KeyText(t.key, pairs[i][1]) \o <<":">> \o JsonText(t.val, pairs[i][2])
  IN Listed(<<"{">>, [i \in DOMAIN pairs |-> Pair(i)], <<"}">>)
JsonStructText(t, v) ==
  LET Field(i) == Quoted(t.fields[i][1]) \o <<":">> \o JsonText(t.fields[i][2], v[i])
  IN Listed(<<"{">>, [i \in DOMAIN v |-> Field(i)], <<"}">>)
JsonText(t, v) ==
  CASE t.k = "i64" -> IntText(v)
    [] t.k = "bool" -> BoolText(v)
    [] t.k = "string" -> Quoted(Escape(v))
    [] t.k \in {"vec", "array"} -> JsonListText(t, v)
    [] t.k = "map" -> JsonMapText(t, v)
    [] t.k = "struct" -> JsonStructText(t, v)

Equals == <<" ", "=", " ">>
Under(path, name) == path \o (IF path = <<>> THEN <<>> ELSE <<".">>) \o name

(* A struct at the top is written as lines, and a struct in it as a        *)
(* [section]; anywhere else it is an inline table.  `path` is the section. *)
RECURSIVE TomlText(_, _, _, _)
TomlListText(t, v, path) ==
  Listed(<<"[">>, [i \in DOMAIN v |-> TomlText(t.of, v[i], FALSE, path)], <<"]">>)
TomlMapText(t, v, path) ==
  LET pairs == SetToSeq(v)
      Pair(i) == KeyText(t.key, pairs[i][1]) \o Equals \o TomlText(t.val, pairs[i][2], FALSE, path)
  IN Listed(<<"{">>, [i \in DOMAIN pairs |-> Pair(i)], <<"}">>)
TomlStructText(t, v, top, path) ==
  LET Entry(i) == t.fields[i][1] \o Equals \o TomlText(t.fields[i][2], v[i], FALSE, path)
      here(i) == Under(path, t.fields[i][1])
      Part(i) ==
        IF t.fields[i][2].k = "struct"
        THEN <<"nl", "[">> \o here(i) \o <<"]", "nl">> \o TomlText(t.fields[i][2], v[i], TRUE, here(i))
        ELSE (IF i > 1 THEN <<"nl">> ELSE <<>>) \o Entry(i)
  IN IF top THEN FlattenSeq([i \in DOMAIN v |-> Part(i)])
     ELSE Listed(<<"{">>, [i \in DOMAIN v |-> Entry(i)], <<"}">>)
TomlText(t, v, top, path) ==
  CASE t.k = "i64" -> IntText(v)
    [] t.k = "bool" -> BoolText(v)
    [] t.k = "string" -> TomlString(v)
    [] t.k \in {"vec", "array"} -> TomlListText(t, v, path)
    [] t.k = "map" -> TomlMapText(t, v, path)
    [] t.k = "struct" -> TomlStructText(t, v, top, path)

-----------------------------------------------------------------------------
(* Reading. *)

RECURSIVE Zero(_)
Zero(t) ==
  CASE t.k = "i64" -> 0
    [] t.k = "bool" -> FALSE
    [] t.k \in {"string", "vec"} -> <<>>
    [] t.k = "map" -> {}
    [] t.k = "struct" -> [i \in DOMAIN t.fields |-> Zero(t.fields[i][2])]

Insert(m, key, val) == {p \in m : p[1] # key} \cup {<<key, val>>}
KeyOf(t, s) == IF t = I64 THEN IntOf(Unescape(s)) ELSE Unescape(s)

(* The parts of an object that have a separator `c`, as name and value. *)
Entries(parts, c) ==
  LET split == [i \in DOMAIN parts |-> <<Before(parts[i], Find(parts[i], c)), After(parts[i], Find(parts[i], c))>>]
      Found(i) == Find(parts[i], c) > 0
  IN [j \in 1..Cardinality({i \in DOMAIN parts : Found(i)}) |->
        split[CHOOSE i \in DOMAIN parts : Found(i) /\ Cardinality({k \in 1..i : Found(k)}) = j]]

(* json::parse splits an object at every comma. *)
JsonEntries(s) == Entries(Split(Inner(s), ","), ":")
RECURSIVE JsonParse(_, _)
JsonParseMap(t, s) ==
  LET Enter(m, e) == Insert(m, KeyOf(t.key, e[1]), JsonParse(t.val, e[2]))
  IN FoldLeft(Enter, {}, JsonEntries(s))
JsonParseStruct(t, s) ==
  LET Assign(v, e) ==
        [i \in DOMAIN v |-> IF Unescape(e[1]) = t.fields[i][1] THEN JsonParse(t.fields[i][2], e[2]) ELSE v[i]]
  IN FoldLeft(Assign, Zero(t), JsonEntries(s))
JsonParse(t, s) ==
  CASE t.k = "i64" -> IntOf(s)
    [] t.k = "bool" -> s = <<"true">>
    [] t.k = "string" -> Unescape(s)
    [] t.k = "map" -> JsonParseMap(t, s)
    [] t.k = "struct" -> JsonParseStruct(t, s)

(* mutant: the blank after `=` stays with the value *)
TrimEntryKeyOnly(e) == <<Trim(e[1]), e[2]>>
TrimEntry(e) == <<Trim(e[1]), Trim(e[2])>>

(* The field that the name `name` in section `section` denotes: the        *)
(* sections of the nested structs, `path` their prefix, are tried in turn. *)
RECURSIVE Sections(_, _)
Sections(t, path) ==
  UNION {LET p == Under(path, t.fields[i][1])
         IN {<<p, <<i>> >>} \cup {<<q[1], <<i>> \o q[2]>> : q \in Sections(t.fields[i][2], p)}
         : i \in {j \in DOMAIN t.fields : t.fields[j][2].k = "struct"}}

RECURSIVE TypeAt(_, _), Update(_, _, _)
TypeAt(t, where) == IF where = <<>> THEN t ELSE TypeAt(t.fields[Head(where)][2], Tail(where))
Update(v, where, new) == IF where = <<>> THEN new ELSE [v EXCEPT ![Head(where)] = Update(@, Tail(where), new)]

RECURSIVE TomlParse(_, _, _)
TomlParseArray(t, s) == LET parts == SplitQuoted(Inner(s)) IN [i \in 1..t.n |-> TomlParse(t.of, parts[i], FALSE)]
TomlParseVec(t, s) == LET parts == SplitQuoted(Inner(s)) IN [i \in DOMAIN parts |-> TomlParse(t.of, parts[i], FALSE)]
TomlParseMap(t, s) ==
  LET Enter(m, raw) ==
        LET e == TrimEntry(raw) IN Insert(m, KeyOf(t.key, e[1]), TomlParse(t.val, e[2], FALSE))
  IN FoldLeft(Enter, {}, Entries(SplitQuoted(Inner(s)), "="))

(* The entry `raw` for the struct at `where` inside v. *)
AssignField(t, v, where, raw, inline) ==
  LET e == TrimEntry(raw)
      fields == TypeAt(t, where).fields
      hit == {i \in DOMAIN fields : fields[i][1] = e[1]}
  IN IF hit = {} THEN v
     ELSE LET i == CHOOSE i \in hit : TRUE
          IN Update(v, Append(where, i), TomlParse(fields[i][2], e[2], inline))

(* One line: a [section] header, a `name = value`, or nothing. *)
TomlLine(t, st, line) ==
  LET section == IF Find(line, "[") = 1 THEN Trim(SubSeq(line, 2, Find(line, "]") - 1)) ELSE st.section
      c == Find(line, "=")
      raw == <<Before(line, c), After(line, c)>>
      hit == {p \in Sections(t, <<>>) : p[1] = section}
  IN [section |-> section,
      v |-> IF c = 0 THEN st.v
            ELSE IF section = <<>> THEN AssignField(t, st.v, <<>>, raw, TRUE)
            ELSE IF hit = {} THEN st.v ELSE AssignField(t, st.v, (CHOOSE p \in hit : TRUE)[2], raw, FALSE)]

TomlParseStruct(t, s, inline) ==
  IF inline
  THEN FoldLeft(LAMBDA v, e : AssignField(t, v, <<>>, e, TRUE), Zero(t), Entries(SplitQuoted(Inner(s)), "="))
  ELSE FoldLeft(LAMBDA st, line : TomlLine(t, st, line), [v |-> Zero(t), section |-> <<>>], Split(s, "nl")).v
TomlParse(t, s, inline) ==
  CASE t.k = "i64" -> IntOf(s)
    [] t.k = "bool" -> s = <<"true">>
    [] t.k = "string" -> StringOf(s)
    [] t.k = "array" -> TomlParseArray(t, s)
    [] t.k = "vec" -> TomlParseVec(t, s)
    [] t.k = "map" -> TomlParseMap(t, s)
    [] t.k = "struct" -> TomlParseStruct(t, s, inline)

(* try_parse checks a text before it parses it.  The object check of JSON  *)
(* compares the last character with the opening brace.                     *)
Accepts(t, s, braces, brackets) ==
  CASE t.k = "i64" -> IsInt(s)
    [] t.k = "bool" -> s \in {<<"true">>, <<"false">>}
    [] t.k = "string" -> Enclosed(s, Quote, Quote) /\ EscapesValid(Inner(s))
    [] t.k \in {"map", "struct"} -> Enclosed(s, braces[1], braces[2])
    [] t.k \in {"vec", "array"} -> Enclosed(s, brackets[1], brackets[2])
JsonAccepts(t, s) == Accepts(t, s, <<"{", "{">>, <<"{", "{">>)
TomlAccepts(t, s) == Accepts(t, s, <<"{", "}">>, <<"[", "]">>)

-----------------------------------------------------------------------------
Nothing == <<I64, 0>>
SerdeInit == document = Nothing
WriteDocument == document = Nothing /\ document' \in Documents

(* What the readers are known to lose.  json::parse splits an object at    *)
(* every comma and an entry at its first colon; toml::parse splits a text  *)
(* at every line break, a list at commas outside quotes, where an escaped  *)
(* quote counts as one, an entry at its first `=`; it reads an empty list  *)
(* as one empty element, and no struct that is an element.                 *)
RECURSIVE StringsOf(_, _)
StringsOf(t, v) ==
  CASE t.k = "string" -> {v}
    [] t.k \in {"vec", "array"} -> UNION {StringsOf(t.of, x) : x \in Range(v)}
    [] t.k = "map" -> UNION {StringsOf(t.key, p[1]) \cup StringsOf(t.val, p[2]) : p \in v}
    [] t.k = "struct" -> UNION {StringsOf(t.fields[i][2], v[i]) : i \in DOMAIN v}
    [] OTHER -> {}

RECURSIVE JsonReadable(_)
JsonReadable(t) ==
  CASE t.k = "map" -> t.val.k # "map" /\ JsonReadable(t.val)
    [] t.k = "struct" -> \A i \in DOMAIN t.fields : JsonReadable(t.fields[i][2])
    [] OTHER -> t.k \in {"i64", "bool", "string"}

RECURSIVE JsonSeparable(_, _)
JsonSeparable(t, v) ==
  CASE t.k = "map" ->
         \A p \in v : /\ "," \notin Range(JsonText(t.val, p[2])) /\ JsonSeparable(t.val, p[2])
                      /\ t.key = Str => Range(p[1]) \cap {",", ":"} = {}
    [] t.k = "struct" ->
         \A i \in DOMAIN v : "," \notin Range(JsonText(t.fields[i][2], v[i])) /\ JsonSeparable(t.fields[i][2], v[i])
    [] OTHER -> TRUE

RECURSIVE TomlSeparable(_, _)
TomlSeparable(t, v) ==
  CASE t.k \in {"vec", "array"} ->
         /\ v # <<>> /\ t.of.k # "struct" /\ \A s \in StringsOf(t, v) : Quote \notin Range(s)
         /\ \A x \in Range(v) : TomlSeparable(t.of, x)
    [] t.k = "map" ->
         /\ t.val.k # "struct" /\ \A s \in StringsOf(t, v) : Quote \notin Range(s)
         /\ \A p \in v : (t.key = Str => "=" \notin Range(p[1])) /\ TomlSeparable(t.val, p[2])
    [] t.k = "struct" ->
         /\ \A s \in StringsOf(t, v) : "nl" \notin Range(s)
         /\ \A i, j \in DOMAIN v : i < j /\ t.fields[i][2].k = "struct" => t.fields[j][2].k = "struct"
         /\ \A i \in DOMAIN v : TomlSeparable(t.fields[i][2], v[i])
    [] OTHER -> TRUE

(* A value written as JSON or as TOML and read back as its type is the     *)
(* value, whatever quotes, backslashes, separators, line breaks and blanks *)
(* its strings hold, unless it runs into one of the limits above; and      *)
(* try_parse does not reject a written text that is no object.             *)
SerdeRoundTrip ==
  LET t == document[1]
      v == document[2]
      toml == TomlText(t, v, TRUE, <<>>)
      multiline == t = Str /\ {"nl", Escaping} \subseteq Range(v)
  IN document # Nothing =>
     /\ JsonReadable(t) /\ JsonSeparable(t, v) =>
          /\ JsonParse(t, JsonText(t, v)) = v
          /\ t.k \in {"map", "struct"} \/ JsonAccepts(t, JsonText(t, v))
     /\ TomlSeparable(t, v) =>
          /\ TomlParse(t, toml, FALSE) = v
          /\ t.k = "struct" \/ multiline \/ TomlAccepts(t, toml)
=============================================================================
