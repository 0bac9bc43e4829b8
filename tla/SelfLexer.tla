------------------------------ MODULE SelfLexer ------------------------------
(***************************************************************************)
(* The two lexers, on characters: the compiler's (rlyeh-lexer, lib.rs)     *)
(* with the line its tokens are printed as (driver, lib.rs:                *)
(* token_to_canonical), and the one written in Rlyeh (self-host/lexer.rl). *)
(*                                                                         *)
(* A text is a sequence of characters.  A token has a kind, the characters *)
(* and the numbers it carries; an error is the last token.  Characters are *)
(* ASCII: the Rlyeh lexer reads bytes.  Numbers stay below the widths of   *)
(* the two (i128 and i64).                                                 *)
(***************************************************************************)
EXTENDS Integers, Sequences, FiniteSetsExt, SequencesExt, TLC

Lexeme(kind, chars, numbers) == [k |-> kind, s |-> chars, n |-> numbers]
LexError(error) == [token |-> Lexeme(error, <<>>, <<>>), at |-> 0]
Lexed(kind, chars, numbers, at) == [token |-> Lexeme(kind, chars, numbers), at |-> at]

DecimalDigits == {"0", "1", "2", "3", "4", "5", "6", "7", "8", "9"}
Letters ==
  {"a", "b", "c", "d", "e", "f", "g", "h", "i", "j", "k", "l", "m", "n", "o", "p", "q", "r", "s", "t", "u", "v", "w",
   "x", "y", "z", "A", "B", "C", "D", "E", "F", "S", "Z"}
WordStart == Letters \cup {"_"}
WordPart == WordStart \cup DecimalDigits
White == {" ", "\t", "\r", "\n"}
DigitValue ==
  [d \in DecimalDigits \cup {"a", "b", "c", "d", "e", "f", "A", "B", "C", "D", "E", "F"} |->
     CASE d = "0" -> 0 [] d = "1" -> 1 [] d = "2" -> 2 [] d = "3" -> 3 [] d = "4" -> 4 [] d = "5" -> 5 [] d = "6" -> 6
       [] d = "7" -> 7 [] d = "8" -> 8 [] d = "9" -> 9 [] d \in {"a", "A"} -> 10 [] d \in {"b", "B"} -> 11
       [] d \in {"c", "C"} -> 12 [] d \in {"d", "D"} -> 13 [] d \in {"e", "E"} -> 14 [] d \in {"f", "F"} -> 15]
InRadix(radix) == {d \in DOMAIN DigitValue : DigitValue[d] < radix}

Chr(text, i) == IF i \in DOMAIN text THEN text[i] ELSE "eof"
EndOf(text, i, class) == Min({Len(text) + 1} \cup {j \in i..Len(text) : text[j] \notin class})
FirstOf(text, i, c) == Min({Len(text) + 1} \cup {j \in i..Len(text) : text[j] = c})
Slice(text, i, j) == SubSeq(text, i, j - 1)
Spelled(chars) == FoldLeft(LAMBDA word, c : word \o c, "", chars)
Unscored(chars) == SelectSeq(chars, LAMBDA c : c # "_")
NumberIn(chars, radix) == FoldLeft(LAMBDA v, c : v * radix + DigitValue[c], 0, Unscored(chars))
CodePoint(v) == "U+" \o ToString(v)

-----------------------------------------------------------------------------
(* Lexer: white space and comments. *)

RECURSIVE NestedEnd(_, _, _), SkipGaps(_, _)
NestedEnd(text, i, depth) ==
  LET two == Chr(text, i) \o Chr(text, i + 1) IN
  CASE depth = 0 -> i
    [] depth > 0 /\ i > Len(text) -> 0
    [] depth > 0 /\ i <= Len(text) ->
         NestedEnd(text, IF two \in {"/*", "*/"} THEN i + 2 ELSE i + 1,
                  IF two = "/*" THEN depth + 1 ELSE IF two = "*/" THEN depth - 1 ELSE depth)
SkipGapsOn(text, i, next) == IF next \in {0, i} THEN next ELSE SkipGaps(text, next)
SkipGaps(text, i) ==
  LET two == Chr(text, i) \o Chr(text, i + 1) IN
  SkipGapsOn(text, i, IF Chr(text, i) \in White THEN i + 1
                  ELSE IF two = "//" THEN FirstOf(text, i, "\n")
                  ELSE IF two = "/*" THEN NestedEnd(text, i + 2, 1) ELSE i)

-----------------------------------------------------------------------------
(* Words. *)

KeywordTable ==
  {"let", "mut", "const", "static", "fn", "return", "pub", "priv", "if", "else", "match", "for", "while", "loop",
   "break", "continue", "try", "true", "false", "and", "or", "not", "struct", "enum", "impl", "protocol", "type",
   "where", "Self", "region", "gc_region", "in", "transfer", "out", "of", "unsafe", "actor", "async", "await",
   "spawn", "send", "recv", "mod", "module", "import", "as", "extern", "dyn"}
WordToken(chars, at) == IF Spelled(chars) \in KeywordTable THEN Lexed(Spelled(chars), <<>>, <<>>, at) ELSE Lexed("ident", chars, <<>>, at)
AfterNot(text, at, i) ==
  IF Chr(text, i) = "i" /\ Chr(text, i + 1) = "n" /\ Chr(text, i + 2) \notin WordPart
  THEN Lexed("not in", <<>>, <<>>, i + 2) ELSE Lexed("not", <<>>, <<>>, at)
ReadIdentifier(text, i) ==
  LET at == EndOf(text, i, WordPart) IN
  IF Spelled(Slice(text, i, at)) = "not" THEN AfterNot(text, at, EndOf(text, at, White)) ELSE WordToken(Slice(text, i, at), at)
ReadRawIdent(text, i) ==
  LET at == EndOf(text, i + 2, WordPart) IN Lexed("ident", <<"r", "#">> \o Slice(text, i + 2, at), <<>>, at)

-----------------------------------------------------------------------------
(* Numbers and times. *)

NormalizeHour(hour, pm) == IF hour = 12 THEN IF pm THEN 12 ELSE 0 ELSE IF pm THEN hour + 12 ELSE hour
Meridiem(text, i) ==
  IF Chr(text, i) \in {"a", "p"} /\ Chr(text, i + 1) = "m" /\ Chr(text, i + 2) \notin WordPart THEN Chr(text, i) ELSE "none"
HourOnly(hour, at) == IF hour \in 0..23 THEN Lexed("time", <<>>, <<hour, 0>>, at) ELSE LexError("InvalidTime")
TimeOf(text, hour, minutes, at) ==
  LET half == Meridiem(text, at) IN
  IF minutes = <<>> \/ hour \notin 0..23 \/ NumberIn(minutes, 10) \notin 0..59 THEN LexError("InvalidTime")
  ELSE Lexed("time", <<>>, <<IF half = "none" THEN hour ELSE NormalizeHour(hour, half = "p"), NumberIn(minutes, 10)>>,
            IF half = "none" THEN at ELSE at + 2)
Fraction(text, i) ==
  IF Chr(text, i) = "." /\ Chr(text, i + 1) \in DecimalDigits THEN EndOf(text, i + 1, DecimalDigits \cup {"_"}) ELSE i
HasExponent(text, i) ==
  /\ Chr(text, i) \in {"e", "E"}
  /\ \/ Chr(text, i + 1) \in DecimalDigits
     \/ Chr(text, i + 1) \in {"+", "-"} /\ Chr(text, i + 2) \in DecimalDigits
Exponent(text, i) == IF HasExponent(text, i) THEN EndOf(text, i + 2, DecimalDigits \cup {"_"}) ELSE i
AfterSuffix(text, i) == IF Chr(text, i) \in WordStart THEN EndOf(text, i, WordPart) ELSE i
FloatOrInt(text, i, whole, fraction, exponent) ==
  IF exponent = whole THEN Lexed("int", <<>>, <<NumberIn(Slice(text, i, whole), 10)>>, AfterSuffix(text, whole))
  ELSE Lexed("float",
            Slice(text, i, fraction)
              \o (IF exponent = fraction THEN <<>> ELSE <<"e">> \o Slice(text, fraction + 1, exponent)),
            <<>>, AfterSuffix(text, exponent))
ReadDecimal(text, i, at) ==
  LET half == Meridiem(text, at)
      digits == Slice(text, i, at)
      minutes == EndOf(text, at + 1, DecimalDigits)
  IN CASE half # "none" -> HourOnly(NormalizeHour(NumberIn(digits, 10), half = "p"), at + 2)
       [] half = "none" /\ Chr(text, at) = ":" -> TimeOf(text, NumberIn(digits, 10), Slice(text, at + 1, minutes), minutes)
       [] half = "none" /\ Chr(text, at) # ":" ->
            FloatOrInt(text, i, at, Fraction(text, at), Exponent(text, Fraction(text, at)))
ReadRadix(text, i, radix) ==
  LET at == EndOf(text, i + 2, InRadix(radix) \cup {"_"}) IN
  IF Unscored(Slice(text, i + 2, at)) = <<>> THEN LexError("IntTooLarge")
  ELSE Lexed("int", <<>>, <<NumberIn(Slice(text, i + 2, at), radix)>>, at)
RadixOf == "x" :> 16 @@ "b" :> 2 @@ "o" :> 8
ReadNumberOrTime(text, i) ==
  IF Chr(text, i) = "0" /\ Chr(text, i + 1) \in DOMAIN RadixOf THEN ReadRadix(text, i, RadixOf[Chr(text, i + 1)])
  ELSE ReadDecimal(text, i, EndOf(text, i, DecimalDigits \cup {"_"}))

-----------------------------------------------------------------------------
(* Strings and characters. *)

EscapedChar == "n" :> "\n" @@ "t" :> "\t" @@ "r" :> "\r" @@ "\\" :> "\\" @@ "\"" :> "\"" @@ "'" :> "'"
Hex == DOMAIN DigitValue
Scalar(v) == CodePoint(IF v \in 55296..57343 \/ v > 1114111 THEN 65533 ELSE v)
Braced(text, i, close) ==
  IF Chr(text, i) # "{" \/ Chr(text, close) # "}" \/ close = i + 1 THEN [c |-> "InvalidEscape", at |-> 0]
  ELSE [c |-> Scalar(NumberIn(Slice(text, i + 1, close), 16)), at |-> close + 1]
(* The character an escape stands for; i is behind the backslash.          *)
ReadEscape(text, i) ==
  LET e == Chr(text, i) IN
  CASE e \in DOMAIN EscapedChar -> [c |-> EscapedChar[e], at |-> i + 1]
    [] e = "x" -> IF {Chr(text, i + 1), Chr(text, i + 2)} \subseteq Hex
                  THEN [c |-> CodePoint(NumberIn(Slice(text, i + 1, i + 3), 16)), at |-> i + 3]
                  ELSE [c |-> "InvalidEscape", at |-> 0]
    [] e = "u" -> Braced(text, i + 1, EndOf(text, i + 2, Hex))
    [] OTHER -> [c |-> IF e = "eof" THEN "UnterminatedString" ELSE "InvalidEscape", at |-> 0]

RECURSIVE ReadString(_, _, _)
StringOn(text, r, out) == IF r.at = 0 THEN LexError(r.c) ELSE ReadString(text, r.at, Append(out, r.c))
ReadString(text, i, out) ==
  IF Chr(text, i) = "\"" THEN Lexed("string", out, <<>>, i + 1)
  ELSE StringOn(text, CASE Chr(text, i) = "eof" -> [c |-> "UnterminatedString", at |-> 0]
                        [] Chr(text, i) = "\\" -> ReadEscape(text, i + 1)
                        [] OTHER -> [c |-> Chr(text, i), at |-> i + 1], out)
Hashes(text, i) == EndOf(text, i, {"#"}) - i
(* r"...", r#"..."#: up to the quote with as many # behind it.             *)
RawFrom(text, i, hashes) ==
  LET closes == {j \in i..Len(text) : text[j] = "\"" /\ Hashes(text, j + 1) >= hashes} IN
  IF closes = {} THEN LexError("UnterminatedString")
  ELSE Lexed("string", Slice(text, i, Min(closes)), <<>>, Min(closes) + 1 + hashes)
ReadLifetime(text, i) == LET at == EndOf(text, i + 1, WordPart) IN Lexed("lifetime", Slice(text, i + 1, at), <<>>, at)
CharClosed(text, r) ==
  IF r.at = 0 THEN LexError(r.c)
  ELSE IF Chr(text, r.at) = "'" THEN Lexed("char", <<r.c>>, <<>>, r.at + 1) ELSE LexError("UnterminatedChar")
ReadChar(text, i) ==
  CharClosed(text, CASE Chr(text, i + 1) = "eof" -> [c |-> "UnterminatedChar", at |-> 0]
                     [] Chr(text, i + 1) = "\\" -> ReadEscape(text, i + 2)
                     [] OTHER -> [c |-> Chr(text, i + 1), at |-> i + 2])
ReadCharOrLifetime(text, i) ==
  IF Chr(text, i + 1) \in WordStart /\ Chr(text, i + 2) # "'" THEN ReadLifetime(text, i) ELSE ReadChar(text, i)

-----------------------------------------------------------------------------
(* Operators, and the next token. *)

Operators3 == {"...", "..<", "<.."}
Operators2 ==
  {"..", "+=", "->", "-=", "*=", "/=", "%=", "==", "=>", "!=", "<=", "<<", ">=", ">>", "&&", "||"}
Operators1 ==
  {"+", "-", "*", "/", "%", "=", "<", ">", "!", "&", "|", "^", "(", ")", "{", "}", "[", "]", ",", ":", ";", ".", "$",
   "?", "@", "#"}
ReadOperator(text, i) ==
  LET two == Chr(text, i) \o Chr(text, i + 1)
      three == two \o Chr(text, i + 2)
  IN CASE three \in Operators3 -> Lexed(three, <<>>, <<>>, i + 3)
       [] three \notin Operators3 /\ two \in Operators2 -> Lexed(two, <<>>, <<>>, i + 2)
       [] three \notin Operators3 /\ two \notin Operators2 ->
            IF Chr(text, i) \in Operators1 THEN Lexed(Chr(text, i), <<>>, <<>>, i + 1) ELSE LexError("InvalidChar")
ReadWord(text, i) ==
  LET hashes == Hashes(text, i + 1)
      raw == Chr(text, i) = "r" /\ Chr(text, i + 1 + hashes) = "\""
  IN CASE raw -> RawFrom(text, i + 2 + hashes, hashes)
       [] ~raw /\ Chr(text, i) = "r" /\ hashes > 0 -> ReadRawIdent(text, i)
       [] ~raw /\ (Chr(text, i) # "r" \/ hashes = 0) -> ReadIdentifier(text, i)
NextToken(text, i) ==
  CASE Chr(text, i) \in DecimalDigits -> ReadNumberOrTime(text, i)
    [] Chr(text, i) = "\"" -> ReadString(text, i + 1, <<>>)
    [] Chr(text, i) = "'" -> ReadCharOrLifetime(text, i)
    [] Chr(text, i) \in WordStart -> ReadWord(text, i)
    [] OTHER -> ReadOperator(text, i)
RECURSIVE TokenizeAt(_, _, _)
TokenizeOn(text, r, out) ==
  IF r.at = 0 THEN Append(out, r.token) ELSE TokenizeAt(text, SkipGaps(text, r.at), Append(out, r.token))
TokenizeAt(text, i, out) ==
  CASE i = 0 -> Append(out, Lexeme("UnterminatedBlockComment", <<>>, <<>>))
    [] i > Len(text) -> out
    [] i \in DOMAIN text -> TokenizeOn(text, NextToken(text, i), out)
Tokenize(text) == TokenizeAt(text, SkipGaps(text, 1), <<>>)

-----------------------------------------------------------------------------
(* token_to_canonical: the line a token is printed as. *)

LineName ==
  "not in" :> "NOTIN" @@ ".." :> "RANGE" @@ "..<" :> "DOTDOTLT" @@ "..." :> "DOTDOTDOT" @@ "<.." :> "LTDOTDOT"
  @@ "module" :> "mod" @@ "import" :> "use" @@ "ident" :> "IDENT" @@ "int" :> "INT" @@ "float" :> "FLOAT"
  @@ "string" :> "STR" @@ "char" :> "CHAR" @@ "lifetime" :> "LIFETIME" @@ "time" :> "TIME"
TokenLine(token) == IF token.k \in DOMAIN LineName THEN [token EXCEPT !.k = LineName[@]] ELSE token

-----------------------------------------------------------------------------
(* lexer.rl.  A position behind the text is read as no character: no       *)
(* decision hangs on what lies there.                                      *)

SelfWords == (KeywordTable \ {"try", "module", "import"}) \cup {"use"}
KeywordOrIdent(chars) == IF Spelled(chars) \in SelfWords THEN Lexeme(Spelled(chars), <<>>, <<>>) ELSE Lexeme("IDENT", chars, <<>>)
Made(token, at) == [token |-> token, at |-> at]

RECURSIVE CommentEnd(_, _, _), Gap(_, _)
CommentEnd(text, i, depth) ==
  LET two == Chr(text, i) \o Chr(text, i + 1) IN
  IF depth = 0 \/ i > Len(text) THEN i
  ELSE CommentEnd(text, IF two \in {"/*", "*/"} THEN i + 2 ELSE i + 1,
                  IF two = "/*" THEN depth + 1 ELSE IF two = "*/" THEN depth - 1 ELSE depth)
GapOn(text, i, next) == IF next = i THEN i ELSE Gap(text, next)
Gap(text, i) ==
  LET two == Chr(text, i) \o Chr(text, i + 1) IN
  GapOn(text, i, IF Chr(text, i) \in White THEN i + 1
                 ELSE IF two = "//" THEN FirstOf(text, i + 2, "\n")
                 ELSE IF two = "/*" THEN CommentEnd(text, i + 2, 1) ELSE i)

(* r"...", and r with k hashes: a string up to a quote with k, or a name.  *)
RawString(text, i) ==
  LET at == FirstOf(text, i, "\"") IN Made(Lexeme("STR", Slice(text, i, at), <<>>), at + 1)
HashString(text, i, k) ==
  LET close == Min({Len(text) + 1} \cup
                   {j \in i..Len(text) : text[j] = "\"" /\ \A h \in 1..k : Chr(text, j + h) = "#"})
  IN Made(Lexeme("STR", Slice(text, i, close), <<>>), IF close > Len(text) THEN close ELSE close + 1 + k)
RawName(text, i) ==
  LET at == EndOf(text, i, WordPart) IN Made(Lexeme("IDENT", <<"r", "#">> \o Slice(text, i, at), <<>>), at)
SelfRaw(text, i) ==
  LET k == EndOf(text, i + 1, {"#"}) - (i + 1) IN
  IF k = 0 THEN RawString(text, i + 2)
  ELSE IF Chr(text, i + 1 + k) = "\"" THEN HashString(text, i + 2 + k, k) ELSE RawName(text, i + 2)
SelfName(text, i) ==
  LET at == EndOf(text, i, WordPart)
      j == EndOf(text, at, White)
      in == Chr(text, j) = "i" /\ Chr(text, j + 1) = "n" /\ Chr(text, j + 2) \notin WordPart
  IN IF Spelled(Slice(text, i, at)) = "not" /\ in THEN Made(Lexeme("NOTIN", <<>>, <<>>), j + 2)
     ELSE Made(KeywordOrIdent(Slice(text, i, at)), at)

(* A digit is taken in any base, whatever its value.                       *)
SelfDigits(base) == DecimalDigits \cup {"_"} \cup IF base = 16 THEN Hex ELSE {}
SelfBase(text, i) == IF Chr(text, i) = "0" /\ Chr(text, i + 1) \in DOMAIN RadixOf THEN RadixOf[Chr(text, i + 1)] ELSE 10
SelfHour(hour, half) == IF half = "p" THEN IF hour = 12 THEN 12 ELSE hour + 12 ELSE IF hour = 12 THEN 0 ELSE hour
SelfTime(text, hour, from, at) ==
  LET half == Meridiem(text, at) IN
  Made(Lexeme("TIME", <<>>, <<IF half = "none" THEN hour ELSE SelfHour(hour, half), NumberIn(Slice(text, from, at), 10)>>),
       IF half = "none" THEN at ELSE at + 2)
SelfFraction(text, i) ==
  IF Chr(text, i) = "." /\ Chr(text, i + 1) \in DecimalDigits THEN EndOf(text, i + 1, DecimalDigits \cup {"_"}) ELSE i
SelfExponent(text, i) ==
  IF Chr(text, i) \in {"e", "E"} /\ (Chr(text, i + 1) \in DecimalDigits \/ (Chr(text, i + 1) \in {"+", "-"} /\ Chr(text, i + 2) \in DecimalDigits))
  THEN EndOf(text, i + 2, DecimalDigits \cup {"_"}) ELSE i
DecimalAt(text, i, at, value, half, exponent) ==
  CASE half # "none" -> Made(Lexeme("TIME", <<>>, <<SelfHour(value, half), 0>>), at + 2)
    [] half = "none" /\ Chr(text, at) = ":" -> SelfTime(text, value, at + 1, EndOf(text, at + 1, DecimalDigits \cup {"_"}))
    [] half = "none" /\ Chr(text, at) # ":" ->
         IF exponent = at THEN Made(Lexeme("INT", <<>>, <<value>>), EndOf(text, at, WordPart))
         ELSE Made(Lexeme("FLOAT", Slice(text, i, exponent), <<>>), EndOf(text, exponent, WordPart))
NumberAt(text, i, at, base) ==
  IF base # 10 THEN Made(Lexeme("INT", <<>>, <<NumberIn(Slice(text, i + 2, at), base)>>), at)
  ELSE DecimalAt(text, i, at, NumberIn(Slice(text, i, at), 10), Meridiem(text, at), SelfExponent(text, SelfFraction(text, at)))
NumberFrom(text, i, base) == NumberAt(text, i, EndOf(text, IF base = 10 THEN i ELSE i + 2, SelfDigits(base)), base)

(* An escape never fails: an unknown one is the character itself, a digit  *)
(* that is none counts 0, a code point above 127 is three bytes.           *)
HexVal(c) == IF c \in Hex THEN DigitValue[c] ELSE 0
SelfEscape(text, i) ==
  LET e == Chr(text, i)
      close == FirstOf(text, i + 2, "}")
      code == FoldLeft(LAMBDA v, c : v * 16 + HexVal(c), 0, Slice(text, i + 2, close))
  IN CASE e \in DOMAIN EscapedChar -> [c |-> EscapedChar[e], at |-> i + 1]
       [] e = "x" -> [c |-> CodePoint(HexVal(Chr(text, i + 1)) * 16 + HexVal(Chr(text, i + 2))), at |-> i + 3]
       [] e = "u" -> [c |-> CodePoint(IF code <= 127 THEN code ELSE 65533), at |-> close + 1]
       [] OTHER -> [c |-> e, at |-> i + 1]
RECURSIVE SelfString(_, _, _)
SelfStringOn(text, r, out) == SelfString(text, r.at, Append(out, r.c))
SelfString(text, i, out) ==
  IF i > Len(text) \/ Chr(text, i) = "\"" THEN Made(Lexeme("STR", out, <<>>), i + 1)
  ELSE SelfStringOn(text, IF Chr(text, i) = "\\" THEN SelfEscape(text, i + 1) ELSE [c |-> Chr(text, i), at |-> i + 1], out)
(* Behind an escape one character more is passed over, then a quote.       *)
CharEscape(text, i) ==
  LET e == Chr(text, i) IN
  CASE e \in DOMAIN EscapedChar \cup {"x"} -> SelfEscape(text, i)
    [] e = "u" -> [SelfEscape(text, i) EXCEPT !.c = IF @ = CodePoint(65533) THEN CodePoint(239) ELSE @]
    [] OTHER -> [c |-> "\\", at |-> i + 1]
CharMade(text, c, at) == Made(Lexeme("CHAR", <<c>>, <<>>), IF Chr(text, at) = "'" THEN at + 1 ELSE at)
EscapeMade(text, r) == CharMade(text, r.c, r.at + 1)
SelfQuoted(text, i) ==
  LET at == EndOf(text, i + 1, WordPart) IN
  CASE Chr(text, i + 1) \in WordStart /\ Chr(text, i + 2) # "'" ->
         Made(Lexeme("LIFETIME", Slice(text, i + 1, at), <<>>), at)
    [] Chr(text, i + 1) = "\\" -> EscapeMade(text, CharEscape(text, i + 2))
    [] OTHER -> CharMade(text, Chr(text, i + 1), i + 2)

DotName == ".." :> "RANGE" @@ "..." :> "DOTDOTDOT" @@ "..<" :> "DOTDOTLT" @@ "<.." :> "LTDOTDOT"
Signs(text, i, n) == Spelled(Slice(text, i, Min({i + n, Len(text) + 1})))
Sized(text, i, n) == LET sign == Signs(text, i, n) IN
  Made(Lexeme(IF sign \in DOMAIN DotName THEN DotName[sign] ELSE sign, <<>>, <<>>), i + n)
SelfOperator(text, i) ==
  CASE Signs(text, i, 3) \in DOMAIN DotName -> Sized(text, i, 3)
    [] Signs(text, i, 3) \notin DOMAIN DotName /\ Signs(text, i, 2) \in Operators2 -> Sized(text, i, 2)
    [] Signs(text, i, 3) \notin DOMAIN DotName /\ Signs(text, i, 2) \notin Operators2 ->
         IF Chr(text, i) \in Operators1 THEN Sized(text, i, 1) ELSE Made(Lexeme("panic", <<>>, <<>>), 0)
SelfNext(text, i) ==
  CASE Chr(text, i) = "r" /\ Chr(text, i + 1) \in {"\"", "#"} -> SelfRaw(text, i)
    [] Chr(text, i) \in WordStart /\ ~(Chr(text, i) = "r" /\ Chr(text, i + 1) \in {"\"", "#"}) -> SelfName(text, i)
    [] Chr(text, i) \in DecimalDigits -> NumberFrom(text, i, SelfBase(text, i))
    [] Chr(text, i) = "\"" -> SelfString(text, i + 1, <<>>)
    [] Chr(text, i) = "'" -> SelfQuoted(text, i)
    [] OTHER -> SelfOperator(text, i)
RECURSIVE LexFrom(_, _, _)
LexOn(text, r, out) == IF r.at = 0 THEN Append(out, r.token) ELSE LexFrom(text, Gap(text, r.at), Append(out, r.token))
LexFrom(text, i, out) == IF i > Len(text) THEN out ELSE LexOn(text, SelfNext(text, i), out)
Lex(text) == LexFrom(text, Gap(text, 1), <<>>)

-----------------------------------------------------------------------------
(* Texts to split: lexemes put one behind the other. *)

CONSTANTS Lexemes,     \* the pieces, sequences of characters
          MaxLexemes   \* how many

VARIABLE typed

LexInit == typed = <<>>
Type == Len(typed) < MaxLexemes /\ \E lexeme \in Lexemes : typed' = Append(typed, lexeme)

(* What the header of lexer.rl does not say.  Its table of keywords is not *)
(* the compiler's, E stays E, a digit may exceed its base, minutes may     *)
(* have a _, a code point above 127 is lost, and a quote right behind a    *)
(* character written with an escape is passed over.                        *)
Unlike(tokens) == \E i \in DOMAIN tokens :
  \/ tokens[i].k \in {"try", "module", "import"}
  \/ tokens[i].k = "ident" /\ tokens[i].s = <<"u", "s", "e">>
  \/ tokens[i].k \in {"string", "char"} /\ \E v \in 128..255 : CodePoint(v) \in Range(tokens[i].s)
Unusual(text) == \E i \in DOMAIN text :
  \/ text[i] = "E" /\ Chr(text, i - 1) \in DecimalDigits \cup {"_"}
  \/ text[i] = "0" /\ Chr(text, i + 1) \in {"b", "o"} /\ Chr(text, EndOf(text, i + 2, InRadix(RadixOf[text[i + 1]]) \cup {"_"})) \in DecimalDigits
  \/ text[i] = "'" /\ Chr(text, i + 1) = "'" /\ "\\" \in Range(Slice(text, 1, i))
  \/ text[i] = ":" /\ Chr(text, EndOf(text, i + 1, DecimalDigits)) = "_"

(* A text the compiler's lexer takes, and one it refuses for a character   *)
(* no token begins with, is split by the Rlyeh lexer into the same lines   *)
(* (self-host/lexer.rl; tests/self_host_lexer.rs compares single texts).   *)
LinesOf(tokens) ==
  [i \in DOMAIN tokens |-> IF tokens[i].k = "InvalidChar" THEN Lexeme("panic", <<>>, <<>>) ELSE TokenLine(tokens[i])]
Refused(tokens) ==
  tokens # <<>> /\ Last(tokens).k \in {"InvalidTime", "IntTooLarge", "InvalidEscape", "UnterminatedString",
                                        "UnterminatedChar", "UnterminatedBlockComment"}
SplitAlike(text, tokens) ==
  Refused(tokens) \/ Unlike(tokens) \/ Unusual(text) \/ Lex(text) = LinesOf(tokens)
LexersAgree == \A text \in {FlattenSeq(typed)} : \A tokens \in {Tokenize(text)} : SplitAlike(text, tokens)
=============================================================================
