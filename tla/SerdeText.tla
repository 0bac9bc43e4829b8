------------------------------- MODULE SerdeText -------------------------------
(***************************************************************************)
(* The texts of JSON and TOML: the library functions that write and read   *)
(* integers and strings and cut a text into parts (convert/module.rl,      *)
(* str_ext/module.rl), and what is generated for a string in TOML.         *)
(*                                                                         *)
(* A text is a sequence of characters, "nl" and "tab" two of them.         *)
(* Widths are left out.                                                    *)
(***************************************************************************)
EXTENDS Integers, FiniteSets, SequencesExt

Quote == "\""
Escaping == "\\"
Digits == <<"0", "1", "2", "3", "4", "5", "6", "7", "8", "9">>
Blanks == {" ", "nl", "tab"}
DigitOf(c) == CHOOSE d \in 0..9 : Digits[d + 1] = c

-----------------------------------------------------------------------------
(* Integers. *)

Decimal(n) ==
  LET text[m \in 0..n] ==
        IF m < 10 THEN <<Digits[m + 1]>> ELSE Append(text[m \div 10], Digits[(m % 10) + 1])
  IN text[n]
IntText(n) == IF n < 0 THEN <<"-">> \o Decimal(-n) ELSE Decimal(n)

(* string_to_int stops at the first character that is no digit *)
Leading(s) ==
  LET value[i \in 0..Len(s)] ==
        IF i = 0 THEN 0
        ELSE IF \A j \in 1..i : s[j] \in Range(Digits) THEN 10 * value[i - 1] + DigitOf(s[i])
        ELSE value[i - 1]
  IN value[Len(s)]
IntOf(s) == IF s # <<>> /\ Head(s) = "-" THEN -Leading(Tail(s)) ELSE Leading(s)
IsInt(s) ==
  LET d == IF s # <<>> /\ Head(s) = "-" THEN Tail(s) ELSE s
  IN d # <<>> /\ Range(d) \subseteq Range(Digits)

-----------------------------------------------------------------------------
(* Strings. *)

EscapeOf == [c \in {Quote, Escaping, "nl", "tab"} |->
               CASE c = "nl" -> "n" [] c = "tab" -> "t" [] OTHER -> c]
MeaningOf(c) == CHOOSE m \in DOMAIN EscapeOf : EscapeOf[m] = c
EscapeChar(c) == IF c \in DOMAIN EscapeOf THEN <<Escaping, EscapeOf[c]>> ELSE <<c>>
Escape(s) ==
  LET text[i \in 0..Len(s)] == IF i = 0 THEN <<>> ELSE text[i - 1] \o EscapeChar(s[i])
  IN text[Len(s)]

(* Reading goes on after a backslash with `pending` set; json_unescape     *)
(* keeps what is no escape as it is, json_unescape_checked refuses it.     *)
NothingRead == [text |-> <<>>, pending |-> FALSE, valid |-> TRUE]
TakeChar(r, c) ==
  CASE r.pending ->
         [text |-> r.text \o (IF c \in Range(EscapeOf) THEN <<MeaningOf(c)>> ELSE <<Escaping, c>>),
          pending |-> FALSE,
          valid |-> r.valid /\ c \in Range(EscapeOf)]
    [] ~r.pending /\ c = Escaping -> [r EXCEPT !.pending = TRUE]
    [] OTHER -> [r EXCEPT !.text = Append(@, c)]
Reading(s) ==
  LET read[i \in 0..Len(s)] == IF i = 0 THEN NothingRead ELSE TakeChar(read[i - 1], s[i])
  IN read[Len(s)]
Restore(s) == LET r == Reading(s) IN r.text \o (IF r.pending THEN <<Escaping>> ELSE <<>>)
EscapesValid(s) == Reading(s).valid /\ ~Reading(s).pending

Opens(s) == s # <<>> /\ Head(s) = Quote
Closes(s) == s # <<>> /\ Last(s) = Quote
Unescape(s) ==
  Restore(SubSeq(s, IF Opens(s) THEN 2 ELSE 1, IF Closes(s) THEN Len(s) - 1 ELSE Len(s)))

Quoted(s) == <<Quote>> \o s \o <<Quote>>
Inner(s) == SubSeq(s, 2, Len(s) - 1)
Enclosed(s, open, close) == Len(s) >= 2 /\ Head(s) = open /\ Last(s) = close

-----------------------------------------------------------------------------
(* Parts of a text. *)

Trim(s) ==
  LET kept == {i \in DOMAIN s : s[i] \notin Blanks} IN
  IF kept = {} THEN <<>> ELSE SubSeq(s, Min(kept), Max(kept))

(* String::split, the separator one character *)
SplitChar(r, c, sep) ==
  IF c = sep THEN [parts |-> Append(r.parts, r.part), part |-> <<>>] ELSE [r EXCEPT !.part = Append(@, c)]
Split(s, sep) ==
  LET cut[i \in 0..Len(s)] ==
        IF i = 0 THEN [parts |-> <<>>, part |-> <<>>] ELSE SplitChar(cut[i - 1], s[i], sep)
      whole == cut[Len(s)]
  IN Append(whole.parts, whole.part)

(* split_quoted cuts neither inside quotes, of which an escaped one is     *)
(* one, nor inside brackets.                                               *)
NothingCut == [parts |-> <<>>, part |-> <<>>, quoted |-> FALSE, depth |-> 0]
CutChar(r, c) ==
  IF c = "," /\ ~r.quoted /\ r.depth = 0
  THEN [r EXCEPT !.parts = Append(@, Trim(r.part)), !.part = <<>>]
  ELSE [parts |-> r.parts,
        part |-> Append(r.part, c),
        quoted |-> IF c = Quote THEN ~r.quoted ELSE r.quoted,
        depth |-> IF r.quoted THEN r.depth
                  ELSE IF c \in {"[", "{"} THEN r.depth + 1
                  ELSE IF c \in {"]", "}"} THEN r.depth - 1 ELSE r.depth]
Cutting(s) ==
  LET cut[i \in 0..Len(s)] == IF i = 0 THEN NothingCut ELSE CutChar(cut[i - 1], s[i])
  IN cut[Len(s)]
SplitQuoted(s) == Append(Cutting(s).parts, Trim(Cutting(s).part))

(* The generated writers put a list between brackets and commas. *)
WithCommas(texts) ==
  LET text[i \in 0..Len(texts)] ==
        IF i = 0 THEN <<>> ELSE text[i - 1] \o (IF i > 1 THEN <<",">> ELSE <<>>) \o texts[i]
  IN text[Len(texts)]
Listed(open, texts, close) == open \o WithCommas(texts) \o close

(* A string with a line break becomes a raw multi-line string in TOML. *)
Thrice == <<Quote, Quote, Quote>>
TomlString(s) == IF "nl" \in Range(s) THEN Thrice \o s \o Thrice ELSE Quoted(Escape(s))
StringOf(s) ==
  LET w == Trim(s) IN
  IF Len(w) >= 6 /\ SubSeq(w, 1, 3) = Thrice /\ SubSeq(w, Len(w) - 2, Len(w)) = Thrice
  THEN SubSeq(w, 4, Len(w) - 3) ELSE Unescape(w)
=============================================================================
