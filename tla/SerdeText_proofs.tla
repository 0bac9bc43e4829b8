---------------------------- MODULE SerdeText_proofs ----------------------------
(***************************************************************************)
(* What JSON and TOML texts are read back as, for every string and every   *)
(* integer: the library functions undo each other, the strict readers take *)
(* what was written, and a TOML list is cut where its writer put the       *)
(* commas, so that it comes back if its elements do.                       *)
(*                                                                         *)
(* The functions are recursive.  The library's induction theorems take an  *)
(* operator, so induction is by minimal counterexample, over sets.  Of     *)
(* each function there are three facts: it is the only one that obeys its  *)
(* equation, its value on the empty text, and on a text with one more      *)
(* character.                                                              *)
(***************************************************************************)
EXTENDS SerdeText, WellFoundedInduction, SequenceTheorems, TLAPS

-----------------------------------------------------------------------------
(* Induction and recursion.                                                *)

LEMMA LeastNat ==
  ASSUME NEW T \in SUBSET Nat, T # {}
  PROVE  \E x \in T : \A y \in T : x <= y
<1>1. PICK x \in T : \A y \in T : ~ (<<y, x>> \in OpToRel(<, Nat))
  BY WFMin, NatLessThanWellFounded
<1>2. \A y \in T : <<y, x>> \in Nat \X Nat
  OBVIOUS
<1>3. \A y \in T : ~ (y < x)
  BY <1>1, <1>2 DEF OpToRel
<1> QED
  BY <1>3

(* A set that holds 0 and goes up step by step holds all of 0..n.          *)
LEMMA UpTo ==
  ASSUME NEW n \in Nat, NEW P, 0 \in P, \A i \in 1..n : i - 1 \in P => i \in P
  PROVE  \A i \in 0..n : i \in P
<1> DEFINE T == {i \in 0..n : i \notin P}
<1>1. SUFFICES ASSUME T # {} PROVE FALSE
  OBVIOUS
<1>2. T \in SUBSET Nat
  OBVIOUS
<1>3. PICK i \in T : \A j \in T : i <= j
  <2> HIDE DEF T
  <2> QED BY <1>1, <1>2, LeastNat
<1>4. i \in 1..n /\ i - 1 \in 0..n
  BY <1>3
<1>5. i - 1 \in P
  BY <1>3, <1>4
<1> QED
  BY <1>3, <1>4, <1>5

(* So does a set of sequences that holds <<>> and goes up by appending.    *)
LEMMA Grow ==
  ASSUME NEW C, NEW P, <<>> \in P,
         \A s \in Seq(C) : \A c \in C : s \in P => Append(s, c) \in P
  PROVE  \A s \in Seq(C) : s \in P
<1> DEFINE T == {n \in Nat : \E s \in Seq(C) : Len(s) = n /\ s \notin P}
<1>1. SUFFICES ASSUME T # {} PROVE FALSE
  OBVIOUS
<1>2. T \in SUBSET Nat
  OBVIOUS
<1>3. PICK n \in T : \A m \in T : n <= m
  <2> HIDE DEF T
  <2> QED BY <1>1, <1>2, LeastNat
<1>4. PICK s \in Seq(C) : Len(s) = n /\ s \notin P
  BY <1>3
<1>5. n \in Nat \ {0}
  <2>1. n \in Nat
    BY <1>2, <1>3
  <2>2. n # 0
    BY <1>4, EmptySeq
  <2> QED
    BY <2>1, <2>2
<1>6. PICK t : t = SubSeq(s, 1, n - 1)
  OBVIOUS
<1>7. t \in Seq(C) /\ Len(t) = n - 1 /\ \A i \in 1..n - 1 : t[i] = s[i]
  BY <1>4, <1>5, <1>6, SubSeqProperties
<1>8. s[n] \in C
  BY <1>4, <1>5
<1>9. s = Append(t, s[n])
  <2>1. PICK u : u = Append(t, s[n])
    OBVIOUS
  <2>2. u \in Seq(C) /\ Len(u) = n /\ u[n] = s[n] /\ \A i \in 1..n - 1 : u[i] = t[i]
    BY <2>1, <1>5, <1>7, <1>8, AppendProperties
  <2>3. \A i \in 1..Len(s) : s[i] = u[i]
    BY <2>2, <1>4, <1>5, <1>7
  <2> QED
    BY <2>1, <2>2, <2>3, <1>4, SeqEqual
<1>10. n - 1 \in Nat /\ n - 1 \notin T
  <2>1. n - 1 \in Nat /\ ~(n <= n - 1)
    BY <1>5
  <2> HIDE DEF T
  <2> QED BY <2>1, <1>3
<1>11. t \in P
  BY <1>7, <1>10
<1> QED
  BY <1>4, <1>7, <1>8, <1>9, <1>11

(* Steps g take a, one after the other, to a value for each of 0..n.       *)
Computes(f, V, a, n, g) ==
  f \in [0..n -> V] /\ f[0] = a /\ \A i \in 1..n : f[i] = g[i][f[i - 1]]

LEMMA Recursion ==
  ASSUME NEW V, NEW a \in V, NEW n \in Nat, NEW g \in [1..n -> [V -> V]]
  PROVE  \E f : Computes(f, V, a, n, g)
<1> DEFINE P == {m \in 0..n : \E f : Computes(f, V, a, m, g)}
<1>1. 0 \in P
  <2>1. PICK f : f = [i \in 0..0 |-> a]
    OBVIOUS
  <2>2. Computes(f, V, a, 0, g)
    BY <2>1 DEF Computes
  <2> QED
    BY <2>2
<1>2. ASSUME NEW i \in 1..n, i - 1 \in P PROVE i \in P
  <2>1. PICK f : Computes(f, V, a, i - 1, g)
    BY <1>2
  <2>2. g[i] \in [V -> V] /\ f[i - 1] \in V
    BY <2>1 DEF Computes
  <2>3. PICK h : h = [j \in 0..i |-> IF j = i THEN g[i][f[i - 1]] ELSE f[j]]
    OBVIOUS
  <2>4. Computes(h, V, a, i, g)
    BY <2>1, <2>2, <2>3 DEF Computes
  <2> QED
    BY <2>4
<1>3. \A i \in 1..n : i - 1 \in P => i \in P
  BY <1>2
<1>4. n \in P
  <2> HIDE DEF P
  <2>1. \A i \in 0..n : i \in P
    BY <1>1, <1>3, UpTo
  <2> QED
    BY <2>1
<1> QED
  BY <1>4

Obeys(h, V, a, n, g) ==
  h[0] = a /\ \A i \in 1..n : h[i - 1] \in V => h[i] = g[i][h[i - 1]]
Agree(g, k, n) == \A i \in 1..n : k[i] = g[i]

LEMMA Unique ==
  ASSUME NEW V, NEW a, NEW n \in Nat, NEW g, NEW f, Computes(f, V, a, n, g),
         NEW h, Obeys(h, V, a, n, g)
  PROVE  h[n] = f[n] /\ h[n] \in V
<1> DEFINE P == {i \in 0..n : h[i] = f[i] /\ h[i] \in V}
<1>1. 0 \in P
  BY DEF Computes, Obeys
<1>2. ASSUME NEW i \in 1..n, i - 1 \in P PROVE i \in P
  BY <1>2 DEF Computes, Obeys
<1>3. \A i \in 1..n : i - 1 \in P => i \in P
  BY <1>2
<1>4. n \in P
  <2> HIDE DEF P
  <2>1. \A i \in 0..n : i \in P
    BY <1>1, <1>3, UpTo
  <2> QED
    BY <2>1
<1> QED
  BY <1>4

(* With one step more than g, the last value is that step's.               *)
LEMMA OneMore ==
  ASSUME NEW V, NEW a, NEW n \in Nat, NEW g, NEW f, Computes(f, V, a, n, g),
         NEW k, NEW h, Computes(h, V, a, n + 1, k), Agree(g, k, n)
  PROVE  h[n + 1] = k[n + 1][f[n]] /\ f[n] \in V
<1>1. Obeys(h, V, a, n, g)
  BY DEF Computes, Obeys, Agree
<1>2. h[n] = f[n] /\ h[n] \in V
  BY <1>1, Unique
<1> QED
  BY <1>2 DEF Computes

-----------------------------------------------------------------------------
(* Escaping.                                                               *)

Special == {Quote, Escaping, "nl", "tab", "n", "t"}

LEMMA EscapesOf ==
  /\ DOMAIN EscapeOf = {Quote, Escaping, "nl", "tab"}
  /\ EscapeOf["nl"] = "n" /\ EscapeOf["tab"] = "t"
  /\ EscapeOf[Quote] = Quote /\ EscapeOf[Escaping] = Escaping
BY DEF EscapeOf, Quote, Escaping

LEMMA MeaningOfEscape ==
  ASSUME NEW c \in DOMAIN EscapeOf
  PROVE  MeaningOf(EscapeOf[c]) = c /\ EscapeOf[c] \in Range(EscapeOf) /\ EscapeOf[c] \in Special
<1>1. \A m \in DOMAIN EscapeOf : EscapeOf[m] = EscapeOf[c] => m = c
  BY EscapesOf DEF Quote, Escaping
<1>2. MeaningOf(EscapeOf[c]) \in DOMAIN EscapeOf /\ EscapeOf[MeaningOf(EscapeOf[c])] = EscapeOf[c]
  BY DEF MeaningOf
<1>3. EscapeOf[c] \in Range(EscapeOf)
  BY DEF Range
<1>4. EscapeOf[c] \in Special
  BY EscapesOf DEF Special
<1> QED
  BY <1>1, <1>2, <1>3, <1>4

LEMMA EscapeCharType ==
  ASSUME NEW C, Special \subseteq C, NEW c \in C
  PROVE  EscapeChar(c) \in Seq(C) /\ EscapeChar(c) # <<>> /\ Head(EscapeChar(c)) # Quote
<1>1. CASE c \in DOMAIN EscapeOf
  <2>1. EscapeOf[c] \in C /\ Escaping \in C
    BY <1>1, MeaningOfEscape DEF Special
  <2> QED
    BY <1>1, <2>1 DEF EscapeChar, Quote, Escaping
<1>2. CASE c \notin DOMAIN EscapeOf
  BY <1>2, EscapesOf DEF EscapeChar
<1> QED
  BY <1>1, <1>2

EscapeSteps(C, s) == [i \in 1..Len(s) |-> [v \in Seq(C) |-> v \o EscapeChar(s[i])]]

LEMMA EscapeIs ==
  ASSUME NEW C, Special \subseteq C, NEW s \in Seq(C)
  PROVE  \E f : Computes(f, Seq(C), <<>>, Len(s), EscapeSteps(C, s)) /\ Escape(s) = f[Len(s)]
<1> DEFINE Def(f) == [i \in 0..Len(s) |-> IF i = 0 THEN <<>> ELSE f[i - 1] \o EscapeChar(s[i])]
<1>1. PICK g : g = EscapeSteps(C, s)
  OBVIOUS
<1>2. Len(s) \in Nat /\ <<>> \in Seq(C)
        /\ \A i \in 1..Len(s) : \A v \in Seq(C) : v \o EscapeChar(s[i]) \in Seq(C)
  BY EscapeCharType, ConcatProperties
<1>3. g \in [1..Len(s) -> [Seq(C) -> Seq(C)]]
  BY <1>1, <1>2 DEF EscapeSteps
<1>4. \A i \in 1..Len(s) : \A v \in Seq(C) : g[i][v] = v \o EscapeChar(s[i])
  BY <1>1 DEF EscapeSteps
<1>5. PICK f : Computes(f, Seq(C), <<>>, Len(s), g)
  BY <1>2, <1>3, Recursion
<1>6. f = Def(f)
  <2>1. f = [i \in 0..Len(s) |-> f[i]]
    BY <1>5 DEF Computes
  <2>2. f[0] = <<>> /\ \A i \in 1..Len(s) : f[i] = f[i - 1] \o EscapeChar(s[i])
    <3>1. \A i \in 1..Len(s) : i - 1 \in 0..Len(s)
      BY <1>2
    <3> QED
      BY <3>1, <1>4, <1>5 DEF Computes
  <2>3. \A i \in 0..Len(s) : i = 0 \/ i \in 1..Len(s)
    BY <1>2
  <2> QED
    BY <2>1, <2>2, <2>3
<1>7. PICK h : h = CHOOSE x : x = Def(x)
  OBVIOUS
<1>8. h = Def(h)
  BY <1>6, <1>7
<1>9. h[0] = <<>> /\ \A i \in 1..Len(s) : h[i] = h[i - 1] \o EscapeChar(s[i])
  <2>1. PICK d : d = Def(h)
    OBVIOUS
  <2>2. d[0] = <<>> /\ \A i \in 1..Len(s) : d[i] = h[i - 1] \o EscapeChar(s[i])
    <3>1. 0 \in 0..Len(s) /\ \A i \in 1..Len(s) : i \in 0..Len(s) /\ i # 0
      BY <1>2
    <3> QED
      BY <3>1, <2>1
  <2> QED
    BY <2>1, <2>2, <1>8
<1>10. Obeys(h, Seq(C), <<>>, Len(s), g)
  BY <1>4, <1>9 DEF Obeys
<1>11. h[Len(s)] = f[Len(s)]
  BY <1>2, <1>5, <1>10, Unique
<1>12. Escape(s) = h[Len(s)]
  BY <1>7 DEF Escape
<1> QED
  BY <1>1, <1>5, <1>11, <1>12

LEMMA EscapeUnfold ==
  ASSUME NEW C, Special \subseteq C, NEW s \in Seq(C)
  PROVE  /\ Escape(<<>>) = <<>>
         /\ Escape(s) \in Seq(C)
         /\ \A c \in C : Escape(Append(s, c)) = Escape(s) \o EscapeChar(c)
<1>1. Escape(<<>>) = <<>>
  <2>1. <<>> \in Seq(C) /\ Len(<<>>) = 0
    OBVIOUS
  <2> QED
    BY <2>1, EscapeIs DEF Computes
<1>2. PICK f : Computes(f, Seq(C), <<>>, Len(s), EscapeSteps(C, s)) /\ Escape(s) = f[Len(s)]
  BY EscapeIs
<1>3. Len(s) \in Nat
  OBVIOUS
<1>4. Escape(s) \in Seq(C)
  BY <1>2, <1>3 DEF Computes
<1>5. ASSUME NEW c \in C PROVE Escape(Append(s, c)) = Escape(s) \o EscapeChar(c)
  <2>1. PICK t : t = Append(s, c)
    OBVIOUS
  <2>2. t \in Seq(C) /\ Len(t) = Len(s) + 1 /\ t[Len(s) + 1] = c /\ \A i \in 1..Len(s) : t[i] = s[i]
    BY <2>1, AppendProperties
  <2>3. PICK h : Computes(h, Seq(C), <<>>, Len(t), EscapeSteps(C, t)) /\ Escape(t) = h[Len(t)]
    BY <2>2, EscapeIs
  <2>4. PICK g, k : g = EscapeSteps(C, s) /\ k = EscapeSteps(C, t)
    OBVIOUS
  <2>5. Agree(g, k, Len(s))
    <3>1. \A i \in 1..Len(s) : i \in 1..Len(t) /\ t[i] = s[i]
      BY <2>2, <1>3
    <3> QED
      BY <3>1, <2>4 DEF EscapeSteps, Agree
  <2>6. \A v \in Seq(C) : k[Len(s) + 1][v] = v \o EscapeChar(c)
    <3>1. Len(s) + 1 \in 1..Len(t)
      BY <2>2, <1>3
    <3> QED
      BY <3>1, <2>2, <2>4, <1>3 DEF EscapeSteps
  <2>7. h[Len(s) + 1] = k[Len(s) + 1][f[Len(s)]] /\ f[Len(s)] \in Seq(C)
    BY <2>2, <2>3, <2>4, <2>5, <1>2, <1>3, OneMore
  <2> QED
    BY <2>1, <2>2, <2>3, <2>6, <2>7, <1>2
<1> QED
  BY <1>1, <1>4, <1>5

-----------------------------------------------------------------------------
(* Reading strings.                                                        *)

Readings(C) == [text : Seq(C), pending : BOOLEAN, valid : BOOLEAN]

LEMMA MeaningType ==
  ASSUME NEW c \in Range(EscapeOf)
  PROVE  MeaningOf(c) \in Special
<1>1. PICK m \in DOMAIN EscapeOf : EscapeOf[m] = c
  BY DEF Range
<1>2. MeaningOf(c) = m
  BY <1>1, MeaningOfEscape
<1> QED
  BY <1>1, <1>2, EscapesOf DEF Special

LEMMA TakeCharType ==
  ASSUME NEW C, Special \subseteq C
  PROVE  NothingRead \in Readings(C)
          /\ \A r \in Readings(C), c \in C : TakeChar(r, c) \in Readings(C)
<1>1. NothingRead \in Readings(C)
  BY DEF NothingRead, Readings
<1>2. ASSUME NEW r \in Readings(C), NEW c \in C PROVE TakeChar(r, c) \in Readings(C)
  <2>1. r.text \in Seq(C) /\ r.pending \in BOOLEAN /\ r.valid \in BOOLEAN
    BY DEF Readings
  <2>2. PICK u : u = (IF c \in Range(EscapeOf) THEN <<MeaningOf(c)>> ELSE <<Escaping, c>>)
    OBVIOUS
  <2>3. u \in Seq(C)
    <3>1. Escaping \in C
      BY DEF Special
    <3>2. CASE c \in Range(EscapeOf)
      BY <3>2, <2>2, MeaningType
    <3>3. CASE c \notin Range(EscapeOf)
      BY <3>1, <3>3, <2>2
    <3> QED
      BY <3>2, <3>3
  <2>4. r.text \o u \in Seq(C)
    BY <2>1, <2>3, ConcatProperties
  <2>5. Append(r.text, c) \in Seq(C)
    BY <2>1, AppendProperties
  <2>6. CASE r.pending
    <3>1. TakeChar(r, c) = [text |-> r.text \o u, pending |-> FALSE, valid |-> r.valid
            /\ c \in Range(EscapeOf)]
      BY <2>2, <2>6 DEF TakeChar
    <3> QED
      BY <3>1, <2>4 DEF Readings
  <2>7. CASE ~r.pending /\ c = Escaping
    <3>1. TakeChar(r, c) = [r EXCEPT !.pending = TRUE]
      BY <2>7 DEF TakeChar
    <3> QED
      BY <3>1 DEF Readings
  <2>8. CASE ~r.pending /\ c # Escaping
    <3>1. TakeChar(r, c) = [r EXCEPT !.text = Append(r.text, c)]
      BY <2>8 DEF TakeChar
    <3> QED
      BY <3>1, <2>5 DEF Readings
  <2> QED
    BY <2>6, <2>7, <2>8
<1> QED
  BY <1>1, <1>2

ReadingSteps(C, s) == [i \in 1..Len(s) |-> [v \in Readings(C) |-> TakeChar(v, s[i])]]

LEMMA ReadingIs ==
  ASSUME NEW C, Special \subseteq C, NEW s \in Seq(C)
  PROVE  \E f : Computes(f, Readings(C), NothingRead, Len(s), ReadingSteps(C, s))
          /\ Reading(s) = f[Len(s)]
<1> DEFINE Def(f) == [i \in 0..Len(s) |-> IF i = 0 THEN NothingRead ELSE TakeChar(f[i - 1], s[i])]
<1>1. PICK g : g = ReadingSteps(C, s)
  OBVIOUS
<1>2. Len(s) \in Nat /\ NothingRead \in Readings(C)
        /\ \A i \in 1..Len(s) : \A v \in Readings(C) : TakeChar(v, s[i]) \in Readings(C)
  BY TakeCharType
<1>3. g \in [1..Len(s) -> [Readings(C) -> Readings(C)]]
  BY <1>1, <1>2 DEF ReadingSteps
<1>4. \A i \in 1..Len(s) : \A v \in Readings(C) : g[i][v] = TakeChar(v, s[i])
  BY <1>1 DEF ReadingSteps
<1>5. PICK f : Computes(f, Readings(C), NothingRead, Len(s), g)
  BY <1>2, <1>3, Recursion
<1>6. f = Def(f)
  <2>1. f = [i \in 0..Len(s) |-> f[i]]
    BY <1>5 DEF Computes
  <2>2. f[0] = NothingRead /\ \A i \in 1..Len(s) : f[i] = TakeChar(f[i - 1], s[i])
    <3>1. \A i \in 1..Len(s) : i - 1 \in 0..Len(s)
      BY <1>2
    <3> QED
      BY <3>1, <1>4, <1>5 DEF Computes
  <2>3. \A i \in 0..Len(s) : i = 0 \/ i \in 1..Len(s)
    BY <1>2
  <2> QED
    BY <2>1, <2>2, <2>3
<1>7. PICK h : h = CHOOSE x : x = Def(x)
  OBVIOUS
<1>8. h = Def(h)
  BY <1>6, <1>7
<1>9. h[0] = NothingRead /\ \A i \in 1..Len(s) : h[i] = TakeChar(h[i - 1], s[i])
  <2>1. PICK d : d = Def(h)
    OBVIOUS
  <2>2. d[0] = NothingRead /\ \A i \in 1..Len(s) : d[i] = TakeChar(h[i - 1], s[i])
    <3>1. 0 \in 0..Len(s) /\ \A i \in 1..Len(s) : i \in 0..Len(s) /\ i # 0
      BY <1>2
    <3> QED
      BY <3>1, <2>1
  <2> QED
    BY <2>1, <2>2, <1>8
<1>10. Obeys(h, Readings(C), NothingRead, Len(s), g)
  BY <1>4, <1>9 DEF Obeys
<1>11. h[Len(s)] = f[Len(s)]
  BY <1>2, <1>5, <1>10, Unique
<1>12. Reading(s) = h[Len(s)]
  BY <1>7 DEF Reading
<1> QED
  BY <1>1, <1>5, <1>11, <1>12

LEMMA ReadingUnfold ==
  ASSUME NEW C, Special \subseteq C, NEW s \in Seq(C)
  PROVE  /\ Reading(<<>>) = NothingRead
         /\ Reading(s) \in Readings(C)
         /\ \A c \in C : Reading(Append(s, c)) = TakeChar(Reading(s), c)
<1>1. Reading(<<>>) = NothingRead
  <2>1. <<>> \in Seq(C) /\ Len(<<>>) = 0
    OBVIOUS
  <2> QED
    BY <2>1, ReadingIs DEF Computes
<1>2. PICK f : Computes(f, Readings(C), NothingRead, Len(s), ReadingSteps(C, s))
        /\ Reading(s) = f[Len(s)]
  BY ReadingIs
<1>3. Len(s) \in Nat
  OBVIOUS
<1>4. Reading(s) \in Readings(C)
  BY <1>2, <1>3 DEF Computes
<1>5. ASSUME NEW c \in C PROVE Reading(Append(s, c)) = TakeChar(Reading(s), c)
  <2>1. PICK t : t = Append(s, c)
    OBVIOUS
  <2>2. t \in Seq(C) /\ Len(t) = Len(s) + 1 /\ t[Len(s) + 1] = c /\ \A i \in 1..Len(s) : t[i] = s[i]
    BY <2>1, AppendProperties
  <2>3. PICK h : Computes(h, Readings(C), NothingRead, Len(t), ReadingSteps(C, t))
          /\ Reading(t) = h[Len(t)]
    BY <2>2, ReadingIs
  <2>4. PICK g, k : g = ReadingSteps(C, s) /\ k = ReadingSteps(C, t)
    OBVIOUS
  <2>5. Agree(g, k, Len(s))
    <3>1. \A i \in 1..Len(s) : i \in 1..Len(t) /\ t[i] = s[i]
      BY <2>2, <1>3
    <3> QED
      BY <3>1, <2>4 DEF ReadingSteps, Agree
  <2>6. \A v \in Readings(C) : k[Len(s) + 1][v] = TakeChar(v, c)
    <3>1. Len(s) + 1 \in 1..Len(t)
      BY <2>2, <1>3
    <3> QED
      BY <3>1, <2>2, <2>4, <1>3 DEF ReadingSteps
  <2>7. h[Len(s) + 1] = k[Len(s) + 1][f[Len(s)]] /\ f[Len(s)] \in Readings(C)
    BY <2>2, <2>3, <2>4, <2>5, <1>2, <1>3, OneMore
  <2> QED
    BY <2>1, <2>2, <2>3, <2>6, <2>7, <1>2
<1> QED
  BY <1>1, <1>4, <1>5

(* What was escaped is read as it was, with no escape open at its end.     *)
LEMMA ReadEscape ==
  ASSUME NEW C, Special \subseteq C
  PROVE  \A s \in Seq(C) : Reading(Escape(s)) = [text |-> s, pending |-> FALSE, valid |-> TRUE]
<1> DEFINE Done(s) == [text |-> s, pending |-> FALSE, valid |-> TRUE]
           P == {s \in Seq(C) : Reading(Escape(s)) = Done(s)}
<1>1. <<>> \in P
  <2>1. <<>> \in Seq(C)
    OBVIOUS
  <2>2. Escape(<<>>) = <<>> /\ Reading(<<>>) = NothingRead
    BY <2>1, EscapeUnfold, ReadingUnfold
  <2> QED
    BY <2>1, <2>2 DEF NothingRead
<1>2. ASSUME NEW s \in Seq(C), NEW c \in C, s \in P PROVE Append(s, c) \in P
  <2>1. PICK e : e = Escape(s)
    OBVIOUS
  <2>2. e \in Seq(C) /\ Reading(e) = Done(s) /\ Escape(Append(s, c)) = e \o EscapeChar(c)
    BY <2>1, <1>2, EscapeUnfold
  <2>3. Append(s, c) \in Seq(C) /\ Escaping \in C /\ s \o <<c>> = Append(s, c)
    BY AppendProperties, AppendIsConcat DEF Special
  <2>4. CASE c \notin DOMAIN EscapeOf
    <3>1. Escape(Append(s, c)) = Append(e, c)
      BY <2>2, <2>4, AppendIsConcat DEF EscapeChar
    <3>2. Reading(Append(e, c)) = TakeChar(Done(s), c)
      BY <2>2, ReadingUnfold
    <3>3. TakeChar(Done(s), c) = Done(Append(s, c))
      BY <2>4, EscapesOf DEF TakeChar
    <3> QED
      BY <3>1, <3>2, <3>3, <2>3
  <2>5. CASE c \in DOMAIN EscapeOf
    <3>1. PICK d, x : d = EscapeOf[c] /\ x = Append(e, Escaping)
      OBVIOUS
    <3>2. d \in C /\ d \in Range(EscapeOf) /\ MeaningOf(d) = c
      BY <3>1, <2>5, MeaningOfEscape
    <3>3. x \in Seq(C) /\ Append(x, d) = e \o <<Escaping, d>>
      <4>1. x \in Seq(C) /\ e \o <<Escaping>> = x /\ x \o <<d>> = Append(x, d)
        BY <3>1, <3>2, <2>2, <2>3, AppendProperties, AppendIsConcat
      <4>2. <<Escaping>> \o <<d>> = <<Escaping, d>> /\ <<Escaping>> \in Seq(C) /\ <<d>> \in Seq(C)
        <5>1. <<Escaping>> \in Seq(C) /\ <<d>> \in Seq(C)
          BY <3>2, <2>3
        <5>2. Append(<<Escaping>>, d) = <<Escaping, d>>
          <6>1. PICK u, v : u = Append(<<Escaping>>, d) /\ v = <<Escaping, d>>
            OBVIOUS
          <6>2. u \in Seq(C) /\ Len(u) = 2 /\ u[1] = Escaping /\ u[2] = d
            BY <6>1, <5>1, <3>2, AppendProperties
          <6>3. v \in Seq(C) /\ Len(v) = 2 /\ v[1] = Escaping /\ v[2] = d
            BY <6>1, <3>2, <2>3
          <6>4. \A i \in 1..2 : u[i] = v[i]
            BY <6>2, <6>3
          <6> QED
            BY <6>1, <6>2, <6>3, <6>4, SeqEqual
        <5> QED
          BY <5>1, <5>2, <3>2, AppendIsConcat
      <4>3. (e \o <<Escaping>>) \o <<d>> = e \o (<<Escaping>> \o <<d>>)
        BY <4>2, <2>2, ConcatAssociative
      <4> QED
        BY <4>1, <4>2, <4>3
    <3>4. Escape(Append(s, c)) = Append(x, d)
      BY <3>1, <3>3, <2>2, <2>5 DEF EscapeChar
    <3>5. Reading(Append(x, d)) = TakeChar(TakeChar(Done(s), Escaping), d)
      <4>1. Reading(x) = TakeChar(Done(s), Escaping)
        BY <3>1, <2>2, <2>3, ReadingUnfold
      <4> QED
        BY <4>1, <3>2, <3>3, ReadingUnfold
    <3>6. TakeChar(Done(s), Escaping) = [text |-> s, pending |-> TRUE, valid |-> TRUE]
      BY DEF TakeChar
    <3>7. TakeChar([text |-> s, pending |-> TRUE, valid |-> TRUE], d) = Done(Append(s, c))
      BY <3>2, <2>3 DEF TakeChar
    <3> QED
      BY <3>4, <3>5, <3>6, <3>7, <2>3
  <2> QED
    BY <2>4, <2>5
<1>3. \A s \in Seq(C) : \A c \in C : s \in P => Append(s, c) \in P
  BY <1>2
<1>4. \A s \in Seq(C) : s \in P
  <2> HIDE DEF P
  <2> QED BY <1>1, <1>3, Grow
<1> QED
  BY <1>4

LEMMA QuotedText ==
  ASSUME NEW C, Quote \in C, NEW s \in Seq(C)
  PROVE  /\ Quoted(s) \in Seq(C) /\ Len(Quoted(s)) = Len(s) + 2
         /\ Quoted(s)[1] = Quote /\ Quoted(s)[Len(s) + 2] = Quote
         /\ \A i \in 1..Len(s) : Quoted(s)[i + 1] = s[i]
         /\ SubSeq(Quoted(s), 2, Len(s) + 1) = s
<1>1. PICK a, q : a = <<Quote>> \o s /\ q = <<Quote>>
  OBVIOUS
<1>2. q \in Seq(C) /\ Len(q) = 1 /\ q[1] = Quote /\ Len(s) \in Nat
  BY <1>1
<1>3. /\ a \in Seq(C) /\ Len(a) = Len(s) + 1
      /\ \A i \in 1..Len(s) + 1 : a[i] = IF i <= 1 THEN q[i] ELSE s[i - 1]
  BY <1>1, <1>2, ConcatProperties
<1>4. PICK t : t = Quoted(s)
  OBVIOUS
<1>5. t = a \o q
  BY <1>1, <1>4 DEF Quoted
<1>6. /\ t \in Seq(C) /\ Len(t) = Len(s) + 2
      /\ \A i \in 1..Len(s) + 2 : t[i] = IF i <= Len(s) + 1 THEN a[i] ELSE q[i - (Len(s) + 1)]
  <2>1. /\ a \o q \in Seq(C) /\ Len(a \o q) = Len(a) + Len(q)
        /\ \A i \in 1..Len(a) + Len(q) : (a \o q)[i] = IF i <= Len(a) THEN a[i] ELSE q[i - Len(a)]
    BY <1>2, <1>3, ConcatProperties
  <2>2. Len(a) + Len(q) = Len(s) + 2
    BY <1>2, <1>3
  <2> QED
    BY <2>1, <2>2, <1>3, <1>5
<1>7. t[1] = Quote /\ t[Len(s) + 2] = Quote
  BY <1>2, <1>3, <1>6
<1>8. \A i \in 1..Len(s) : t[i + 1] = s[i]
  BY <1>2, <1>3, <1>6
<1>9. SubSeq(t, 2, Len(s) + 1) = s
  <2>1. PICK u : u = SubSeq(t, 2, Len(s) + 1)
    OBVIOUS
  <2>2. \A i \in 2..Len(s) + 1 : t[i] \in C
    BY <1>2, <1>6, ElementOfSeq
  <2>3. u \in Seq(C) /\ Len(u) = Len(s) /\ \A i \in 1..Len(s) : u[i] = t[i + 1]
    <3>1. 2 \in Int /\ Len(s) + 1 \in Int
            /\ (IF 2 <= Len(s) + 1 THEN Len(s) + 1 - 2 + 1 ELSE 0) = Len(s)
      BY <1>2
    <3>2. u \in Seq(C) /\ Len(u) = Len(s)
      BY <3>1, <2>1, <2>2, SubSeqProperties
    <3>3. \A i \in 1..Len(s) + 1 - 2 + 1 : u[i] = t[2 + i - 1]
      BY <3>1, <2>1, <2>2, SubSeqProperties
    <3>4. \A i \in 1..Len(s) : i \in 1..Len(s) + 1 - 2 + 1 /\ 2 + i - 1 = i + 1
      BY <1>2
    <3> QED
      BY <3>2, <3>3, <3>4
  <2>4. \A i \in 1..Len(u) : u[i] = s[i]
    BY <2>3, <1>8
  <2> QED
    BY <2>1, <2>3, <2>4, SeqEqual
<1> QED
  BY <1>4, <1>6, <1>7, <1>8, <1>9

LEMMA UnescapeQuoted ==
  ASSUME NEW C, Special \subseteq C, NEW s \in Seq(C)
  PROVE  Unescape(Quoted(Escape(s))) = s
<1>1. PICK e, t : e = Escape(s) /\ t = Quoted(e)
  OBVIOUS
<1>2. e \in Seq(C) /\ Quote \in C
  BY <1>1, EscapeUnfold DEF Special
<1>3. /\ t \in Seq(C) /\ Len(t) = Len(e) + 2 /\ Len(e) \in Nat
      /\ t[1] = Quote /\ t[Len(e) + 2] = Quote /\ SubSeq(t, 2, Len(e) + 1) = e
  BY <1>1, <1>2, QuotedText
<1>4. t # <<>> /\ Head(t) = Quote /\ Last(t) = Quote /\ Len(t) - 1 = Len(e) + 1
  BY <1>3 DEF Last
<1>5. Unescape(t) = Restore(e)
  BY <1>3, <1>4 DEF Unescape, Opens, Closes
<1>6. Reading(e) = [text |-> s, pending |-> FALSE, valid |-> TRUE]
  BY <1>1, ReadEscape
<1>7. Restore(e) = s \o <<>>
  BY <1>6 DEF Restore
<1> QED
  BY <1>1, <1>5, <1>7

-----------------------------------------------------------------------------
(* Strings in TOML.                                                        *)

LEMMA TrimKeeps ==
  ASSUME NEW C, NEW s \in Seq(C), s # <<>>, s[1] \notin Blanks, s[Len(s)] \notin Blanks
  PROVE  Trim(s) = s
<1>1. PICK kept, n : kept = {i \in DOMAIN s : s[i] \notin Blanks} /\ n = Len(s)
  OBVIOUS
<1>2. n \in Nat \ {0} /\ DOMAIN s = 1..n
  BY <1>1, EmptySeq
<1>3. kept \subseteq 1..n /\ 1 \in kept /\ n \in kept
  BY <1>1, <1>2
<1>4. Min(kept) = 1
  <2>1. 1 \in kept /\ \A y \in kept : 1 <= y
    BY <1>2, <1>3
  <2>2. \A x \in kept : (\A y \in kept : x <= y) => x = 1
    BY <1>2, <1>3
  <2>3. Min(kept) \in kept /\ \A y \in kept : Min(kept) <= y
    BY <2>1 DEF Min
  <2> QED
    BY <2>2, <2>3
<1>5. Max(kept) = n
  <2>1. n \in kept /\ \A y \in kept : n >= y
    BY <1>2, <1>3
  <2>2. \A x \in kept : (\A y \in kept : x >= y) => x = n
    BY <1>2, <1>3
  <2>3. Max(kept) \in kept /\ \A y \in kept : Max(kept) >= y
    BY <2>1 DEF Max
  <2> QED
    BY <2>2, <2>3
<1>6. Trim(s) = SubSeq(s, Min(kept), Max(kept))
  <2>1. kept # {}
    BY <1>3
  <2> QED
    BY <1>1, <2>1 DEF Trim
<1>7. SubSeq(s, 1, n) = s
  BY <1>1, SubSeqFull
<1> QED
  BY <1>4, <1>5, <1>6, <1>7

(* No escaped text begins with a quote. *)
LEMMA EscapeBegins ==
  ASSUME NEW C, Special \subseteq C
  PROVE  \A s \in Seq(C) : Escape(s) = <<>> \/ Escape(s)[1] # Quote
<1> DEFINE P == {s \in Seq(C) : Escape(s) = <<>> \/ Escape(s)[1] # Quote}
<1>1. <<>> \in P
  <2>1. <<>> \in Seq(C)
    OBVIOUS
  <2> QED
    BY <2>1, EscapeUnfold
<1>2. ASSUME NEW s \in Seq(C), NEW c \in C, s \in P PROVE Append(s, c) \in P
  <2>1. PICK e, x, t : e = Escape(s) /\ x = EscapeChar(c) /\ t = e \o x
    OBVIOUS
  <2>2. /\ e \in Seq(C) /\ x \in Seq(C) /\ x # <<>> /\ x[1] # Quote
        /\ Escape(Append(s, c)) = t
    <3>1. e \in Seq(C) /\ Escape(Append(s, c)) = t
      BY <2>1, EscapeUnfold
    <3>2. x \in Seq(C) /\ x # <<>> /\ Head(x) # Quote
      BY <2>1, EscapeCharType
    <3>3. Head(x) = x[1]
      BY <3>2
    <3> QED
      BY <3>1, <3>2, <3>3
  <2>3. Append(s, c) \in Seq(C)
    BY AppendProperties
  <2>4. Len(e) \in Nat /\ Len(x) \in Nat \ {0}
    BY <2>2, EmptySeq
  <2>5. \A i \in 1..Len(e) + Len(x) : t[i] = IF i <= Len(e) THEN e[i] ELSE x[i - Len(e)]
    BY <2>1, <2>2, ConcatProperties
  <2>6. t[1] = IF 1 <= Len(e) THEN e[1] ELSE x[1 - Len(e)]
    BY <2>4, <2>5
  <2>7. CASE e = <<>>
    <3>1. Len(e) = 0
      BY <2>7
    <3> QED
      BY <3>1, <2>2, <2>3, <2>6
  <2>8. CASE e # <<>>
    <3>1. 1 <= Len(e) /\ e[1] # Quote
      BY <2>1, <2>2, <2>4, <2>8, <1>2, EmptySeq
    <3> QED
      BY <3>1, <2>2, <2>3, <2>6
  <2> QED
    BY <2>7, <2>8
<1>3. \A s \in Seq(C) : \A c \in C : s \in P => Append(s, c) \in P
  BY <1>2
<1>4. \A s \in Seq(C) : s \in P
  <2> HIDE DEF P
  <2> QED BY <1>1, <1>3, Grow
<1> QED
  BY <1>4

LEMMA SubSeqIs ==
  ASSUME NEW C, NEW s \in Seq(C), NEW t \in Seq(C), NEW m \in Nat \ {0}, NEW n \in Nat,
         m <= n + 1, n <= Len(s), Len(t) = n - m + 1, \A i \in 1..Len(t) : t[i] = s[m + i - 1]
  PROVE  SubSeq(s, m, n) = t
<1>1. PICK u : u = SubSeq(s, m, n)
  OBVIOUS
<1>2. \A i \in m..n : s[i] \in C
  BY ElementOfSeq
<1>3. u \in Seq(C) /\ Len(u) = (IF m <= n THEN n - m + 1 ELSE 0)
        /\ \A i \in 1..n - m + 1 : u[i] = s[m + i - 1]
  BY <1>1, <1>2, SubSeqProperties
<1>4. Len(u) = Len(t) /\ \A i \in 1..Len(u) : u[i] = t[i]
  BY <1>3
<1> QED
  BY <1>1, <1>3, <1>4, SeqEqual

RawText(s) == Thrice \o s \o Thrice

LEMMA ThriceText ==
  ASSUME NEW C, Quote \in C, NEW s \in Seq(C)
  PROVE  /\ RawText(s) \in Seq(C) /\ Len(RawText(s)) = Len(s) + 6
         /\ RawText(s)[1] = Quote /\ RawText(s)[2] = Quote /\ RawText(s)[3] = Quote
         /\ RawText(s)[Len(s) + 4] = Quote /\ RawText(s)[Len(s) + 5] = Quote
         /\ RawText(s)[Len(s) + 6] = Quote
         /\ \A i \in 1..Len(s) : RawText(s)[i + 3] = s[i]
<1> DEFINE t == RawText(s)
<1>0. t = Thrice \o s \o Thrice
  BY DEF RawText
<1> HIDE DEF t
<1>1. PICK q, a : q = Thrice /\ a = q \o s
  OBVIOUS
<1>2. q \in Seq(C) /\ Len(q) = 3 /\ q[1] = Quote /\ q[2] = Quote /\ q[3] = Quote /\ Len(s) \in Nat
  BY <1>1 DEF Thrice
<1>3. /\ a \in Seq(C) /\ Len(a) = Len(s) + 3
      /\ \A i \in 1..Len(s) + 3 : a[i] = IF i <= 3 THEN q[i] ELSE s[i - 3]
  <2>1. /\ q \o s \in Seq(C) /\ Len(q \o s) = Len(q) + Len(s)
        /\ \A i \in 1..Len(q) + Len(s) : (q \o s)[i] = IF i <= Len(q) THEN q[i] ELSE s[i - Len(q)]
    BY <1>2, ConcatProperties
  <2>2. Len(q) + Len(s) = Len(s) + 3
    BY <1>2
  <2> QED
    BY <2>1, <2>2, <1>1, <1>2
<1>4. /\ t \in Seq(C) /\ Len(t) = Len(s) + 6
      /\ \A i \in 1..Len(s) + 6 : t[i] = IF i <= Len(s) + 3 THEN a[i] ELSE q[i - (Len(s) + 3)]
  <2>1. /\ a \o q \in Seq(C) /\ Len(a \o q) = Len(a) + Len(q)
        /\ \A i \in 1..Len(a) + Len(q) : (a \o q)[i] = IF i <= Len(a) THEN a[i] ELSE q[i - Len(a)]
    BY <1>2, <1>3, ConcatProperties
  <2>2. Len(a) + Len(q) = Len(s) + 6
    BY <1>2, <1>3
  <2> QED
    BY <2>1, <2>2, <1>0, <1>1, <1>3
<1>5. t[1] = Quote /\ t[2] = Quote /\ t[3] = Quote
  BY <1>2, <1>3, <1>4
<1>6. t[Len(s) + 4] = Quote /\ t[Len(s) + 5] = Quote /\ t[Len(s) + 6] = Quote
  BY <1>2, <1>4
<1>7. \A i \in 1..Len(s) : t[i + 3] = s[i]
  BY <1>2, <1>3, <1>4
<1> QED
  BY <1>4, <1>5, <1>6, <1>7 DEF t

LEMMA TomlStringRead ==
  ASSUME NEW C, Special \subseteq C, NEW s \in Seq(C)
  PROVE  StringOf(TomlString(s)) = s /\ Trim(TomlString(s)) = TomlString(s)
<1>1. Quote \in C /\ Quote \notin Blanks /\ Len(s) \in Nat
  <2>1. Quote \in C
    BY DEF Special
  <2>2. Quote \notin Blanks
    BY DEF Blanks, Quote
  <2> QED
    BY <2>1, <2>2
<1>2. CASE "nl" \in Range(s)
  <2>1. PICK t : t = RawText(s)
    OBVIOUS
  <2>2. TomlString(s) = t
    BY <2>1, <1>2 DEF TomlString, RawText
  <2>3. /\ t \in Seq(C) /\ Len(t) = Len(s) + 6
        /\ t[1] = Quote /\ t[2] = Quote /\ t[3] = Quote
        /\ t[Len(s) + 4] = Quote /\ t[Len(s) + 5] = Quote /\ t[Len(s) + 6] = Quote
        /\ \A i \in 1..Len(s) : t[i + 3] = s[i]
    BY <2>1, <1>1, ThriceText
  <2>4. Trim(t) = t
    <3>1. t # <<>>
      BY <2>3, <1>1
    <3> QED
      BY <3>1, <2>3, <1>1, TrimKeeps
  <2>5. PICK q : q = Thrice
    OBVIOUS
  <2>6. q \in Seq(C) /\ Len(q) = 3 /\ q[1] = Quote /\ q[2] = Quote /\ q[3] = Quote
    BY <2>5, <1>1 DEF Thrice
  <2>7. SubSeq(t, 1, 3) = q
    <3>1. 1 \in Nat \ {0} /\ 3 \in Nat /\ 1 <= 3 + 1 /\ 3 <= Len(t) /\ Len(q) = 3 - 1 + 1
      BY <2>3, <2>6, <1>1
    <3>2. \A i \in 1..Len(q) : q[i] = t[1 + i - 1]
      BY <2>3, <2>6
    <3> QED
      BY <3>1, <3>2, <2>3, <2>6, SubSeqIs
  <2>8. SubSeq(t, Len(t) - 2, Len(t)) = q
    <3>1. Len(t) - 2 \in Nat \ {0} /\ Len(t) \in Nat /\ Len(q) = Len(t) - (Len(t) - 2) + 1
      BY <2>3, <2>6, <1>1
    <3>2. \A i \in 1..Len(q) : q[i] = t[Len(t) - 2 + i - 1]
      BY <2>3, <2>6, <1>1
    <3> QED
      BY <3>1, <3>2, <2>3, <2>6, SubSeqIs
  <2>9. SubSeq(t, 4, Len(t) - 3) = s
    <3>1. 4 \in Nat \ {0} /\ Len(t) - 3 \in Nat /\ 4 <= Len(t) - 3 + 1
            /\ Len(s) = Len(t) - 3 - 4 + 1
      BY <2>3, <1>1
    <3>2. \A i \in 1..Len(s) : s[i] = t[4 + i - 1]
      BY <2>3, <1>1
    <3>3. Len(t) - 3 <= Len(t)
      BY <2>3, <1>1
    <3> QED
      BY <3>1, <3>2, <3>3, <2>3, SubSeqIs
  <2>10. Len(t) >= 6
    BY <2>3, <1>1
  <2>11. StringOf(t) = s
    BY <2>4, <2>5, <2>7, <2>8, <2>9, <2>10 DEF StringOf
  <2> QED
    BY <2>2, <2>4, <2>11
<1>3. CASE "nl" \notin Range(s)
  <2>1. PICK e, t : e = Escape(s) /\ t = Quoted(e)
    OBVIOUS
  <2>2. TomlString(s) = t /\ e \in Seq(C) /\ Len(e) \in Nat
    BY <2>1, <1>3, EscapeUnfold DEF TomlString
  <2>3. /\ t \in Seq(C) /\ Len(t) = Len(e) + 2
        /\ t[1] = Quote /\ t[Len(e) + 2] = Quote /\ \A i \in 1..Len(e) : t[i + 1] = e[i]
    BY <2>1, <2>2, <1>1, QuotedText
  <2>4. Trim(t) = t
    <3>1. t # <<>>
      BY <2>2, <2>3
    <3> QED
      BY <3>1, <2>3, <1>1, TrimKeeps
  <2>5. ~(Len(t) >= 6 /\ SubSeq(t, 1, 3) = Thrice)
    <3>1. SUFFICES ASSUME Len(t) >= 6, SubSeq(t, 1, 3) = Thrice PROVE FALSE
      OBVIOUS
    <3>2. 1 \in 1..Len(e) /\ e # <<>>
      BY <3>1, <2>2, <2>3
    <3>3. t[2] = e[1]
      BY <3>2, <2>3
    <3>4. \A i \in 1..3 : t[i] \in C
      BY <3>1, <2>2, <2>3, ElementOfSeq
    <3>5. \A i \in 1..3 - 1 + 1 : SubSeq(t, 1, 3)[i] = t[1 + i - 1]
      BY <3>4, SubSeqProperties
    <3>6. SubSeq(t, 1, 3)[2] = t[2]
      BY <3>5
    <3>7. Thrice[2] = Quote
      BY DEF Thrice
    <3> QED
      BY <3>1, <3>2, <3>3, <3>6, <3>7, <2>1, EscapeBegins
  <2>6. StringOf(t) = Unescape(t)
    BY <2>4, <2>5 DEF StringOf
  <2> QED
    BY <2>1, <2>2, <2>4, <2>6, UnescapeQuoted
<1> QED
  BY <1>2, <1>3
(* Every string that is written comes back as it was: in JSON through      *)
(* json_escape and json_unescape, in TOML also with its line breaks, where *)
(* the text between three quotes is taken as it stands.  The strict reader *)
(* takes what was written: it is between quotes, with no escape in it that *)
(* json_unescape_checked refuses, and none of its ends is a blank.         *)
THEOREM StringsReadBack ==
  ASSUME NEW Chars, NEW s \in Seq(Chars)
  PROVE  /\ Unescape(Quoted(Escape(s))) = s
         /\ Enclosed(Quoted(Escape(s)), Quote, Quote)
         /\ Inner(Quoted(Escape(s))) = Escape(s) /\ EscapesValid(Escape(s))
         /\ StringOf(TomlString(s)) = s
         /\ Trim(TomlString(s)) = TomlString(s)
<1>1. PICK C : C = Chars \cup Special
  OBVIOUS
<1>2. Special \subseteq C /\ s \in Seq(C) /\ Quote \in C
  <2>1. \A i \in 1..Len(s) : s[i] \in C
    BY <1>1
  <2>2. Special \subseteq C
    BY <1>1
  <2>3. s \in Seq(C)
    <3>1. s = [i \in 1..Len(s) |-> s[i]] /\ Len(s) \in Nat
      OBVIOUS
    <3> QED
      BY <2>1, <3>1, IsASeq
  <2> QED
    BY <2>2, <2>3 DEF Special
<1>3. PICK e, t : e = Escape(s) /\ t = Quoted(e)
  OBVIOUS
<1>4. e \in Seq(C) /\ Len(e) \in Nat
  BY <1>2, <1>3, EscapeUnfold
<1>5. /\ t \in Seq(C) /\ Len(t) = Len(e) + 2
      /\ t[1] = Quote /\ t[Len(e) + 2] = Quote /\ SubSeq(t, 2, Len(e) + 1) = e
  BY <1>2, <1>3, <1>4, QuotedText
<1>6. Enclosed(t, Quote, Quote)
  BY <1>4, <1>5 DEF Enclosed, Last
<1>7. Inner(t) = e
  <2>1. Len(t) - 1 = Len(e) + 1
    BY <1>4, <1>5
  <2> QED
    BY <1>5, <2>1 DEF Inner
<1>8. Reading(e) = [text |-> s, pending |-> FALSE, valid |-> TRUE]
  BY <1>2, <1>3, ReadEscape
<1>9. EscapesValid(e)
  BY <1>8 DEF EscapesValid
<1>10. Unescape(t) = s
  BY <1>2, <1>3, UnescapeQuoted
<1>11. StringOf(TomlString(s)) = s /\ Trim(TomlString(s)) = TomlString(s)
  BY <1>2, TomlStringRead
<1> QED
  BY <1>3, <1>6, <1>7, <1>9, <1>10, <1>11
-----------------------------------------------------------------------------
(* Integers.                                                               *)

LEMMA DigitsAre ==
  /\ DOMAIN Digits = 1..10
  /\ \A i, j \in 0..9 : Digits[i + 1] = Digits[j + 1] => i = j
  /\ \A i \in 0..9 : Digits[i + 1] # "-"
<1>1. DOMAIN Digits = 1..10
  BY DEF Digits
<1>2. /\ Digits[1] = "0" /\ Digits[2] = "1" /\ Digits[3] = "2" /\ Digits[4] = "3" /\ Digits[5] = "4"
      /\ Digits[6] = "5" /\ Digits[7] = "6" /\ Digits[8] = "7" /\ Digits[9] = "8"
              /\ Digits[10] = "9"
  BY DEF Digits
<1>3. \A i \in 0..9 : i \in {0, 1, 2, 3, 4, 5, 6, 7, 8, 9}
  OBVIOUS
<1>4. \A i, j \in 0..9 : Digits[i + 1] = Digits[j + 1] => i = j
  BY <1>2, <1>3
<1>5. \A i \in 0..9 : Digits[i + 1] # "-"
  BY <1>2, <1>3
<1> QED
  BY <1>1, <1>4, <1>5

LEMMA DigitOfType ==
  /\ \A i \in 0..9 : Digits[i + 1] \in Range(Digits) /\ DigitOf(Digits[i + 1]) = i
  /\ \A c \in Range(Digits) : DigitOf(c) \in 0..9 /\ c # "-"
<1>1. ASSUME NEW i \in 0..9 PROVE Digits[i + 1] \in Range(Digits) /\ DigitOf(Digits[i + 1]) = i
  <2>1. i + 1 \in DOMAIN Digits
    BY DigitsAre
  <2>2. DigitOf(Digits[i + 1]) \in 0..9 /\ Digits[DigitOf(Digits[i + 1]) + 1] = Digits[i + 1]
    BY DEF DigitOf
  <2> QED
    BY <2>1, <2>2, DigitsAre DEF Range
<1>2. ASSUME NEW c \in Range(Digits) PROVE DigitOf(c) \in 0..9 /\ c # "-"
  <2>1. PICK k \in 1..10 : Digits[k] = c
    BY DigitsAre DEF Range
  <2>2. k - 1 \in 0..9 /\ Digits[(k - 1) + 1] = c
    BY <2>1
  <2> QED
    BY <2>2, <1>1, DigitsAre
<1> QED
  BY <1>1, <1>2

LeadingSteps(C, s) == [i \in 1..Len(s) |-> [v \in Int |-> 10 * v + DigitOf(s[i])]]

LEMMA LeadingIs ==
  ASSUME NEW C, C \subseteq Range(Digits), NEW s \in Seq(C)
  PROVE  \E f : Computes(f, Int, 0, Len(s), LeadingSteps(C, s)) /\ Leading(s) = f[Len(s)]
<1> DEFINE Def(f) == [i \in 0..Len(s) |->
                       IF i = 0 THEN 0
                       ELSE IF \A j \in 1..i : s[j] \in Range(Digits) THEN 10 * f[i - 1] + DigitOf(s[i])
                       ELSE f[i - 1]]
<1>1. PICK g : g = LeadingSteps(C, s)
  OBVIOUS
<1>2. Len(s) \in Nat /\ 0 \in Int
        /\ \A i \in 1..Len(s) : \A v \in Int : 10 * v + DigitOf(s[i]) \in Int
  <2>1. \A i \in 1..Len(s) : DigitOf(s[i]) \in Int
    BY DigitOfType
  <2> QED
    BY <2>1
<1>0. \A i \in 1..Len(s) : \A j \in 1..i : s[j] \in Range(Digits)
  <2>1. \A i \in 1..Len(s) : \A j \in 1..i : j \in 1..Len(s)
    BY <1>2
  <2> QED
    BY <2>1
<1>3. g \in [1..Len(s) -> [Int -> Int]]
  BY <1>1, <1>2 DEF LeadingSteps
<1>4. \A i \in 1..Len(s) : \A v \in Int : g[i][v] = 10 * v + DigitOf(s[i])
  BY <1>1 DEF LeadingSteps
<1>5. PICK f : Computes(f, Int, 0, Len(s), g)
  BY <1>2, <1>3, Recursion
<1>6. f = Def(f)
  <2>1. f = [i \in 0..Len(s) |-> f[i]]
    BY <1>5 DEF Computes
  <2>2. f[0] = 0 /\ \A i \in 1..Len(s) : f[i] = 10 * f[i - 1] + DigitOf(s[i])
    <3>1. \A i \in 1..Len(s) : i - 1 \in 0..Len(s)
      BY <1>2
    <3> QED
      BY <3>1, <1>4, <1>5 DEF Computes
  <2>3. \A i \in 0..Len(s) : i = 0 \/ i \in 1..Len(s)
    BY <1>2
  <2> QED
    BY <2>1, <2>2, <2>3, <1>0
<1>7. PICK h : h = CHOOSE x : x = Def(x)
  OBVIOUS
<1>8. h = Def(h)
  BY <1>6, <1>7
<1>9. h[0] = 0 /\ \A i \in 1..Len(s) : h[i] = 10 * h[i - 1] + DigitOf(s[i])
  <2>1. PICK d : d = Def(h)
    OBVIOUS
  <2>2. d[0] = 0 /\ \A i \in 1..Len(s) : d[i] = 10 * h[i - 1] + DigitOf(s[i])
    <3>1. 0 \in 0..Len(s) /\ \A i \in 1..Len(s) : i \in 0..Len(s) /\ i # 0
      BY <1>2
    <3> QED
      BY <3>1, <2>1, <1>0
  <2> QED
    BY <2>1, <2>2, <1>8
<1>10. Obeys(h, Int, 0, Len(s), g)
  BY <1>4, <1>9 DEF Obeys
<1>11. h[Len(s)] = f[Len(s)]
  BY <1>2, <1>5, <1>10, Unique
<1>12. Leading(s) = h[Len(s)]
  BY <1>7 DEF Leading
<1> QED
  BY <1>1, <1>5, <1>11, <1>12

LEMMA LeadingUnfold ==
  ASSUME NEW C, C \subseteq Range(Digits), NEW s \in Seq(C)
  PROVE  /\ Leading(<<>>) = 0
         /\ Leading(s) \in Int
         /\ \A c \in C : Leading(Append(s, c)) = 10 * Leading(s) + DigitOf(c)
<1>1. Leading(<<>>) = 0
  <2>1. <<>> \in Seq(C) /\ Len(<<>>) = 0
    OBVIOUS
  <2> QED
    BY <2>1, LeadingIs DEF Computes
<1>2. PICK f : Computes(f, Int, 0, Len(s), LeadingSteps(C, s)) /\ Leading(s) = f[Len(s)]
  BY LeadingIs
<1>3. Len(s) \in Nat
  OBVIOUS
<1>4. Leading(s) \in Int
  BY <1>2, <1>3 DEF Computes
<1>5. ASSUME NEW c \in C PROVE Leading(Append(s, c)) = 10 * Leading(s) + DigitOf(c)
  <2>1. PICK t : t = Append(s, c)
    OBVIOUS
  <2>2. t \in Seq(C) /\ Len(t) = Len(s) + 1 /\ t[Len(s) + 1] = c /\ \A i \in 1..Len(s) : t[i] = s[i]
    BY <2>1, AppendProperties
  <2>3. PICK h : Computes(h, Int, 0, Len(t), LeadingSteps(C, t)) /\ Leading(t) = h[Len(t)]
    BY <2>2, LeadingIs
  <2>4. PICK g, k : g = LeadingSteps(C, s) /\ k = LeadingSteps(C, t)
    OBVIOUS
  <2>5. Agree(g, k, Len(s))
    <3>1. \A i \in 1..Len(s) : i \in 1..Len(t) /\ t[i] = s[i]
      BY <2>2, <1>3
    <3> QED
      BY <3>1, <2>4 DEF LeadingSteps, Agree
  <2>6. \A v \in Int : k[Len(s) + 1][v] = 10 * v + DigitOf(c)
    <3>1. Len(s) + 1 \in 1..Len(t)
      BY <2>2, <1>3
    <3> QED
      BY <3>1, <2>2, <2>4, <1>3 DEF LeadingSteps
  <2>7. h[Len(s) + 1] = k[Len(s) + 1][f[Len(s)]] /\ f[Len(s)] \in Int
    BY <2>2, <2>3, <2>4, <2>5, <1>2, <1>3, OneMore
  <2> QED
    BY <2>1, <2>2, <2>3, <2>6, <2>7, <1>2
<1> QED
  BY <1>1, <1>4, <1>5

(* The digits of n, as Decimal finds them for every number up to n.        *)
IsDecimal(f, n) ==
  f = [m \in 0..n |->
         IF m < 10 THEN <<Digits[m + 1]>> ELSE Append(f[m \div 10], Digits[(m % 10) + 1])]

LEMMA DecimalSome ==
  ASSUME NEW n \in Nat
  PROVE  \E f : IsDecimal(f, n)
<1> DEFINE P == {m \in 0..n : \E f : IsDecimal(f, m)}
<1>1. 0 \in P
  <2>1. PICK f : f = [m \in 0..0 |-> <<Digits[m + 1]>>]
    OBVIOUS
  <2>2. f = [m \in 0..0 |->
           IF m < 10 THEN <<Digits[m + 1]>> ELSE Append(f[m \div 10], Digits[(m % 10) + 1])]
    <3>1. \A m \in 0..0 : m < 10
      OBVIOUS
    <3> QED
      BY <2>1, <3>1
  <2> QED
    BY <2>2 DEF IsDecimal
<1>2. ASSUME NEW i \in 1..n, i - 1 \in P PROVE i \in P
  <2>1. PICK f : IsDecimal(f, i - 1)
    BY <1>2
  <2>2. PICK h : h = [m \in 0..i |-> IF m < 10 THEN <<Digits[m + 1]>>
                                   ELSE Append(f[m \div 10], Digits[(m % 10) + 1])]
    OBVIOUS
  <2>3. \A m \in 0..i - 1 : h[m] = f[m]
    <3>1. \A m \in 0..i - 1 : m \in 0..i
      OBVIOUS
    <3> QED
      BY <3>1, <2>1, <2>2 DEF IsDecimal
  <2>4. \A m \in 0..i : m >= 10 => m \div 10 \in 0..i - 1
    OBVIOUS
  <2>5. \A m \in 0..i : m < 10 \/ m >= 10
    OBVIOUS
  <2>6. h = [m \in 0..i |-> IF m < 10 THEN <<Digits[m + 1]>>
                           ELSE Append(h[m \div 10], Digits[(m % 10) + 1])]
    BY <2>2, <2>3, <2>4, <2>5
  <2>7. IsDecimal(h, i)
    BY <2>6 DEF IsDecimal
  <2> QED
    BY <2>7
<1>3. \A i \in 1..n : i - 1 \in P => i \in P
  BY <1>2
<1>4. n \in P
  <2> HIDE DEF P
  <2>1. \A i \in 0..n : i \in P
    BY <1>1, <1>3, UpTo
  <2> QED
    BY <2>1
<1> QED
  BY <1>4

LEMMA DecimalRead ==
  ASSUME NEW n \in Nat
  PROVE  Decimal(n) \in Seq(Range(Digits)) /\ Decimal(n) # <<>> /\ Leading(Decimal(n)) = n
<1> DEFINE Def(f) == [m \in 0..n |-> IF m < 10 THEN <<Digits[m + 1]>>
                                    ELSE Append(f[m \div 10], Digits[(m % 10) + 1])]
<1>1. PICK h : h = CHOOSE x : x = Def(x)
  OBVIOUS
<1>2. h = Def(h)
  <2>1. \E x : x = Def(x)
    BY DecimalSome DEF IsDecimal
  <2> QED
    BY <2>1, <1>1
<1>3. \A m \in 0..n : h[m] = IF m < 10 THEN <<Digits[m + 1]>>
                            ELSE Append(h[m \div 10], Digits[(m % 10) + 1])
  <2>1. PICK d : d = Def(h)
    OBVIOUS
  <2>2. \A m \in 0..n : d[m] = IF m < 10 THEN <<Digits[m + 1]>>
                              ELSE Append(h[m \div 10], Digits[(m % 10) + 1])
    BY <2>1
  <2> QED
    BY <2>1, <2>2, <1>2
<1>4. Decimal(n) = h[n]
  BY <1>1 DEF Decimal
<1>5. PICK D : D = Range(Digits)
  OBVIOUS
<1> DEFINE Read(m) == h[m] \in Seq(D) /\ h[m] # <<>> /\ Leading(h[m]) = m
           T == {m \in 0..n : ~Read(m)}
<1>6. SUFFICES ASSUME T # {} PROVE FALSE
  BY <1>4, <1>5
<1>7. PICK m \in T : \A k \in T : m <= k
  <2>1. T \in SUBSET Nat
    OBVIOUS
  <2> HIDE DEF T
  <2> QED BY <2>1, <1>6, LeastNat
<1>8. m \in 0..n /\ ~Read(m)
  BY <1>7
<1>9. D \subseteq Range(Digits)
  BY <1>5
<1>10. CASE m < 10
  <2>1. PICK c : c = Digits[m + 1]
    OBVIOUS
  <2>2. m \in 0..9
    BY <1>8, <1>10
  <2>3. c \in D /\ DigitOf(c) = m
    BY <2>1, <2>2, <1>5, DigitOfType
  <2>4. h[m] = <<c>> /\ Append(<<>>, c) = <<c>> /\ <<>> \in Seq(D)
    <3>1. h[m] = <<c>>
      BY <2>1, <1>3, <1>8, <1>10
    <3>2. Append(<<>>, c) = <<c>>
      OBVIOUS
    <3> QED
      BY <3>1, <3>2
  <2>5. Leading(<<>>) = 0 /\ Leading(Append(<<>>, c)) = 10 * Leading(<<>>) + DigitOf(c)
    BY <2>3, <2>4, <1>9, LeadingUnfold
  <2>6. Leading(h[m]) = m
    BY <2>3, <2>4, <2>5, <2>2
  <2>7. h[m] \in Seq(D) /\ h[m] # <<>>
    BY <2>3, <2>4
  <2> QED
    BY <2>6, <2>7, <1>8
<1>11. CASE m >= 10
  <2>1. PICK q, r : q = m \div 10 /\ r = m % 10
    OBVIOUS
  <2>2. q \in 0..n /\ q < m /\ r \in 0..9 /\ 10 * q + r = m
    <3>1. m \in Nat
      BY <1>8
    <3>2. m \div 10 \in Nat /\ m % 10 \in 0..9 /\ m = 10 * (m \div 10) + (m % 10)
      BY <3>1
    <3>3. q \in Nat /\ r \in 0..9 /\ 10 * q + r = m
      BY <2>1, <3>2
    <3>4. q < m
      BY <3>1, <3>3, <1>11
    <3> QED
      BY <3>3, <3>4, <1>8
  <2>3. Read(q)
    <3>1. q \notin T
      <4>1. ~(m <= q)
        BY <2>2, <1>8
      <4> QED
        BY <4>1, <1>7
    <3> QED
      BY <3>1, <2>2
  <2>4. PICK c : c = Digits[r + 1]
    OBVIOUS
  <2>5. c \in D /\ DigitOf(c) = r
    BY <2>2, <2>4, <1>5, DigitOfType
  <2>6. h[m] = Append(h[q], c)
    <3>1. ~(m < 10)
      BY <1>8, <1>11
    <3> QED
      BY <3>1, <2>1, <2>4, <1>3, <1>8
  <2>7. Leading(Append(h[q], c)) = 10 * Leading(h[q]) + DigitOf(c)
    BY <2>3, <2>5, <1>9, LeadingUnfold
  <2>8. Leading(h[m]) = m
    BY <2>2, <2>3, <2>5, <2>6, <2>7
  <2>9. h[m] \in Seq(D) /\ h[m] # <<>>
    BY <2>3, <2>5, <2>6, AppendProperties
  <2> QED
    BY <2>8, <2>9, <1>8
<1> QED
  BY <1>8, <1>10, <1>11

(* Every integer that is written comes back as it was, a negative one      *)
(* too, and the strict reader takes it.                                    *)
THEOREM IntegersReadBack ==
  ASSUME NEW n \in Int
  PROVE  IntOf(IntText(n)) = n /\ IsInt(IntText(n))
<1>1. CASE n >= 0
  <2>1. PICK d : d = Decimal(n)
    OBVIOUS
  <2>2. d \in Seq(Range(Digits)) /\ d # <<>> /\ Leading(d) = n
    BY <2>1, <1>1, DecimalRead
  <2>3. IntText(n) = d
    BY <2>1, <1>1 DEF IntText
  <2>4. Head(d) # "-"
    <3>1. Head(d) \in Range(Digits)
      BY <2>2
    <3> QED
      BY <3>1, DigitOfType
  <2>5. Range(d) \subseteq Range(Digits)
    <3>1. \A i \in DOMAIN d : d[i] \in Range(Digits)
      BY <2>2
    <3>2. Range(d) = {d[i] : i \in DOMAIN d}
      BY DEF Range
    <3> QED
      BY <3>1, <3>2
  <2> QED
    BY <2>2, <2>3, <2>4, <2>5 DEF IntOf, IsInt
<1>2. CASE n < 0
  <2>1. PICK d, t : d = Decimal(-n) /\ t = <<"-">> \o d
    OBVIOUS
  <2>2. d \in Seq(Range(Digits)) /\ d # <<>> /\ Leading(d) = -n
    <3>1. -n \in Nat
      BY <1>2
    <3> QED
      BY <3>1, <2>1, DecimalRead
  <2>3. IntText(n) = t
    BY <2>1, <1>2 DEF IntText
  <2>4. t # <<>> /\ Head(t) = "-" /\ Tail(t) = d
    <3>1. PICK C, q : C = Range(Digits) \cup {"-"} /\ q = <<"-">>
      OBVIOUS
    <3>2. q \in Seq(C) /\ Len(q) = 1 /\ q[1] = "-" /\ d \in Seq(C) /\ Len(d) \in Nat
      <4>1. q \in Seq(C) /\ Len(q) = 1 /\ q[1] = "-"
        BY <3>1
      <4>2. d \in Seq(C) /\ Len(d) \in Nat
        <5>1. d = [i \in 1..Len(d) |-> d[i]] /\ Len(d) \in Nat /\ \A i \in 1..Len(d) : d[i] \in C
          BY <2>2, <3>1
        <5> QED
          BY <5>1, IsASeq
      <4> QED
        BY <4>1, <4>2
    <3>3. /\ t \in Seq(C) /\ Len(t) = Len(q) + Len(d)
          /\ \A i \in 1..Len(q) + Len(d) : t[i] = IF i <= Len(q) THEN q[i] ELSE d[i - Len(q)]
      BY <2>1, <3>1, <3>2, ConcatProperties
    <3>4. Len(t) = Len(d) + 1 /\ t # <<>> /\ Head(t) = t[1] /\ t[1] = "-"
      <4>1. Len(t) = Len(d) + 1
        BY <3>2, <3>3
      <4>2. t # <<>>
        BY <4>1, <3>2
      <4>3. t[1] = "-"
        BY <4>1, <3>2, <3>3
      <4> QED
        BY <4>1, <4>2, <4>3, <3>3
    <3>5. PICK u : u = Tail(t)
      OBVIOUS
    <3>6. u \in Seq(C) /\ Len(u) = Len(d) /\ \A i \in 1..Len(d) : u[i] = t[i + 1]
      BY <3>2, <3>3, <3>4, <3>5
    <3>7. ASSUME NEW i \in 1..Len(d) PROVE u[i] = d[i]
      <4>1. i + 1 \in 1..Len(q) + Len(d) /\ ~(i + 1 <= Len(q)) /\ i + 1 - Len(q) = i
        BY <3>2
      <4> QED
        BY <4>1, <3>3, <3>6
    <3>8. u = d
      BY <3>2, <3>6, <3>7, SeqEqual
    <3> QED
      BY <3>4, <3>5, <3>8
  <2>5. Range(d) \subseteq Range(Digits)
    <3>1. \A i \in DOMAIN d : d[i] \in Range(Digits)
      BY <2>2
    <3>2. Range(d) = {d[i] : i \in DOMAIN d}
      BY DEF Range
    <3> QED
      BY <3>1, <3>2
  <2>6. IntOf(t) = -Leading(d)
    BY <2>4 DEF IntOf
  <2>7. IsInt(t)
    BY <2>2, <2>4, <2>5 DEF IsInt
  <2> QED
    BY <2>2, <2>3, <2>6, <2>7
<1> QED
  BY <1>1, <1>2
-----------------------------------------------------------------------------
(* Lists: how far split_quoted has come with a text.                       *)

Cuttings(C) ==
  [parts : Seq({Trim(p) : p \in Seq(C)}), part : Seq(C), quoted : BOOLEAN, depth : Int]
Cut(parts, part, quoted, depth) ==
  [parts |-> parts, part |-> part, quoted |-> quoted, depth |-> depth]
Marks == {Quote, ",", "[", "]", "{", "}"}

LEMMA CutCharType ==
  ASSUME NEW C
  PROVE  NothingCut \in Cuttings(C) /\ \A r \in Cuttings(C), c \in C : CutChar(r, c) \in Cuttings(C)
<1>1. NothingCut \in Cuttings(C)
  BY DEF NothingCut, Cuttings
<1>2. ASSUME NEW r \in Cuttings(C), NEW c \in C PROVE CutChar(r, c) \in Cuttings(C)
  <2>1. PICK X : X = {Trim(p) : p \in Seq(C)}
    OBVIOUS
  <2>0. Cuttings(C) = [parts : Seq(X), part : Seq(C), quoted : BOOLEAN, depth : Int]
    BY <2>1 DEF Cuttings
  <2>2. r.parts \in Seq(X) /\ r.part \in Seq(C) /\ r.quoted \in BOOLEAN /\ r.depth \in Int
    BY <2>0
  <2>3. PICK a, b : a = Append(r.parts, Trim(r.part)) /\ b = Append(r.part, c)
    OBVIOUS
  <2>4. a \in Seq(X)
    <3>1. Trim(r.part) \in X
      BY <2>1, <2>2
    <3> QED
      BY <3>1, <2>2, <2>3, AppendProperties
  <2>5. b \in Seq(C)
    BY <2>2, <2>3, AppendProperties
  <2>6. CASE c = "," /\ ~r.quoted /\ r.depth = 0
    <3>1. CutChar(r, c) = [r EXCEPT !.parts = a, !.part = <<>>]
      BY <2>3, <2>6 DEF CutChar
    <3>2. PICK x : x = [r EXCEPT !.parts = a]
      OBVIOUS
    <3>3. x \in Cuttings(C) /\ [r EXCEPT !.parts = a, !.part = <<>>] = [x EXCEPT !.part = <<>>]
      BY <3>2, <2>0, <2>4
    <3>4. <<>> \in Seq(C)
      OBVIOUS
    <3>5. [x EXCEPT !.part = <<>>] \in Cuttings(C)
      <4>1. PICK e : e = <<>>
        OBVIOUS
      <4>2. e \in Seq(C) /\ x \in [parts : Seq(X), part : Seq(C), quoted : BOOLEAN, depth : Int]
        BY <4>1, <3>3, <3>4, <2>0
      <4>3. [x EXCEPT !.part = e] \in [parts : Seq(X), part : Seq(C), quoted : BOOLEAN, depth : Int]
        BY <4>2
      <4> QED
        BY <4>1, <4>3, <2>0
    <3> QED
      BY <3>1, <3>3, <3>5
  <2>7. CASE ~(c = "," /\ ~r.quoted /\ r.depth = 0)
    <3>1. PICK q, d : /\ q = (IF c = Quote THEN ~r.quoted ELSE r.quoted)
                      /\ d = (IF r.quoted THEN r.depth
                              ELSE IF c \in {"[", "{"} THEN r.depth + 1
                              ELSE IF c \in {"]", "}"} THEN r.depth - 1 ELSE r.depth)
      OBVIOUS
    <3>2. q \in BOOLEAN
      BY <3>1, <2>2
    <3>3. d \in Int
      <4>1. r.depth \in Int /\ r.depth + 1 \in Int /\ r.depth - 1 \in Int
        BY <2>2
      <4>2. d \in {r.depth, r.depth + 1, r.depth - 1}
        BY <3>1
      <4> QED
        BY <4>1, <4>2
    <3>4. CutChar(r, c) = [parts |-> r.parts, part |-> b, quoted |-> q, depth |-> d]
      BY <3>1, <2>3, <2>7 DEF CutChar
    <3> QED
      BY <3>2, <3>3, <3>4, <2>0, <2>2, <2>5
  <2> QED
    BY <2>6, <2>7
<1> QED
  BY <1>1, <1>2

CuttingSteps(C, s) == [i \in 1..Len(s) |-> [v \in Cuttings(C) |-> CutChar(v, s[i])]]

LEMMA CuttingIs ==
  ASSUME NEW C, NEW s \in Seq(C)
  PROVE  \E f : Computes(f, Cuttings(C), NothingCut, Len(s), CuttingSteps(C, s))
          /\ Cutting(s) = f[Len(s)]
<1> DEFINE Def(f) == [i \in 0..Len(s) |-> IF i = 0 THEN NothingCut ELSE CutChar(f[i - 1], s[i])]
<1>1. PICK g : g = CuttingSteps(C, s)
  OBVIOUS
<1>2. Len(s) \in Nat /\ NothingCut \in Cuttings(C)
        /\ \A i \in 1..Len(s) : \A v \in Cuttings(C) : CutChar(v, s[i]) \in Cuttings(C)
  BY CutCharType
<1>3. g \in [1..Len(s) -> [Cuttings(C) -> Cuttings(C)]]
  BY <1>1, <1>2 DEF CuttingSteps
<1>4. \A i \in 1..Len(s) : \A v \in Cuttings(C) : g[i][v] = CutChar(v, s[i])
  BY <1>1 DEF CuttingSteps
<1>5. PICK f : Computes(f, Cuttings(C), NothingCut, Len(s), g)
  BY <1>2, <1>3, Recursion
<1>6. f = Def(f)
  <2>1. f = [i \in 0..Len(s) |-> f[i]]
    BY <1>5 DEF Computes
  <2>2. f[0] = NothingCut /\ \A i \in 1..Len(s) : f[i] = CutChar(f[i - 1], s[i])
    <3>1. \A i \in 1..Len(s) : i - 1 \in 0..Len(s)
      BY <1>2
    <3> QED
      BY <3>1, <1>4, <1>5 DEF Computes
  <2>3. \A i \in 0..Len(s) : i = 0 \/ i \in 1..Len(s)
    BY <1>2
  <2> QED
    BY <2>1, <2>2, <2>3
<1>7. PICK h : h = CHOOSE x : x = Def(x)
  OBVIOUS
<1>8. h = Def(h)
  BY <1>6, <1>7
<1>9. h[0] = NothingCut /\ \A i \in 1..Len(s) : h[i] = CutChar(h[i - 1], s[i])
  <2>1. PICK d : d = Def(h)
    OBVIOUS
  <2>2. d[0] = NothingCut /\ \A i \in 1..Len(s) : d[i] = CutChar(h[i - 1], s[i])
    <3>1. 0 \in 0..Len(s) /\ \A i \in 1..Len(s) : i \in 0..Len(s) /\ i # 0
      BY <1>2
    <3> QED
      BY <3>1, <2>1
  <2> QED
    BY <2>1, <2>2, <1>8
<1>10. Obeys(h, Cuttings(C), NothingCut, Len(s), g)
  BY <1>4, <1>9 DEF Obeys
<1>11. h[Len(s)] = f[Len(s)]
  BY <1>2, <1>5, <1>10, Unique
<1>12. Cutting(s) = h[Len(s)]
  BY <1>7 DEF Cutting
<1> QED
  BY <1>1, <1>5, <1>11, <1>12

LEMMA CuttingUnfold ==
  ASSUME NEW C, NEW s \in Seq(C)
  PROVE  /\ Cutting(<<>>) = NothingCut
         /\ Cutting(s) \in Cuttings(C)
         /\ \A c \in C : Cutting(Append(s, c)) = CutChar(Cutting(s), c)
<1>1. Cutting(<<>>) = NothingCut
  <2>1. <<>> \in Seq(C) /\ Len(<<>>) = 0
    OBVIOUS
  <2> QED
    BY <2>1, CuttingIs DEF Computes
<1>2. PICK f : Computes(f, Cuttings(C), NothingCut, Len(s), CuttingSteps(C, s))
        /\ Cutting(s) = f[Len(s)]
  BY CuttingIs
<1>3. Len(s) \in Nat
  OBVIOUS
<1>4. Cutting(s) \in Cuttings(C)
  BY <1>2, <1>3 DEF Computes
<1>5. ASSUME NEW c \in C PROVE Cutting(Append(s, c)) = CutChar(Cutting(s), c)
  <2>1. PICK t : t = Append(s, c)
    OBVIOUS
  <2>2. t \in Seq(C) /\ Len(t) = Len(s) + 1 /\ t[Len(s) + 1] = c /\ \A i \in 1..Len(s) : t[i] = s[i]
    BY <2>1, AppendProperties
  <2>3. PICK h : Computes(h, Cuttings(C), NothingCut, Len(t), CuttingSteps(C, t))
          /\ Cutting(t) = h[Len(t)]
    BY <2>2, CuttingIs
  <2>4. PICK g, k : g = CuttingSteps(C, s) /\ k = CuttingSteps(C, t)
    OBVIOUS
  <2>5. Agree(g, k, Len(s))
    <3>1. \A i \in 1..Len(s) : i \in 1..Len(t) /\ t[i] = s[i]
      BY <2>2, <1>3
    <3> QED
      BY <3>1, <2>4 DEF CuttingSteps, Agree
  <2>6. \A v \in Cuttings(C) : k[Len(s) + 1][v] = CutChar(v, c)
    <3>1. Len(s) + 1 \in 1..Len(t)
      BY <2>2, <1>3
    <3> QED
      BY <3>1, <2>2, <2>4, <1>3 DEF CuttingSteps
  <2>7. h[Len(s) + 1] = k[Len(s) + 1][f[Len(s)]] /\ f[Len(s)] \in Cuttings(C)
    BY <2>2, <2>3, <2>4, <2>5, <1>2, <1>3, OneMore
  <2> QED
    BY <2>1, <2>2, <2>3, <2>6, <2>7, <1>2
<1> QED
  BY <1>1, <1>4, <1>5

Comma == ","
Texts(C) == Seq(C)
Between(i) == IF i > 1 THEN <<",">> ELSE <<>>

LEMMA WithCommasType ==
  ASSUME NEW C, Comma \in C, NEW s \in Seq(Texts(C))
  PROVE  /\ <<>> \in Texts(C)
         /\ \A i \in 1..Len(s) : \A v \in Texts(C) :
              v \o Between(i) \o s[i] \in Texts(C)
<1>0. <<>> \in Texts(C)
  BY EmptySeq DEF Texts
<1> SUFFICES ASSUME NEW i \in 1..Len(s), NEW v \in Texts(C)
             PROVE  v \o Between(i) \o s[i] \in Texts(C)
  BY <1>0
<1>1. PICK m : m = Between(i)
  OBVIOUS
<1>2. m \in Seq(C) /\ s[i] \in Seq(C) /\ v \in Seq(C)
  <2>1. m \in Seq(C)
    <3>1. m = (IF i > 1 THEN <<Comma>> ELSE <<>>)
      BY <1>1 DEF Comma, Between
    <3>2. <<Comma>> \in Seq(C) /\ <<>> \in Seq(C)
      OBVIOUS
    <3> QED
      BY <3>1, <3>2
  <2>2. s[i] \in Texts(C)
    OBVIOUS
  <2> QED
    BY <2>1, <2>2 DEF Texts
<1>3. v \o m \in Seq(C)
  BY <1>2, ConcatProperties
<1>4. (v \o m) \o s[i] \in Texts(C)
  BY <1>2, <1>3, ConcatProperties DEF Texts
<1> QED
  BY <1>1, <1>4

WithCommasSteps(C, s) == [i \in 1..Len(s) |-> [v \in Texts(C) |-> v \o Between(i) \o s[i]]]

LEMMA WithCommasIs ==
  ASSUME NEW C, Comma \in C, NEW s \in Seq(Texts(C))
  PROVE  \E f : Computes(f, Texts(C), <<>>, Len(s), WithCommasSteps(C, s))
          /\ WithCommas(s) = f[Len(s)]
<1> DEFINE Def(f) == [i \in 0..Len(s) |-> IF i = 0 THEN <<>> ELSE f[i - 1] \o Between(i) \o s[i]]
<1>1. PICK g : g = WithCommasSteps(C, s)
  OBVIOUS
<1>2. Len(s) \in Nat /\ <<>> \in Texts(C)
        /\ \A i \in 1..Len(s) : \A v \in Texts(C) : v \o Between(i) \o s[i] \in Texts(C)
  BY WithCommasType
<1>3. g \in [1..Len(s) -> [Texts(C) -> Texts(C)]]
  BY <1>1, <1>2 DEF WithCommasSteps
<1>4. \A i \in 1..Len(s) : \A v \in Texts(C) : g[i][v] = v \o Between(i) \o s[i]
  BY <1>1 DEF WithCommasSteps
<1>5. PICK f : Computes(f, Texts(C), <<>>, Len(s), g)
  BY <1>2, <1>3, Recursion
<1>6. f = Def(f)
  <2>1. f = [i \in 0..Len(s) |-> f[i]]
    BY <1>5 DEF Computes
  <2>2. f[0] = <<>> /\ \A i \in 1..Len(s) : f[i] = f[i - 1] \o Between(i) \o s[i]
    <3>1. \A i \in 1..Len(s) : i - 1 \in 0..Len(s)
      BY <1>2
    <3> QED
      BY <3>1, <1>4, <1>5 DEF Computes
  <2>3. \A i \in 0..Len(s) : i = 0 \/ i \in 1..Len(s)
    BY <1>2
  <2> QED
    BY <2>1, <2>2, <2>3
<1>7. PICK h : h = CHOOSE x : x = Def(x)
  OBVIOUS
<1>8. h = Def(h)
  BY <1>6, <1>7
<1>9. h[0] = <<>> /\ \A i \in 1..Len(s) : h[i] = h[i - 1] \o Between(i) \o s[i]
  <2>1. PICK d : d = Def(h)
    OBVIOUS
  <2>2. d[0] = <<>> /\ \A i \in 1..Len(s) : d[i] = h[i - 1] \o Between(i) \o s[i]
    <3>1. 0 \in 0..Len(s) /\ \A i \in 1..Len(s) : i \in 0..Len(s) /\ i # 0
      BY <1>2
    <3> QED
      BY <3>1, <2>1
  <2> QED
    BY <2>1, <2>2, <1>8
<1>10. Obeys(h, Texts(C), <<>>, Len(s), g)
  BY <1>4, <1>9 DEF Obeys
<1>11. h[Len(s)] = f[Len(s)]
  BY <1>2, <1>5, <1>10, Unique
<1>12. WithCommas(s) = h[Len(s)]
  BY <1>7 DEF WithCommas, Between
<1> QED
  BY <1>1, <1>5, <1>11, <1>12

LEMMA WithCommasUnfold ==
  ASSUME NEW C, Comma \in C, NEW s \in Seq(Texts(C))
  PROVE  /\ WithCommas(<<>>) = <<>>
         /\ WithCommas(s) \in Texts(C)
         /\ \A c \in Texts(C) : WithCommas(Append(s, c)) = WithCommas(s) \o Between(Len(s) + 1) \o c
<1>1. WithCommas(<<>>) = <<>>
  <2>1. <<>> \in Seq(Texts(C)) /\ Len(<<>>) = 0
    OBVIOUS
  <2> QED
    BY <2>1, WithCommasIs DEF Computes
<1>2. PICK f : Computes(f, Texts(C), <<>>, Len(s), WithCommasSteps(C, s))
        /\ WithCommas(s) = f[Len(s)]
  BY WithCommasIs
<1>3. Len(s) \in Nat
  OBVIOUS
<1>4. WithCommas(s) \in Texts(C)
  BY <1>2, <1>3 DEF Computes
<1>5. ASSUME NEW c \in Texts(C)
      PROVE  WithCommas(Append(s, c)) = WithCommas(s) \o Between(Len(s) + 1) \o c
  <2>1. PICK t : t = Append(s, c)
    OBVIOUS
  <2>2. t \in Seq(Texts(C)) /\ Len(t) = Len(s) + 1 /\ t[Len(s) + 1] = c
          /\ \A i \in 1..Len(s) : t[i] = s[i]
    BY <2>1, AppendProperties
  <2>3. PICK h : Computes(h, Texts(C), <<>>, Len(t), WithCommasSteps(C, t))
          /\ WithCommas(t) = h[Len(t)]
    BY <2>2, WithCommasIs
  <2>4. PICK g, k : g = WithCommasSteps(C, s) /\ k = WithCommasSteps(C, t)
    OBVIOUS
  <2>5. Agree(g, k, Len(s))
    <3>1. \A i \in 1..Len(s) : i \in 1..Len(t) /\ t[i] = s[i]
      BY <2>2, <1>3
    <3> QED
      BY <3>1, <2>4 DEF WithCommasSteps, Agree
  <2>6. \A v \in Texts(C) : k[Len(s) + 1][v] = v \o Between(Len(s) + 1) \o c
    <3>1. Len(s) + 1 \in 1..Len(t)
      BY <2>2, <1>3
    <3> QED
      BY <3>1, <2>2, <2>4, <1>3 DEF WithCommasSteps
  <2>7. h[Len(s) + 1] = k[Len(s) + 1][f[Len(s)]] /\ f[Len(s)] \in Texts(C)
    BY <2>2, <2>3, <2>4, <2>5, <1>2, <1>3, OneMore
  <2> QED
    BY <2>1, <2>2, <2>3, <2>6, <2>7, <1>2
<1> QED
  BY <1>1, <1>4, <1>5
(* Reading x after any text that leaves split_quoted at <<q, d>>, in       *)
(* quotes or not and so many brackets deep, adds it to the part begun,     *)
(* cuts nowhere, and leaves split_quoted at <<q2, d2>>.                    *)
Goes(C, q, d, x, q2, d2) ==
  /\ x \in Seq(C)
  /\ \A w \in Seq(C) :
       (Cutting(w).quoted = q /\ Cutting(w).depth = d)
         => Cutting(w \o x) = Cut(Cutting(w).parts, Cutting(w).part \o x, q2, d2)
CharGoes(c, q, d, q2, d2) == \A p, t : CutChar(Cut(p, t, q, d), c) = Cut(p, Append(t, c), q2, d2)

LEMMA CuttingFields ==
  ASSUME NEW C, NEW w \in Seq(C)
  PROVE  /\ Cutting(w) = Cut(Cutting(w).parts, Cutting(w).part, Cutting(w).quoted, Cutting(w).depth)
         /\ Cutting(w).part \in Seq(C) /\ Cutting(w).quoted \in BOOLEAN /\ Cutting(w).depth \in Int
<1>1. Cutting(w) \in Cuttings(C)
  BY CuttingUnfold
<1>2. PICK X : X = {Trim(p) : p \in Seq(C)}
  OBVIOUS
<1>3. Cutting(w) \in [parts : Seq(X), part : Seq(C), quoted : BOOLEAN, depth : Int]
  BY <1>1, <1>2 DEF Cuttings
<1> QED
  BY <1>3 DEF Cut

LEMMA GoesOn ==
  ASSUME NEW C, NEW q, NEW d, NEW x, NEW q1, NEW d1, NEW y, NEW q2, NEW d2,
         Goes(C, q, d, x, q1, d1), Goes(C, q1, d1, y, q2, d2)
  PROVE  Goes(C, q, d, x \o y, q2, d2)
<1>1. x \in Seq(C) /\ y \in Seq(C)
  BY DEF Goes
<1>2. x \o y \in Seq(C)
  BY <1>1, ConcatProperties
<1>3. ASSUME NEW w \in Seq(C), Cutting(w).quoted = q, Cutting(w).depth = d
      PROVE  Cutting(w \o (x \o y)) = Cut(Cutting(w).parts, Cutting(w).part \o (x \o y), q2, d2)
  <2>1. PICK v, p, t : v = w \o x /\ p = Cutting(w).parts /\ t = Cutting(w).part
    OBVIOUS
  <2>2. t \in Seq(C)
    BY <2>1, CuttingFields
  <2>3. v \in Seq(C)
    BY <2>1, <1>1, ConcatProperties
  <2>4. Cutting(v) = Cut(p, t \o x, q1, d1)
    BY <2>1, <1>3 DEF Goes
  <2>5. Cutting(v).parts = p /\ Cutting(v).part = t \o x /\ Cutting(v).quoted = q1
          /\ Cutting(v).depth = d1
    BY <2>4 DEF Cut
  <2>6. Cutting(v \o y) = Cut(p, (t \o x) \o y, q2, d2)
    BY <2>3, <2>5 DEF Goes
  <2>7. v \o y = w \o (x \o y)
    BY <2>1, <1>1, ConcatAssociative
  <2>8. (t \o x) \o y = t \o (x \o y)
    BY <2>2, <1>1, ConcatAssociative
  <2> QED
    BY <2>1, <2>6, <2>7, <2>8
<1> QED
  BY <1>2, <1>3 DEF Goes

LEMMA GoesNowhere ==
  ASSUME NEW C, NEW q, NEW d
  PROVE  Goes(C, q, d, <<>>, q, d)
<1>1. ASSUME NEW w \in Seq(C), Cutting(w).quoted = q, Cutting(w).depth = d
      PROVE  Cutting(w \o <<>>) = Cut(Cutting(w).parts, Cutting(w).part \o <<>>, q, d)
  <2>1. PICK t : t = Cutting(w).part
    OBVIOUS
  <2>2. t \in Seq(C)
    BY <2>1, CuttingFields
  <2>3. w \o <<>> = w /\ t \o <<>> = t
    BY <2>2, ConcatEmptySeq
  <2>4. Cutting(w) = Cut(Cutting(w).parts, t, q, d)
    BY <2>1, <1>1, CuttingFields
  <2> QED
    BY <2>1, <2>3, <2>4
<1>2. <<>> \in Seq(C)
  OBVIOUS
<1> QED
  BY <1>1, <1>2 DEF Goes

LEMMA GoesChar ==
  ASSUME NEW C, NEW c \in C, NEW q, NEW d, NEW q2, NEW d2, CharGoes(c, q, d, q2, d2)
  PROVE  Goes(C, q, d, <<c>>, q2, d2)
<1>1. ASSUME NEW w \in Seq(C), Cutting(w).quoted = q, Cutting(w).depth = d
      PROVE  Cutting(w \o <<c>>) = Cut(Cutting(w).parts, Cutting(w).part \o <<c>>, q2, d2)
  <2>1. PICK p, t : p = Cutting(w).parts /\ t = Cutting(w).part
    OBVIOUS
  <2>2. t \in Seq(C)
    BY <2>1, CuttingFields
  <2>3. w \o <<c>> = Append(w, c) /\ t \o <<c>> = Append(t, c)
    BY <2>2, AppendIsConcat
  <2>4. Cutting(w) = Cut(p, t, q, d)
    BY <2>1, <1>1, CuttingFields
  <2>5. Cutting(Append(w, c)) = CutChar(Cutting(w), c)
    BY CuttingUnfold
  <2>6. CutChar(Cut(p, t, q, d), c) = Cut(p, Append(t, c), q2, d2)
    BY DEF CharGoes
  <2> QED
    BY <2>1, <2>3, <2>4, <2>5, <2>6
<1>2. <<c>> \in Seq(C)
  OBVIOUS
<1> QED
  BY <1>1, <1>2 DEF Goes

LEMMA GoesThrough ==
  ASSUME NEW C, NEW D \in SUBSET C, NEW q, NEW d, \A c \in D : CharGoes(c, q, d, q, d)
  PROVE  \A x \in Seq(D) : Goes(C, q, d, x, q, d)
<1> DEFINE P == {x \in Seq(D) : Goes(C, q, d, x, q, d)}
<1>1. <<>> \in P
  <2>1. <<>> \in Seq(D)
    OBVIOUS
  <2> QED
    BY <2>1, GoesNowhere
<1>2. ASSUME NEW x \in Seq(D), NEW c \in D, x \in P PROVE Append(x, c) \in P
  <2>1. Goes(C, q, d, x, q, d)
    BY <1>2
  <2>2. c \in C /\ CharGoes(c, q, d, q, d)
    OBVIOUS
  <2>3. Goes(C, q, d, <<c>>, q, d)
    BY <2>2, GoesChar
  <2>4. Goes(C, q, d, x \o <<c>>, q, d)
    BY <2>1, <2>3, GoesOn
  <2>5. Append(x, c) = x \o <<c>> /\ Append(x, c) \in Seq(D)
    BY AppendIsConcat, AppendProperties
  <2> QED
    BY <2>4, <2>5
<1>3. \A x \in Seq(D) : \A c \in D : x \in P => Append(x, c) \in P
  BY <1>2
<1>4. \A x \in Seq(D) : x \in P
  <2> HIDE DEF P
  <2> QED BY <1>1, <1>3, Grow
<1> QED
  BY <1>4

(* What a character does to the quotes and to the brackets. *)
InQuotes(c, q) == IF c = Quote THEN ~q ELSE q
InBrackets(c, q, d) ==
  IF q THEN d ELSE IF c \in {"[", "{"} THEN d + 1 ELSE IF c \in {"]", "}"} THEN d - 1 ELSE d

LEMMA CharGoesIs ==
  ASSUME NEW q \in BOOLEAN, NEW d \in Int, NEW c, ~(c = "," /\ ~q /\ d = 0)
  PROVE  CharGoes(c, q, d, InQuotes(c, q), InBrackets(c, q, d))
<1>1. ASSUME NEW p, NEW t
      PROVE  CutChar(Cut(p, t, q, d), c) = Cut(p, Append(t, c), InQuotes(c, q), InBrackets(c, q, d))
  <2>1. PICK r : r = Cut(p, t, q, d)
    OBVIOUS
  <2>2. r.parts = p /\ r.part = t /\ r.quoted = q /\ r.depth = d
    BY <2>1 DEF Cut
  <2>3. CutChar(r, c) = Cut(p, Append(t, c), InQuotes(c, q), InBrackets(c, q, d))
    BY <2>2 DEF CutChar, Cut, InQuotes, InBrackets
  <2> QED
    BY <2>1, <2>3
<1> QED
  BY <1>1 DEF CharGoes

LEMMA QuoteGoes ==
  ASSUME NEW d \in Int
  PROVE  CharGoes(Quote, FALSE, d, TRUE, d) /\ CharGoes(Quote, TRUE, d, FALSE, d)
<1>1. Quote # "," /\ \A q : InBrackets(Quote, q, d) = d
  BY DEF Quote, InBrackets
<1>2. InQuotes(Quote, FALSE) = TRUE /\ InQuotes(Quote, TRUE) = FALSE
  BY DEF InQuotes
<1>3. CharGoes(Quote, FALSE, d, InQuotes(Quote, FALSE), InBrackets(Quote, FALSE, d))
  BY <1>1, CharGoesIs
<1>4. CharGoes(Quote, TRUE, d, InQuotes(Quote, TRUE), InBrackets(Quote, TRUE, d))
  BY <1>1, CharGoesIs
<1> QED
  BY <1>1, <1>2, <1>3, <1>4

LEMMA CommaGoes ==
  ASSUME NEW d \in Int, d # 0
  PROVE  CharGoes(Comma, FALSE, d, FALSE, d)
<1>1. InQuotes(Comma, FALSE) = FALSE /\ InBrackets(Comma, FALSE, d) = d
  BY DEF InQuotes, InBrackets, Comma, Quote
<1>2. CharGoes(Comma, FALSE, d, InQuotes(Comma, FALSE), InBrackets(Comma, FALSE, d))
  BY <1>1, CharGoesIs
<1> QED
  BY <1>1, <1>2

LEMMA QuotedGoes ==
  ASSUME NEW d \in Int, NEW c, c # Quote
  PROVE  CharGoes(c, TRUE, d, TRUE, d)
<1>1. InQuotes(c, TRUE) = TRUE /\ InBrackets(c, TRUE, d) = d
  BY DEF InQuotes, InBrackets
<1>2. CharGoes(c, TRUE, d, InQuotes(c, TRUE), InBrackets(c, TRUE, d))
  BY <1>1, CharGoesIs
<1> QED
  BY <1>1, <1>2

LEMMA PlainGoes ==
  ASSUME NEW d \in Int, NEW c, c \notin Marks
  PROVE  CharGoes(c, FALSE, d, FALSE, d)
<1>1. c # "," /\ InQuotes(c, FALSE) = FALSE /\ InBrackets(c, FALSE, d) = d
  BY DEF InQuotes, InBrackets, Marks
<1>2. CharGoes(c, FALSE, d, InQuotes(c, FALSE), InBrackets(c, FALSE, d))
  BY <1>1, CharGoesIs
<1> QED
  BY <1>1, <1>2

LEMMA OpenGoes ==
  ASSUME NEW d \in Int, NEW c, c \in {"[", "{"}
  PROVE  CharGoes(c, FALSE, d, FALSE, d + 1)
<1>1. c # "," /\ InQuotes(c, FALSE) = FALSE /\ InBrackets(c, FALSE, d) = d + 1
  BY DEF InQuotes, InBrackets, Quote
<1>2. CharGoes(c, FALSE, d, InQuotes(c, FALSE), InBrackets(c, FALSE, d))
  BY <1>1, CharGoesIs
<1> QED
  BY <1>1, <1>2

LEMMA CloseGoes ==
  ASSUME NEW d \in Int, NEW c, c \in {"]", "}"}
  PROVE  CharGoes(c, FALSE, d, FALSE, d - 1)
<1>1. c # "," /\ InQuotes(c, FALSE) = FALSE /\ InBrackets(c, FALSE, d) = d - 1
  BY DEF InQuotes, InBrackets, Quote
<1>2. CharGoes(c, FALSE, d, InQuotes(c, FALSE), InBrackets(c, FALSE, d))
  BY <1>1, CharGoesIs
<1> QED
  BY <1>1, <1>2

LEMMA ChangePart ==
  ASSUME NEW x, NEW p, NEW t, NEW q, NEW d, NEW u, x = Cut(p, t, q, d)
  PROVE  [x EXCEPT !.part = u] = Cut(p, u, q, d)
BY DEF Cut

LEMMA CommaCuts ==
  ASSUME NEW p, NEW t
  PROVE  CutChar(Cut(p, t, FALSE, 0), Comma) = Cut(Append(p, Trim(t)), <<>>, FALSE, 0)
<1>1. PICK r, a, x : /\ r = Cut(p, t, FALSE, 0) /\ a = Append(p, Trim(t))
                     /\ x = [r EXCEPT !.parts = a]
  OBVIOUS
<1>2. r.parts = p /\ r.part = t /\ r.quoted = FALSE /\ r.depth = 0
  BY <1>1 DEF Cut
<1>3. x = Cut(a, t, FALSE, 0)
  BY <1>1 DEF Cut
<1>4. [x EXCEPT !.part = <<>>] = Cut(a, <<>>, FALSE, 0)
  <2>1. PICK e, q, d : e = <<>> /\ q = FALSE /\ d = 0
    OBVIOUS
  <2>2. x = Cut(a, t, q, d)
    BY <2>1, <1>3
  <2>3. [x EXCEPT !.part = e] = Cut(a, e, q, d)
    BY <2>2, ChangePart
  <2> QED
    BY <2>1, <2>3
<1>5. [r EXCEPT !.parts = a, !.part = <<>>] = [x EXCEPT !.part = <<>>]
  BY <1>1
<1>6. CutChar(r, Comma) = [r EXCEPT !.parts = a, !.part = <<>>]
  BY <1>1, <1>2 DEF CutChar, Comma
<1> QED
  BY <1>1, <1>4, <1>5, <1>6

(* A text that is never cut, at any depth of brackets: read outside        *)
(* quotes, it leaves split_quoted as it was.                               *)
Carried(C) == {x \in Seq(C) : \A d \in Nat : Goes(C, FALSE, d, x, FALSE, d)}
(* One that Trim leaves alone as well. *)
Tidy(C) == {x \in Carried(C) : x # <<>> /\ x[1] \notin Blanks /\ x[Len(x)] \notin Blanks}

LEMMA CarriedOn ==
  ASSUME NEW C, NEW x \in Carried(C), NEW y \in Carried(C)
  PROVE  x \o y \in Carried(C)
<1>1. x \in Seq(C) /\ y \in Seq(C)
  BY DEF Carried
<1>2. x \o y \in Seq(C)
  BY <1>1, ConcatProperties
<1>3. ASSUME NEW d \in Nat PROVE Goes(C, FALSE, d, x \o y, FALSE, d)
  <2>1. Goes(C, FALSE, d, x, FALSE, d) /\ Goes(C, FALSE, d, y, FALSE, d)
    BY DEF Carried
  <2> QED
    BY <2>1, GoesOn
<1> QED
  BY <1>2, <1>3 DEF Carried

LEMMA PlainCarried ==
  ASSUME NEW C, NEW x \in Seq(C \ Marks)
  PROVE  x \in Carried(C)
<1>1. PICK D : D = C \ Marks
  OBVIOUS
<1>2. D \in SUBSET C /\ \A c \in D : c \notin Marks
  BY <1>1
<1>3. ASSUME NEW d \in Nat PROVE Goes(C, FALSE, d, x, FALSE, d)
  <2>1. ASSUME NEW c \in D PROVE CharGoes(c, FALSE, d, FALSE, d)
    <3>1. c \notin Marks /\ d \in Int
      BY <1>2
    <3> QED
      BY <3>1, PlainGoes
  <2> QED
    BY <2>1, <1>1, <1>2, GoesThrough
<1>4. x \in Seq(C)
  BY <1>3 DEF Goes
<1> QED
  BY <1>3, <1>4 DEF Carried

LEMMA QuoteGoesText ==
  ASSUME NEW C, Quote \in C, NEW d \in Nat
  PROVE  Goes(C, FALSE, d, <<Quote>>, TRUE, d) /\ Goes(C, TRUE, d, <<Quote>>, FALSE, d)
<1>1. CharGoes(Quote, FALSE, d, TRUE, d) /\ CharGoes(Quote, TRUE, d, FALSE, d)
  <2>1. d \in Int
    OBVIOUS
  <2> QED
    BY <2>1, QuoteGoes
<1>3. Goes(C, FALSE, d, <<Quote>>, TRUE, d)
  BY <1>1, GoesChar
<1>4. Goes(C, TRUE, d, <<Quote>>, FALSE, d)
  BY <1>1, GoesChar
<1> QED
  BY <1>3, <1>4

LEMMA InQuotesGoes ==
  ASSUME NEW C, NEW x \in Seq(C \ {Quote}), NEW d \in Nat
  PROVE  Goes(C, TRUE, d, x, TRUE, d)
<1>1. PICK D : D = C \ {Quote}
  OBVIOUS
<1>2. D \in SUBSET C /\ \A c \in D : c # Quote
  BY <1>1
<1>3. ASSUME NEW c \in D PROVE CharGoes(c, TRUE, d, TRUE, d)
  <2>1. c # Quote /\ d \in Int
    BY <1>2
  <2> QED
    BY <2>1, QuotedGoes
<1> QED
  BY <1>1, <1>2, <1>3, GoesThrough

LEMMA QuotedCarried ==
  ASSUME NEW C, Quote \in C, NEW x \in Seq(C \ {Quote})
  PROVE  Quoted(x) \in Carried(C)
<1>1. ASSUME NEW d \in Nat PROVE Goes(C, FALSE, d, Quoted(x), FALSE, d)
  <2>1. Goes(C, FALSE, d, <<Quote>>, TRUE, d) /\ Goes(C, TRUE, d, <<Quote>>, FALSE, d)
    BY QuoteGoesText
  <2>2. Goes(C, TRUE, d, x, TRUE, d)
    BY InQuotesGoes
  <2>3. Goes(C, FALSE, d, <<Quote>> \o x, TRUE, d)
    BY <2>1, <2>2, GoesOn
  <2>4. Goes(C, FALSE, d, (<<Quote>> \o x) \o <<Quote>>, FALSE, d)
    <3>1. PICK y : y = <<Quote>> \o x
      OBVIOUS
    <3> QED
      BY <3>1, <2>1, <2>3, GoesOn
  <2> QED
    BY <2>4 DEF Quoted
<1>2. Quoted(x) \in Seq(C)
  BY <1>1 DEF Goes
<1> QED
  BY <1>1, <1>2 DEF Carried

LEMMA ThriceGoes ==
  ASSUME NEW C, Quote \in C, NEW d \in Nat
  PROVE  Goes(C, FALSE, d, Thrice, TRUE, d) /\ Goes(C, TRUE, d, Thrice, FALSE, d)
<1>1. PICK a, b : a = <<Quote>> /\ b = a \o a
  OBVIOUS
<1>2. Goes(C, FALSE, d, a, TRUE, d) /\ Goes(C, TRUE, d, a, FALSE, d)
  BY <1>1, QuoteGoesText
<1>3. Goes(C, FALSE, d, b, FALSE, d) /\ Goes(C, TRUE, d, b, TRUE, d)
  <2>1. Goes(C, FALSE, d, a \o a, FALSE, d)
    BY <1>2, GoesOn
  <2>2. Goes(C, TRUE, d, a \o a, TRUE, d)
    BY <1>2, GoesOn
  <2> QED
    BY <2>1, <2>2, <1>1
<1>4. Goes(C, FALSE, d, b \o a, TRUE, d)
  BY <1>2, <1>3, GoesOn
<1>5. Goes(C, TRUE, d, b \o a, FALSE, d)
  BY <1>2, <1>3, GoesOn
<1>6. b \o a = Thrice
  <2>1. a \in Seq(C) /\ Len(a) = 1 /\ a[1] = Quote
    BY <1>1
  <2>2. b \in Seq(C) /\ Len(b) = 2 /\ b[1] = Quote /\ b[2] = Quote
    <3>1. /\ b \in Seq(C) /\ Len(b) = Len(a) + Len(a)
          /\ \A i \in 1..Len(a) + Len(a) : b[i] = IF i <= Len(a) THEN a[i] ELSE a[i - Len(a)]
      BY <2>1, <1>1, ConcatProperties
    <3> QED
      BY <3>1, <2>1
  <2>3. PICK t : t = b \o a
    OBVIOUS
  <2>4. t \in Seq(C) /\ Len(t) = 3 /\ t[1] = Quote /\ t[2] = Quote /\ t[3] = Quote
    <3>1. /\ t \in Seq(C) /\ Len(t) = Len(b) + Len(a)
          /\ \A i \in 1..Len(b) + Len(a) : t[i] = IF i <= Len(b) THEN b[i] ELSE a[i - Len(b)]
      BY <2>1, <2>2, <2>3, ConcatProperties
    <3> QED
      BY <3>1, <2>1, <2>2
  <2>5. PICK q : q = Thrice
    OBVIOUS
  <2>6. q \in Seq(C) /\ Len(q) = 3 /\ q[1] = Quote /\ q[2] = Quote /\ q[3] = Quote
    BY <2>5 DEF Thrice
  <2>7. \A i \in 1..3 : t[i] = q[i]
    BY <2>4, <2>6
  <2>8. t = q
    BY <2>4, <2>6, <2>7, SeqEqual
  <2> QED
    BY <2>3, <2>5, <2>8
<1> QED
  BY <1>4, <1>5, <1>6

LEMMA RawCarried ==
  ASSUME NEW C, Quote \in C, NEW x \in Seq(C \ {Quote})
  PROVE  RawText(x) \in Carried(C)
<1>1. ASSUME NEW d \in Nat PROVE Goes(C, FALSE, d, RawText(x), FALSE, d)
  <2>1. Goes(C, FALSE, d, Thrice, TRUE, d) /\ Goes(C, TRUE, d, Thrice, FALSE, d)
    BY ThriceGoes
  <2>2. Goes(C, TRUE, d, x, TRUE, d)
    BY InQuotesGoes
  <2>3. PICK y : y = Thrice \o x
    OBVIOUS
  <2>4. Goes(C, FALSE, d, y, TRUE, d)
    BY <2>1, <2>2, <2>3, GoesOn
  <2>5. Goes(C, FALSE, d, y \o Thrice, FALSE, d)
    BY <2>1, <2>4, GoesOn
  <2> QED
    BY <2>3, <2>5 DEF RawText
<1>2. RawText(x) \in Seq(C)
  BY <1>1 DEF Goes
<1> QED
  BY <1>1, <1>2 DEF Carried

LEMMA EscapeWithoutQuote ==
  ASSUME NEW C, Special \subseteq C
  PROVE  \A s \in Seq(C \ {Quote}) : Escape(s) \in Seq(C \ {Quote})
<1>1. PICK D : D = C \ {Quote}
  OBVIOUS
<1>2. \A c \in D : c \in C /\ c # Quote
  BY <1>1
<1>3. Escaping \in D /\ "n" \in D /\ "t" \in D
  BY <1>1 DEF Special, Quote, Escaping
<1>4. ASSUME NEW c \in D PROVE EscapeChar(c) \in Seq(D)
  <2>1. CASE c \in DOMAIN EscapeOf
    <3>1. PICK e, b : e = EscapeOf[c] /\ b = Escaping
      OBVIOUS
    <3>2. e \in {"n", "t", Escaping}
      BY <3>1, <2>1, <1>2, EscapesOf
    <3>3. e \in D /\ b \in D
      BY <3>1, <3>2, <1>3
    <3>4. <<b, e>> \in Seq(D)
      BY <3>3
    <3> QED
      BY <3>1, <3>4, <2>1 DEF EscapeChar
  <2>2. CASE c \notin DOMAIN EscapeOf
    <3>1. <<c>> \in Seq(D)
      OBVIOUS
    <3> QED
      BY <3>1, <2>2 DEF EscapeChar
  <2> QED
    BY <2>1, <2>2
<1> DEFINE P == {s \in Seq(D) : Escape(s) \in Seq(D)}
<1>5. <<>> \in P
  <2>1. <<>> \in Seq(C) /\ <<>> \in Seq(D)
    OBVIOUS
  <2> QED
    BY <2>1, EscapeUnfold
<1>6. ASSUME NEW s \in Seq(D), NEW c \in D, s \in P PROVE Append(s, c) \in P
  <2>1. s \in Seq(C) /\ c \in C
    <3>1. D \subseteq C
      BY <1>1
    <3> QED
      BY <3>1, SeqMonotonic
  <2>2. Escape(Append(s, c)) = Escape(s) \o EscapeChar(c)
    BY <2>1, EscapeUnfold
  <2>3. Escape(s) \in Seq(D) /\ EscapeChar(c) \in Seq(D)
    BY <1>4, <1>6
  <2>4. Escape(s) \o EscapeChar(c) \in Seq(D)
    <3>1. PICK x, y : x = Escape(s) /\ y = EscapeChar(c)
      OBVIOUS
    <3> QED
      BY <3>1, <2>3, ConcatProperties
  <2>5. Append(s, c) \in Seq(D)
    BY AppendProperties
  <2> QED
    BY <2>2, <2>4, <2>5
<1>7. \A s \in Seq(D) : \A c \in D : s \in P => Append(s, c) \in P
  BY <1>6
<1>8. \A s \in Seq(D) : s \in P
  <2> HIDE DEF P
  <2> QED BY <1>5, <1>7, Grow
<1> QED
  BY <1>1, <1>8

LEMMA JoinEnds ==
  ASSUME NEW C, NEW x \in Seq(C), NEW y \in Seq(C), x # <<>>, y # <<>>, NEW t, t = x \o y
  PROVE  t \in Seq(C) /\ t # <<>> /\ t[1] = x[1] /\ t[Len(t)] = y[Len(y)]
<1>1. Len(x) \in Nat \ {0} /\ Len(y) \in Nat \ {0}
  BY EmptySeq
<1>2. /\ t \in Seq(C) /\ Len(t) = Len(x) + Len(y)
      /\ \A i \in 1..Len(x) + Len(y) : t[i] = IF i <= Len(x) THEN x[i] ELSE y[i - Len(x)]
  BY ConcatProperties
<1>3. 1 \in 1..Len(x) + Len(y) /\ 1 <= Len(x)
  BY <1>1
<1>4. /\ Len(t) \in 1..Len(x) + Len(y) /\ ~(Len(t) <= Len(x)) /\ Len(t) - Len(x) = Len(y)
  BY <1>1, <1>2
<1>5. t # <<>>
  BY <1>1, <1>2
<1> QED
  BY <1>2, <1>3, <1>4, <1>5

LEMMA TidyText ==
  ASSUME NEW C, NEW x \in Tidy(C)
  PROVE  x \in Seq(C) /\ x \in Carried(C) /\ x # <<>> /\ Trim(x) = x
<1>1. x \in Seq(C)
  BY DEF Tidy, Carried
<1>2. x # <<>> /\ x[1] \notin Blanks /\ x[Len(x)] \notin Blanks /\ x \in Carried(C)
  BY DEF Tidy
<1> QED
  BY <1>1, <1>2, TrimKeeps

LEMMA TidyJoin ==
  ASSUME NEW C, NEW x \in Tidy(C), NEW y \in Tidy(C), NEW m \in Carried(C)
  PROVE  x \o m \o y \in Tidy(C)
<1>1. PICK v, t : v = m \o y /\ t = x \o v
  OBVIOUS
<1>2. x \in Seq(C) /\ y \in Seq(C) /\ m \in Seq(C) /\ x \in Carried(C) /\ y \in Carried(C)
  BY TidyText DEF Carried
<1>3. (x \o m) \o y = t
  BY <1>1, <1>2, ConcatAssociative
<1>4. v \in Carried(C)
  BY <1>1, <1>2, CarriedOn
<1>5. t \in Carried(C)
  BY <1>1, <1>2, <1>4, CarriedOn
<1>6. x # <<>> /\ y # <<>> /\ x[1] \notin Blanks /\ y[Len(y)] \notin Blanks
  BY DEF Tidy
<1>7. v \in Seq(C) /\ v # <<>> /\ v[Len(v)] = y[Len(y)]
  <2>1. CASE m = <<>>
    <3>1. v = y
      BY <2>1, <1>1, <1>2, ConcatEmptySeq
    <3> QED
      BY <3>1, <1>2, <1>6
  <2>2. CASE m # <<>>
    BY <2>2, <1>1, <1>2, <1>6, JoinEnds
  <2> QED
    BY <2>1, <2>2
<1>8. t # <<>> /\ t[1] = x[1] /\ t[Len(t)] = v[Len(v)]
  BY <1>1, <1>2, <1>6, <1>7, JoinEnds
<1>9. t \in Tidy(C)
  BY <1>5, <1>6, <1>7, <1>8 DEF Tidy
<1> QED
  BY <1>3, <1>9

Numbers == Range(Digits) \cup {"-"}

LEMMA NumbersPlain ==
  \A c \in Numbers : c \notin Marks /\ c \notin Blanks
<1>1. ASSUME NEW c \in Range(Digits) PROVE c \notin Marks /\ c \notin Blanks
  <2>1. PICK k \in 1..10 : Digits[k] = c
    BY DigitsAre DEF Range
  <2>2. k \in {1, 2, 3, 4, 5, 6, 7, 8, 9, 10}
    OBVIOUS
  <2>3. c \in {"0", "1", "2", "3", "4", "5", "6", "7", "8", "9"}
    BY <2>1, <2>2 DEF Digits
  <2> QED
    BY <2>3 DEF Marks, Blanks, Quote
<1>2. "-" \notin Marks /\ "-" \notin Blanks
  BY DEF Marks, Blanks, Quote
<1> QED
  BY <1>1, <1>2 DEF Numbers

LEMMA OneChar ==
  ASSUME NEW C, NEW c \in C
  PROVE  <<c>> \in Seq(C) /\ <<c>> # <<>>
OBVIOUS

LEMMA IntTextIs ==
  ASSUME NEW n \in Int
  PROVE  IntText(n) \in Seq(Numbers) /\ IntText(n) # <<>>
<1>1. Range(Digits) \subseteq Numbers
  BY DEF Numbers
<1>2. ASSUME NEW m \in Nat PROVE Decimal(m) \in Seq(Numbers) /\ Decimal(m) # <<>>
  <2>1. Decimal(m) \in Seq(Range(Digits)) /\ Decimal(m) # <<>>
    BY DecimalRead
  <2> QED
    BY <2>1, <1>1, SeqMonotonic
<1>3. CASE n >= 0
  BY <1>2, <1>3 DEF IntText
<1>4. CASE n < 0
  <2>1. PICK d, q, c : d = Decimal(-n) /\ c = "-" /\ q = <<c>>
    OBVIOUS
  <2>2. -n \in Nat
    BY <1>4
  <2>3. d \in Seq(Numbers) /\ d # <<>>
    BY <2>1, <2>2, <1>2
  <2>4. c \in Numbers
    BY <2>1 DEF Numbers
  <2>5. q \in Seq(Numbers) /\ q # <<>>
    BY <2>1, <2>4, OneChar
  <2>6. q \o d \in Seq(Numbers) /\ q \o d # <<>>
    <3>1. PICK t : t = q \o d
      OBVIOUS
    <3> QED
      BY <3>1, <2>3, <2>5, JoinEnds
  <2> QED
    BY <2>1, <2>6, <1>4 DEF IntText
<1> QED
  BY <1>3, <1>4

LEMMA PlainTidy ==
  ASSUME NEW C, NEW t \in Seq(C \ (Marks \cup Blanks)), t # <<>>
  PROVE  t \in Tidy(C)
<1>1. PICK D : D = C \ (Marks \cup Blanks)
  OBVIOUS
<1>2. D \subseteq C \ Marks /\ \A c \in D : c \notin Blanks
  BY <1>1
<1>3. t \in Seq(D) /\ t \in Seq(C \ Marks)
  BY <1>1, <1>2, SeqMonotonic
<1>4. t \in Carried(C)
  BY <1>3, PlainCarried
<1>5. t[1] \in D /\ t[Len(t)] \in D
  <2>1. Len(t) \in Nat \ {0}
    BY <1>3, EmptySeq
  <2>2. 1 \in 1..Len(t) /\ Len(t) \in 1..Len(t)
    BY <2>1
  <2> QED
    BY <2>2, <1>3, ElementOfSeq
<1> QED
  BY <1>2, <1>4, <1>5 DEF Tidy

LEMMA IntTidy ==
  ASSUME NEW C, Numbers \subseteq C, NEW n \in Int
  PROVE  IntText(n) \in Tidy(C)
<1>1. PICK t : t = IntText(n)
  OBVIOUS
<1>2. t \in Seq(Numbers) /\ t # <<>>
  BY <1>1, IntTextIs
<1>3. Numbers \subseteq C \ (Marks \cup Blanks)
  BY NumbersPlain
<1>4. t \in Seq(C \ (Marks \cup Blanks))
  BY <1>2, <1>3, SeqMonotonic
<1> QED
  BY <1>1, <1>2, <1>4, PlainTidy

LEMMA StringTidy ==
  ASSUME NEW C, Special \subseteq C, NEW s \in Seq(C \ {Quote})
  PROVE  Quoted(Escape(s)) \in Tidy(C) /\ TomlString(s) \in Tidy(C)
<1>1. Quote \in C
  BY DEF Special
<1>2. Quote \notin Blanks
  BY DEF Blanks, Quote
<1>3. Quoted(Escape(s)) \in Tidy(C)
  <2>1. PICK e, t : e = Escape(s) /\ t = Quoted(e)
    OBVIOUS
  <2>2. e \in Seq(C \ {Quote})
    BY <2>1, EscapeWithoutQuote
  <2>3. t \in Carried(C)
    BY <2>1, <2>2, <1>1, QuotedCarried
  <2>4. e \in Seq(C) /\ Len(e) \in Nat
    <3>1. C \ {Quote} \subseteq C
      OBVIOUS
    <3> QED
      BY <3>1, <2>2, SeqMonotonic
  <2>5. t \in Seq(C) /\ Len(t) = Len(e) + 2 /\ t[1] = Quote /\ t[Len(e) + 2] = Quote
    BY <2>1, <2>4, <1>1, QuotedText
  <2>6. t # <<>>
    BY <2>4, <2>5
  <2>7. t \in Tidy(C)
    BY <2>3, <2>5, <2>6, <1>2 DEF Tidy
  <2> QED
    BY <2>1, <2>7
<1>4. CASE "nl" \in Range(s)
  <2>1. PICK t : t = RawText(s)
    OBVIOUS
  <2>2. t \in Carried(C)
    BY <2>1, <1>1, RawCarried
  <2>3. s \in Seq(C) /\ Len(s) \in Nat
    <3>1. C \ {Quote} \subseteq C
      OBVIOUS
    <3> QED
      BY <3>1, SeqMonotonic
  <2>4. t \in Seq(C) /\ Len(t) = Len(s) + 6 /\ t[1] = Quote /\ t[Len(s) + 6] = Quote
    BY <2>1, <2>3, <1>1, ThriceText
  <2>5. t # <<>>
    BY <2>3, <2>4
  <2>6. t \in Tidy(C)
    BY <2>2, <2>4, <2>5, <1>2 DEF Tidy
  <2>7. TomlString(s) = t
    BY <2>1, <1>4 DEF TomlString, RawText
  <2> QED
    BY <2>6, <2>7, <1>3
<1>5. CASE "nl" \notin Range(s)
  BY <1>3, <1>5 DEF TomlString
<1> QED
  BY <1>4, <1>5

LEMMA BetweenIs ==
  \A i \in Nat : Between(i) = IF i > 1 THEN <<Comma>> ELSE <<>>
BY DEF Between, Comma

LEMMA CarriedTexts ==
  ASSUME NEW C, NEW ts \in Seq(Carried(C))
  PROVE  ts \in Seq(Texts(C))
<1>1. Carried(C) \subseteq Texts(C)
  BY DEF Carried, Texts
<1> QED
  BY <1>1, SeqMonotonic

Brackets(a, z) == (a = "[" /\ z = "]") \/ (a = "{" /\ z = "}")

(* Inside brackets the commas do not cut. *)
LEMMA WithCommasGoes ==
  ASSUME NEW C, Comma \in C, NEW d \in Nat \ {0}
  PROVE  \A ts \in Seq(Carried(C)) : Goes(C, FALSE, d, WithCommas(ts), FALSE, d)
<1> DEFINE P == {ts \in Seq(Carried(C)) : Goes(C, FALSE, d, WithCommas(ts), FALSE, d)}
<1>1. <<>> \in P
  <2>1. <<>> \in Seq(Texts(C)) /\ <<>> \in Seq(Carried(C))
    OBVIOUS
  <2>2. WithCommas(<<>>) = <<>>
    BY <2>1, WithCommasUnfold
  <2> QED
    BY <2>1, <2>2, GoesNowhere
<1>2. ASSUME NEW ts \in Seq(Carried(C)), NEW t \in Carried(C), ts \in P PROVE Append(ts, t) \in P
  <2>1. ts \in Seq(Texts(C)) /\ t \in Texts(C)
    BY CarriedTexts DEF Carried, Texts
  <2>2. PICK w, b : w = WithCommas(ts) /\ b = Between(Len(ts) + 1)
    OBVIOUS
  <2>3. WithCommas(Append(ts, t)) = (w \o b) \o t
    BY <2>1, <2>2, WithCommasUnfold
  <2>4. Goes(C, FALSE, d, w, FALSE, d)
    BY <2>2, <1>2
  <2>5. Goes(C, FALSE, d, b, FALSE, d)
    <3>1. Len(ts) + 1 \in Nat
      OBVIOUS
    <3>2. b = <<Comma>> \/ b = <<>>
      BY <3>1, <2>2, BetweenIs
    <3>3. d \in Int /\ d # 0
      OBVIOUS
    <3>4. Goes(C, FALSE, d, <<Comma>>, FALSE, d)
      BY <3>3, CommaGoes, GoesChar
    <3>5. Goes(C, FALSE, d, <<>>, FALSE, d)
      BY GoesNowhere
    <3> QED
      BY <3>2, <3>4, <3>5
  <2>6. Goes(C, FALSE, d, t, FALSE, d)
    BY DEF Carried
  <2>7. PICK v : v = w \o b
    OBVIOUS
  <2>8. Goes(C, FALSE, d, v, FALSE, d)
    BY <2>4, <2>5, <2>7, GoesOn
  <2>9. Goes(C, FALSE, d, v \o t, FALSE, d)
    BY <2>6, <2>8, GoesOn
  <2>10. Append(ts, t) \in Seq(Carried(C))
    BY AppendProperties
  <2> QED
    BY <2>3, <2>7, <2>9, <2>10
<1>3. \A ts \in Seq(Carried(C)) : \A t \in Carried(C) : ts \in P => Append(ts, t) \in P
  BY <1>2
<1>4. \A ts \in Seq(Carried(C)) : ts \in P
  <2> HIDE DEF P
  <2> QED BY <1>1, <1>3, Grow
<1> QED
  BY <1>4

LEMMA ListedTidy ==
  ASSUME NEW C, Comma \in C, NEW a \in C, NEW z \in C, a \notin Blanks, z \notin Blanks,
         \A d \in Int : CharGoes(a, FALSE, d, FALSE, d + 1) /\ CharGoes(z, FALSE, d, FALSE, d - 1),
         NEW ts \in Seq(Carried(C))
  PROVE  /\ Listed(<<a>>, ts, <<z>>) \in Tidy(C)
         /\ Inner(Listed(<<a>>, ts, <<z>>)) = WithCommas(ts)
<1>1. PICK w, v, t : w = WithCommas(ts) /\ v = <<a>> \o w /\ t = v \o <<z>>
  OBVIOUS
<1>2. t = Listed(<<a>>, ts, <<z>>)
  BY <1>1 DEF Listed
<1>3. w \in Seq(C)
  <2>1. ts \in Seq(Texts(C))
    BY CarriedTexts
  <2> QED
    BY <2>1, <1>1, WithCommasUnfold DEF Texts
<1>4. ASSUME NEW d \in Nat PROVE Goes(C, FALSE, d, t, FALSE, d)
  <2>1. PICK e : e = d + 1
    OBVIOUS
  <2>2. e \in Nat \ {0} /\ e - 1 = d
    BY <2>1
  <2>3. CharGoes(a, FALSE, d, FALSE, e) /\ CharGoes(z, FALSE, e, FALSE, d)
    <3>1. d \in Int /\ e \in Int
      BY <2>2
    <3>2. CharGoes(a, FALSE, d, FALSE, d + 1)
      BY <3>1
    <3>3. CharGoes(z, FALSE, e, FALSE, e - 1)
      BY <3>1
    <3> QED
      BY <3>2, <3>3, <2>1, <2>2
  <2>4. Goes(C, FALSE, d, <<a>>, FALSE, e)
    BY <2>3, GoesChar
  <2>5. Goes(C, FALSE, e, <<z>>, FALSE, d)
    BY <2>3, GoesChar
  <2>6. Goes(C, FALSE, e, w, FALSE, e)
    BY <2>2, <1>1, WithCommasGoes
  <2>7. Goes(C, FALSE, d, v, FALSE, e)
    BY <2>4, <2>6, <1>1, GoesOn
  <2> QED
    BY <2>5, <2>7, <1>1, GoesOn
<1>5. t \in Seq(C)
  BY <1>4 DEF Goes
<1>6. t \in Carried(C)
  BY <1>4, <1>5 DEF Carried
<1>7. PICK p, q, n : p = <<a>> /\ q = <<z>> /\ n = Len(w)
  OBVIOUS
<1>8. p \in Seq(C) /\ Len(p) = 1 /\ p[1] = a /\ q \in Seq(C) /\ Len(q) = 1 /\ q[1] = z /\ n \in Nat
  BY <1>3, <1>7
<1>9. /\ v \in Seq(C) /\ Len(v) = n + 1
        /\ \A i \in 1..n + 1 : v[i] = IF i <= 1 THEN p[i] ELSE w[i - 1]
  <2>1. /\ v \in Seq(C) /\ Len(v) = Len(p) + Len(w)
        /\ \A i \in 1..Len(p) + Len(w) : v[i] = IF i <= Len(p) THEN p[i] ELSE w[i - Len(p)]
    BY <1>1, <1>3, <1>7, <1>8, ConcatProperties
  <2>2. Len(p) + Len(w) = n + 1
    BY <1>7, <1>8
  <2> QED
    BY <2>1, <2>2, <1>8
<1>10. Len(t) = n + 2 /\ \A i \in 1..n + 2 : t[i] = IF i <= n + 1 THEN v[i] ELSE q[i - (n + 1)]
  <2>1. /\ Len(t) = Len(v) + Len(q)
        /\ \A i \in 1..Len(v) + Len(q) : t[i] = IF i <= Len(v) THEN v[i] ELSE q[i - Len(v)]
    BY <1>1, <1>7, <1>8, <1>9, ConcatProperties
  <2>2. Len(v) + Len(q) = n + 2
    BY <1>8, <1>9
  <2> QED
    BY <2>1, <2>2, <1>9
<1>11. t # <<>> /\ t[1] = a /\ t[n + 2] = z /\ \A i \in 1..n : t[i + 1] = w[i]
  <2>1. t # <<>>
    BY <1>8, <1>10
  <2>2. t[1] = a /\ t[n + 2] = z
    BY <1>8, <1>9, <1>10
  <2>3. ASSUME NEW i \in 1..n PROVE t[i + 1] = w[i]
    <3>1. i + 1 \in 1..n + 2 /\ i + 1 <= n + 1 /\ i + 1 \in 1..n + 1 /\ ~(i + 1 <= 1)
            /\ i + 1 - 1 = i
      BY <1>8
    <3> QED
      BY <3>1, <1>9, <1>10
  <2> QED
    BY <2>1, <2>2, <2>3
<1>12. t \in Tidy(C)
  BY <1>6, <1>10, <1>11 DEF Tidy
<1>13. SubSeq(t, 2, n + 1) = w
  <2>2. \A i \in 1..Len(w) : w[i] = t[2 + i - 1]
    <3>1. ASSUME NEW i \in 1..Len(w) PROVE w[i] = t[2 + i - 1]
      <4>1. i \in 1..n /\ 2 + i - 1 = i + 1
        BY <1>7, <1>8
      <4> QED
        BY <4>1, <1>11
    <3> QED
      BY <3>1
  <2>3. PICK k, j : k = n + 1 /\ j = 2
    OBVIOUS
  <2>4. j \in Nat \ {0} /\ k \in Nat /\ j <= k + 1 /\ k <= Len(t) /\ Len(w) = k - j + 1
    BY <2>3, <1>7, <1>8, <1>10
  <2>5. SubSeq(t, j, k) = w
    <3>1. \A i \in 1..Len(w) : w[i] = t[j + i - 1]
      BY <2>2, <2>3
    <3> QED
      BY <2>4, <3>1, <1>3, <1>5, SubSeqIs
  <2> QED
    BY <2>3, <2>5
<1>14. Inner(t) = w
  <2>1. Len(t) - 1 = n + 1
    BY <1>8, <1>10
  <2> QED
    BY <2>1, <1>13 DEF Inner
<1> QED
  BY <1>1, <1>2, <1>12, <1>14

LEMMA CutApart ==
  ASSUME NEW C, Comma \in C
  PROVE  \A ts \in Seq(Tidy(C)) : \A t \in Tidy(C) :
           Cutting(WithCommas(Append(ts, t))) = Cut(ts, t, FALSE, 0)
<1> DEFINE P == {ts \in Seq(Tidy(C)) : \A t \in Tidy(C) :
                   Cutting(WithCommas(Append(ts, t))) = Cut(ts, t, FALSE, 0)}
<1>0. Tidy(C) \subseteq Texts(C)
  BY TidyText DEF Texts
<1>1. <<>> \in P
  <2>1. <<>> \in Seq(Texts(C)) /\ <<>> \in Seq(Tidy(C)) /\ <<>> \in Seq(C) /\ Len(<<>>) = 0
    OBVIOUS
  <2>2. ASSUME NEW t \in Tidy(C)
        PROVE  Cutting(WithCommas(Append(<<>>, t))) = Cut(<<>>, t, FALSE, 0)
    <3>1. t \in Texts(C) /\ t \in Seq(C)
      BY <1>0 DEF Texts
    <3>2. WithCommas(<<>>) = <<>>
      BY <2>1, WithCommasUnfold
    <3>3. WithCommas(Append(<<>>, t)) = (<<>> \o Between(1)) \o t
      <4>1. PICK e : e = <<>>
        OBVIOUS
      <4>2. e \in Seq(Texts(C)) /\ Len(e) + 1 = 1 /\ WithCommas(e) = <<>>
        BY <4>1, <2>1, <3>2
      <4>3. WithCommas(Append(e, t)) = (WithCommas(e) \o Between(Len(e) + 1)) \o t
        BY <4>2, <3>1, WithCommasUnfold
      <4> QED
        BY <4>1, <4>2, <4>3
    <3>4. Between(1) = <<>>
      BY BetweenIs
    <3>5. (<<>> \o Between(1)) \o t = <<>> \o t /\ <<>> \o t = t
      BY <3>1, <3>4, <2>1, ConcatEmptySeq
    <3>6. Cutting(<<>>) = Cut(<<>>, <<>>, FALSE, 0)
      BY <2>1, CuttingUnfold DEF NothingCut, Cut
    <3>7. /\ Cutting(<<>>).parts = <<>> /\ Cutting(<<>>).part = <<>>
          /\ Cutting(<<>>).quoted = FALSE /\ Cutting(<<>>).depth = 0
      BY <3>6 DEF Cut
    <3>8. Goes(C, FALSE, 0, t, FALSE, 0)
      BY TidyText DEF Carried
    <3>9. Cutting(<<>> \o t) = Cut(<<>>, <<>> \o t, FALSE, 0)
      BY <2>1, <3>7, <3>8 DEF Goes
    <3> QED
      BY <3>3, <3>5, <3>9
  <2> QED
    BY <2>1, <2>2
<1>2. ASSUME NEW ts \in Seq(Tidy(C)), NEW u \in Tidy(C), ts \in P PROVE Append(ts, u) \in P
  <2>1. PICK us : us = Append(ts, u)
    OBVIOUS
  <2>2. us \in Seq(Tidy(C)) /\ Len(us) \in Nat \ {0}
    BY <2>1, AppendProperties
  <2>3. us \in Seq(Texts(C))
    BY <2>2, <1>0, SeqMonotonic
  <2>4. PICK w : w = WithCommas(us)
    OBVIOUS
  <2>5. w \in Seq(C) /\ Cutting(w) = Cut(ts, u, FALSE, 0)
    <3>1. w \in Seq(C)
      BY <2>3, <2>4, WithCommasUnfold DEF Texts
    <3>2. Cutting(w) = Cut(ts, u, FALSE, 0)
      BY <2>1, <2>4, <1>2
    <3> QED
      BY <3>1, <3>2
  <2>6. PICK v : v = Append(w, Comma)
    OBVIOUS
  <2>7. v \in Seq(C) /\ v = w \o <<Comma>>
    BY <2>5, <2>6, AppendProperties, AppendIsConcat
  <2>8. Cutting(v) = Cut(us, <<>>, FALSE, 0)
    <3>1. Cutting(v) = CutChar(Cut(ts, u, FALSE, 0), Comma)
      BY <2>5, <2>6, CuttingUnfold
    <3>2. CutChar(Cut(ts, u, FALSE, 0), Comma) = Cut(Append(ts, Trim(u)), <<>>, FALSE, 0)
      BY CommaCuts
    <3>3. Trim(u) = u
      BY TidyText
    <3> QED
      BY <3>1, <3>2, <3>3, <2>1
  <2>9. ASSUME NEW t \in Tidy(C)
        PROVE  Cutting(WithCommas(Append(us, t))) = Cut(us, t, FALSE, 0)
    <3>1. t \in Texts(C) /\ t \in Seq(C)
      BY <1>0 DEF Texts
    <3>2. WithCommas(Append(us, t)) = (w \o Between(Len(us) + 1)) \o t
      BY <2>3, <2>4, <3>1, WithCommasUnfold
    <3>3. Between(Len(us) + 1) = <<Comma>>
      <4>1. Len(us) + 1 \in Nat /\ Len(us) + 1 > 1
        BY <2>2
      <4> QED
        BY <4>1, BetweenIs
    <3>4. /\ Cutting(v).parts = us /\ Cutting(v).part = <<>>
          /\ Cutting(v).quoted = FALSE /\ Cutting(v).depth = 0
      BY <2>8 DEF Cut
    <3>5. Goes(C, FALSE, 0, t, FALSE, 0)
      BY TidyText DEF Carried
    <3>6. Cutting(v \o t) = Cut(us, <<>> \o t, FALSE, 0)
      BY <2>7, <3>4, <3>5 DEF Goes
    <3>7. <<>> \o t = t
      BY <3>1, ConcatEmptySeq
    <3> QED
      BY <3>2, <3>3, <3>6, <3>7, <2>7
  <2> QED
    BY <2>1, <2>2, <2>9
<1>3. \A ts \in Seq(Tidy(C)) : \A u \in Tidy(C) : ts \in P => Append(ts, u) \in P
  BY <1>2
<1>4. \A ts \in Seq(Tidy(C)) : ts \in P
  <2> HIDE DEF P
  <2> QED BY <1>1, <1>3, Grow
<1> QED
  BY <1>4

(* A TOML list is cut where its writer put the commas: whatever it holds,  *)
(* and however deep, split_quoted gives the texts that were written, as    *)
(* they were written.  Such a text is a number, a name or a boolean, a     *)
(* string or a key without a quote in it, a list or an inline table of     *)
(* such texts, or a key and its value with an equals sign between them.    *)
(* A string with a quote is left out: split_quoted takes an escaped quote  *)
(* for the end of the string.                                              *)
THEOREM ListsAreCutApart ==
  ASSUME NEW C, Special \subseteq C, Marks \subseteq C, Numbers \subseteq C
  PROVE  /\ \A ts \in Seq(Tidy(C)) : ts # <<>> => SplitQuoted(WithCommas(ts)) = ts
         /\ \A ts \in Seq(Tidy(C)) :
              /\ Listed(<<"[">>, ts, <<"]">>) \in Tidy(C)
              /\ Inner(Listed(<<"[">>, ts, <<"]">>)) = WithCommas(ts)
              /\ Listed(<<"{">>, ts, <<"}">>) \in Tidy(C)
              /\ Inner(Listed(<<"{">>, ts, <<"}">>)) = WithCommas(ts)
         /\ \A n \in Int : IntText(n) \in Tidy(C)
         /\ \A x \in Seq(C \ (Marks \cup Blanks)) : x # <<>> => x \in Tidy(C)
         /\ \A s \in Seq(C \ {Quote}) : Quoted(Escape(s)) \in Tidy(C) /\ TomlString(s) \in Tidy(C)
         /\ \A x, y \in Tidy(C), m \in Seq(C \ Marks) : x \o m \o y \in Tidy(C)
<1>1. Comma \in C
  BY DEF Comma, Marks
<1>2. ASSUME NEW ts \in Seq(Tidy(C)), ts # <<>> PROVE SplitQuoted(WithCommas(ts)) = ts
  <2>1. PICK us \in Seq(Tidy(C)), t \in Tidy(C) : ts = Append(us, t)
    BY <1>2, SequenceEmptyOrAppend
  <2>2. PICK w : w = WithCommas(ts)
    OBVIOUS
  <2>3. Cutting(w) = Cut(us, t, FALSE, 0)
    BY <2>1, <2>2, <1>1, CutApart
  <2>4. Cutting(w).parts = us /\ Cutting(w).part = t
    BY <2>3 DEF Cut
  <2>5. SplitQuoted(w) = Append(us, Trim(t))
    BY <2>4 DEF SplitQuoted
  <2>6. Trim(t) = t
    BY TidyText
  <2> QED
    BY <2>1, <2>2, <2>5, <2>6
<1>3. ASSUME NEW ts \in Seq(Tidy(C)), NEW a, NEW z, Brackets(a, z)
      PROVE  /\ Listed(<<a>>, ts, <<z>>) \in Tidy(C)
             /\ Inner(Listed(<<a>>, ts, <<z>>)) = WithCommas(ts)
  <2>1. a \in C /\ z \in C
    <3>1. a \in {"[", "{"} /\ z \in {"]", "}"}
      BY <1>3 DEF Brackets
    <3> QED
      BY <3>1 DEF Marks
  <2>2. a \notin Blanks /\ z \notin Blanks
    BY <1>3 DEF Blanks, Brackets
  <2>3. ASSUME NEW d \in Int
        PROVE  CharGoes(a, FALSE, d, FALSE, d + 1) /\ CharGoes(z, FALSE, d, FALSE, d - 1)
    <3>1. a \in {"[", "{"} /\ z \in {"]", "}"}
      BY <1>3 DEF Brackets
    <3> QED
      BY <3>1, OpenGoes, CloseGoes
  <2>4. ts \in Seq(Carried(C))
    <3>1. Tidy(C) \subseteq Carried(C)
      BY DEF Tidy
    <3> QED
      BY <3>1, SeqMonotonic
  <2>5. \A d \in Int : CharGoes(a, FALSE, d, FALSE, d + 1) /\ CharGoes(z, FALSE, d, FALSE, d - 1)
    BY <2>3
  <2> QED
    BY <2>1, <2>2, <2>4, <2>5, <1>1, ListedTidy
<1>4. ASSUME NEW ts \in Seq(Tidy(C))
      PROVE  /\ Listed(<<"[">>, ts, <<"]">>) \in Tidy(C)
             /\ Inner(Listed(<<"[">>, ts, <<"]">>)) = WithCommas(ts)
             /\ Listed(<<"{">>, ts, <<"}">>) \in Tidy(C)
             /\ Inner(Listed(<<"{">>, ts, <<"}">>)) = WithCommas(ts)
  <2>1. PICK a, z, b, y : a = "[" /\ z = "]" /\ b = "{" /\ y = "}"
    OBVIOUS
  <2>2. Listed(<<a>>, ts, <<z>>) \in Tidy(C) /\ Inner(Listed(<<a>>, ts, <<z>>)) = WithCommas(ts)
    <3>1. Brackets(a, z)
      BY <2>1 DEF Brackets
    <3> QED
      BY <3>1, <1>3
  <2>3. Listed(<<b>>, ts, <<y>>) \in Tidy(C) /\ Inner(Listed(<<b>>, ts, <<y>>)) = WithCommas(ts)
    <3>1. Brackets(b, y)
      BY <2>1 DEF Brackets
    <3> QED
      BY <3>1, <1>3
  <2> QED
    BY <2>1, <2>2, <2>3
<1>5. \A n \in Int : IntText(n) \in Tidy(C)
  BY IntTidy
<1>6. \A s \in Seq(C \ {Quote}) : Quoted(Escape(s)) \in Tidy(C) /\ TomlString(s) \in Tidy(C)
  BY StringTidy
<1>7. ASSUME NEW x \in Tidy(C), NEW y \in Tidy(C), NEW m \in Seq(C \ Marks)
      PROVE  x \o m \o y \in Tidy(C)
  BY PlainCarried, TidyJoin
<1>8. \A x \in Seq(C \ (Marks \cup Blanks)) : x # <<>> => x \in Tidy(C)
  BY PlainTidy
<1> QED
  BY <1>2, <1>4, <1>5, <1>6, <1>7, <1>8

(* A TOML list of values of any type comes back, if every value of that    *)
(* type does and its text is never cut: what toml::parse does for an array *)
(* or a vector, each element read by its type's reader.  The list's text   *)
(* is never cut either, so that lists of lists come back at every depth.   *)
(* An empty list does not: it is read as one empty element.                *)
THEOREM ListsReadBack ==
  ASSUME NEW C, Special \subseteq C, Marks \subseteq C, Numbers \subseteq C,
         NEW V, NEW write \in [V -> Tidy(C)], NEW read, \A v \in V : read[write[v]] = v,
         NEW vs \in Seq(V), vs # <<>>
  PROVE  LET text == Listed(<<"[">>, [i \in DOMAIN vs |-> write[vs[i]]], <<"]">>)
             parts == SplitQuoted(Inner(text))
         IN text \in Tidy(C) /\ [i \in DOMAIN parts |-> read[parts[i]]] = vs
<1>1. PICK ts, n : ts = [i \in DOMAIN vs |-> write[vs[i]]] /\ n = Len(vs)
  OBVIOUS
<1>2. n \in Nat \ {0} /\ DOMAIN vs = 1..n /\ \A i \in 1..n : vs[i] \in V
  BY <1>1, EmptySeq
<1>3. ts = [i \in 1..n |-> write[vs[i]]] /\ \A i \in 1..n : write[vs[i]] \in Tidy(C)
  BY <1>1, <1>2
<1>4. ts \in Seq(Tidy(C)) /\ DOMAIN ts = 1..n /\ \A i \in 1..n : ts[i] = write[vs[i]]
  BY <1>2, <1>3, IsASeq
<1>5. ts # <<>>
  <2>1. 1 \in DOMAIN ts
    BY <1>2, <1>4
  <2> QED
    BY <2>1
<1>6. PICK text, parts : /\ text = Listed(<<"[">>, ts, <<"]">>)
                         /\ parts = SplitQuoted(Inner(text))
  OBVIOUS
<1>7. text \in Tidy(C) /\ parts = ts
  BY <1>4, <1>5, <1>6, ListsAreCutApart
<1>8. [i \in DOMAIN parts |-> read[parts[i]]] = vs
  <2>1. PICK us : us = [i \in DOMAIN parts |-> read[parts[i]]]
    OBVIOUS
  <2>2. us = [i \in 1..n |-> read[ts[i]]]
    BY <2>1, <1>4, <1>7
  <2>3. \A i \in 1..n : read[ts[i]] = vs[i]
    BY <1>2, <1>4
  <2>4. us = [i \in 1..n |-> vs[i]]
    BY <2>2, <2>3
  <2>5. vs = [i \in 1..n |-> vs[i]]
    BY <1>1
  <2> QED
    BY <2>1, <2>4, <2>5
<1> QED
  BY <1>1, <1>6, <1>7, <1>8
=============================================================================
