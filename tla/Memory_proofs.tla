---------------------------- MODULE Memory_proofs ----------------------------
(***************************************************************************)
(* Theorems about the two memory managers, for any sizes, alignments,      *)
(* growth strategies, addresses and bounds.                                *)
(*                                                                         *)
(* Region: where objects are placed, and in which order they are dropped.  *)
(*                                                                         *)
(* GcRegion: the collector never frees what the program can reach, and a   *)
(* block that ends by its brace leaves nothing behind, for any nesting of  *)
(* blocks and any order in which addresses are handed out again.           *)
(***************************************************************************)
EXTENDS Region, GcRegion, WellFoundedInduction, SequenceTheorems, TLAPS

----------------------------------------------------------------------------
(* Sums, a recursive function: the library's induction takes an operator,  *)
(* its theorem about minimal elements a set, of what would be              *)
(* counterexamples.                                                        *)

LEMMA LeastNat ==
  ASSUME NEW T \in SUBSET Nat, T # {}
  PROVE  \E x \in T : \A y \in T : x <= y
<1>1. PICK x \in T : \A y \in T : ~ (<<y, x>> \in OpToRel(<, Nat))
  BY WFMin, NatLessThanWellFounded
<1>2. \A y \in T : <<y, x>> \in Nat \X Nat
  OBVIOUS
<1>3. \A y \in T : ~ (y < x)
  BY <1>1, <1>2 DEF OpToRel
<1> QED
  BY <1>3

(* The sums of the first 0 to n sizes. *)
SumsTo(sizes, n) ==
  {f \in [0..n -> Nat] : f[0] = 0 /\ \A k \in 1..n : f[k] = f[k - 1] + sizes[k]}

LEMMA SumsToExist ==
  ASSUME NEW sizes \in Seq(Nat)
  PROVE  \A n \in 0..Len(sizes) : SumsTo(sizes, n) # {}
<1> DEFINE T == {n \in 0..Len(sizes) : SumsTo(sizes, n) = {}}
<1>1. SUFFICES ASSUME T # {} PROVE FALSE
  OBVIOUS
<1>2. T \in SUBSET Nat
  OBVIOUS
<1>3. PICK n \in T : \A m \in T : n <= m
  <2> HIDE DEF T
  <2> QED BY <1>1, <1>2, LeastNat
<1>4. n \in 0..Len(sizes) /\ SumsTo(sizes, n) = {}
  BY <1>3
<1>5. n # 0
  <2>1. [k \in 0..0 |-> 0] \in SumsTo(sizes, 0)
    BY DEF SumsTo
  <2> QED
    BY <2>1, <1>4
<1>6. n - 1 \in 0..Len(sizes) /\ n - 1 \notin T
  <2> HIDE DEF T
  <2> QED BY <1>3, <1>4, <1>5
<1>7. PICK f : f \in SumsTo(sizes, n - 1)
  BY <1>6
<1>8. [k \in 0..n |-> IF k = n THEN f[n - 1] + sizes[n] ELSE f[k]] \in SumsTo(sizes, n)
  BY <1>4, <1>5, <1>7 DEF SumsTo
<1> QED
  BY <1>4, <1>8

LEMMA SumsUnfold ==
  ASSUME NEW sizes \in Seq(Nat)
  PROVE  /\ Sums(sizes) \in [0..Len(sizes) -> Nat]
         /\ Sums(sizes)[0] = 0
         /\ \A k \in 1..Len(sizes) : Sums(sizes)[k] = Sums(sizes)[k - 1] + sizes[k]
<1> DEFINE Def(f) == [k \in 0..Len(sizes) |-> IF k = 0 THEN 0 ELSE f[k - 1] + sizes[k]]
<1>1. PICK g : g \in SumsTo(sizes, Len(sizes))
  BY SumsToExist
<1>2. g = Def(g)
  BY <1>1 DEF SumsTo
<1>3. Sums(sizes) = Def(Sums(sizes))
  BY <1>2 DEF Sums
<1>4. PICK s : s = Sums(sizes)
  OBVIOUS
<1>5. s = Def(s)
  BY <1>3, <1>4
<1>6. /\ DOMAIN s = 0..Len(sizes)
      /\ \A k \in 0..Len(sizes) : s[k] = IF k = 0 THEN 0 ELSE s[k - 1] + sizes[k]
  <2>1. PICK d : d = Def(s)
    OBVIOUS
  <2>2. /\ DOMAIN d = 0..Len(sizes)
        /\ \A k \in 0..Len(sizes) : d[k] = IF k = 0 THEN 0 ELSE s[k - 1] + sizes[k]
    BY <2>1
  <2> QED
    BY <2>1, <2>2, <1>5
<1> DEFINE T == {n \in 0..Len(sizes) : s[n] # g[n]}
<1>7. ASSUME T # {} PROVE FALSE
  <2>1. T \in SUBSET Nat
    OBVIOUS
  <2>2. PICK n \in T : \A m \in T : n <= m
    <3> HIDE DEF T
    <3> QED BY <1>7, <2>1, LeastNat
  <2>3. n \in 1..Len(sizes) /\ s[n] # g[n]
    BY <2>2, <1>1, <1>6 DEF SumsTo
  <2>4. n - 1 \in 0..Len(sizes) /\ n - 1 \notin T
    <3> HIDE DEF T
    <3> QED BY <2>2, <2>3
  <2>5. s[n - 1] = g[n - 1] /\ s[n] = s[n - 1] + sizes[n] /\ g[n] = g[n - 1] + sizes[n]
    BY <2>3, <2>4, <1>1, <1>6 DEF SumsTo
  <2> QED
    BY <2>3, <2>5
<1>8. s = g
  <2>1. DOMAIN g = 0..Len(sizes) /\ g = [k \in 0..Len(sizes) |-> g[k]]
    BY <1>1 DEF SumsTo
  <2>2. s = [k \in 0..Len(sizes) |-> s[k]]
    BY <1>5
  <2>3. \A k \in 0..Len(sizes) : s[k] = g[k]
    BY <1>7
  <2> QED
    BY <2>1, <2>2, <2>3
<1> QED
  BY <1>1, <1>4, <1>8 DEF SumsTo

LEMMA SumsMonotone ==
  ASSUME NEW sizes \in Seq(Nat), NEW a \in 0..Len(sizes), NEW b \in 0..Len(sizes), a <= b
  PROVE  Sums(sizes)[a] <= Sums(sizes)[b]
<1>1. PICK s \in [0..Len(sizes) -> Nat] :
        /\ s = Sums(sizes)
        /\ \A k \in 1..Len(sizes) : s[k] = s[k - 1] + sizes[k]
  BY SumsUnfold
<1> DEFINE T == {n \in a..Len(sizes) : s[n] < s[a]}
<1>2. ASSUME T # {} PROVE FALSE
  <2>1. T \in SUBSET Nat
    OBVIOUS
  <2>2. PICK n \in T : \A m \in T : n <= m
    <3> HIDE DEF T
    <3> QED BY <1>2, <2>1, LeastNat
  <2>3. n \in a + 1..Len(sizes) /\ s[n] < s[a]
    OBVIOUS
  <2>4. n - 1 \in a..Len(sizes) /\ n - 1 \notin T
    <3> HIDE DEF T
    <3> QED BY <2>2, <2>3
  <2>5. s[n] = s[n - 1] + sizes[n] /\ sizes[n] \in Nat
    BY <1>1, <2>3
  <2>6. s[n] \in Nat /\ s[n - 1] \in Nat /\ s[a] \in Nat
    <3>1. n \in 0..Len(sizes) /\ n - 1 \in 0..Len(sizes)
      BY <2>3
    <3> HIDE DEF T
    <3> QED BY <1>1, <3>1
  <2>7. ~ (s[n - 1] < s[a])
    BY <2>4
  <2> QED
    BY <2>3, <2>5, <2>6, <2>7
<1>3. s[b] >= s[a]
  <2>1. s[b] \in Nat /\ s[a] \in Nat /\ b \in a..Len(sizes) /\ b \notin T
    <3>1. b \notin T
      BY <1>2
    <3> HIDE DEF T
    <3> QED BY <1>1, <3>1
  <2> QED
    BY <2>1
<1> QED
  BY <1>1, <1>3

(* What comes before one of the sizes and the size itself are within the   *)
(* sum, and what comes before a later one is beyond both.                  *)
LEMMA SumFacts ==
  ASSUME NEW sizes \in Seq(Nat)
  PROVE  /\ Sum(sizes) \in Nat
         /\ \A k \in 1..Len(sizes) :
              /\ Sums(sizes)[k - 1] \in Nat /\ sizes[k] \in Nat
              /\ Sums(sizes)[k - 1] + sizes[k] <= Sum(sizes)
              /\ \A j \in 1..Len(sizes) : k < j =>
                   Sums(sizes)[k - 1] + sizes[k] <= Sums(sizes)[j - 1]
<1>1. PICK s : s = Sums(sizes)
  OBVIOUS
<1>2. /\ s \in [0..Len(sizes) -> Nat]
      /\ \A k \in 1..Len(sizes) : s[k] = s[k - 1] + sizes[k]
  BY <1>1, SumsUnfold
<1>3. \A a, b \in 0..Len(sizes) : a <= b => s[a] <= s[b]
  BY <1>1, SumsMonotone
<1>4. Sum(sizes) = s[Len(sizes)] /\ s[Len(sizes)] \in Nat
  BY <1>1, <1>2 DEF Sum
<1>5. ASSUME NEW k \in 1..Len(sizes)
      PROVE  /\ s[k - 1] \in Nat /\ sizes[k] \in Nat
             /\ s[k - 1] + sizes[k] <= s[Len(sizes)]
             /\ \A j \in 1..Len(sizes) : k < j => s[k - 1] + sizes[k] <= s[j - 1]
  <2>1. k \in 0..Len(sizes) /\ k - 1 \in 0..Len(sizes) /\ Len(sizes) \in 0..Len(sizes)
    OBVIOUS
  <2>2. s[k] = s[k - 1] + sizes[k] /\ s[k - 1] \in Nat /\ sizes[k] \in Nat
    <3>1. s[k] = s[k - 1] + sizes[k]
      BY <1>2
    <3>2. s[k - 1] \in Nat
      BY <1>2, <2>1
    <3>3. sizes[k] \in Nat
      OBVIOUS
    <3> QED
      BY <3>1, <3>2, <3>3
  <2>3. \A j \in 1..Len(sizes) : k < j => j - 1 \in 0..Len(sizes) /\ k <= j - 1
    OBVIOUS
  <2> QED
    BY <1>3, <2>1, <2>2, <2>3
<1> QED
  BY <1>1, <1>4, <1>5

----------------------------------------------------------------------------
(* The helpers of the allocator. *)

LEMMA MaxOfTwo ==
  ASSUME NEW a \in Nat, NEW b \in Nat
  PROVE  Max({a, b}) \in Nat /\ Max({a, b}) >= a /\ Max({a, b}) >= b
<1>1. \E x \in {a, b} : \A y \in {a, b} : x >= y
  OBVIOUS
<1>2. Max({a, b}) \in {a, b} /\ \A y \in {a, b} : Max({a, b}) >= y
  BY <1>1 DEF Max
<1> QED
  BY <1>2

LEMMA MaxOfFour ==
  ASSUME NEW a \in Nat, NEW b \in Nat, NEW c \in Nat, NEW d \in Nat
  PROVE  Max({a, b, c, d}) \in Nat /\ Max({a, b, c, d}) >= a
<1>1. \E x \in {a, b, c, d} : \A y \in {a, b, c, d} : x >= y
  OBVIOUS
<1>2. Max({a, b, c, d}) \in {a, b, c, d} /\ \A y \in {a, b, c, d} : Max({a, b, c, d}) >= y
  BY <1>1 DEF Max
<1> QED
  BY <1>2

LEMMA AlignUpFacts ==
  ASSUME NEW n \in Nat, NEW a \in Nat \ {0}
  PROVE  AlignUp(n, a) \in Nat /\ AlignUp(n, a) >= n
<1> DEFINE m == n + a - 1
<1>0. m \in Nat
  OBVIOUS
<1>1. m = a * (m \div a) + (m % a) /\ m % a \in 0..a - 1 /\ m \div a \in Nat
  <2> HIDE DEF m
  <2>1. m % a \in 0..a - 1
    BY <1>0
  <2>2. m = a * (m \div a) + (m % a)
    BY <1>0
  <2>3. m \div a \in Nat
    <3>1. PICK q : q = m \div a
      OBVIOUS
    <3>2. q \in Int
      BY <1>0, <3>1
    <3>3. ASSUME q <= -1 PROVE FALSE
      <4>1. a * q <= a * (-1)
        BY <3>2, <3>3
      <4> QED
        BY <4>1, <3>1, <3>2, <2>1, <2>2, <1>0
    <3> QED
      BY <3>1, <3>2, <3>3
  <2> QED
    BY <2>1, <2>2, <2>3
<1>2. AlignUp(n, a) = (m \div a) * a
  BY DEF AlignUp
<1>3. (m \div a) * a = a * (m \div a)
  BY <1>1
<1> HIDE DEF m
<1>4. a * (m \div a) >= m - (a - 1)
  BY <1>0, <1>1
<1>5. a * (m \div a) \in Nat
  BY <1>1
<1> QED
  BY <1>2, <1>3, <1>4, <1>5 DEF m

----------------------------------------------------------------------------
(* The invariant. *)

Headers == [base : Nat, cursor : Nat, limit : Nat]
Objects == [block : Nat, off : Nat, size : Nat, drop : BOOLEAN]
Ends(i) == objs[i].off + objs[i].size

RegionTypeOK ==
  /\ strategy \in {"exact", "multiply", "linear", "adaptive", "smart"}
  /\ blocks \in Seq(Nat) /\ hdr \in Headers /\ reg \in Headers
  /\ objs \in Seq(Objects)
  /\ destroyed \in BOOLEAN

(* The header in memory is of the current block, the copy in registers of  *)
(* this one or an older one; their cursors may be anything, even beyond    *)
(* the limit, after the exit of a loop.                                    *)
HeadersFit ==
  /\ hdr.base = Len(blocks) /\ hdr.base >= 1 /\ hdr.limit = blocks[hdr.base]
  /\ InLoop => reg.base \in 1..Len(blocks) /\ reg.limit = blocks[reg.base]

InBlocks ==
  \A i \in Ids : objs[i].block \in 1..Len(blocks) /\ Ends(i) <= blocks[objs[i].block]

(* What is still in reach lies before the cursors that may bump its block: *)
(* in a loop no block is newer than that of the registers, and only the    *)
(* objects of this iteration may lie behind the cursor in memory, which    *)
(* nothing but a mirror uses when they have gone.                          *)
BeforeCursors ==
  \A i \in Ids \ dead :
    /\ ~InLoop => (objs[i].block = hdr.base => Ends(i) <= hdr.cursor)
    /\ InLoop => /\ objs[i].block <= reg.base
                 /\ objs[i].block = reg.base => Ends(i) <= reg.cursor
                 /\ i \notin fresh => (objs[i].block = hdr.base => Ends(i) <= hdr.cursor)

PlaceInv ==
  /\ RegionTypeOK
  /\ destroyed => ~InLoop
  /\ ~InLoop => fresh = {}
  /\ ~destroyed => HeadersFit /\ InBlocks /\ BeforeCursors

----------------------------------------------------------------------------
(* The allocation. *)

(* What a bump up to `cursor` does to the objects, and where it starts. *)
After(from) == \A n \in NewIds : objs'[n].off >= from
Placed(block, cursor, drop) ==
  /\ objs' \in Seq(Objects) /\ Len(objs) <= Len(objs')
  /\ \A i \in Ids : i \in DOMAIN objs' /\ objs'[i] = objs[i]
  /\ NewIds = Len(objs) + 1..Len(objs')
  /\ \A n \in NewIds : /\ objs'[n].block = block /\ objs'[n].drop = drop
                       /\ objs'[n].off + objs'[n].size <= cursor
  /\ \A n, m \in NewIds : n < m => objs'[n].off + objs'[n].size <= objs'[m].off

LEMMA StartFacts ==
  ASSUME RegionTypeOK, NEW h \in Headers, NEW align \in Nat \ {0}
  PROVE  Start(h, align) \in Nat /\ Start(h, align) >= h.cursor
<1>1. Floor \in Nat \ {0}
  BY DEF Floor
<1>2. Max({align, Floor}) \in Nat \ {0}
  BY <1>1, MaxOfTwo
<1>3. h.cursor \in Nat
  BY DEF Headers
<1> QED
  BY <1>2, <1>3, AlignUpFacts DEF Start

LEMMA PlaceFacts ==
  ASSUME RegionTypeOK, NEW h \in Headers, NEW align \in Nat \ {0},
         NEW sizes \in Seq(Nat), NEW drop \in BOOLEAN,
         Place(h, align, sizes, drop)
  PROVE  Placed(h.base, End(h, Sum(sizes), align), drop) /\ After(h.cursor)
<1>1. PICK start \in Nat : start = Start(h, align) /\ start >= h.cursor
  BY StartFacts
<1>2. End(h, Sum(sizes), align) = start + Sum(sizes)
  BY <1>1 DEF End
<1>3. PICK laid : laid = Laid(h, start, sizes, drop)
  OBVIOUS
<1>4. /\ DOMAIN laid = 1..Len(sizes)
      /\ \A k \in 1..Len(sizes) :
           laid[k] = [block |-> h.base, drop |-> drop, size |-> sizes[k],
                      off |-> start + Sums(sizes)[k - 1]]
  BY <1>3 DEF Laid
<1>5. h.base \in Nat /\ h.cursor \in Nat
  BY DEF Headers
<1>6. \A k \in 1..Len(sizes) :
        /\ laid[k] \in Objects /\ laid[k].block = h.base /\ laid[k].drop = drop
        /\ laid[k].off >= h.cursor /\ laid[k].off + laid[k].size <= start + Sum(sizes)
        /\ \A j \in 1..Len(sizes) : k < j => laid[k].off + laid[k].size <= laid[j].off
  <2> TAKE k \in 1..Len(sizes)
  <2>1. Sums(sizes)[k - 1] \in Nat /\ sizes[k] \in Nat
    BY SumFacts
  <2>2. laid[k] \in Objects
    BY <1>4, <1>5, <2>1 DEF Objects
  <2>3. /\ laid[k].block = h.base /\ laid[k].drop = drop /\ laid[k].size = sizes[k]
        /\ laid[k].off = start + Sums(sizes)[k - 1]
    BY <1>4
  <2>4. laid[k].off >= h.cursor
    BY <2>1, <2>3, <1>1, <1>5
  <2>5. laid[k].off + laid[k].size <= start + Sum(sizes)
    BY <2>1, <2>3, SumFacts, SMTT(30)
  <2>6. ASSUME NEW j \in 1..Len(sizes), k < j
        PROVE  laid[k].off + laid[k].size <= laid[j].off
    <3>1. laid[j].off = start + Sums(sizes)[j - 1]
      BY <1>4
    <3>2. Sums(sizes)[j - 1] \in Nat
      BY SumFacts
    <3>3. Sums(sizes)[k - 1] + sizes[k] <= Sums(sizes)[j - 1]
      BY <2>6, SumFacts
    <3>4. start + Sums(sizes)[k - 1] + sizes[k] <= start + Sums(sizes)[j - 1]
      BY <3>2, <3>3, <2>1, SMTT(30)
    <3> QED
      BY <3>1, <3>4, <2>3
  <2> QED
    BY <2>2, <2>3, <2>4, <2>5, <2>6
<1>7. laid \in Seq(Objects) /\ Len(laid) = Len(sizes)
  <2>1. laid = [k \in 1..Len(sizes) |-> laid[k]]
    BY <1>3, <1>4 DEF Laid
  <2>2. Len(sizes) \in Nat /\ \A k \in 1..Len(sizes) : laid[k] \in Objects
    BY <1>6
  <2> QED
    BY <2>1, <2>2
<1>8. objs' = objs \o laid /\ objs \in Seq(Objects)
  BY <1>1, <1>3 DEF Place, RegionTypeOK
<1>9. /\ objs' \in Seq(Objects) /\ Len(objs') = Len(objs) + Len(sizes)
      /\ Len(objs) \in Nat /\ Len(sizes) \in Nat
      /\ \A i \in 1..Len(objs') : objs'[i] = IF i <= Len(objs) THEN objs[i] ELSE laid[i - Len(objs)]
  <2>1. PICK both : both = objs \o laid
    OBVIOUS
  <2>2. /\ both \in Seq(Objects) /\ Len(both) = Len(objs) + Len(laid)
        /\ \A i \in 1..Len(objs) + Len(laid) : both[i] = IF i <= Len(objs) THEN objs[i] ELSE laid[i - Len(objs)]
    BY <1>7, <1>8, <2>1, ConcatProperties
  <2>3. objs' = both /\ Len(objs) \in Nat /\ Len(laid) = Len(sizes) /\ Len(sizes) \in Nat
    BY <1>7, <1>8, <2>1
  <2> QED
    BY <2>2, <2>3
<1>14. DOMAIN objs = 1..Len(objs) /\ DOMAIN objs' = 1..Len(objs')
  BY <1>8, <1>9
<1>10. Len(objs) <= Len(objs') /\ \A i \in Ids : i \in DOMAIN objs' /\ objs'[i] = objs[i]
  BY <1>9, <1>14 DEF Ids
<1>11. NewIds = Len(objs) + 1..Len(objs')
  BY <1>9, <1>14 DEF NewIds
<1>12. \A n \in NewIds : n - Len(objs) \in 1..Len(sizes) /\ objs'[n] = laid[n - Len(objs)]
  BY <1>9, <1>11
<1>13. \A n, m \in NewIds : n < m => n - Len(objs) < m - Len(objs)
  BY <1>9, <1>11
<1>15. \A n \in NewIds : /\ objs'[n].block = h.base /\ objs'[n].drop = drop
                         /\ objs'[n].off >= h.cursor
                         /\ objs'[n].off + objs'[n].size <= End(h, Sum(sizes), align)
  BY <1>2, <1>6, <1>12
<1>16. \A n, m \in NewIds : n < m => objs'[n].off + objs'[n].size <= objs'[m].off
  BY <1>6, <1>12, <1>13
<1> QED
  BY <1>9, <1>10, <1>11, <1>15, <1>16 DEF Placed, After

(* What the strategy makes is large enough and a number. *)
LEMMA NextSizesFit ==
  ASSUME RegionTypeOK, Len(blocks) >= 1, NEW size \in Nat, NEW next \in NextSizes(size)
  PROVE  next \in Nat /\ next >= size
<1>1. Capacity \in Nat /\ Last(blocks) \in Nat
  <2>1. blocks \in Seq(Nat)
    BY DEF RegionTypeOK
  <2> QED
    BY <2>1, SumFacts DEF Capacity, Last
<1>2. CASE strategy = "exact"
  BY <1>2 DEF NextSizes
<1>3. CASE strategy = "multiply"
  <2>1. next = Max({size, 2 * Capacity}) /\ 2 * Capacity \in Nat
    BY <1>1, <1>3 DEF NextSizes
  <2> QED
    BY <2>1, MaxOfTwo
<1>4. CASE strategy = "linear"
  <2>1. next = Max({size, Capacity + Chunk}) /\ Capacity + Chunk \in Nat
    BY <1>1, <1>4, RegionAssumption DEF NextSizes
  <2> QED
    BY <2>1, MaxOfTwo
<1>5. CASE strategy = "adaptive"
  <2>1. next = Max({size, Capacity + 1}) /\ Capacity + 1 \in Nat
    BY <1>1, <1>5 DEF NextSizes
  <2> QED
    BY <2>1, MaxOfTwo
<1>6. CASE strategy = "smart"
  <2> DEFINE half == (3 * Last(blocks) + 1) \div 2
             more == Last(blocks) + 1
  <2>1. half \in Nat /\ more \in Nat
    BY <1>1
  <2>2. PICK mean \in UNION {0..s : s \in Sizes} : next = Max({size, mean, half, more})
    BY <1>6 DEF NextSizes
  <2>3. mean \in Nat
    BY RegionAssumption
  <2> HIDE DEF half, more
  <2> QED
    BY <2>1, <2>2, <2>3, MaxOfFour
<1> QED
  BY <1>2, <1>3, <1>4, <1>5, <1>6 DEF RegionTypeOK

(* RuntimeAlloc places within the current block or makes a new one. *)
Allocated(h, drop) ==
  /\ blocks' \in Seq(Nat) /\ Len(blocks') >= Len(blocks)
  /\ \A b \in 1..Len(blocks) : blocks'[b] = blocks[b]
  /\ hdr' \in Headers /\ hdr'.base = Len(blocks') /\ hdr'.limit = blocks'[hdr'.base]
  /\ hdr'.base = h.base => hdr'.cursor >= h.cursor
  /\ hdr'.base = h.base \/ hdr'.base = Len(blocks) + 1
  /\ Placed(hdr'.base, hdr'.cursor, drop)
  /\ hdr'.base = h.base => After(h.cursor)
  /\ \A n \in NewIds : objs'[n].off + objs'[n].size <= hdr'.limit

LEMMA RuntimeAllocFacts ==
  ASSUME RegionTypeOK, Len(blocks) >= 1,
         NEW h \in Headers, h.base = Len(blocks), h.limit = blocks[h.base],
         NEW sizes \in Seq(Nat), NEW align \in Nat \ {0}, NEW drop \in BOOLEAN,
         RuntimeAlloc(h, sizes, align, drop)
  PROVE  Allocated(h, drop)
<1> DEFINE total == Sum(sizes)
<1>1. total \in Nat /\ blocks \in Seq(Nat) /\ objs \in Seq(Objects)
  BY SumFacts DEF RegionTypeOK
<1>2. ASSUME NEW g \in Headers
      PROVE  End(g, total, align) \in Nat /\ End(g, total, align) >= g.cursor
             /\ g.cursor \in Nat /\ g.base \in Nat /\ g.limit \in Nat
  <2>1. Start(g, align) \in Nat /\ Start(g, align) >= g.cursor
    BY StartFacts
  <2>2. g.cursor \in Nat /\ g.base \in Nat /\ g.limit \in Nat
    BY DEF Headers
  <2> QED
    BY <1>1, <2>1, <2>2 DEF End
<1> HIDE DEF total
<1>3. CASE /\ Fits(h, total, align)
           /\ hdr' = [h EXCEPT !.cursor = End(h, total, align)]
           /\ Place(h, align, sizes, drop)
           /\ UNCHANGED blocks
  <2>1. /\ hdr' \in Headers /\ hdr'.base = h.base /\ hdr'.limit = h.limit
        /\ hdr'.cursor = End(h, total, align)
    BY <1>2, <1>3 DEF Headers
  <2>2. Placed(h.base, End(h, total, align), drop) /\ After(h.cursor)
    BY <1>3, PlaceFacts DEF total
  <2>3. Placed(hdr'.base, hdr'.cursor, drop)
    BY <2>1, <2>2
  <2>4. End(h, total, align) <= h.limit
    BY <1>3 DEF Fits
  <2>5. \A n \in NewIds : objs'[n].off + objs'[n].size <= hdr'.limit
    <3>1. \A n \in NewIds : objs'[n] \in Objects
      BY <2>2 DEF Placed, NewIds
    <3>2. \A n \in NewIds : objs'[n].off + objs'[n].size \in Nat
      BY <3>1 DEF Objects
    <3>3. \A n \in NewIds : objs'[n].off + objs'[n].size <= hdr'.cursor
      BY <2>3 DEF Placed
    <3>4. hdr'.cursor \in Nat /\ hdr'.limit \in Nat /\ hdr'.cursor <= hdr'.limit
      BY <2>1, <2>4, <1>2
    <3> QED
      BY <3>2, <3>3, <3>4
  <2> QED
    BY <2>1, <2>2, <2>3, <2>5, <1>1, <1>2, <1>3 DEF Allocated
<1>4. ASSUME NEW next \in NextSizes(total),
             blocks' = Append(blocks, next),
             NEW new, new = [base |-> Len(blocks) + 1, cursor |-> 0, limit |-> next],
             hdr' = [new EXCEPT !.cursor = End(new, total, align)],
             Place(new, align, sizes, drop)
      PROVE  Allocated(h, drop)
  <2>1. next \in Nat /\ next >= total
    BY <1>1, NextSizesFit
  <2>2. new \in Headers /\ new.base = Len(blocks) + 1 /\ new.cursor = 0 /\ new.limit = next
    BY <1>1, <1>4, <2>1 DEF Headers
  <2>3. /\ hdr' \in Headers /\ hdr'.base = Len(blocks) + 1 /\ hdr'.limit = next
        /\ hdr'.cursor = End(new, total, align)
    BY <1>2, <1>4, <2>2 DEF Headers
  <2>4. Placed(hdr'.base, hdr'.cursor, drop)
    <3>1. Placed(new.base, End(new, total, align), drop)
      BY <1>4, <2>2, PlaceFacts DEF total
    <3> QED
      BY <3>1, <2>2, <2>3
  <2>5. hdr'.base # h.base
    BY <2>3, <1>1
  <2>7. End(new, total, align) = total
    <3>1. Floor \in Nat \ {0}
      BY DEF Floor
    <3>2. PICK a \in Nat \ {0} : a = Max({align, Floor})
      BY <3>1, MaxOfTwo
    <3>3. (a - 1) \div a = 0
      <4>1. PICK q \in Int : q = (a - 1) \div a
        BY <3>2
      <4>2. PICK m \in 0..a - 1 : a - 1 = a * q + m
        <5>1. /\ a - 1 \in Nat /\ (a - 1) % a \in 0..a - 1
              /\ a - 1 = a * ((a - 1) \div a) + ((a - 1) % a)
          BY <3>2, SMTT(40)
        <5> QED
          BY <4>1, <5>1
      <4>3. ~ (q <= -1)
        <5>1. q <= -1 => a * q <= a * (-1)
          BY <3>2
        <5> QED
          BY <5>1, <4>2, <3>2
      <4>4. ~ (q >= 1)
        <5>1. q >= 1 => a * q >= a * 1
          BY <3>2
        <5> QED
          BY <5>1, <4>2, <3>2
      <4> QED
        BY <4>1, <4>3, <4>4
    <3>4. AlignUp(0, a) = 0
      BY <3>2, <3>3 DEF AlignUp
    <3> QED
      BY <2>2, <3>2, <3>4, <1>1 DEF End, Start
  <2>8. \A n \in NewIds : objs'[n].off + objs'[n].size <= hdr'.limit
    <3>1. \A n \in NewIds : objs'[n] \in Objects
      BY <2>4 DEF Placed, NewIds
    <3>2. \A n \in NewIds : objs'[n].off + objs'[n].size \in Nat
      BY <3>1 DEF Objects
    <3>3. \A n \in NewIds : objs'[n].off + objs'[n].size <= hdr'.cursor
      BY <2>4 DEF Placed
    <3>4. hdr'.cursor \in Nat /\ hdr'.limit \in Nat /\ hdr'.cursor <= hdr'.limit
      BY <2>1, <2>3, <2>7, <1>1
    <3> QED
      BY <3>2, <3>3, <3>4
  <2>9. /\ blocks' \in Seq(Nat) /\ Len(blocks') = Len(blocks) + 1
        /\ \A b \in 1..Len(blocks) : blocks'[b] = blocks[b]
        /\ blocks'[Len(blocks) + 1] = next
    BY <1>1, <1>4, <2>1
  <2> QED
    BY <2>3, <2>4, <2>5, <2>8, <2>9, <1>1 DEF Allocated
<1>5. CASE hdr' = h /\ UNCHANGED <<blocks, objs>>
  <2>2. NewIds = {} /\ Len(objs) + 1..Len(objs') = {}
    BY <1>5, <1>1 DEF NewIds
  <2>3. Placed(hdr'.base, hdr'.cursor, drop) /\ After(h.cursor)
    BY <1>5, <1>1, <2>2 DEF Placed, After, Ids
  <2>4. hdr' \in Headers /\ hdr'.base = h.base /\ hdr'.cursor >= h.cursor
    BY <1>2, <1>5
  <2> QED
    BY <2>2, <2>3, <2>4, <1>1, <1>5 DEF Allocated
<1> QED
  BY <1>3, <1>4, <1>5 DEF RuntimeAlloc, total

----------------------------------------------------------------------------
(* What the steps keep. *)

(* Nothing is scribbled on when all that can be reached in the block lies  *)
(* before the place from where on the bump puts its objects.               *)
LEMMA ScribblesOnNothing ==
  ASSUME RegionTypeOK, NEW block, NEW cursor, NEW drop, Placed(block, cursor, drop),
         NEW from \in Nat, After(from),
         \A o \in Ids \ dead' : objs[o].block = block => Ends(o) <= from
  PROVE  NoScribble
<1> SUFFICES ASSUME NEW n \in NewIds, NEW o \in DOMAIN objs' \ (dead' \cup {n})
             PROVE  Apart(n, o)'
  BY DEF NoScribble
<1>1. objs' \in Seq(Objects) /\ n \in DOMAIN objs' /\ o \in DOMAIN objs' /\ n # o
  BY DEF Placed, NewIds
<1>2. objs'[n] \in Objects /\ objs'[o] \in Objects
  BY <1>1
<1>3. PICK p \in Objects, q \in Objects : p = objs'[n] /\ q = objs'[o]
  BY <1>2
<1>4. /\ p.off \in Nat /\ p.size \in Nat /\ q.off \in Nat /\ q.size \in Nat
  BY DEF Objects
<1>5. p.block # q.block \/ p.off + p.size <= q.off \/ q.off + q.size <= p.off
  <2>1. CASE o \in Ids
    <3>1. q = objs[o] /\ p.block = block /\ p.off >= from
      BY <1>3, <2>1 DEF Placed, After
    <3>2. q.block = block => q.off + q.size <= from
      BY <3>1, <2>1 DEF Ends
    <3> QED
      BY <3>1, <3>2, <1>4
  <2>2. CASE o \notin Ids
    <3>1. o \in NewIds
      BY <2>2 DEF NewIds, Ids
    <3>2. NewIds = Len(objs) + 1..Len(objs') /\ Len(objs) \in Nat /\ Len(objs') \in Nat
      BY <1>1 DEF Placed, RegionTypeOK
    <3>3. n < o \/ o < n
      BY <3>1, <3>2, <1>1
    <3> QED
      BY <3>1, <3>3, <1>3 DEF Placed
  <2> QED
    BY <2>1, <2>2
<1>6. p.block # q.block \/ (p.off .. p.off + p.size - 1) \cap (q.off .. q.off + q.size - 1) = {}
  BY <1>4, <1>5
<1> QED
  BY <1>3, <1>6 DEF Apart, Extent

(* One allocation through the runtime, by whichever header h of the        *)
(* current block; `from` its callers show to be beyond what is in reach.   *)
LEMMA AllocStep ==
  ASSUME PlaceInv, ~destroyed, strategy' = strategy, destroyed' = destroyed,
         reg' \in Headers,
         NEW h \in Headers, h.base = hdr.base, h.limit = hdr.limit,
         NEW drop \in BOOLEAN, Allocated(h, drop),
         \A o \in Ids \ dead' : objs[o].block = hdr.base => Ends(o) <= h.cursor
  PROVE  /\ NoScribble /\ RegionTypeOK' /\ InBlocks'
         /\ hdr'.base = Len(blocks') /\ hdr'.base >= 1 /\ hdr'.limit = blocks'[hdr'.base]
         /\ Len(blocks') >= Len(blocks) /\ \A b \in 1..Len(blocks) : blocks'[b] = blocks[b]
         /\ \A i \in Ids' \ dead' : objs'[i].block = hdr'.base => Ends(i)' <= hdr'.cursor
<1>1. /\ RegionTypeOK /\ hdr.base = Len(blocks) /\ hdr.base >= 1 /\ InBlocks
      /\ Len(blocks) \in Nat
  BY DEF PlaceInv, HeadersFit, RegionTypeOK
<1>2. /\ blocks' \in Seq(Nat) /\ Len(blocks') >= Len(blocks) /\ Len(blocks') \in Nat
      /\ \A b \in 1..Len(blocks) : blocks'[b] = blocks[b]
      /\ hdr' \in Headers /\ hdr'.base = Len(blocks') /\ hdr'.limit = blocks'[hdr'.base]
      /\ hdr'.base >= 1
      /\ hdr'.base = h.base \/ hdr'.base = Len(blocks) + 1
      /\ Placed(hdr'.base, hdr'.cursor, drop)
      /\ objs' \in Seq(Objects) /\ \A i \in Ids : i \in Ids' /\ objs'[i] = objs[i]
      /\ \A n \in NewIds : objs'[n].block = hdr'.base /\ Ends(n)' <= hdr'.cursor
                           /\ Ends(n)' <= hdr'.limit
  <2>1. /\ blocks' \in Seq(Nat) /\ Len(blocks') >= Len(blocks)
        /\ \A b \in 1..Len(blocks) : blocks'[b] = blocks[b]
        /\ hdr' \in Headers /\ hdr'.base = Len(blocks') /\ hdr'.limit = blocks'[hdr'.base]
        /\ hdr'.base = h.base \/ hdr'.base = Len(blocks) + 1
        /\ Placed(hdr'.base, hdr'.cursor, drop)
        /\ \A n \in NewIds : objs'[n].off + objs'[n].size <= hdr'.limit
    BY DEF Allocated
  <2>2. /\ objs' \in Seq(Objects) /\ \A i \in Ids : i \in Ids' /\ objs'[i] = objs[i]
        /\ \A n \in NewIds : objs'[n].block = hdr'.base /\ objs'[n].off + objs'[n].size <= hdr'.cursor
    BY <2>1 DEF Placed, Ids
  <2> QED
    BY <2>1, <2>2, <1>1 DEF Ends
<1>3. RegionTypeOK'
  BY <1>1, <1>2 DEF RegionTypeOK
<1>4. h.cursor \in Nat
  BY DEF Headers
<1>5. hdr'.cursor \in Nat
  BY <1>2 DEF Headers
<1>6. \A i \in Ids : objs[i].block \in Nat /\ Ends(i) \in Nat
  <2>1. \A i \in Ids : objs[i] \in Objects
    BY <1>1 DEF RegionTypeOK, Ids
  <2> QED
    BY <2>1 DEF Ends, Objects
<1>7. \A i \in Ids : objs[i].block \in 1..Len(blocks) /\ Ends(i) <= blocks[objs[i].block]
  BY <1>1 DEF InBlocks
<1>8. NoScribble
  <2>1. CASE hdr'.base = h.base
    BY <2>1, <1>1, <1>2, <1>4, ScribblesOnNothing DEF Allocated
  <2>2. CASE hdr'.base = Len(blocks) + 1
    <3>1. After(0)
      <4>1. \A n \in NewIds : objs'[n] \in Objects
        BY <1>2 DEF NewIds
      <4> QED
        BY <4>1 DEF After, Objects
    <3>2. \A o \in Ids : objs[o].block # hdr'.base
      BY <2>2, <1>1, <1>7
    <3> QED
      BY <3>1, <3>2, <1>1, <1>2, ScribblesOnNothing
  <2> QED
    BY <2>1, <2>2, <1>2
<1>9. \A i \in Ids' : i \in Ids \/ i \in NewIds
  BY DEF Ids, NewIds
<1>10. \A i \in Ids : Ends(i)' = Ends(i)
  BY <1>2 DEF Ends
<1>11. InBlocks'
  <2>1. ASSUME NEW i \in Ids
        PROVE  objs'[i].block \in 1..Len(blocks') /\ Ends(i)' <= blocks'[objs'[i].block]
    BY <1>1, <1>2, <1>7, <1>10, SMTT(30)
  <2>2. ASSUME NEW i \in NewIds
        PROVE  objs'[i].block \in 1..Len(blocks') /\ Ends(i)' <= blocks'[objs'[i].block]
    BY <1>2
  <2> QED
    BY <2>1, <2>2, <1>9 DEF InBlocks
<1>12. ASSUME NEW i \in Ids' \ dead', objs'[i].block = hdr'.base
       PROVE  Ends(i)' <= hdr'.cursor
  <2>1. CASE i \in Ids
    <3>1. objs[i].block = hdr'.base /\ Ends(i)' = Ends(i)
      BY <2>1, <1>2, <1>10, <1>12
    <3>2. hdr'.base = h.base
      BY <3>1, <2>1, <1>1, <1>2, <1>7
    <3>3. Ends(i) <= h.cursor /\ hdr'.cursor >= h.cursor
      BY <2>1, <3>1, <3>2, <1>12 DEF Allocated
    <3> QED
      BY <2>1, <3>1, <3>3, <1>4, <1>5, <1>6
  <2>2. CASE i \in NewIds
    BY <2>2, <1>2
  <2> QED
    BY <2>1, <2>2, <1>9
<1> QED
  BY <1>2, <1>3, <1>8, <1>11, <1>12

LEMMA InitPlaces == RegionInit => PlaceInv
<1> SUFFICES ASSUME RegionInit PROVE PlaceInv
  OBVIOUS
<1>1. RegionTypeOK
  <2>1. hdr \in Headers /\ reg \in Headers
    BY RegionAssumption DEF RegionInit, Headers, NoReg
  <2>2. blocks \in Seq(Nat)
    BY RegionAssumption DEF RegionInit
  <2>3. objs \in Seq(Objects)
    BY DEF RegionInit
  <2> QED
    BY <2>1, <2>2, <2>3, RegionAssumption DEF RegionInit, RegionTypeOK
<1>2. HeadersFit /\ ~InLoop
  BY RegionAssumption DEF RegionInit, HeadersFit, InLoop
<1>3. Ids = {}
  BY DEF RegionInit, Ids
<1> QED
  BY <1>1, <1>2, <1>3 DEF PlaceInv, InBlocks, BeforeCursors, RegionInit

(* Allocate and InlineBump: no loop runs. *)
LEMMA OutsideLoop ==
  ASSUME PlaceInv, Open, ~InLoop, NEW sizes \in Seq(Nat), NEW align \in Nat \ {0},
         NEW drop \in BOOLEAN, RuntimeAlloc(hdr, sizes, align, drop),
         UNCHANGED <<strategy, reg, fresh, dead, destroyed>>
  PROVE  PlaceInv' /\ NoScribble /\ Allocated(hdr, drop)
<1>1. /\ RegionTypeOK /\ HeadersFit /\ BeforeCursors /\ ~destroyed /\ hdr \in Headers
      /\ reg \in Headers /\ fresh = {} /\ Len(blocks) >= 1
  BY DEF PlaceInv, Open, RegionTypeOK, HeadersFit
<1>2. Allocated(hdr, drop)
  BY <1>1, RuntimeAllocFacts DEF HeadersFit
<1>3. \A o \in Ids \ dead' : objs[o].block = hdr.base => Ends(o) <= hdr.cursor
  BY <1>1 DEF BeforeCursors
<1>4. /\ NoScribble /\ RegionTypeOK' /\ InBlocks'
      /\ hdr'.base = Len(blocks') /\ hdr'.base >= 1 /\ hdr'.limit = blocks'[hdr'.base]
      /\ \A i \in Ids' \ dead' : objs'[i].block = hdr'.base => Ends(i)' <= hdr'.cursor
  BY <1>1, <1>2, <1>3, AllocStep
<1>5. InLoop' = InLoop
  BY DEF InLoop
<1> QED
  BY <1>1, <1>2, <1>4, <1>5 DEF PlaceInv, HeadersFit, BeforeCursors

LEMMA EnterPlaces == PlaceInv /\ EnterLoop => PlaceInv' /\ NoScribble
<1> SUFFICES ASSUME PlaceInv, EnterLoop PROVE PlaceInv' /\ NoScribble
  OBVIOUS
<1>1. /\ RegionTypeOK /\ HeadersFit /\ InBlocks /\ BeforeCursors /\ ~destroyed /\ ~InLoop
      /\ reg' = hdr /\ fresh' = {}
      /\ UNCHANGED <<strategy, blocks, hdr, objs, dead, destroyed>>
  BY DEF PlaceInv, EnterLoop, Open
<1>2. RegionTypeOK' /\ InBlocks'
  BY <1>1 DEF RegionTypeOK, InBlocks, Ids, Ends
<1>3. InLoop'
  BY <1>1 DEF InLoop, NoReg, HeadersFit
<1>4. HeadersFit'
  BY <1>1 DEF HeadersFit, RegionTypeOK
<1>5. BeforeCursors'
  BY <1>1, <1>3 DEF BeforeCursors, Ids, Ends, InBlocks, HeadersFit
<1>6. NewIds = {}
  BY <1>1 DEF NewIds
<1> QED
  BY <1>1, <1>2, <1>3, <1>4, <1>5, <1>6 DEF PlaceInv, NoScribble

(* The registers' own bump. *)
LEMMA FastBump ==
  ASSUME PlaceInv, ~destroyed, InLoop, NEW sizes \in Seq(Nat),
         Fits(reg, Sum(sizes), 8),
         reg' = [reg EXCEPT !.cursor = End(reg, Sum(sizes), 8)],
         Place(reg, 8, sizes, FALSE),
         dead' = dead \cup fresh, fresh' = NewIds,
         UNCHANGED <<strategy, blocks, hdr, destroyed>>
  PROVE  PlaceInv' /\ NoScribble /\ Placed(reg.base, reg'.cursor, FALSE)
<1>1. /\ RegionTypeOK /\ HeadersFit /\ InBlocks /\ BeforeCursors
      /\ reg \in Headers /\ reg.cursor \in Nat /\ reg.base \in 1..Len(blocks)
      /\ reg.limit = blocks[reg.base] /\ Len(blocks) \in Nat /\ reg.limit \in Nat
  <2>1. /\ RegionTypeOK /\ HeadersFit /\ InBlocks /\ BeforeCursors /\ reg \in Headers
        /\ Len(blocks) \in Nat
    BY DEF PlaceInv, RegionTypeOK
  <2>2. reg.base \in 1..Len(blocks) /\ reg.limit = blocks[reg.base]
    BY <2>1 DEF HeadersFit
  <2> QED
    BY <2>1, <2>2 DEF Headers
<1>2. End(reg, Sum(sizes), 8) \in Nat /\ End(reg, Sum(sizes), 8) >= reg.cursor
  <2>1. Start(reg, 8) \in Nat /\ Start(reg, 8) >= reg.cursor /\ Sum(sizes) \in Nat
    <3>1. 8 \in Nat \ {0}
      OBVIOUS
    <3> QED
      BY <1>1, <3>1, StartFacts, SumFacts
  <2> QED
    BY <2>1, <1>1 DEF End
<1>3. /\ reg' \in Headers /\ reg'.base = reg.base /\ reg'.limit = reg.limit
      /\ reg'.cursor = End(reg, Sum(sizes), 8)
  BY <1>1, <1>2 DEF Headers
<1>4. Placed(reg.base, reg'.cursor, FALSE) /\ After(reg.cursor)
  <2>1. 8 \in Nat \ {0} /\ FALSE \in BOOLEAN
    OBVIOUS
  <2> QED
    BY <1>1, <1>3, <2>1, PlaceFacts
<1>5. reg'.cursor <= blocks[reg.base]
  BY <1>1, <1>3 DEF Fits
<1>6. \A o \in Ids \ dead' : objs[o].block = reg.base => Ends(o) <= reg.cursor
  BY <1>1 DEF BeforeCursors
<1>7. NoScribble
  BY <1>1, <1>4, <1>6, ScribblesOnNothing
<1>8. /\ objs' \in Seq(Objects) /\ \A i \in Ids : i \in Ids' /\ objs'[i] = objs[i] /\ Ends(i)' = Ends(i)
      /\ \A n \in NewIds : objs'[n].block = reg.base /\ Ends(n)' <= reg'.cursor
      /\ \A i \in Ids' : i \in Ids \/ i \in NewIds
  BY <1>4 DEF Placed, Ids, Ends, NewIds
<1>9. \A i \in Ids' : objs'[i].block \in Nat /\ Ends(i)' \in Nat
  <2>1. \A i \in Ids' : objs'[i] \in Objects
    BY <1>8 DEF Ids
  <2> QED
    BY <2>1 DEF Ends, Objects
<1>10. RegionTypeOK'
  BY <1>1, <1>3, <1>8 DEF RegionTypeOK
<1>11. InLoop' /\ HeadersFit'
  <2>1. InLoop'
    BY <1>1, <1>3 DEF InLoop, NoReg
  <2> QED
    BY <2>1, <1>1, <1>3 DEF HeadersFit
<1>12. InBlocks'
  <2>1. ASSUME NEW i \in NewIds
        PROVE  objs'[i].block \in 1..Len(blocks') /\ Ends(i)' <= blocks'[objs'[i].block]
    <3>1. i \in Ids' /\ objs'[i].block = reg.base /\ Ends(i)' <= reg'.cursor
      BY <1>8 DEF NewIds, Ids
    <3> QED
      BY <3>1, <1>1, <1>2, <1>3, <1>5, <1>9
  <2>2. \A i \in Ids : objs'[i].block \in 1..Len(blocks') /\ Ends(i)' <= blocks'[objs'[i].block]
    BY <1>1, <1>8 DEF InBlocks
  <2> QED
    BY <2>1, <2>2, <1>8 DEF InBlocks
<1>13. BeforeCursors'
  <2>1. ASSUME NEW i \in Ids' \ dead'
        PROVE  /\ objs'[i].block <= reg'.base
               /\ objs'[i].block = reg'.base => Ends(i)' <= reg'.cursor
               /\ i \notin fresh' => (objs'[i].block = hdr'.base => Ends(i)' <= hdr'.cursor)
    <3>1. CASE i \in NewIds
      BY <3>1, <1>1, <1>3, <1>8
    <3>2. CASE i \in Ids
      <4>1. /\ objs[i].block <= reg.base
            /\ objs[i].block = reg.base => Ends(i) <= reg.cursor
            /\ objs[i].block = hdr.base => Ends(i) <= hdr.cursor
        BY <3>2, <1>1 DEF BeforeCursors
      <4>2. objs'[i] = objs[i] /\ Ends(i)' = Ends(i) /\ Ends(i)' \in Nat
        BY <3>2, <1>8, <1>9
      <4> QED
        BY <4>1, <4>2, <1>1, <1>2, <1>3
    <3> QED
      BY <3>1, <3>2, <1>8
  <2> QED
    BY <2>1, <1>11 DEF BeforeCursors
<1> QED
  BY <1>4, <1>7, <1>10, <1>11, <1>12, <1>13 DEF PlaceInv

(* The way through the runtime, by the header with the registers' cursor:  *)
(* what is in reach in the current block was put there by the registers.   *)
LEMMA SlowBump ==
  ASSUME PlaceInv, ~destroyed, InLoop, NEW sizes \in Seq(Nat),
         RuntimeAlloc([hdr EXCEPT !.cursor = reg.cursor], sizes, 8, FALSE),
         reg' = hdr',
         dead' = dead \cup fresh, fresh' = NewIds,
         UNCHANGED <<strategy, destroyed>>
  PROVE  /\ PlaceInv' /\ NoScribble
         /\ Allocated([hdr EXCEPT !.cursor = reg.cursor], FALSE)
<1>1. /\ RegionTypeOK /\ HeadersFit /\ InBlocks /\ BeforeCursors
      /\ hdr \in Headers /\ reg \in Headers /\ Len(blocks) >= 1
  BY DEF PlaceInv, RegionTypeOK, HeadersFit
<1>2. PICK h \in Headers : /\ h = [hdr EXCEPT !.cursor = reg.cursor]
                           /\ h.base = hdr.base /\ h.limit = hdr.limit /\ h.cursor = reg.cursor
  <2>1. PICK h : h = [hdr EXCEPT !.cursor = reg.cursor]
    OBVIOUS
  <2>2. h \in Headers /\ h.base = hdr.base /\ h.limit = hdr.limit /\ h.cursor = reg.cursor
    BY <1>1, <2>1 DEF Headers
  <2> QED
    BY <2>1, <2>2
<1>3. 8 \in Nat \ {0} /\ FALSE \in BOOLEAN
  OBVIOUS
<1>4. Allocated(h, FALSE)
  BY <1>1, <1>2, <1>3, RuntimeAllocFacts DEF HeadersFit
<1>5. \A o \in Ids \ dead' : objs[o].block = hdr.base => Ends(o) <= h.cursor
  <2>1. ASSUME NEW o \in Ids \ dead', objs[o].block = hdr.base
        PROVE  Ends(o) <= reg.cursor
    <3>1. /\ objs[o].block <= reg.base /\ (objs[o].block = reg.base => Ends(o) <= reg.cursor)
      BY <2>1, <1>1 DEF BeforeCursors
    <3>2. reg.base <= hdr.base /\ reg.base \in Nat /\ hdr.base \in Nat
      BY <1>1 DEF HeadersFit, Headers
    <3> QED
      BY <3>1, <3>2, <2>1
  <2> QED
    BY <2>1, <1>2
<1>6. /\ NoScribble /\ RegionTypeOK' /\ InBlocks' /\ hdr' \in Headers
      /\ hdr'.base = Len(blocks') /\ hdr'.base >= 1 /\ hdr'.limit = blocks'[hdr'.base]
      /\ \A i \in Ids' \ dead' : objs'[i].block = hdr'.base => Ends(i)' <= hdr'.cursor
  <2>1. hdr' \in Headers
    BY <1>4 DEF Allocated
  <2> QED
    BY <1>1, <1>2, <1>3, <1>4, <1>5, <2>1, AllocStep
<1>7. InLoop'
  BY <1>6 DEF InLoop, NoReg
<1>8. HeadersFit'
  BY <1>6, <1>7 DEF HeadersFit, RegionTypeOK
<1>9. BeforeCursors'
  <2>1. \A i \in Ids' : objs'[i].block <= Len(blocks')
    BY <1>6 DEF InBlocks, RegionTypeOK
  <2> QED
    BY <2>1, <1>6, <1>7 DEF BeforeCursors
<1> QED
  BY <1>2, <1>4, <1>6, <1>7, <1>8, <1>9 DEF PlaceInv

LEMMA LoopBumpPlaces ==
  ASSUME PlaceInv, NEW sizes \in Seq(Nat), LoopBump(sizes)
  PROVE  PlaceInv' /\ NoScribble
  BY FastBump, SlowBump DEF LoopBump, Open

(* The mirror goes where the header in memory points; what the iteration   *)
(* put there through the registers is out of reach by now.                 *)
LEMMA MirrorPlaces ==
  ASSUME PlaceInv, NEW size \in Nat, LoopMirror(size)
  PROVE  PlaceInv' /\ NoScribble /\ Allocated(hdr, FALSE)
<1>1. /\ RegionTypeOK /\ HeadersFit /\ InBlocks /\ BeforeCursors /\ InLoop /\ ~destroyed
      /\ hdr \in Headers /\ reg \in Headers /\ Len(blocks) >= 1 /\ Len(blocks) \in Nat
  BY DEF PlaceInv, RegionTypeOK, HeadersFit, LoopMirror, Open
<1>2. /\ RuntimeAlloc(hdr, <<size>>, 8, FALSE) /\ <<size>> \in Seq(Nat)
      /\ 8 \in Nat \ {0} /\ FALSE \in BOOLEAN
  <2>1. RuntimeAlloc(hdr, <<size>>, 8, FALSE)
    BY DEF LoopMirror
  <2>2. <<size>> \in Seq(Nat) /\ 8 \in Nat \ {0} /\ FALSE \in BOOLEAN
    OBVIOUS
  <2> QED
    BY <2>1, <2>2
<1>3. Allocated(hdr, FALSE)
  BY <1>1, <1>2, RuntimeAllocFacts DEF HeadersFit
<1>4. /\ dead' = dead \cup fresh \cup NewIds /\ fresh' = {}
      /\ reg' = reg /\ strategy' = strategy /\ destroyed' = destroyed
  BY DEF LoopMirror
<1>5. \A o \in Ids \ dead' : objs[o].block = hdr.base => Ends(o) <= hdr.cursor
  BY <1>1, <1>4 DEF BeforeCursors
<1>6. /\ NoScribble /\ RegionTypeOK' /\ InBlocks'
      /\ hdr'.base = Len(blocks') /\ hdr'.base >= 1 /\ hdr'.limit = blocks'[hdr'.base]
      /\ Len(blocks') >= Len(blocks) /\ \A b \in 1..Len(blocks) : blocks'[b] = blocks[b]
      /\ \A i \in Ids' \ dead' : objs'[i].block = hdr'.base => Ends(i)' <= hdr'.cursor
  BY <1>1, <1>2, <1>3, <1>4, <1>5, AllocStep
<1>7. InLoop' /\ Len(blocks') \in Nat
  BY <1>1, <1>4, <1>6 DEF InLoop, RegionTypeOK
<1>8. HeadersFit'
  BY <1>1, <1>4, <1>6, <1>7 DEF HeadersFit
<1>9. BeforeCursors'
  <2>1. ASSUME NEW i \in Ids' \ dead'
        PROVE  /\ objs'[i].block <= reg.base
               /\ objs'[i].block = reg.base => Ends(i)' <= reg.cursor
    <3>1. i \in Ids \ dead /\ objs'[i] = objs[i] /\ Ends(i)' = Ends(i)
      <4>1. i \in Ids
        BY <1>4 DEF NewIds, Ids
      <4>2. objs'[i] = objs[i]
        BY <4>1, <1>3 DEF Allocated, Placed
      <4> QED
        BY <4>1, <4>2, <1>4 DEF Ends
    <3> QED
      BY <3>1, <1>1 DEF BeforeCursors
  <2> QED
    BY <2>1, <1>4, <1>6, <1>7 DEF BeforeCursors
<1> QED
  BY <1>1, <1>3, <1>4, <1>6, <1>7, <1>8, <1>9 DEF PlaceInv

(* The stored cursor may be of an older block; then nothing that can be    *)
(* reached is in the current one.                                          *)
LEMMA ExitPlaces == PlaceInv /\ ExitLoop => PlaceInv' /\ NoScribble
<1> SUFFICES ASSUME PlaceInv, ExitLoop PROVE PlaceInv' /\ NoScribble
  OBVIOUS
<1>1. /\ RegionTypeOK /\ HeadersFit /\ InBlocks /\ BeforeCursors /\ InLoop /\ ~destroyed
      /\ hdr \in Headers /\ reg \in Headers
      /\ hdr' = [hdr EXCEPT !.cursor = reg.cursor] /\ reg' = NoReg
      /\ dead' = dead \cup fresh /\ fresh' = {}
      /\ UNCHANGED <<strategy, blocks, objs, destroyed>>
  BY DEF PlaceInv, RegionTypeOK, ExitLoop
<1>2. /\ hdr' \in Headers /\ hdr'.base = hdr.base /\ hdr'.limit = hdr.limit
      /\ hdr'.cursor = reg.cursor /\ reg' \in Headers /\ ~InLoop'
  BY <1>1 DEF Headers, NoReg, InLoop
<1>3. RegionTypeOK' /\ InBlocks' /\ HeadersFit'
  BY <1>1, <1>2 DEF RegionTypeOK, InBlocks, Ids, Ends, HeadersFit
<1>4. BeforeCursors'
  <2>1. ASSUME NEW i \in Ids \ dead', objs[i].block = hdr.base PROVE Ends(i) <= reg.cursor
    <3>1. /\ objs[i].block <= reg.base /\ (objs[i].block = reg.base => Ends(i) <= reg.cursor)
      BY <2>1, <1>1 DEF BeforeCursors
    <3>2. reg.base <= hdr.base /\ reg.base \in Nat /\ hdr.base \in Nat
      BY <1>1 DEF HeadersFit, Headers
    <3> QED
      BY <3>1, <3>2, <2>1
  <2>2. Ids' = Ids /\ objs' = objs /\ \A i \in Ids : Ends(i)' = Ends(i)
    BY <1>1 DEF Ids, Ends
  <2> QED
    BY <2>1, <2>2, <1>2 DEF BeforeCursors
<1>5. NewIds = {}
  BY <1>1 DEF NewIds
<1> QED
  BY <1>1, <1>2, <1>3, <1>4, <1>5 DEF PlaceInv, NoScribble

LEMMA StepPlaces == PlaceInv /\ [RegionNext]_rVars => PlaceInv' /\ NoScribble
<1> SUFFICES ASSUME PlaceInv, [RegionNext]_rVars PROVE PlaceInv' /\ NoScribble
  OBVIOUS
<1>1. ASSUME NEW size \in Sizes, NEW align \in Aligns, NEW drop \in BOOLEAN,
             Allocate(size, align, drop)
      PROVE  PlaceInv' /\ NoScribble
  <2>1. <<size>> \in Seq(Nat) /\ align \in Nat \ {0}
    BY RegionAssumption
  <2>2. /\ Open /\ ~InLoop /\ RuntimeAlloc(hdr, <<size>>, align, drop)
        /\ UNCHANGED <<strategy, reg, fresh, dead, destroyed>>
    BY <1>1 DEF Allocate
  <2> QED
    BY <2>1, <2>2, OutsideLoop
<1>2. ASSUME NEW sizes \in Batches, InlineBump(sizes) PROVE PlaceInv' /\ NoScribble
  <2>1. sizes \in Seq(Nat) /\ 8 \in Nat \ {0} /\ FALSE \in BOOLEAN
    BY RegionAssumption
  <2>2. /\ Open /\ ~InLoop /\ RuntimeAlloc(hdr, sizes, 8, FALSE)
        /\ UNCHANGED <<strategy, reg, fresh, dead, destroyed>>
    BY <1>2 DEF InlineBump
  <2> QED
    BY <2>1, <2>2, OutsideLoop
<1>3. ASSUME NEW sizes \in Batches, LoopBump(sizes) PROVE PlaceInv' /\ NoScribble
  BY <1>3, RegionAssumption, LoopBumpPlaces
<1>4. ASSUME NEW size \in Sizes \ {0}, LoopMirror(size) PROVE PlaceInv' /\ NoScribble
  BY <1>4, RegionAssumption, MirrorPlaces
<1>5. ASSUME NEW i \in Ids, TransferOut(i) PROVE PlaceInv' /\ NoScribble
  <2>1. UNCHANGED <<strategy, blocks, hdr, reg, objs, fresh, dead, destroyed>>
    BY <1>5 DEF TransferOut
  <2> QED
    BY <2>1 DEF PlaceInv, RegionTypeOK, HeadersFit, InBlocks, BeforeCursors, Ids, Ends, InLoop,
                NoScribble, NewIds
<1>6. CASE Destroy
  <2>1. /\ destroyed' = TRUE /\ ~InLoop /\ UNCHANGED <<strategy, hdr, reg, objs, fresh, dead>>
        /\ blocks' = <<>>
    BY <1>6 DEF Destroy
  <2>2. blocks' \in Seq(Nat)
    BY <2>1
  <2> QED
    BY <2>1, <2>2 DEF PlaceInv, RegionTypeOK, InLoop, NoScribble, NewIds
<1>7. CASE UNCHANGED rVars
  BY <1>7 DEF rVars, PlaceInv, RegionTypeOK, HeadersFit, InBlocks, BeforeCursors, Ids, Ends, InLoop,
              NoScribble, NewIds
<1> QED
  BY <1>1, <1>2, <1>3, <1>4, <1>5, <1>6, <1>7, EnterPlaces, ExitPlaces DEF RegionNext

LEMMA AlwaysPlaced == RegionSpec => []PlaceInv
<1>1. PlaceInv /\ [RegionNext]_rVars => PlaceInv'
  BY StepPlaces
<1> QED
  BY <1>1, InitPlaces, PTL DEF RegionSpec

(* Every object lies inside its block, and no allocation, in registers, in *)
(* the runtime or of a mirror, is given memory that can still be reached.  *)
THEOREM ObjectsStayApart == RegionSpec => ObjectsKeepApart
<1>1. PlaceInv => InBounds
  BY DEF PlaceInv, InBlocks, InBounds, Ends
<1>2. PlaceInv' => InBounds'
  BY <1>1, PTL
<1>3. PlaceInv /\ [RegionNext]_rVars => [InBounds' /\ NoScribble]_rVars
  BY <1>2, StepPlaces
<1> QED
  BY <1>3, AlwaysPlaced, PTL DEF RegionSpec, ObjectsKeepApart

----------------------------------------------------------------------------
(* The destructor registry. *)

Entries == [ptr : Nat \X Nat, id : Nat]

(* The registry has one entry for each object with a destructor that has   *)
(* not been transferred, and is in the order of allocation but for an      *)
(* entry that swap_remove put in the place of an older one: it is younger  *)
(* than that object, which was transferred.                                *)
RegistryOk ==
  /\ dtors \in Seq(Entries)
  /\ \A k \in DOMAIN dtors : /\ dtors[k].id \in Ids \ moved /\ objs[dtors[k].id].drop
                             /\ dtors[k].ptr = Ptr(dtors[k].id)
  /\ \A a, b \in DOMAIN dtors : dtors[a].id = dtors[b].id => a = b
  /\ \A i \in Ids \ moved : objs[i].drop => \E k \in DOMAIN dtors : dtors[k].id = i
  /\ \A a, b \in DOMAIN dtors :
       a < b /\ (\A i \in moved : dtors[b].id < i) => dtors[a].id < dtors[b].id

DropInv ==
  /\ PlaceInv
  /\ moved \subseteq Ids
  /\ ~Aliased /\ ~destroyed => RegistryOk
  /\ DropsInOrder

LEMMA InitDrops == RegionInit => DropInv
<1> SUFFICES ASSUME RegionInit PROVE DropInv
  OBVIOUS
<1>1. Ids = {} /\ moved = {} /\ ~destroyed /\ dtors = <<>>
  BY DEF RegionInit, Ids
<1>2. RegistryOk
  BY <1>1 DEF RegistryOk
<1> QED
  BY <1>1, <1>2, InitPlaces DEF DropInv, DropsInOrder

(* An allocation keeps the older objects as they are. *)
OldStay ==
  /\ objs' \in Seq(Objects) /\ Len(objs) <= Len(objs')
  /\ \A i \in Ids : i \in Ids' /\ objs'[i] = objs[i] /\ Ptr(i)' = Ptr(i)

LEMMA PlacedStay ==
  ASSUME NEW block, NEW cursor, NEW drop, Placed(block, cursor, drop)
  PROVE  OldStay
  BY DEF Placed, OldStay, Ids, Ptr

LEMMA AllocatedStay ==
  ASSUME NEW h, NEW drop, Allocated(h, drop)
  PROVE  OldStay /\ \A n \in NewIds : objs'[n].drop = drop
<1>1. PICK block, cursor : Placed(block, cursor, drop)
  <2>1. Placed(hdr'.base, hdr'.cursor, drop)
    BY DEF Allocated
  <2> QED
    BY <2>1
<1>2. OldStay
  BY <1>1, PlacedStay
<1>3. \A n \in NewIds : objs'[n].drop = drop
  BY <1>1 DEF Placed
<1> QED
  BY <1>2, <1>3

LEMMA AliasedStays == OldStay /\ Aliased => Aliased'
<1> SUFFICES ASSUME OldStay, Aliased PROVE Aliased'
  OBVIOUS
<1>1. PICK i, j \in Ids : i # j /\ objs[i].drop /\ Ptr(i) = Ptr(j)
  BY DEF Aliased
<1>2. i \in Ids' /\ j \in Ids' /\ objs'[i].drop /\ Ptr(i)' = Ptr(j)'
  BY <1>1 DEF OldStay
<1> QED
  BY <1>1, <1>2 DEF Aliased

(* Objects without a destructor leave the registry alone. *)
LEMMA PlainObjects ==
  ASSUME DropInv, PlaceInv', ~destroyed, OldStay,
         \A n \in NewIds : ~objs'[n].drop,
         UNCHANGED <<dtors, moved, destroyed>>
  PROVE  DropInv'
<1>1. \A i \in Ids' : i \in Ids \/ i \in NewIds
  BY DEF Ids, NewIds
<1>2. moved' \subseteq Ids'
  BY DEF DropInv, OldStay
<1>3. ASSUME ~Aliased' PROVE RegistryOk'
  <2>1. RegistryOk
    BY <1>3, AliasedStays DEF DropInv
  <2>2. dtors' = dtors /\ moved' = moved
    OBVIOUS
  <2>3. dtors \in Seq(Entries)
    BY <2>1 DEF RegistryOk
  <2>4. \A k \in DOMAIN dtors : /\ dtors[k].id \in Ids' \ moved' /\ objs'[dtors[k].id].drop
                                /\ dtors[k].ptr = Ptr(dtors[k].id)'
    BY <2>1, <2>2 DEF RegistryOk, OldStay
  <2>5. \A i \in Ids' \ moved' : objs'[i].drop => \E k \in DOMAIN dtors : dtors[k].id = i
    BY <2>1, <2>2, <1>1 DEF RegistryOk, OldStay
  <2>6. /\ \A a, b \in DOMAIN dtors : dtors[a].id = dtors[b].id => a = b
        /\ \A a, b \in DOMAIN dtors :
             a < b /\ (\A i \in moved : dtors[b].id < i) => dtors[a].id < dtors[b].id
    BY <2>1 DEF RegistryOk
  <2> QED
    BY <2>2, <2>3, <2>4, <2>5, <2>6 DEF RegistryOk
<1> QED
  BY <1>2, <1>3 DEF DropInv, DropsInOrder

(* The new entry is of the youngest object of all. *)
LEMMA RegisteredObject ==
  ASSUME DropInv, PlaceInv', ~destroyed, OldStay,
         NewIds = {Len(objs')}, objs'[Len(objs')].drop,
         dtors' = Append(dtors, [ptr |-> <<Last(objs').block, Last(objs').off>>,
                                 id |-> Len(objs')]),
         UNCHANGED <<moved, destroyed>>
  PROVE  DropInv'
<1>0. PICK new : new = Len(objs')
  OBVIOUS
<1>6. PICK entry : entry = [ptr |-> <<Last(objs').block, Last(objs').off>>, id |-> new]
  OBVIOUS
<1>1. \A i \in Ids' : i \in Ids \/ i = new
  BY <1>0 DEF Ids, NewIds
<1>2. /\ new \in Ids' /\ new \notin Ids /\ objs'[new] \in Objects /\ new \in Nat
      /\ \A i \in Ids : i < new /\ i \in Nat
  <2>1. new \in NewIds /\ objs' \in Seq(Objects) /\ objs \in Seq(Objects)
    BY <1>0 DEF OldStay, DropInv, PlaceInv, RegionTypeOK
  <2>2. DOMAIN objs = 1..Len(objs) /\ DOMAIN objs' = 1..Len(objs') /\ Len(objs) \in Nat /\ new \in Nat
    BY <1>0, <2>1
  <2>3. Len(objs) <= new
    BY <1>0 DEF OldStay
  <2> QED
    BY <2>1, <2>2, <2>3 DEF NewIds, Ids
<1>3. entry \in Entries /\ entry.id = new /\ entry.ptr = Ptr(new)'
  <2>1. objs'[new].block \in Nat /\ objs'[new].off \in Nat /\ Last(objs') = objs'[new]
    BY <1>0, <1>2 DEF Objects, Last
  <2>2. entry = [ptr |-> <<objs'[new].block, objs'[new].off>>, id |-> new]
    BY <2>1, <1>6
  <2>3. Ptr(new)' = <<objs'[new].block, objs'[new].off>>
    BY DEF Ptr
  <2> QED
    BY <2>1, <2>2, <2>3, <1>2 DEF Entries
<1>4. moved' \subseteq Ids' /\ new \notin moved' /\ moved' = moved
  BY <1>2 DEF DropInv, OldStay
<1>5. ASSUME ~Aliased' PROVE RegistryOk'
  <2>1. RegistryOk
    BY <1>5, AliasedStays DEF DropInv
  <2>2. PICK d : d = Append(dtors, entry)
    OBVIOUS
  <2>3. /\ d \in Seq(Entries) /\ dtors \in Seq(Entries) /\ Len(dtors) \in Nat
        /\ DOMAIN dtors = 1..Len(dtors) /\ DOMAIN d = 1..Len(dtors) + 1
        /\ \A k \in DOMAIN dtors : d[k] = dtors[k]
        /\ d[Len(dtors) + 1] = entry
    <3>1. dtors \in Seq(Entries)
      BY <2>1 DEF RegistryOk
    <3> QED
      BY <3>1, <2>2, <1>3
  <2>4. \A k \in DOMAIN d : k \in DOMAIN dtors \/ k = Len(dtors) + 1
    BY <2>3
  <2>5. \A k \in DOMAIN dtors : dtors[k].id \in Ids /\ dtors[k].id < new /\ dtors[k].id # new
    BY <2>1, <1>2 DEF RegistryOk
  <2>6. \A k \in DOMAIN d : /\ d[k].id \in Ids' \ moved' /\ objs'[d[k].id].drop
                            /\ d[k].ptr = Ptr(d[k].id)'
    <3>1. ASSUME NEW k \in DOMAIN dtors
          PROVE  /\ d[k].id \in Ids' \ moved' /\ objs'[d[k].id].drop
                 /\ d[k].ptr = Ptr(d[k].id)'
      BY <2>1, <2>3, <1>4 DEF RegistryOk, OldStay
    <3>2. /\ entry.id \in Ids' \ moved' /\ objs'[entry.id].drop /\ entry.ptr = Ptr(entry.id)'
      BY <1>0, <1>2, <1>3, <1>4
    <3> QED
      BY <3>1, <3>2, <2>3, <2>4
  <2>7. \A a, b \in DOMAIN d : d[a].id = d[b].id => a = b
    BY <2>1, <2>3, <2>4, <2>5, <1>3 DEF RegistryOk
  <2>8. \A i \in Ids' \ moved' : objs'[i].drop => \E k \in DOMAIN d : d[k].id = i
    <3>1. ASSUME NEW i \in Ids \ moved, objs[i].drop PROVE \E k \in DOMAIN d : d[k].id = i
      <4>1. PICK k \in DOMAIN dtors : dtors[k].id = i
        BY <2>1, <3>1 DEF RegistryOk
      <4> QED
        BY <4>1, <2>3
    <3>2. \E k \in DOMAIN d : d[k].id = new
      BY <2>3, <1>3
    <3> QED
      BY <3>1, <3>2, <1>1, <1>4 DEF OldStay
  <2>9. \A a, b \in DOMAIN d :
          a < b /\ (\A i \in moved' : d[b].id < i) => d[a].id < d[b].id
    <3> SUFFICES ASSUME NEW a \in DOMAIN d, NEW b \in DOMAIN d, a < b,
                        \A i \in moved' : d[b].id < i
                 PROVE  d[a].id < d[b].id
      OBVIOUS
    <3>1. a \in DOMAIN dtors
      BY <2>3
    <3>2. CASE b \in DOMAIN dtors
      BY <3>1, <3>2, <2>1, <2>3, <1>4 DEF RegistryOk
    <3>3. CASE b = Len(dtors) + 1
      BY <3>1, <3>3, <2>3, <2>5, <1>3
    <3> QED
      BY <3>2, <3>3, <2>4
  <2>10. dtors' = d
    BY <2>2, <1>0, <1>6
  <2> QED
    BY <2>3, <2>6, <2>7, <2>8, <2>9, <2>10 DEF RegistryOk
<1> QED
  BY <1>4, <1>5 DEF DropInv, DropsInOrder

LEMMA SwapRemoveFacts ==
  ASSUME NEW S, NEW s \in Seq(S), NEW k \in 1..Len(s)
  PROVE  /\ SwapRemove(s, k) \in Seq(S) /\ DOMAIN SwapRemove(s, k) = 1..Len(s) - 1
         /\ \A j \in 1..Len(s) - 1 : SwapRemove(s, k)[j] = IF j = k THEN s[Len(s)] ELSE s[j]
<1>1. PICK t : t = [s EXCEPT ![k] = s[Len(s)]]
  OBVIOUS
<1>2. /\ t \in Seq(S) /\ Len(t) = Len(s)
      /\ \A j \in 1..Len(s) : t[j] = IF j = k THEN s[Len(s)] ELSE s[j]
  BY <1>1
<1>3. Len(s) \in Nat /\ Len(s) >= 1
  OBVIOUS
<1>4. /\ SubSeq(t, 1, Len(s) - 1) \in Seq(S)
      /\ DOMAIN SubSeq(t, 1, Len(s) - 1) = 1..Len(s) - 1
      /\ \A j \in 1..Len(s) - 1 : SubSeq(t, 1, Len(s) - 1)[j] = t[j]
  BY <1>2, <1>3
<1>5. SwapRemove(s, k) = SubSeq(t, 1, Len(s) - 1)
  BY <1>1 DEF SwapRemove, Last
<1>6. \A j \in 1..Len(s) - 1 : j \in 1..Len(s)
  BY <1>3
<1> QED
  BY <1>2, <1>4, <1>5, <1>6

(* With addresses unshared, the entry found by its address is the object's *)
(* own, and an object without a destructor finds none.                     *)
LEMMA TransferDrops == ASSUME DropInv, NEW i \in Ids, TransferOut(i) PROVE DropInv'
<1>1. /\ ~destroyed /\ i \notin moved /\ moved' = moved \cup {i}
      /\ UNCHANGED <<strategy, blocks, hdr, reg, objs, fresh, dead, dropped, destroyed>>
  BY DEF TransferOut
<1>2. PlaceInv'
  BY <1>1 DEF DropInv, PlaceInv, RegionTypeOK, HeadersFit, InBlocks, BeforeCursors, Ids, Ends, InLoop
<1>3. moved' \subseteq Ids' /\ Ids' = Ids /\ objs' = objs
  BY <1>1 DEF DropInv, Ids
<1>4. ASSUME ~Aliased' PROVE RegistryOk'
  <2>1. ~Aliased
    BY <1>1, <1>4 DEF Aliased, Ids, Ptr
  <2>2. RegistryOk
    BY <1>1, <2>1 DEF DropInv
  <2>3. PICK hits : /\ hits = {k \in DOMAIN dtors : dtors[k].ptr = Ptr(i)}
                    /\ dtors' = IF hits = {} THEN dtors ELSE SwapRemove(dtors, Min(hits))
    BY DEF TransferOut
  <2>4. /\ dtors \in Seq(Entries) /\ DOMAIN dtors = 1..Len(dtors) /\ Len(dtors) \in Nat
        /\ \A k \in DOMAIN dtors : dtors[k].id \in Nat
    <3>1. dtors \in Seq(Entries)
      BY <2>2 DEF RegistryOk
    <3>2. DOMAIN dtors = 1..Len(dtors) /\ Len(dtors) \in Nat
      BY <3>1
    <3>3. \A k \in DOMAIN dtors : dtors[k] \in Entries
      BY <3>1
    <3> QED
      BY <3>1, <3>2, <3>3 DEF Entries
  <2>5. \A k \in DOMAIN dtors : k \in hits <=> dtors[k].id = i
    <3> SUFFICES ASSUME NEW k \in DOMAIN dtors PROVE k \in hits <=> dtors[k].id = i
      OBVIOUS
    <3>1. /\ dtors[k].id \in Ids /\ objs[dtors[k].id].drop
          /\ dtors[k].ptr = Ptr(dtors[k].id)
      BY <2>2 DEF RegistryOk
    <3>2. Ptr(dtors[k].id) = Ptr(i) => dtors[k].id = i
      BY <2>1, <3>1 DEF Aliased
    <3> QED
      BY <2>3, <3>1, <3>2
  <2>6. CASE hits = {}
    <3>1. dtors' = dtors
      BY <2>3, <2>6
    <3>2. \A k \in DOMAIN dtors : dtors[k].id # i
      BY <2>5, <2>6
    <3>3. \A k \in DOMAIN dtors : /\ dtors[k].id \in Ids \ moved' /\ objs[dtors[k].id].drop
                                  /\ dtors[k].ptr = Ptr(dtors[k].id)
      BY <2>2, <3>2, <1>1 DEF RegistryOk
    <3>4. \A j \in Ids \ moved' : objs[j].drop => \E k \in DOMAIN dtors : dtors[k].id = j
      BY <2>2, <1>1 DEF RegistryOk
    <3>5. \A a, b \in DOMAIN dtors : dtors[a].id = dtors[b].id => a = b
      BY <2>2 DEF RegistryOk
    <3>6. \A a, b \in DOMAIN dtors :
            a < b /\ (\A j \in moved' : dtors[b].id < j) => dtors[a].id < dtors[b].id
      BY <2>2, <1>1 DEF RegistryOk
    <3> QED
      BY <3>1, <3>3, <3>4, <3>5, <3>6, <2>4, <1>3 DEF RegistryOk, Ptr
  <2>7. CASE hits # {}
    <3>1. PICK k \in DOMAIN dtors : dtors[k].id = i /\ hits = {k}
      <4>1. PICK k \in DOMAIN dtors : k \in hits
        BY <2>3, <2>7
      <4>2. \A j \in hits : j \in DOMAIN dtors /\ dtors[j].id = i
        BY <2>3, <2>5
      <4>3. \A j \in hits : j = k
        BY <4>1, <4>2, <2>2 DEF RegistryOk
      <4> QED
        BY <4>1, <4>2, <4>3
    <3>2. Min(hits) = k
      BY <3>1, <2>4 DEF Min
    <3>3. PICK L \in Nat : L = Len(dtors) /\ k \in 1..L
      BY <2>4
    <3>4. PICK d : /\ d = dtors' /\ d \in Seq(Entries) /\ DOMAIN d = 1..L - 1
                   /\ \A j \in 1..L - 1 : d[j] = IF j = k THEN dtors[L] ELSE dtors[j]
      <4>1. dtors' = SwapRemove(dtors, k)
        BY <2>3, <2>7, <3>2
      <4>2. dtors \in Seq(Entries) /\ k \in 1..Len(dtors)
        BY <2>4
      <4>3. /\ SwapRemove(dtors, k) \in Seq(Entries)
            /\ DOMAIN SwapRemove(dtors, k) = 1..Len(dtors) - 1
            /\ \A j \in 1..Len(dtors) - 1 :
                 SwapRemove(dtors, k)[j] = IF j = k THEN dtors[Len(dtors)] ELSE dtors[j]
        BY <4>2, SwapRemoveFacts
      <4> QED
        BY <4>1, <4>3, <3>3
    <3>5. PICK from \in [1..L - 1 -> 1..L] :
             \A j \in 1..L - 1 : from[j] = IF j = k THEN L ELSE j
      <4>1. [j \in 1..L - 1 |-> IF j = k THEN L ELSE j] \in [1..L - 1 -> 1..L]
        BY <3>3
      <4> QED
        BY <4>1
    <3>6. /\ \A j \in 1..L - 1 : d[j] = dtors[from[j]] /\ from[j] # k /\ from[j] \in DOMAIN dtors
          /\ \A a, b \in 1..L - 1 : from[a] = from[b] => a = b
          /\ \A m \in DOMAIN dtors : m # k => \E j \in 1..L - 1 : from[j] = m
      <4>1. \A j \in 1..L - 1 : d[j] = dtors[from[j]] /\ from[j] # k /\ from[j] \in DOMAIN dtors
        BY <2>4, <3>3, <3>4, <3>5
      <4>2. \A a, b \in 1..L - 1 : from[a] = from[b] => a = b
        BY <3>3, <3>5
      <4>3. ASSUME NEW m \in DOMAIN dtors, m # k PROVE \E j \in 1..L - 1 : from[j] = m
        <5>1. m \in 1..L
          BY <2>4, <3>3
        <5>2. CASE m = L
          <6>1. k \in 1..L - 1 /\ from[k] = L
            BY <3>3, <3>5, <4>3, <5>2
          <6> QED
            BY <6>1, <5>2
        <5>3. CASE m # L
          <6>1. m \in 1..L - 1 /\ from[m] = m
            BY <3>3, <3>5, <4>3, <5>1, <5>3
          <6> QED
            BY <6>1
        <5> QED
          BY <5>2, <5>3
      <4> QED
        BY <4>1, <4>2, <4>3
    <3>7. \A m \in DOMAIN dtors : m # k => dtors[m].id # i
      BY <3>1, <2>2 DEF RegistryOk
    <3>8. \A j \in DOMAIN d : /\ d[j].id \in Ids \ moved' /\ objs[d[j].id].drop
                              /\ d[j].ptr = Ptr(d[j].id)
      BY <2>2, <3>4, <3>6, <3>7, <1>1 DEF RegistryOk
    <3>9. \A a, b \in DOMAIN d : d[a].id = d[b].id => a = b
      BY <2>2, <3>4, <3>6 DEF RegistryOk
    <3>10. \A j \in Ids \ moved' : objs[j].drop => \E m \in DOMAIN d : d[m].id = j
      <4> SUFFICES ASSUME NEW j \in Ids \ moved', objs[j].drop
                   PROVE  \E m \in DOMAIN d : d[m].id = j
        OBVIOUS
      <4>1. PICK m \in DOMAIN dtors : dtors[m].id = j
        BY <2>2, <1>1 DEF RegistryOk
      <4>2. m # k
        BY <4>1, <3>1, <1>1
      <4>3. PICK n \in 1..L - 1 : from[n] = m
        BY <4>2, <3>6
      <4> QED
        BY <4>1, <4>3, <3>4, <3>6
    <3>11. ASSUME NEW a \in DOMAIN d, NEW b \in DOMAIN d, a < b,
                  \A j \in moved' : d[b].id < j
           PROVE  d[a].id < d[b].id
      <4>1. \A j \in moved : d[b].id < j
        BY <3>11, <1>1
      <4>2. a \in 1..L - 1 /\ b \in 1..L - 1 /\ a < L /\ b < L
        BY <3>3, <3>4
      <4>3. CASE a # k
        <5>1. d[a] = dtors[a] /\ a \in DOMAIN dtors /\ a < from[b]
          BY <4>2, <4>3, <2>4, <3>3, <3>4, <3>5, <3>11
        <5>2. d[b] = dtors[from[b]] /\ from[b] \in DOMAIN dtors
          BY <4>2, <3>6
        <5> QED
          BY <5>1, <5>2, <4>1, <3>11, <1>1, <2>2 DEF RegistryOk
      <4>4. CASE a = k
        <5>1. b # k /\ d[b] = dtors[b] /\ b \in DOMAIN dtors
          BY <4>2, <4>4, <2>4, <3>3, <3>4, <3>11
        <5>2. dtors[k].id < dtors[b].id
          BY <5>1, <4>4, <3>11, <1>1, <2>2 DEF RegistryOk
        <5>3. d[b].id < i
          BY <3>11, <1>1
        <5> QED
          BY <5>1, <5>2, <5>3, <3>1, <2>4
      <4> QED
        BY <4>3, <4>4
    <3> QED
      BY <3>4, <3>8, <3>9, <3>10, <3>11, <1>3 DEF RegistryOk, Ptr
  <2> QED
    BY <2>6, <2>7
<1> QED
  BY <1>1, <1>2, <1>3, <1>4 DEF DropInv, DropsInOrder

(* The registry from its end to its start; when only younger objects than  *)
(* any that is left were transferred, it is in the order of allocation.    *)
LEMMA DestroyDrops == ASSUME DropInv, Destroy PROVE DropInv'
<1>1. /\ ~destroyed /\ destroyed' = TRUE /\ ~InLoop
      /\ dropped' = Reverse([k \in DOMAIN dtors |-> dtors[k].id])
      /\ UNCHANGED <<strategy, hdr, reg, objs, fresh, dead, moved>>
      /\ blocks' = <<>>
  BY DEF Destroy
<1>2. PlaceInv'
  <2>1. blocks' \in Seq(Nat)
    BY <1>1
  <2> QED
    BY <2>1, <1>1 DEF DropInv, PlaceInv, RegionTypeOK, InLoop
<1>3. moved' = moved /\ Ids' = Ids /\ objs' = objs /\ moved' \subseteq Ids'
  BY <1>1 DEF DropInv, Ids
<1>4. ASSUME ~Aliased PROVE (DropsExactlyOnce /\ DropsYoungestFirst)'
  <2>1. RegistryOk
    BY <1>1, <1>4 DEF DropInv
  <2>2. PICK L \in Nat : L = Len(dtors) /\ DOMAIN dtors = 1..L
    BY <2>1 DEF RegistryOk
  <2>3. PICK ids : ids = [k \in 1..L |-> dtors[k].id]
    OBVIOUS
  <2>4. /\ ids \in Seq(Nat) /\ Len(ids) = L /\ \A k \in 1..L : ids[k] = dtors[k].id /\ ids[k] \in Nat
    <3>1. \A k \in 1..L : dtors[k] \in Entries
      BY <2>1, <2>2 DEF RegistryOk
    <3>2. \A k \in 1..L : dtors[k].id \in Nat
      BY <3>1 DEF Entries
    <3> QED
      BY <2>3, <3>2
  <2>5. PICK d : /\ d = dropped' /\ DOMAIN d = 1..L
                 /\ \A k \in 1..L : L + 1 - k \in 1..L /\ d[k] = dtors[L + 1 - k].id /\ d[k] \in Nat
    <3>1. dropped' = [k \in 1..L |-> ids[(L - k) + 1]]
      BY <1>1, <2>2, <2>3, <2>4 DEF Reverse
    <3>2. \A k \in 1..L : L + 1 - k \in 1..L /\ L + 1 - k = (L - k) + 1
      OBVIOUS
    <3>3. PICK d : d = dropped'
      OBVIOUS
    <3>4. DOMAIN d = 1..L /\ \A k \in 1..L : d[k] = ids[(L - k) + 1]
      BY <3>1, <3>3
    <3>5. \A k \in 1..L : d[k] = dtors[L + 1 - k].id /\ d[k] \in Nat
      BY <3>2, <3>4, <2>4
    <3> QED
      BY <3>2, <3>3, <3>4, <3>5
  <2>6. IsInjective(d)
    <3> SUFFICES ASSUME NEW a \in 1..L, NEW b \in 1..L, d[a] = d[b] PROVE a = b
      BY <2>5 DEF IsInjective
    <3>1. /\ L + 1 - a \in DOMAIN dtors /\ L + 1 - b \in DOMAIN dtors
          /\ dtors[L + 1 - a].id = dtors[L + 1 - b].id
      BY <2>2, <2>5
    <3>2. L + 1 - a = L + 1 - b
      BY <3>1, <2>1 DEF RegistryOk
    <3> QED
      BY <3>2
  <2>7. Range(d) = {i \in Ids : objs[i].drop} \ moved
    <3>1. ASSUME NEW k \in 1..L PROVE d[k] \in {i \in Ids : objs[i].drop} \ moved
      BY <2>1, <2>2, <2>5 DEF RegistryOk
    <3>2. ASSUME NEW i \in Ids \ moved, objs[i].drop PROVE \E k \in 1..L : d[k] = i
      <4>1. PICK m \in 1..L : dtors[m].id = i
        BY <2>1, <2>2, <3>2 DEF RegistryOk
      <4>2. L + 1 - m \in 1..L /\ L + 1 - (L + 1 - m) = m
        OBVIOUS
      <4> QED
        BY <4>1, <4>2, <2>5
    <3>3. Range(d) = {d[k] : k \in 1..L}
      BY <2>5 DEF Range
    <3> QED
      BY <3>1, <3>2, <3>3
  <2>8. ASSUME \A i \in moved, j \in Ids : objs[j].drop /\ j \notin moved => j < i,
               NEW a \in 1..L, NEW b \in 1..L, a < b
        PROVE  d[a] > d[b]
    <3>1. PICK p \in 1..L, q \in 1..L : p = L + 1 - b /\ q = L + 1 - a /\ p < q
      BY <2>8
    <3>2. /\ dtors[q].id \in Ids \ moved /\ objs[dtors[q].id].drop
      BY <2>1, <2>2 DEF RegistryOk
    <3>3. dtors[p].id < dtors[q].id
      BY <3>1, <3>2, <2>1, <2>2, <2>8 DEF RegistryOk
    <3> QED
      BY <3>1, <3>3, <2>5
  <2> QED
    BY <2>5, <2>6, <2>7, <2>8, <1>3 DEF DropsExactlyOnce, DropsYoungestFirst
<1>5. Aliased' <=> Aliased
  BY <1>3 DEF Aliased, Ptr
<1> QED
  BY <1>1, <1>2, <1>3, <1>4, <1>5 DEF DropInv, DropsInOrder

(* The Rust API allocates one object at a time. *)
LEMMA OneObject ==
  ASSUME RegionTypeOK, NEW size \in Nat, NEW h, NEW align, NEW drop,
         RuntimeAlloc(h, <<size>>, align, drop), NewIds # {}
  PROVE  NewIds = {Len(objs')}
<1>1. \E g : objs' = objs \o Laid(g, Start(g, align), <<size>>, drop)
  <2>1. ~ UNCHANGED objs
    BY DEF NewIds
  <2> QED
    BY <2>1 DEF RuntimeAlloc, Place
<1>2. PICK g : objs' = objs \o Laid(g, Start(g, align), <<size>>, drop)
  BY <1>1
<1>3. PICK laid : laid = Laid(g, Start(g, align), <<size>>, drop)
  OBVIOUS
<1>4. DOMAIN laid = 1..1
  BY <1>3 DEF Laid
<1>5. DOMAIN objs' = 1..Len(objs) + 1 /\ Len(objs') = Len(objs) + 1
      /\ DOMAIN objs = 1..Len(objs) /\ Len(objs) \in Nat
  <2>1. laid = [k \in 1..1 |-> laid[k]]
    BY <1>3 DEF Laid
  <2>2. laid \in Seq({laid[1]}) /\ Len(laid) = 1
    BY <2>1
  <2>3. PICK S : objs \in Seq(S) /\ laid \in Seq(S)
    <3>1. objs \in Seq(Objects \cup {laid[1]}) /\ laid \in Seq(Objects \cup {laid[1]})
      BY <2>2 DEF RegionTypeOK
    <3> QED
      BY <3>1
  <2>4. objs' = objs \o laid
    BY <1>2, <1>3
  <2>5. objs \o laid \in Seq(S) /\ Len(objs \o laid) = Len(objs) + Len(laid)
    BY <2>3, ConcatProperties
  <2> QED
    BY <2>2, <2>3, <2>4, <2>5
<1> QED
  BY <1>5 DEF NewIds

LEMMA StepDrops == DropInv /\ [RegionNext]_rVars => DropInv'
<1> SUFFICES ASSUME DropInv, [RegionNext]_rVars PROVE DropInv'
  OBVIOUS
<1>0. PlaceInv /\ PlaceInv'
  BY StepPlaces DEF DropInv
<1>1. ASSUME NEW size \in Sizes, NEW align \in Aligns, NEW drop \in BOOLEAN,
             Allocate(size, align, drop)
      PROVE  DropInv'
  <2>1. <<size>> \in Seq(Nat) /\ align \in Nat \ {0}
    BY RegionAssumption
  <2>2. /\ Open /\ ~InLoop /\ RuntimeAlloc(hdr, <<size>>, align, drop) /\ ~destroyed
        /\ UNCHANGED <<strategy, reg, fresh, dead, moved, destroyed>>
    BY <1>1 DEF Allocate, Open
  <2>3. Allocated(hdr, drop)
    BY <1>0, <2>1, <2>2, OutsideLoop
  <2>4. OldStay /\ \A n \in NewIds : objs'[n].drop = drop
    BY <2>3, AllocatedStay
  <2>5. CASE drop /\ NewIds # {}
    <3>1. NewIds = {Len(objs')}
      <4>1. RegionTypeOK /\ size \in Nat
        BY <1>0, RegionAssumption DEF PlaceInv
      <4> QED
        BY <4>1, <2>2, <2>5, OneObject
    <3>2. dtors' = Append(dtors, [ptr |-> <<Last(objs').block, Last(objs').off>>,
                                  id |-> Len(objs')])
      BY <1>1, <2>5 DEF Allocate
    <3> QED
      BY <3>1, <3>2, <2>2, <2>4, <2>5, <1>0, RegisteredObject
  <2>6. CASE ~(drop /\ NewIds # {})
    <3>1. dtors' = dtors
      BY <1>1, <2>6 DEF Allocate
    <3> QED
      BY <3>1, <2>2, <2>4, <2>6, <1>0, PlainObjects
  <2> QED
    BY <2>5, <2>6
<1>2. ASSUME NEW sizes \in Batches, InlineBump(sizes) PROVE DropInv'
  <2>1. sizes \in Seq(Nat) /\ 8 \in Nat \ {0} /\ FALSE \in BOOLEAN
    BY RegionAssumption
  <2>2. /\ Open /\ ~InLoop /\ RuntimeAlloc(hdr, sizes, 8, FALSE) /\ ~destroyed
        /\ UNCHANGED <<strategy, reg, fresh, dead, dtors, moved, destroyed>>
    BY <1>2 DEF InlineBump, Open
  <2>3. Allocated(hdr, FALSE)
    BY <1>0, <2>1, <2>2, OutsideLoop
  <2>4. OldStay /\ \A n \in NewIds : ~objs'[n].drop
    BY <2>3, AllocatedStay
  <2> QED
    BY <2>2, <2>4, <1>0, PlainObjects
<1>3. ASSUME NEW sizes \in Batches, LoopBump(sizes) PROVE DropInv'
  <2>1. sizes \in Seq(Nat)
    BY RegionAssumption
  <2>2. /\ ~destroyed /\ InLoop /\ UNCHANGED <<strategy, dtors, moved, destroyed>>
        /\ dead' = dead \cup fresh /\ fresh' = NewIds
    BY <1>3 DEF LoopBump, Open
  <2>3. OldStay /\ \A n \in NewIds : ~objs'[n].drop
    <3>1. CASE Fits(reg, Sum(sizes), 8)
      <4>1. Placed(reg.base, reg'.cursor, FALSE)
        BY <1>0, <1>3, <2>1, <2>2, <3>1, FastBump DEF LoopBump
      <4> QED
        BY <4>1, PlacedStay DEF Placed
    <3>2. CASE ~Fits(reg, Sum(sizes), 8)
      <4>1. Allocated([hdr EXCEPT !.cursor = reg.cursor], FALSE)
        BY <1>0, <1>3, <2>1, <2>2, <3>2, SlowBump DEF LoopBump
      <4> QED
        BY <4>1, AllocatedStay
    <3> QED
      BY <3>1, <3>2
  <2> QED
    BY <2>2, <2>3, <1>0, PlainObjects
<1>4. ASSUME NEW size \in Sizes \ {0}, LoopMirror(size) PROVE DropInv'
  <2>1. Allocated(hdr, FALSE)
    BY <1>0, <1>4, RegionAssumption, MirrorPlaces
  <2>2. OldStay /\ \A n \in NewIds : ~objs'[n].drop
    BY <2>1, AllocatedStay
  <2> QED
    BY <2>2, <1>0, <1>4, PlainObjects DEF LoopMirror, Open
<1>5. ASSUME UNCHANGED <<objs, dtors, moved, dropped, destroyed>> PROVE DropInv'
  BY <1>0, <1>5 DEF DropInv, RegistryOk, DropsInOrder, DropsExactlyOnce, DropsYoungestFirst,
                    Aliased, Ids, Ptr
<1>6. CASE EnterLoop \/ ExitLoop \/ UNCHANGED rVars
  BY <1>5, <1>6 DEF EnterLoop, ExitLoop, rVars
<1> QED
  BY <1>1, <1>2, <1>3, <1>4, <1>6, TransferDrops, DestroyDrops DEF RegionNext

(* When the region ends its objects have been dropped exactly once, those  *)
(* transferred not at all, and from the youngest to the oldest when only   *)
(* the youngest were ever transferred.                                     *)
THEOREM DropsInOrderHolds == RegionSpec => []DropsInOrder
<1>1. DropInv => DropsInOrder
  BY DEF DropInv
<1> QED
  BY <1>1, InitDrops, StepDrops, PTL DEF RegionSpec

-----------------------------------------------------------------------------
(* The collector.                                                          *)

GcObjects == [epoch : Nat, slot : Addrs \cup {NoAddr}, home : Nat]

GcTypeOK ==
  /\ DOMAIN heap \subseteq Addrs
  /\ heap \in [DOMAIN heap -> GcObjects]
  /\ roots \subseteq DOMAIN heap
  /\ epoch \in Nat
  /\ locals \in Seq(SUBSET Addrs) /\ locals # <<>>

(* Blocks left early leave epoch ahead of the depth.  An object is of an   *)
(* epoch that fits the block it belongs to, or it is a root.               *)
EpochFits ==
  /\ Depth <= epoch
  /\ \A a \in DOMAIN heap :
       (heap[a].epoch <= heap[a].home + (epoch - Depth) /\ heap[a].epoch <= epoch) \/ a \in roots

(* A local refers to objects of its block or of an outer one ...           *)
LocalsFit ==
  \A i \in DOMAIN locals : \A a \in locals[i] : a \in DOMAIN heap /\ heap[a].home <= i - 1

(* ... and so does the slot of every object in reach.                      *)
SlotFits(h, a) == h[a].slot = NoAddr \/ (h[a].slot \in DOMAIN h /\ h[h[a].slot].home <= h[a].home)
SlotsFit == \A a \in Reached : SlotFits(heap, a)

GcInv == GcTypeOK /\ EpochFits /\ LocalsFit /\ SlotsFit

-----------------------------------------------------------------------------
(* Marking.                                                                *)

LEMMA MarkedClosed ==
  ASSUME NEW h, NEW from
  PROVE  /\ Marked(h, from) \subseteq DOMAIN h
         /\ from \cap DOMAIN h \subseteq Marked(h, from)
         /\ Closed(h, Marked(h, from))
  BY DEF Marked, Closed

LEMMA MarkedLeast ==
  ASSUME NEW h, NEW from, NEW S \in SUBSET DOMAIN h,
         from \cap DOMAIN h \subseteq S, Closed(h, S)
  PROVE  Marked(h, from) \subseteq S
  BY DEF Marked

(* It is enough to show a set that holds the locals, is closed and fits.   *)
LEMMA ReachedFits ==
  ASSUME NEW S, S \subseteq DOMAIN heap', Held' \subseteq S, Closed(heap', S),
         \A a \in S : SlotFits(heap', a)
  PROVE  SlotsFit'
<1>1. Marked(heap', Held') \subseteq S
  BY MarkedLeast
<1> QED
  BY <1>1 DEF SlotsFit, Reached

(* What is reached is there, and so are the locals.                        *)
LEMMA ReachedFacts ==
  ASSUME GcInv
  PROVE  /\ Reached \subseteq DOMAIN heap /\ Closed(heap, Reached)
         /\ Held \subseteq Reached
         /\ \A i \in DOMAIN locals : locals[i] \subseteq Held
<1>1. \A i \in DOMAIN locals : locals[i] \subseteq Held
  BY DEF Held, Range
<1>2. Held \subseteq DOMAIN heap
  BY DEF Held, Range, GcInv, LocalsFit
<1> QED
  BY <1>1, <1>2, MarkedClosed DEF Reached

-----------------------------------------------------------------------------
(* The actions.                                                            *)

LEMMA GcInitInv == GcInit => GcInv
<1> SUFFICES ASSUME GcInit PROVE GcInv
  OBVIOUS
<1>1. Held = {}
  BY DEF GcInit, Held, Range
<1>2. locals \in Seq(SUBSET Addrs) /\ locals # <<>> /\ Len(locals) = 1 /\ \A i \in DOMAIN locals : locals[i] = {}
  BY DEF GcInit
<1>3. DOMAIN heap = {} /\ heap \in [DOMAIN heap -> GcObjects]
  BY DEF GcInit
<1>4. Reached = {}
  BY <1>1, <1>3, MarkedClosed DEF Reached
<1> QED
  BY <1>2, <1>3, <1>4 DEF GcInit, GcInv, GcTypeOK, EpochFits, LocalsFit, SlotsFit, Depth

(* Hold adds an address to the innermost block's locals.                   *)
LEMMA HoldLast ==
  ASSUME NEW ls \in Seq(SUBSET Addrs), ls # <<>>, NEW a \in Addrs \cup {NoAddr}
  PROVE  /\ Hold(ls, a) \in Seq(SUBSET Addrs) /\ Hold(ls, a) # <<>>
         /\ Len(Hold(ls, a)) = Len(ls)
         /\ \A i \in DOMAIN ls : i # Len(ls) => Hold(ls, a)[i] = ls[i]
         /\ Hold(ls, a)[Len(ls)] = ls[Len(ls)] \cup ({a} \ {NoAddr})
<1>1. Len(ls) \in Nat /\ Len(ls) # 0 /\ DOMAIN ls = 1..Len(ls)
  BY EmptySeq
<1>2. Len(ls) \in DOMAIN ls /\ ls[Len(ls)] \cup ({a} \ {NoAddr}) \in SUBSET Addrs
  BY <1>1
<1>3. Hold(ls, a) \in [1..Len(ls) -> SUBSET Addrs]
  BY <1>1, <1>2 DEF Hold
<1>4. Hold(ls, a) \in Seq(SUBSET Addrs) /\ Len(Hold(ls, a)) = Len(ls)
  BY <1>1, <1>3
<1> QED
  BY <1>1, <1>2, <1>4 DEF Hold

LEMMA AllocInv == GcInv /\ GcAlloc => GcInv'
<1> SUFFICES ASSUME GcInv, GcAlloc PROVE GcInv'
  OBVIOUS
<1> USE DEF GcInv, GcTypeOK
<1>1. PICK a \in Addrs \ DOMAIN heap :
        /\ heap' = [b \in DOMAIN heap \cup {a} |->
                      IF b = a THEN [epoch |-> epoch, slot |-> NoAddr, home |-> Depth] ELSE heap[b]]
        /\ locals' = Hold(locals, a)
  BY DEF GcAlloc
<1>2. UNCHANGED <<roots, epoch>>
  BY DEF GcAlloc
<1>3. Len(locals) \in Nat /\ Len(locals) # 0 /\ DOMAIN locals = 1..Len(locals) /\ Depth \in Nat
  BY EmptySeq DEF Depth
<1>4. a \in Addrs \cup {NoAddr} /\ a # NoAddr
  BY GcAssumption
<1>5. /\ locals' \in Seq(SUBSET Addrs) /\ locals' # <<>> /\ Len(locals') = Len(locals)
      /\ \A i \in DOMAIN locals : i # Len(locals) => locals'[i] = locals[i]
      /\ locals'[Len(locals)] = locals[Len(locals)] \cup {a}
  BY <1>1, <1>4, HoldLast
<1>6. DOMAIN heap' = DOMAIN heap \cup {a} /\ Depth' = Depth
      /\ heap'[a] = [epoch |-> epoch, slot |-> NoAddr, home |-> Depth]
      /\ \A b \in DOMAIN heap : heap'[b] = heap[b]
  BY <1>1, <1>5 DEF Depth
<1>7. GcTypeOK'
<2>1. heap'[a] \in GcObjects /\ \A b \in DOMAIN heap : heap'[b] \in GcObjects
  BY <1>3, <1>6 DEF GcObjects
<2> QED
  BY <1>1, <1>2, <1>5, <1>6, <2>1
<1>8. EpochFits'
  BY <1>2, <1>3, <1>6 DEF EpochFits
<1>9. LocalsFit'
<2> SUFFICES ASSUME NEW i \in DOMAIN locals', NEW b \in locals'[i]
             PROVE  b \in DOMAIN heap' /\ heap'[b].home <= i - 1
  BY DEF LocalsFit
<2>1. i \in DOMAIN locals
  BY <1>3, <1>5
<2>2. CASE b \in locals[i]
  BY <2>1, <2>2, <1>6 DEF LocalsFit
<2>3. CASE b = a /\ i = Len(locals)
  BY <2>3, <1>3, <1>6 DEF Depth
<2> QED
  BY <2>1, <2>2, <2>3, <1>5
<1>10. SlotsFit'
<2> DEFINE S == Reached \cup {a}
<2>1. S \subseteq DOMAIN heap' /\ Reached \subseteq DOMAIN heap
  BY <1>6, ReachedFacts
<2>2. Held' \subseteq S
  BY <1>3, <1>5, ReachedFacts DEF Held, Range
<2>3. \A b \in Reached : SlotFits(heap, b)
  BY DEF SlotsFit
<2>4. \A b \in Reached : SlotFits(heap', b)
  BY <1>6, <2>1, <2>3, ReachedFacts DEF SlotFits, Closed
<2>5. SlotFits(heap', a)
  BY <1>6 DEF SlotFits
<2>6. Closed(heap', S)
  BY <1>4, <1>6, <2>1, <2>3, ReachedFacts, GcAssumption DEF Closed, SlotFits
<2> QED
  BY <2>1, <2>2, <2>4, <2>5, <2>6, ReachedFits
<1> QED
  BY <1>7, <1>8, <1>9, <1>10

LEMMA StoreInv == GcInv /\ GcStore => GcInv'
<1> SUFFICES ASSUME GcInv, GcStore PROVE GcInv'
  OBVIOUS
<1> USE DEF GcInv, GcTypeOK
<1>1. PICK x \in Reached, y \in Reached :
        heap[y].home <= heap[x].home /\ heap' = [heap EXCEPT ![x].slot = y]
  BY DEF GcStore
<1>2. UNCHANGED <<roots, epoch, locals>>
  BY DEF GcStore
<1>3. x \in DOMAIN heap /\ y \in DOMAIN heap /\ Reached \subseteq DOMAIN heap
  BY <1>1, ReachedFacts
<1>4. /\ DOMAIN heap' = DOMAIN heap
      /\ \A b \in DOMAIN heap : heap'[b] \in GcObjects /\ heap'[b].home = heap[b].home
                                /\ heap'[b].epoch = heap[b].epoch
      /\ \A b \in DOMAIN heap : b # x => heap'[b] = heap[b]
      /\ heap'[x].slot = y
  BY <1>1, <1>3 DEF GcObjects
<1>5. GcTypeOK'
  BY <1>1, <1>2, <1>4
<1>6. EpochFits' /\ LocalsFit'
  BY <1>2, <1>4 DEF EpochFits, LocalsFit, Depth
<1>7. SlotsFit'
<2>1. Held' = Held
  BY <1>2 DEF Held
<2>2. \A b \in Reached : SlotFits(heap', b)
  BY <1>1, <1>3, <1>4 DEF SlotsFit, SlotFits
<2>3. Closed(heap', Reached)
  BY <1>1, <1>3, <1>4, ReachedFacts DEF Closed
<2> QED
  BY <1>3, <1>4, <2>1, <2>2, <2>3, ReachedFacts, ReachedFits
<1> QED
  BY <1>5, <1>6, <1>7

LEMMA BeginInv == GcInv /\ GcBegin => GcInv'
<1> SUFFICES ASSUME GcInv, GcBegin PROVE GcInv'
  OBVIOUS
<1> USE DEF GcInv, GcTypeOK
<1>1. epoch' = epoch + 1 /\ locals' = Append(locals, {}) /\ heap' = heap /\ roots' = roots
  BY DEF GcBegin
<1>2. Len(locals) \in Nat /\ Len(locals) # 0 /\ DOMAIN locals = 1..Len(locals)
  BY EmptySeq
<1>3. /\ locals' \in Seq(SUBSET Addrs) /\ locals' # <<>> /\ Len(locals') = Len(locals) + 1
      /\ \A i \in DOMAIN locals : locals'[i] = locals[i]
      /\ locals'[Len(locals) + 1] = {}
  BY <1>1, <1>2, AppendProperties
<1>4. DOMAIN locals' = 1..Len(locals) + 1
  BY <1>2, <1>3
<1>5. GcTypeOK'
  BY <1>1, <1>3
<1>6. EpochFits'
<2>1. Depth' = Depth + 1 /\ Depth \in Int /\ Depth <= epoch
  BY <1>2, <1>3 DEF EpochFits, Depth
<2>2. \A a \in DOMAIN heap : heap[a].epoch \in Nat /\ heap[a].home \in Nat
  BY DEF GcObjects
<2>3. \A a \in DOMAIN heap : a \notin roots => heap[a].epoch <= epoch + 1
  BY <2>2 DEF EpochFits
<2> QED
  BY <1>1, <2>1, <2>2, <2>3 DEF EpochFits
<1>7. LocalsFit'
<2> SUFFICES ASSUME NEW i \in DOMAIN locals', NEW b \in locals'[i]
             PROVE  b \in DOMAIN heap' /\ heap'[b].home <= i - 1
  BY DEF LocalsFit
<2>1. i \in DOMAIN locals
  BY <1>2, <1>3, <1>4
<2> QED
  BY <1>1, <1>3, <2>1 DEF LocalsFit
<1>8. Held' \subseteq Held
  BY <1>2, <1>3, <1>4 DEF Held, Range
<1>9. SlotsFit'
  BY <1>1, <1>8, ReachedFacts, ReachedFits DEF SlotsFit
<1> QED
  BY <1>5, <1>6, <1>7, <1>9

-----------------------------------------------------------------------------
(* Leaving a block.  What matters is that everything an outer block owns   *)
(* is kept, and everything the value leads to.                             *)

LEMMA LeaveFits ==
  ASSUME GcInv, Depth > 0, NEW value \in Values, NEW kept \in SUBSET DOMAIN heap,
         Leave(value, kept),
         \A a \in Reached : heap[a].home < Depth => a \in kept,
         NEW M \in SUBSET kept, Closed(heap, M), value \in M \cup {NoAddr}
  PROVE  /\ DOMAIN heap' = kept /\ heap' \in [kept -> GcObjects]
         /\ \A a \in kept : heap'[a].epoch = heap[a].epoch
                            /\ heap'[a].home = IF heap[a].home < Depth THEN heap[a].home ELSE Depth - 1
         /\ locals' \in Seq(SUBSET Addrs) /\ locals' # <<>> /\ Len(locals') = Depth
         /\ LocalsFit' /\ SlotsFit'
<1> USE DEF GcInv, GcTypeOK
<1>1. Len(locals) \in Nat /\ DOMAIN locals = 1..Len(locals) /\ Depth \in Nat /\ Len(locals) = Depth + 1
  BY EmptySeq DEF Depth
<1>2. value \in Addrs \cup {NoAddr}
  BY ReachedFacts DEF Values
<1> DEFINE outer == SubSeq(locals, 1, Depth)
<1>3. /\ outer \in Seq(SUBSET Addrs) /\ Len(outer) = Depth /\ outer # <<>>
      /\ \A i \in 1..Depth : outer[i] = locals[i]
<2>1. /\ outer \in Seq(SUBSET Addrs)
      /\ Len(outer) = IF 1 <= Depth THEN Depth - 1 + 1 ELSE 0
      /\ \A i \in 1..Depth - 1 + 1 : outer[i] = locals[1 + i - 1]
<3>1. 1 \in 1..Len(locals) + 1 /\ Depth \in 0..Len(locals)
  BY <1>1
<3> QED
  BY <3>1, SubSeqProperties
<2>2. Len(outer) = Depth /\ \A i \in 1..Depth : outer[i] = locals[i]
  BY <1>1, <2>1
<2> QED
  BY <1>1, <2>1, <2>2, EmptySeq
<1>4. /\ locals' \in Seq(SUBSET Addrs) /\ locals' # <<>> /\ Len(locals') = Depth
      /\ \A i \in 1..Depth : i # Depth => locals'[i] = locals[i]
      /\ locals'[Depth] = locals[Depth] \cup ({value} \ {NoAddr})
<2>1. locals' = Hold(outer, value)
  BY DEF Leave
<2>2. Depth \in 1..Depth /\ DOMAIN outer = 1..Depth
  BY <1>1, <1>3
<2> HIDE DEF outer
<2> QED
  BY <1>2, <1>3, <2>1, <2>2, HoldLast
<1>5. /\ DOMAIN heap' = kept
      /\ \A a \in kept : /\ heap'[a] \in GcObjects
                         /\ heap'[a].epoch = heap[a].epoch /\ heap'[a].slot = heap[a].slot
                         /\ heap'[a].home = IF heap[a].home < Depth THEN heap[a].home ELSE Depth - 1
  BY SMTT(20), <1>1 DEF Leave, GcObjects
<1>6. heap' \in [kept -> GcObjects]
  BY <1>5 DEF Leave
<1> DEFINE old == {a \in Reached : heap[a].home < Depth}
           S == old \cup (Reached \cap M)
<1>7. S \subseteq DOMAIN heap' /\ S \subseteq Reached /\ Reached \subseteq DOMAIN heap
  BY <1>5, ReachedFacts
<1>8. \A a \in S : heap[a].slot = NoAddr
                    \/ (heap[a].slot \in S /\ heap[heap[a].slot].home <= heap[a].home)
<2> SUFFICES ASSUME NEW a \in S, heap[a].slot # NoAddr
             PROVE  heap[a].slot \in S /\ heap[heap[a].slot].home <= heap[a].home
  OBVIOUS
<2>1. heap[a].slot \in DOMAIN heap /\ heap[heap[a].slot].home <= heap[a].home
  BY <1>7 DEF SlotsFit, SlotFits
<2>2. heap[a].slot \in Reached
  BY <1>7, <2>1, ReachedFacts DEF Closed
<2>3. CASE a \in old
<3>1. heap[heap[a].slot].home \in Nat /\ heap[a].home \in Nat
  BY <1>7, <2>1 DEF GcObjects
<3> QED
  BY <1>1, <2>1, <2>2, <2>3, <3>1
<2>4. CASE a \in M
  BY <2>1, <2>2, <2>4 DEF Closed
<2> QED
  BY <2>1, <2>3, <2>4
<1>9. \A a \in S : SlotFits(heap', a)
<2> SUFFICES ASSUME NEW a \in S, heap[a].slot # NoAddr PROVE SlotFits(heap', a)
  BY <1>5, <1>7 DEF SlotFits
<2>1. heap[a].slot \in S /\ heap[heap[a].slot].home <= heap[a].home
  BY <1>8
<2>2. a \in kept /\ heap[a].slot \in kept /\ heap[a].home \in Nat /\ heap[heap[a].slot].home \in Nat
  BY <1>5, <1>7, <2>1 DEF GcObjects
<2> QED
  BY <1>1, <1>5, <2>1, <2>2 DEF SlotFits
<1>10. Closed(heap', S)
  BY <1>5, <1>7, <1>8, GcAssumption DEF Closed
<1>11. \A i \in 1..Depth : \A b \in locals[i] : b \in old /\ heap[b].home <= i - 1
<2> SUFFICES ASSUME NEW i \in 1..Depth, NEW b \in locals[i] PROVE b \in old /\ heap[b].home <= i - 1
  OBVIOUS
<2>1. i \in DOMAIN locals /\ b \in DOMAIN heap /\ heap[b].home <= i - 1 /\ b \in Reached
  BY <1>1, ReachedFacts DEF LocalsFit
<2>2. heap[b].home \in Nat
  BY <2>1 DEF GcObjects
<2> QED
  BY <1>1, <2>1, <2>2
<1>12. value # NoAddr => value \in S
  BY ReachedFacts DEF Values
<1>13. DOMAIN locals' = 1..Depth
  BY <1>1, <1>4
<1>14. Held' \subseteq S
<2> SUFFICES ASSUME NEW i \in 1..Depth, NEW b \in locals'[i] PROVE b \in S
  BY <1>13 DEF Held, Range
<2> QED
  BY <1>4, <1>11, <1>12
<1>15. LocalsFit'
<2> SUFFICES ASSUME NEW i \in 1..Depth, NEW b \in locals'[i]
             PROVE  b \in DOMAIN heap' /\ heap'[b].home <= i - 1
  BY <1>13 DEF LocalsFit
<2>1. b \in S
  BY <1>4, <1>11, <1>12
<2>2. heap[b].home \in Nat /\ b \in kept
  BY <1>5, <1>7, <2>1 DEF GcObjects
<2>3. CASE b \in locals[i]
  BY <1>1, <1>5, <1>11, <2>2, <2>3
<2>4. CASE i = Depth
  BY <1>1, <1>5, <2>2, <2>4
<2> QED
  BY <1>4, <2>2, <2>3, <2>4, <1>5
<1>16. SlotsFit'
  BY <1>7, <1>9, <1>10, <1>14, ReachedFits
<1> QED
  BY <1>4, <1>5, <1>6, <1>15, <1>16

LEMMA EndInv == GcInv /\ GcEnd => GcInv'
<1> SUFFICES ASSUME GcInv, GcEnd PROVE GcInv'
  OBVIOUS
<1>1. PICK value \in Values :
        LET starts == roots \cup ({value} \ {NoAddr}) IN
        Leave(value, Survivors(starts)) /\ roots' = Promoted(starts)
  BY DEF GcEnd
<1> DEFINE starts == roots \cup ({value} \ {NoAddr})
           kept == Survivors(starts)
           M == Marked(heap, starts)
<1>2. Depth > 0 /\ epoch' = epoch - 1 /\ Leave(value, kept) /\ roots' = kept
  BY <1>1 DEF GcEnd, Promoted
<1>3. M \subseteq DOMAIN heap /\ starts \cap DOMAIN heap \subseteq M /\ Closed(heap, M)
  BY MarkedClosed
<1>4. M \subseteq kept /\ kept \subseteq DOMAIN heap /\ kept = M \cup {a \in DOMAIN heap : heap[a].epoch < epoch}
  BY <1>3 DEF Survivors
<1>5. roots \subseteq M /\ value \in M \cup {NoAddr}
<2>1. value \in DOMAIN heap \cup {NoAddr}
  BY ReachedFacts DEF Values
<2> QED
  BY <1>3, <2>1 DEF GcInv, GcTypeOK
<1>6. epoch \in Nat /\ Depth \in Nat /\ Depth <= epoch
  BY EmptySeq DEF Depth, GcInv, GcTypeOK, EpochFits
<1>7. \A a \in Reached : heap[a].home < Depth => a \in kept
<2> SUFFICES ASSUME NEW a \in Reached, heap[a].home < Depth PROVE a \in kept
  OBVIOUS
<2>1. a \in DOMAIN heap
  BY ReachedFacts
<2>2. heap[a].home \in Nat /\ heap[a].epoch \in Nat
  BY <2>1 DEF GcInv, GcTypeOK, GcObjects
<2>3. CASE a \in roots
  BY <1>4, <1>5, <2>3
<2>4. CASE heap[a].epoch <= heap[a].home + (epoch - Depth)
<3>1. heap[a].epoch < epoch
  BY <1>2, <1>6, <2>2, <2>4
<3> QED
  BY <1>4, <2>1, <3>1
<2> QED
  BY <2>1, <2>3, <2>4 DEF GcInv, EpochFits
<1> HIDE DEF kept, M, starts
<1>8. /\ DOMAIN heap' = kept /\ heap' \in [kept -> GcObjects]
      /\ locals' \in Seq(SUBSET Addrs) /\ locals' # <<>> /\ Len(locals') = Depth
      /\ LocalsFit' /\ SlotsFit'
  BY <1>2, <1>3, <1>4, <1>5, <1>7, LeaveFits
<1>9. GcTypeOK'
  BY <1>2, <1>4, <1>6, <1>8 DEF GcInv, GcTypeOK
<1>10. EpochFits'
  BY <1>2, <1>6, <1>8 DEF EpochFits, Depth
<1> QED
  BY <1>8, <1>9, <1>10 DEF GcInv

LEMMA EarlyExitInv == GcInv /\ GcEarlyExit => GcInv'
<1> SUFFICES ASSUME GcInv, GcEarlyExit PROVE GcInv'
  OBVIOUS
<1>1. PICK value \in Values : Leave(value, DOMAIN heap)
  BY DEF GcEarlyExit
<1>2. Depth > 0 /\ UNCHANGED <<roots, epoch>>
  BY DEF GcEarlyExit
<1>3. Reached \subseteq DOMAIN heap /\ Closed(heap, Reached) /\ value \in Reached \cup {NoAddr}
  BY ReachedFacts DEF Values
<1>4. /\ DOMAIN heap' = DOMAIN heap /\ heap' \in [DOMAIN heap -> GcObjects]
      /\ \A a \in DOMAIN heap : heap'[a].epoch = heap[a].epoch
              /\ heap'[a].home = IF heap[a].home < Depth THEN heap[a].home ELSE Depth - 1
      /\ locals' \in Seq(SUBSET Addrs) /\ locals' # <<>> /\ Len(locals') = Depth
      /\ LocalsFit' /\ SlotsFit'
  BY <1>1, <1>2, <1>3, LeaveFits
<1>5. GcTypeOK'
  BY <1>2, <1>4 DEF GcInv, GcTypeOK
<1>6. epoch \in Nat /\ Depth \in Nat /\ Depth <= epoch /\ Depth' = Depth - 1
  BY <1>4, EmptySeq DEF Depth, GcInv, GcTypeOK, EpochFits
<1>7. \A a \in DOMAIN heap : heap[a].home \in Nat /\ heap[a].epoch \in Nat
  BY DEF GcInv, GcTypeOK, GcObjects
<1>8. EpochFits'
<2> SUFFICES ASSUME NEW a \in DOMAIN heap, a \notin roots
             PROVE  heap'[a].epoch <= heap'[a].home + (epoch - (Depth - 1)) /\ heap'[a].epoch <= epoch
  BY <1>2, <1>4, <1>6 DEF EpochFits
<2>1. heap[a].epoch <= heap[a].home + (epoch - Depth) /\ heap[a].epoch <= epoch
  BY DEF GcInv, EpochFits
<2>2. CASE heap[a].home < Depth
  BY <1>4, <1>6, <1>7, <2>1, <2>2
<2>3. CASE ~(heap[a].home < Depth)
  BY <1>4, <1>6, <1>7, <2>1, <2>3
<2> QED
  BY <2>2, <2>3
<1> QED
  BY <1>4, <1>5, <1>8 DEF GcInv

LEMMA GcStepInv == GcInv /\ [GcNext]_gcVars => GcInv'
<1>1. CASE UNCHANGED gcVars
  BY <1>1 DEF gcVars, GcInv, GcTypeOK, EpochFits, LocalsFit, SlotsFit, SlotFits, Depth, Reached, Held
<1>2. CASE GcNext
  BY <1>2, AllocInv, StoreInv, BeginInv, EndInv, EarlyExitInv DEF GcNext
<1> QED
  BY <1>1, <1>2

(* No local variable of an open block leads to freed memory, through       *)
(* however many slots and however deep the blocks are nested.              *)
THEOREM NeverDangles == GcSpec => []NoDangling
<1>1. GcInit => GcInv
  BY GcInitInv
<1>2. GcInv /\ [GcNext]_gcVars => GcInv'
  BY GcStepInv
<1>3. GcInv => NoDangling
  BY ReachedFacts DEF NoDangling, GcInv, SlotsFit, SlotFits
<1> QED
  BY <1>1, <1>2, <1>3, PTL DEF GcSpec
-----------------------------------------------------------------------------
(* What a block leaves behind.  Early exits put epoch ahead of the depth   *)
(* for good.  As long as there were none, an object that is no root is of  *)
(* the epoch of its block, and no slot of any object, in reach or leaked,  *)
(* is stale or leads into a block inside of the object's own.              *)
InStep ==
  epoch = Depth => \A a \in DOMAIN heap :
    /\ heap[a].home <= Depth
    /\ SlotFits(heap, a)
    /\ a \in roots \/ heap[a].epoch = heap[a].home

LEMMA DepthType == GcInv => Depth \in Nat /\ Len(locals) = Depth + 1 /\ DOMAIN locals = 1..Depth + 1
  BY EmptySeq DEF Depth, GcInv, GcTypeOK

(* Leaving a block, nothing outside of kept being pointed to from inside.  *)
LEMMA LeaveDepth ==
  ASSUME GcInv, GcInv', Depth > 0, NEW value \in Values, NEW kept \in SUBSET DOMAIN heap, Leave(value, kept)
  PROVE  Depth' = Depth - 1
<1>1. SubSeq(locals, 1, Depth) \in Seq(SUBSET Addrs) /\ Len(SubSeq(locals, 1, Depth)) = Depth
<2>1. 1 \in 1..Len(locals) + 1 /\ Depth \in 0..Len(locals) /\ Depth \in Nat /\ locals \in Seq(SUBSET Addrs)
  BY DepthType DEF GcInv, GcTypeOK
<2> QED
  BY <2>1, SubSeqProperties
<1>2. Depth \in Nat /\ SubSeq(locals, 1, Depth) # <<>>
  BY <1>1, DepthType, EmptySeq
<1>3. value \in Addrs \cup {NoAddr}
  BY ReachedFacts DEF Values, GcInv, GcTypeOK
<1>4. Len(locals') = Depth
  BY <1>1, <1>2, <1>3, HoldLast DEF Leave
<1> QED
  BY <1>2, <1>4 DEF Depth

LEMMA AllocInStep == GcInv /\ GcInv' /\ InStep /\ GcAlloc => InStep'
<1> SUFFICES ASSUME GcInv, GcInv', InStep, GcAlloc, epoch' = Depth'
             PROVE  \A b \in DOMAIN heap' : /\ heap'[b].home <= Depth' /\ SlotFits(heap', b)
                                            /\ b \in roots' \/ heap'[b].epoch = heap'[b].home
  BY DEF InStep
<1>1. PICK a \in Addrs \ DOMAIN heap :
        /\ heap' = [b \in DOMAIN heap \cup {a} |->
                      IF b = a THEN [epoch |-> epoch, slot |-> NoAddr, home |-> Depth] ELSE heap[b]]
        /\ locals' = Hold(locals, a)
  BY DEF GcAlloc
<1>2. Depth' = Depth /\ epoch' = epoch /\ roots' = roots /\ Depth \in Nat
  BY <1>1, HoldLast, DepthType DEF GcAlloc, GcInv, GcTypeOK, Depth
<1>3. \A b \in DOMAIN heap : /\ heap[b].home <= Depth /\ SlotFits(heap, b)
                             /\ b \in roots \/ heap[b].epoch = heap[b].home
  BY <1>2 DEF InStep
<1>4. /\ \A b \in DOMAIN heap : heap'[b] = heap[b] /\ b \in DOMAIN heap'
      /\ \A b \in DOMAIN heap' : b \in DOMAIN heap \/ b = a
      /\ heap'[a] = [epoch |-> epoch, slot |-> NoAddr, home |-> Depth]
  BY <1>1
<1>5. \A b \in DOMAIN heap : SlotFits(heap', b)
  BY <1>3, <1>4 DEF SlotFits
<1>6. SlotFits(heap', a) /\ heap'[a].home = Depth /\ heap'[a].epoch = epoch
  BY <1>4 DEF SlotFits
<1> QED
  BY <1>2, <1>3, <1>4, <1>5, <1>6

LEMMA StoreInStep == GcInv /\ InStep /\ GcStore => InStep'
<1> SUFFICES ASSUME GcInv, InStep, GcStore, epoch' = Depth'
             PROVE  \A b \in DOMAIN heap' : /\ heap'[b].home <= Depth' /\ SlotFits(heap', b)
                                            /\ b \in roots' \/ heap'[b].epoch = heap'[b].home
  BY DEF InStep
<1>1. PICK x \in Reached, y \in Reached : heap[y].home <= heap[x].home /\ heap' = [heap EXCEPT ![x].slot = y]
  BY DEF GcStore
<1>2. Depth' = Depth /\ epoch' = epoch /\ roots' = roots /\ x \in DOMAIN heap /\ y \in DOMAIN heap
  BY ReachedFacts DEF GcStore, Depth
<1>3. \A b \in DOMAIN heap : /\ heap[b].home <= Depth /\ SlotFits(heap, b)
                             /\ b \in roots \/ heap[b].epoch = heap[b].home
  BY <1>2 DEF InStep
<1>4. /\ DOMAIN heap' = DOMAIN heap
      /\ \A b \in DOMAIN heap : /\ heap'[b].home = heap[b].home /\ heap'[b].epoch = heap[b].epoch
                                /\ heap'[b].slot = IF b = x THEN y ELSE heap[b].slot
  BY <1>1, <1>2 DEF GcInv, GcTypeOK, GcObjects
<1> QED
  BY <1>1, <1>2, <1>3, <1>4 DEF SlotFits

LEMMA BeginInStep == GcInv /\ InStep /\ GcBegin => InStep'
<1> SUFFICES ASSUME GcInv, InStep, GcBegin, epoch' = Depth'
             PROVE  \A b \in DOMAIN heap : /\ heap[b].home <= Depth' /\ SlotFits(heap, b)
                                           /\ b \in roots \/ heap[b].epoch = heap[b].home
  BY DEF InStep, GcBegin
<1>1. Depth' = Depth + 1 /\ epoch' = epoch + 1 /\ Depth \in Nat /\ epoch \in Nat
  BY DepthType, AppendProperties DEF GcBegin, Depth, GcInv, GcTypeOK
<1>2. \A b \in DOMAIN heap : heap[b].home \in Nat
  BY DEF GcInv, GcTypeOK, GcObjects
<1> QED
  BY <1>1, <1>2 DEF InStep

(* The sweep frees objects of this block only, and no slot names one.      *)
LEMMA EndInStep == GcInv /\ GcInv' /\ InStep /\ GcEnd => InStep'
<1> SUFFICES ASSUME GcInv, GcInv', InStep, GcEnd, epoch' = Depth'
             PROVE  \A b \in DOMAIN heap' : /\ heap'[b].home <= Depth' /\ SlotFits(heap', b) /\ b \in roots'
  BY DEF InStep
<1>1. PICK value \in Values :
        LET starts == roots \cup ({value} \ {NoAddr}) IN
        Leave(value, Survivors(starts)) /\ roots' = Promoted(starts)
  BY DEF GcEnd
<1> DEFINE starts == roots \cup ({value} \ {NoAddr})
           kept == Survivors(starts)
           M == Marked(heap, starts)
<1>2. Depth > 0 /\ epoch' = epoch - 1 /\ Leave(value, kept) /\ roots' = kept
  BY <1>1 DEF GcEnd, Promoted
<1>3. M \subseteq DOMAIN heap /\ starts \cap DOMAIN heap \subseteq M /\ Closed(heap, M)
  BY MarkedClosed
<1>4. M \subseteq kept /\ kept \in SUBSET DOMAIN heap /\ kept = M \cup {a \in DOMAIN heap : heap[a].epoch < epoch}
  BY <1>3 DEF Survivors
<1>5. roots \subseteq M
  BY <1>3 DEF GcInv, GcTypeOK
<1> HIDE DEF kept, M, starts
<1>6. Depth' = Depth - 1 /\ Depth \in Nat /\ epoch \in Nat /\ epoch = Depth
  BY <1>2, <1>4, LeaveDepth, DepthType DEF GcInv, GcTypeOK
<1>7. \A b \in DOMAIN heap : /\ heap[b].home <= Depth /\ SlotFits(heap, b)
                             /\ b \in roots \/ heap[b].epoch = heap[b].home
                             /\ heap[b].home \in Nat /\ heap[b].epoch \in Nat
  BY <1>6 DEF InStep, GcInv, GcTypeOK, GcObjects
<1>8. \A b \in DOMAIN heap : heap[b].home < Depth => b \in kept
  BY <1>4, <1>5, <1>6, <1>7
<1>9. /\ DOMAIN heap' = kept
      /\ \A b \in kept : /\ heap'[b].slot = heap[b].slot
                         /\ heap'[b].home = IF heap[b].home < Depth THEN heap[b].home ELSE Depth - 1
  BY <1>2, <1>4 DEF Leave, GcInv, GcTypeOK, GcObjects
<1>10. \A b \in kept : heap[b].slot = NoAddr
                        \/ (heap[b].slot \in kept /\ heap[heap[b].slot].home <= heap[b].home)
<2> SUFFICES ASSUME NEW b \in kept, heap[b].slot # NoAddr
             PROVE  heap[b].slot \in kept /\ heap[heap[b].slot].home <= heap[b].home
  OBVIOUS
<2>1. heap[b].slot \in DOMAIN heap /\ heap[heap[b].slot].home <= heap[b].home /\ b \in DOMAIN heap
  BY <1>4, <1>7 DEF SlotFits
<2>2. CASE b \in M
  BY <1>3, <1>4, <2>1, <2>2 DEF Closed
<2>3. CASE b \notin M
<3>1. heap[b].epoch < epoch /\ heap[b].epoch = heap[b].home
  BY <1>4, <1>5, <1>7, <2>1, <2>3
<3> QED
  BY <1>6, <1>7, <1>8, <2>1, <3>1
<2> QED
  BY <2>2, <2>3
<1>11. \A b \in kept : SlotFits(heap', b)
  BY <1>4, <1>6, <1>7, <1>9, <1>10 DEF SlotFits
<1> QED
  BY <1>2, <1>4, <1>6, <1>7, <1>9, <1>11

LEMMA InStepKept == GcInv /\ GcInv' /\ InStep /\ [GcNext]_gcVars => InStep'
<1> SUFFICES ASSUME GcInv, GcInv', InStep, [GcNext]_gcVars PROVE InStep'
  OBVIOUS
<1>1. CASE UNCHANGED gcVars
  BY <1>1 DEF gcVars, InStep, SlotFits, Depth
<1>2. CASE GcEarlyExit
<2>1. PICK value \in Values : Leave(value, DOMAIN heap)
  BY <1>2 DEF GcEarlyExit
<2>2. Depth' = Depth - 1 /\ epoch' = epoch /\ Depth <= epoch /\ Depth \in Nat /\ epoch \in Nat
  BY <1>2, <2>1, LeaveDepth, DepthType DEF GcEarlyExit, GcInv, GcTypeOK, EpochFits
<2> QED
  BY <2>2 DEF InStep
<1> QED
  BY <1>1, <1>2, AllocInStep, StoreInStep, BeginInStep, EndInStep DEF GcNext

LEMMA LeavesNothing ==
  ASSUME GcInv, GcInv', InStep, [GcNext]_gcVars,
         epoch' < epoch, epoch = Depth, Protected = {}, locals' = SubSeq(locals, 1, Depth),
         NEW a \in DOMAIN heap, heap[a].home = Depth
  PROVE  a \notin DOMAIN heap'
<1>1. epoch \in Nat
  BY DEF GcInv, GcTypeOK
<1>2. GcEnd
  BY <1>1 DEF gcVars, GcNext, GcAlloc, GcStore, GcBegin, GcEarlyExit
<1>3. PICK value \in Values :
        LET starts == roots \cup ({value} \ {NoAddr}) IN Leave(value, Survivors(starts))
  BY <1>2 DEF GcEnd
<1> DEFINE starts == roots \cup ({value} \ {NoAddr})
           outer == SubSeq(locals, 1, Depth)
           S == {b \in DOMAIN heap : heap[b].home < Depth}
<1>4. Depth > 0 /\ Leave(value, Survivors(starts))
  BY <1>2, <1>3 DEF GcEnd
<1>5. \A b \in DOMAIN heap : /\ heap[b].home <= Depth /\ SlotFits(heap, b)
                             /\ b \in roots \/ heap[b].epoch = heap[b].home
                             /\ heap[b].home \in Nat /\ heap[b].epoch \in Nat
  BY DEF InStep, GcInv, GcTypeOK, GcObjects
<1>6. Depth \in Nat /\ Len(locals) = Depth + 1 /\ DOMAIN locals = 1..Depth + 1
  BY DepthType
<1>7. \A b \in roots : b \in S
  BY <1>5, <1>6 DEF Protected, GcInv, GcTypeOK
<1>8. value # NoAddr => value \in S
<2>1. outer \in Seq(SUBSET Addrs) /\ Len(outer) = Depth /\ outer[Depth] = locals[Depth]
<3>1. 1 \in 1..Len(locals) + 1 /\ Depth \in 0..Len(locals) /\ locals \in Seq(SUBSET Addrs)
  BY <1>6 DEF GcInv, GcTypeOK
<3>2. Len(outer) = Depth - 1 + 1 /\ outer \in Seq(SUBSET Addrs)
      /\ \A i \in 1..Depth - 1 + 1 : outer[i] = locals[1 + i - 1]
  BY <1>4, <1>6, <3>1, SubSeqProperties
<3> QED
  BY <1>4, <1>6, <3>2
<2>2. value \in Addrs \cup {NoAddr} /\ outer # <<>>
  BY <1>4, <1>6, <2>1, ReachedFacts, EmptySeq DEF Values, GcInv, GcTypeOK
<2>3. Hold(outer, value)[Len(outer)] = outer[Len(outer)] \cup ({value} \ {NoAddr})
  BY <2>1, <2>2, HoldLast
<2>4. outer = Hold(outer, value)
  BY <1>4 DEF Leave
<2>5. value # NoAddr => value \in locals[Depth]
  BY <2>1, <2>3, <2>4
<2> QED
  BY <1>4, <1>5, <1>6, <2>5 DEF GcInv, LocalsFit
<1>9. Closed(heap, S)
<2>1. NoAddr \notin DOMAIN heap
  BY GcAssumption DEF GcInv, GcTypeOK
<2> QED
  BY <1>5, <1>6, <2>1 DEF Closed, SlotFits
<1>10. Marked(heap, starts) \subseteq S
  BY <1>7, <1>8, <1>9, MarkedLeast
<1>11. a \notin S /\ a \notin roots /\ heap[a].epoch = epoch
  BY <1>5, <1>6, <1>7
<1>12. a \notin Survivors(starts)
  BY <1>1, <1>10, <1>11 DEF Survivors
<1> QED
  BY <1>4, <1>12 DEF Leave

(* A gc_region that ends by its closing brace, its value no Gc of its own, *)
(* leaves none of its objects behind: before the first early exit, nothing *)
(* that is left, leaked or not, names an object of an inner block.         *)
THEOREM BlocksLeaveNothing == GcSpec => BlockLeavesNothing
<1>1. GcInit => GcInv /\ InStep
<2>1. GcInit => DOMAIN heap = {}
  BY DEF GcInit
<2> QED
  BY <2>1, GcInitInv DEF InStep
<1>2. GcInv /\ InStep /\ [GcNext]_gcVars => (GcInv /\ InStep)'
  BY GcStepInv, InStepKept
<1>3. GcInv /\ GcInv' /\ InStep /\ [GcNext]_gcVars =>
        [ epoch' < epoch /\ epoch = Depth /\ Protected = {} /\ locals' = SubSeq(locals, 1, Depth) =>
            \A a \in DOMAIN heap : heap[a].home = Depth => a \notin DOMAIN heap' ]_gcVars
  BY LeavesNothing
<1> QED
  BY <1>1, <1>2, <1>3, PTL DEF GcSpec, BlockLeavesNothing
=============================================================================
