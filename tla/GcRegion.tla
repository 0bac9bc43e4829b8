------------------------------ MODULE GcRegion ------------------------------
(***************************************************************************)
(* Gc<T> and gc_region: the runtime's mark and sweep (rlyeh-gc-runtime)    *)
(* and the calls the type checker wraps a gc_region block in: begin at its *)
(* start, escape of its value if that is a Gc<T>, and collect.             *)
(*                                                                         *)
(* Free addresses are handed out again in any order, as malloc may.  An    *)
(* object has one slot; what else it holds is no address.                  *)
(***************************************************************************)
EXTENDS Naturals, Sequences, Functions

CONSTANTS
  Addrs,        \* the addresses malloc may return
  NoAddr,
  MaxDepth,     \* lexical nesting of gc_region blocks: a bound
  MaxEpoch      \* blocks begun and not collected: a bound

ASSUME GcAssumption == NoAddr \notin Addrs /\ MaxDepth \in Nat /\ MaxEpoch \in Nat

VARIABLES
  heap,         \* the header list: address -> epoch, slot, home
  roots, epoch, \* the other fields of GcState
  locals        \* addresses the local variables hold, per open block

gcVars == <<heap, roots, epoch, locals>>

(* `home` is the lexical depth of the block an object belongs to now; the  *)
(* code has no such field.  Depth 0 is outside every gc_region.            *)
Depth == Len(locals) - 1
None == [epoch |-> 0, slot |-> NoAddr, home |-> 0]

----------------------------------------------------------------------------
Closed(h, S) == \A a \in S : h[a].slot \in DOMAIN h => h[a].slot \in S

(* mark, from each of `from`: the least closed set of registered objects *)
(* that holds them; addresses that are not registered are ignored.       *)
Marked(h, from) ==
  LET closed == {S \in SUBSET DOMAIN h : from \cap DOMAIN h \subseteq S /\ Closed(h, S)} IN
  {a \in DOMAIN h : \A S \in closed : a \in S}

GcInit ==
  /\ heap = [a \in {} |-> None] /\ roots = {} /\ epoch = 0
  /\ locals = <<{}>>

Held == UNION Range(locals)
Reached == Marked(heap, Held)

Hold(ls, a) == [ls EXCEPT ![Len(ls)] = @ \cup ({a} \ {NoAddr})]

(* rlyeh_gc_alloc, its result in a local of the innermost block. *)
GcAlloc ==
  /\ \E a \in Addrs \ DOMAIN heap :
       /\ heap' = [b \in DOMAIN heap \cup {a} |->
                     IF b = a THEN [epoch |-> epoch, slot |-> NoAddr, home |-> Depth]
                              ELSE heap[b]]
       /\ locals' = Hold(locals, a)
  /\ UNCHANGED <<roots, epoch>>

(* The program stores a reference.  Objects of a block are invalid after   *)
(* it, so what an object refers to has to live as long as the object does. *)
GcStore ==
  /\ \E x, y \in Reached :
       /\ heap[y].home <= heap[x].home
       /\ heap' = [heap EXCEPT ![x].slot = y]
  /\ UNCHANGED <<roots, epoch, locals>>

(* rlyeh_gc_region_begin *)
GcBegin ==
  /\ Depth < MaxDepth /\ epoch < MaxEpoch
  /\ epoch' = epoch + 1 /\ locals' = Append(locals, {})
  /\ UNCHANGED <<heap, roots>>

(* mutant: an off-by-one in the sweep *)
SurvivorsOldest(starts) ==
  Marked(heap, starts) \cup {a \in DOMAIN heap : heap[a].epoch <= epoch}

(* What collect keeps: the marked objects and those of older epochs. *)
Survivors(starts) ==
  Marked(heap, starts) \cup {a \in DOMAIN heap : heap[a].epoch < epoch}

(* mutant: the old roots go and only this block's value becomes a root *)
PromotedNewest(starts) == starts \ roots

(* The roots after collect: every survivor, marked or not. *)
Promoted(starts) == Survivors(starts)

(* Leaving a block, `value` in hand, with the objects of `kept`. *)
Leave(value, kept) ==
  /\ heap' = [a \in kept |->
                [heap[a] EXCEPT !.home = IF @ < Depth THEN @ ELSE Depth - 1]]
  /\ locals' = Hold(SubSeq(locals, 1, Depth), value)

Values == Reached \cup {NoAddr}

(* The end of a gc_region: the value, if it is a Gc, escapes; collect. *)
GcEnd ==
  /\ Depth > 0
  /\ \E value \in Values :
       LET starts == roots \cup ({value} \ {NoAddr}) IN
       /\ Leave(value, Survivors(starts))
       /\ roots' = Promoted(starts)
  /\ epoch' = epoch - 1

(* `return` and `break` leave the block without escape or collect. *)
GcEarlyExit ==
  /\ Depth > 0
  /\ \E value \in Values : Leave(value, DOMAIN heap)
  /\ UNCHANGED <<roots, epoch>>

GcNext == GcAlloc \/ GcStore \/ GcBegin \/ GcEnd \/ GcEarlyExit

GcSpec == GcInit /\ [][GcNext]_gcVars

----------------------------------------------------------------------------
(* The properties. *)

(* No local variable of an open block leads to freed memory, through       *)
(* however many slots: collect frees nothing that an outer block, or the   *)
(* value that left the block, still needs (gc lib.rs:158-211).             *)
NoDangling ==
  /\ Held \subseteq DOMAIN heap
  /\ \A a \in Reached : heap[a].slot \in DOMAIN heap \cup {NoAddr}

(* A block that ends by its closing brace leaves none of its objects       *)
(* behind when its value is no Gc and neither an inner block nor an early  *)
(* exit has protected them: no stale address in a leaked object, taken for *)
(* a reference by the conservative scan, keeps one (gc lib.rs:214-246).    *)
Protected == {a \in DOMAIN heap : heap[a].home = Depth /\ a \in roots}
BlockLeavesNothing ==
  [][ epoch' < epoch /\ epoch = Depth /\ Protected = {} /\ locals' = SubSeq(locals, 1, Depth) =>
        \A a \in DOMAIN heap : heap[a].home = Depth => a \notin DOMAIN heap' ]_gcVars
=============================================================================
