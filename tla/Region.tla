------------------------------- MODULE Region -------------------------------
(***************************************************************************)
(* The region allocator of rlyeh-region-alloc (Region, and SmartRegion as  *)
(* the growth strategy "smart"), together with the code the LLVM back end  *)
(* emits for `in 'r` allocations: it bumps the cursor in the region header *)
(* itself, and inside a loop it keeps the header in registers and calls    *)
(* the runtime only when the block is full.                                *)
(*                                                                         *)
(* An address is a block and an offset in bytes; a block's base is aligned *)
(* to Floor and an object's contents are not modelled.                     *)
(***************************************************************************)
EXTENDS Integers, Sequences, FiniteSets, FiniteSetsExt, SequencesExt

CONSTANTS
  Strategies,   \* growth strategies a region may be built with
  Initial,      \* size of the first block
  Chunk,        \* increment of the linear strategy
  MaxSize,      \* SmartRegion's bound on a block
  Sizes,        \* object sizes of the Rust API and of value mirrors
  Batches,      \* sequences of sizes the back end bumps at once
  Aligns,       \* alignments the Rust API is asked for
  MaxObjects    \* objects ever allocated: a bound on the exploration

ASSUME RegionAssumption ==
  /\ Strategies \subseteq {"exact", "multiply", "linear", "adaptive", "smart"}
  /\ Initial \in Nat /\ Chunk \in Nat /\ MaxSize \in Nat /\ MaxObjects \in Nat
  /\ Sizes \subseteq Nat /\ Aligns \subseteq Nat \ {0}
  /\ \A sizes \in Batches : sizes \in Seq(Nat)

VARIABLES
  strategy,     \* Region.strategy
  blocks,       \* the sizes of the memory blocks, the current one last
  hdr,          \* base, cursor and limit in the region header
  reg,          \* the copy of the header in registers while a loop runs
  objs,         \* every object placed: block, offset, size, has a destructor
  fresh,        \* the loop's objects of the current iteration
  dead,         \* objects the program can no longer reach
  dtors,        \* the destructor registry: address and object
  moved,        \* objects transferred out of the region
  dropped,      \* objects whose destructor ran, in that order
  destroyed

rVars == <<strategy, blocks, hdr, reg, objs, fresh, dead, dtors, moved, dropped, destroyed>>
NoReg == [base |-> 0, cursor |-> 0, limit |-> 0]

----------------------------------------------------------------------------
Smart == strategy = "smart"
Floor == IF Smart THEN 16 ELSE 8     \* BLOCK_ALIGN, BASE_ALIGN
AlignUp(n, a) == ((n + a - 1) \div a) * a
Start(h, align) == AlignUp(h.cursor, Max({align, Floor}))

(* The sums of the first 0, 1, ... of the sizes, and of all. *)
Sums(sizes) ==
  LET sum[k \in 0..Len(sizes)] == IF k = 0 THEN 0 ELSE sum[k - 1] + sizes[k] IN sum
Sum(sizes) == Sums(sizes)[Len(sizes)]
Capacity == Sum(blocks)

(* The cursor after an object, and whether the current block holds it. *)
End(h, size, align) == Start(h, align) + size

Fits(h, size, align) == End(h, size, align) <= h.limit

(* What the strategy may make the next block when `size` bytes do not fit; *)
(* nothing when it refuses.  Region grows by its capacity, SmartRegion by  *)
(* its last block and by a mean of past sizes, which lies among them.      *)
NextSizes(size) ==
  LET current == Last(blocks) IN
  CASE strategy = "exact" -> {}
    [] strategy = "multiply" -> {Max({size, 2 * Capacity})}
    [] strategy = "linear" -> {Max({size, Capacity + Chunk})}
    [] strategy = "adaptive" -> {Max({size, Capacity + 1})}
    [] strategy = "smart" ->
         {n \in {Max({size, mean, (3 * current + 1) \div 2, current + 1}) :
                   mean \in UNION {0..s : s \in Sizes}} : n <= MaxSize}

Ids == DOMAIN objs
Ptr(i) == <<objs[i].block, objs[i].off>>

(* Objects of the given sizes one after the other from offset `off` on. *)
Laid(h, off, sizes, drop) ==
  [k \in DOMAIN sizes |->
     [block |-> h.base, drop |-> drop, size |-> sizes[k],
      off |-> off + Sums(sizes)[k - 1]]]

Place(h, align, sizes, drop) ==
  objs' = objs \o Laid(h, Start(h, align), sizes, drop)

(* allocate_bytes and allocate, entered with the header h: bump, or grow   *)
(* and bump, or fail and leave the region as it is.                        *)
RuntimeAlloc(h, sizes, align, drop) ==
  \/ /\ Fits(h, Sum(sizes), align)
     /\ hdr' = [h EXCEPT !.cursor = End(h, Sum(sizes), align)]
     /\ Place(h, align, sizes, drop)
     /\ UNCHANGED blocks
  \/ /\ ~Fits(h, Sum(sizes), align)
     /\ \E next \in NextSizes(Sum(sizes)) :
          LET new == [base |-> Len(blocks) + 1, cursor |-> 0, limit |-> next] IN
          /\ blocks' = Append(blocks, next)
          /\ hdr' = [new EXCEPT !.cursor = End(new, Sum(sizes), align)]
          /\ Place(new, align, sizes, drop)
  \/ /\ ~Fits(h, Sum(sizes), align) /\ NextSizes(Sum(sizes)) = {}
     /\ hdr' = h /\ UNCHANGED <<blocks, objs>>

NewIds == DOMAIN objs' \ DOMAIN objs

----------------------------------------------------------------------------
RegionInit ==
  /\ strategy \in Strategies
  /\ blocks = <<Initial>>
  /\ hdr = [base |-> 1, cursor |-> 0, limit |-> Initial]
  /\ reg = NoReg
  /\ objs = <<>> /\ dtors = <<>> /\ dropped = <<>>
  /\ fresh = {} /\ dead = {} /\ moved = {} /\ destroyed = FALSE

Open == ~destroyed /\ Len(objs) < MaxObjects
InLoop == reg # NoReg

(* Region::allocate<T> and SmartRegion::allocate<T>: T may need dropping. *)
Allocate(size, align, drop) ==
  /\ Open /\ ~InLoop
  /\ RuntimeAlloc(hdr, <<size>>, align, drop)
  /\ dtors' = IF drop /\ NewIds # {}
                THEN Append(dtors, [ptr |-> <<Last(objs').block, Last(objs').off>>,
                                    id |-> Len(objs')])
                ELSE dtors
  /\ UNCHANGED <<strategy, reg, fresh, dead, moved, dropped, destroyed>>

(* The inlined bump of one object, or of several aggregated into one, with *)
(* rlyeh_region_alloc as its slow path.                                    *)
InlineBump(sizes) ==
  /\ Open /\ ~InLoop /\ ~Smart
  /\ RuntimeAlloc(hdr, sizes, 8, FALSE)
  /\ UNCHANGED <<strategy, reg, fresh, dead, dtors, moved, dropped, destroyed>>

(* The preheader of a loop whose only bumps are in its latch: a snapshot. *)
EnterLoop ==
  /\ Open /\ ~InLoop /\ ~Smart
  /\ reg' = hdr
  /\ UNCHANGED <<strategy, blocks, hdr, objs, fresh, dead, dtors, moved, dropped, destroyed>>

(* mutant: after the slow path the old base stays in its register *)
LoopBumpStaleBase(sizes) ==
  /\ Open /\ InLoop
  /\ IF Fits(reg, Sum(sizes), 8)
     THEN /\ reg' = [reg EXCEPT !.cursor = End(reg, Sum(sizes), 8)]
          /\ Place(reg, 8, sizes, FALSE)
          /\ UNCHANGED <<blocks, hdr>>
     ELSE /\ RuntimeAlloc([hdr EXCEPT !.cursor = reg.cursor], sizes, 8, FALSE)
          /\ reg' = [hdr' EXCEPT !.base = reg.base]
  /\ dead' = dead \cup fresh /\ fresh' = NewIds
  /\ UNCHANGED <<strategy, dtors, moved, dropped, destroyed>>

(* One iteration: the fast path in registers, or the cursor written back,  *)
(* the runtime called and all three reloaded.  no_promo_escape: what the   *)
(* previous iteration allocated is out of reach.                           *)
LoopBump(sizes) ==
  /\ Open /\ InLoop
  /\ IF Fits(reg, Sum(sizes), 8)
     THEN /\ reg' = [reg EXCEPT !.cursor = End(reg, Sum(sizes), 8)]
          /\ Place(reg, 8, sizes, FALSE)
          /\ UNCHANGED <<blocks, hdr>>
     ELSE /\ RuntimeAlloc([hdr EXCEPT !.cursor = reg.cursor], sizes, 8, FALSE)
          /\ reg' = hdr'
  /\ dead' = dead \cup fresh /\ fresh' = NewIds
  /\ UNCHANGED <<strategy, dtors, moved, dropped, destroyed>>

(* A value mirror (AllocInRegion) in another block of the loop body still  *)
(* bumps the header in memory.  Nobody reads the mirror, so it is dead.    *)
LoopMirror(size) ==
  /\ Open /\ InLoop
  /\ RuntimeAlloc(hdr, <<size>>, 8, FALSE)
  /\ dead' = dead \cup fresh \cup NewIds /\ fresh' = {}
  /\ UNCHANGED <<strategy, reg, dtors, moved, dropped, destroyed>>

(* The exit block stores the register cursor, and only it. *)
ExitLoop ==
  /\ InLoop
  /\ hdr' = [hdr EXCEPT !.cursor = reg.cursor] /\ reg' = NoReg
  /\ dead' = dead \cup fresh /\ fresh' = {}
  /\ UNCHANGED <<strategy, blocks, objs, dtors, moved, dropped, destroyed>>

SwapRemove(s, i) == SubSeq([s EXCEPT ![i] = Last(s)], 1, Len(s) - 1)

(* execute_transfer: the first entry with the object's address goes, and   *)
(* the last entry takes its place; the receiver owns the object.           *)
TransferOut(i) ==
  /\ ~destroyed /\ ~InLoop /\ ~Smart /\ i \notin moved \cup dead
  /\ LET hits == {k \in DOMAIN dtors : dtors[k].ptr = Ptr(i)} IN
     dtors' = IF hits = {} THEN dtors ELSE SwapRemove(dtors, Min(hits))
  /\ moved' = moved \cup {i}
  /\ UNCHANGED <<strategy, blocks, hdr, reg, objs, fresh, dead, dropped, destroyed>>

(* mutant: the registry is walked from its start *)
DestroyForward ==
  /\ ~destroyed /\ ~InLoop
  /\ dropped' = [k \in DOMAIN dtors |-> dtors[k].id] /\ dtors' = <<>>
  /\ blocks' = <<>> /\ destroyed' = TRUE
  /\ UNCHANGED <<strategy, hdr, reg, objs, fresh, dead, moved>>

(* destroy, once: the destructors from last to first, then the blocks. *)
Destroy ==
  /\ ~destroyed /\ ~InLoop
  /\ dropped' = Reverse([k \in DOMAIN dtors |-> dtors[k].id]) /\ dtors' = <<>>
  /\ blocks' = <<>> /\ destroyed' = TRUE
  /\ UNCHANGED <<strategy, hdr, reg, objs, fresh, dead, moved>>

RegionNext ==
  \/ \E size \in Sizes, align \in Aligns, drop \in BOOLEAN : Allocate(size, align, drop)
  \/ \E sizes \in Batches : InlineBump(sizes) \/ LoopBump(sizes)
  \/ \E size \in Sizes \ {0} : LoopMirror(size)
  \/ EnterLoop \/ ExitLoop
  \/ \E i \in Ids : TransferOut(i)
  \/ Destroy

RegionSpec == RegionInit /\ [][RegionNext]_rVars

----------------------------------------------------------------------------
(* The properties. *)

Extent(i) == objs[i].off .. objs[i].off + objs[i].size - 1
Apart(i, j) == objs[i].block # objs[j].block \/ Extent(i) \cap Extent(j) = {}

(* Every object lies inside the block it was placed in, whichever of the   *)
(* header in memory and its copy in registers it was placed by: the copies *)
(* may be of different blocks while a loop runs (region.rs:105-160,        *)
(* llvm_region.rs:113-300).  No allocation is given memory that a          *)
(* reachable object occupies, one of the same bump included, not even a    *)
(* value mirror written through the stale header of a loop.                *)
InBounds ==
  ~destroyed => \A i \in Ids : objs[i].off + objs[i].size <= blocks[objs[i].block]
NoScribble == \A n \in NewIds : \A o \in DOMAIN objs' \ (dead' \cup {n}) : Apart(n, o)'
ObjectsKeepApart == [][InBounds' /\ NoScribble]_rVars

(* An object with a destructor shares its address: one of the two is empty. *)
Aliased == \E i, j \in Ids : i # j /\ objs[i].drop /\ Ptr(i) = Ptr(j)

(* When the region ends, each of its objects has been dropped exactly once *)
(* and those transferred not at all, from the youngest object to the       *)
(* oldest when only the youngest droppable one was ever transferred        *)
(* (swap_remove reorders the registry otherwise), unless two objects share *)
(* an address (destructor.rs:40-90).                                       *)
DropsExactlyOnce ==
  /\ IsInjective(dropped)
  /\ Range(dropped) = {i \in Ids : objs[i].drop} \ moved
DropsYoungestFirst ==
  (\A i \in moved, j \in Ids : objs[j].drop /\ j \notin moved => j < i) =>
    \A a, b \in DOMAIN dropped : a < b => dropped[a] > dropped[b]
DropsInOrder == destroyed /\ ~Aliased => DropsExactlyOnce /\ DropsYoungestFirst
=============================================================================
