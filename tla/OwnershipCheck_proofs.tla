------------------------ MODULE OwnershipCheck_proofs ------------------------
(***************************************************************************)
(* A function both checkers accept has one owner and one writer for every  *)
(* object, and reads no dangling reference, for any names, regions and     *)
(* bounds: the tables of the checkers, which are by name, are followed     *)
(* next to the objects of the execution.                                   *)
(***************************************************************************)
EXTENDS OwnershipCheck, WellFoundedInduction, FiniteSetTheorems, SequenceTheorems, TLAPS

----------------------------------------------------------------------------
(* Maxima and minima of sets of positions.                                 *)

LEMMA LeastNat ==
  ASSUME NEW T \in SUBSET Nat, T # {}
  PROVE  \E x \in T : \A y \in T : x <= y
<1>1. PICK x \in T : \A y \in T : ~ (<<y, x>> \in OpToRel(<, Nat))
  BY WFMin, NatLessThanWellFounded
<1>2. \A y \in T : <<y, x>> \in Nat \X Nat
  OBVIOUS
<1>3. \A y \in T : ~ (y < x)
  BY <1>1, <1>2 DEF OpToRel
<1> QED
  BY <1>3

LEMMA MinOf ==
  ASSUME NEW T \in SUBSET Nat, T # {}
  PROVE  Min(T) \in T /\ \A y \in T : Min(T) <= y
  BY LeastNat DEF Min

LEMMA MaxOf ==
  ASSUME NEW n \in Nat, NEW T \in SUBSET (1..n), T # {}
  PROVE  Max(T) \in T /\ \A y \in T : y <= Max(T)
<1> DEFINE bounds == {m \in Nat : \A y \in T : y <= m}
<1>1. n \in bounds
  OBVIOUS
<1>2. PICK m \in bounds : \A k \in bounds : m <= k
  <2>1. bounds \in SUBSET Nat /\ bounds # {}
    BY <1>1
  <2> HIDE DEF bounds
  <2> QED
    BY <2>1, LeastNat
<1>3. m \in T
  <2>1. SUFFICES ASSUME m \notin T PROVE FALSE
    OBVIOUS
  <2>2. PICK y \in T : TRUE
    OBVIOUS
  <2>3. m \in Nat /\ y \in Nat /\ y >= 1 /\ y <= m
    OBVIOUS
  <2>4. \A z \in T : z <= m - 1
    BY <2>1, <2>3
  <2>5. m - 1 \in bounds
    BY <2>3, <2>4
  <2> QED
    BY <1>2, <2>3, <2>5
<1>4. \A y \in T : m >= y
  OBVIOUS
<1> QED
  BY <1>3, <1>4 DEF Max

----------------------------------------------------------------------------
(* Types.                                                                  *)

Bindings == [mut : BOOLEAN, moved : BOOLEAN, obj : Nat \ {0}]
Binds == UNION {[D -> Bindings] : D \in SUBSET Names}
Frames == [id : Nat, start : Nat, region : Regions \cup {NoName}, run : BOOLEAN,
           locals : SUBSET Names, bind : Binds]
Borrows == [source : Vals, var : Names \cup {NoName}, mut : BOOLEAN, born : Nat,
            block : Nat, escapes : BOOLEAN, place : Boxes \cup {NoName}]
RefRecs == [to : Nat, mut : BOOLEAN, born : Nat, blk : Nat]
Objs == [home : Nat, mut : BOOLEAN, ref : RefRecs, field : Nat, dead : BOOLEAN,
         moved : BOOLEAN, wrote : Nat, mutAt : Nat, refAt : Nat]

OTypeOK ==
  /\ pos \in Nat
  /\ frames \in Seq(Frames) /\ Len(frames) >= 1
  /\ borrows \in Seq(Borrows)
  /\ defs \in [Names -> Nat]
  /\ suspects \subseteq Names
  /\ allocated \in [Names -> Regions \cup {NoName}]
  /\ objects \in Seq(Objs)
  /\ skipped \in BOOLEAN /\ shadowed \in BOOLEAN

(* A frame that runs, a name bound in it, and its binding there.           *)
Named(f, v) == f \in DOMAIN frames /\ frames[f].run /\ v \in DOMAIN frames[f].bind
At(f, v) == frames[f].bind[v]

LEMMA BindingsTyped ==
  ASSUME OTypeOK, NEW f \in DOMAIN frames
  PROVE  /\ frames[f] \in Frames
         /\ DOMAIN frames[f].bind \subseteq Names
         /\ \A v \in DOMAIN frames[f].bind : frames[f].bind[v] \in Bindings
<1>1. frames[f] \in Frames
  BY DEF OTypeOK
<1>2. frames[f].bind \in Binds
  BY <1>1 DEF Frames
<1>3. PICK D \in SUBSET Names : frames[f].bind \in [D -> Bindings]
  BY <1>2 DEF Binds
<1> QED
  BY <1>1, <1>3

LEMMA TopTyped ==
  ASSUME OTypeOK
  PROVE  /\ Top \in DOMAIN frames /\ frames[Top] \in Frames /\ Top \in Nat /\ Top >= 1
         /\ TopId \in Nat /\ Now \in Nat /\ Now = pos + 1 /\ Live \in BOOLEAN
<1>1. Top \in DOMAIN frames /\ Top \in Nat /\ Top >= 1
  BY DEF OTypeOK, Top
<1>2. frames[Top] \in Frames
  BY <1>1, BindingsTyped
<1> QED
  BY <1>1, <1>2 DEF OTypeOK, TopId, Now, Live, Frames

LEMMA KnownTyped ==
  ASSUME OTypeOK, NEW v, Known(v)
  PROVE  /\ Max(Bound(v)) \in DOMAIN frames
         /\ v \in DOMAIN frames[Max(Bound(v))].bind
         /\ Binding(v) = At(Max(Bound(v)), v) /\ Binding(v) \in Bindings
         /\ Obj(v) = Binding(v).obj /\ Obj(v) \in Nat \ {0} /\ Moved(v) = Binding(v).moved
         /\ \A g \in DOMAIN frames : v \in DOMAIN frames[g].bind => g <= Max(Bound(v))
<1>1. Len(frames) \in Nat /\ Bound(v) \in SUBSET (1..Len(frames)) /\ Bound(v) # {}
  BY DEF OTypeOK, Bound, Known
<1>2. Max(Bound(v)) \in Bound(v) /\ \A g \in Bound(v) : g <= Max(Bound(v))
  BY <1>1, MaxOf
<1>3. Max(Bound(v)) \in DOMAIN frames /\ v \in DOMAIN frames[Max(Bound(v))].bind
  BY <1>2 DEF Bound
<1>4. Binding(v) = At(Max(Bound(v)), v) /\ Binding(v) \in Bindings
  BY <1>3, BindingsTyped DEF Binding, At
<1>5. Obj(v) = Binding(v).obj /\ Obj(v) \in Nat \ {0} /\ Moved(v) = Binding(v).moved
  BY <1>4 DEF Obj, Moved, Bindings
<1>6. \A g \in DOMAIN frames : v \in DOMAIN frames[g].bind => g <= Max(Bound(v))
  BY <1>2 DEF Bound
<1> QED
  BY <1>3, <1>4, <1>5, <1>6

(* The region that is open innermost.                                      *)
LEMMA InnermostTyped ==
  ASSUME OTypeOK, RegionFrames # {}
  PROVE  /\ InnermostRegion \in RegionFrames /\ InnermostRegion \in DOMAIN frames
         /\ InnermostRegion # 0 /\ \A f \in RegionFrames : f <= InnermostRegion
<1>1. Len(frames) \in Nat /\ RegionFrames \in SUBSET (1..Len(frames))
  BY DEF OTypeOK, RegionFrames
<1>2. InnermostRegion = Max(RegionFrames)
  BY DEF InnermostRegion
<1>3. Max(RegionFrames) \in RegionFrames /\ \A f \in RegionFrames : f <= Max(RegionFrames)
  BY <1>1, MaxOf
<1>4. Max(RegionFrames) \in 1..Len(frames)
  BY <1>1, <1>3
<1> QED
  BY <1>2, <1>3, <1>4 DEF RegionFrames

----------------------------------------------------------------------------
(* What the steps do to frames.                                            *)

SameButNames(g, f) ==
  g.id = f.id /\ g.start = f.start /\ g.region = f.region /\ g.run = f.run

(* A declaration binds v in the innermost frame, to a new object if it is  *)
(* executed, and v is a local of the innermost region.                     *)
Declared(v, mut) ==
  /\ frames' \in Seq(Frames) /\ Len(frames') = Len(frames)
  /\ \A f \in DOMAIN frames :
       /\ SameButNames(frames'[f], frames[f])
       /\ DOMAIN frames'[f].bind = DOMAIN frames[f].bind \cup (IF f = Top THEN {v} ELSE {})
       /\ \A n \in DOMAIN frames[f].bind :
            f # Top \/ n # v => frames'[f].bind[n] = frames[f].bind[n]
       /\ frames[f].locals \subseteq frames'[f].locals
       /\ f = InnermostRegion => v \in frames'[f].locals
  /\ frames'[Top].bind[v] =
       [mut |-> mut, moved |-> FALSE, obj |-> IF Live THEN Len(objects) + 1 ELSE 1]

LEMMA DeclareBinds ==
  ASSUME OTypeOK, NEW v \in Names, NEW mut \in BOOLEAN, NEW object, NEW world,
         Live => Len(world) = Len(objects), Declare(v, mut, object, world)
  PROVE  Declared(v, mut)
<1> DEFINE new == [mut |-> mut, moved |-> FALSE, obj |-> IF Live THEN Len(world) + 1 ELSE 1]
           wider(f) == [n \in DOMAIN frames[f].bind \cup {v} |->
                          IF n = v THEN new ELSE frames[f].bind[n]]
           next(f) == [frames[f] EXCEPT
                         !.bind = IF f = Top THEN wider(f) ELSE @,
                         !.locals = IF f = InnermostRegion THEN @ \cup {v} ELSE @]
<1>1. Len(frames) \in Nat /\ Len(objects) \in Nat /\ DOMAIN frames = 1..Len(frames)
  BY DEF OTypeOK
<1>2. new \in Bindings
  <2>1. (IF Live THEN Len(world) + 1 ELSE 1) \in Nat \ {0}
    BY <1>1, TopTyped
  <2> QED
    BY <2>1 DEF Bindings
<1>3. ASSUME NEW f \in DOMAIN frames
      PROVE  wider(f) \in Binds
  <2>1. DOMAIN frames[f].bind \cup {v} \in SUBSET Names
    BY BindingsTyped
  <2>2. \A n \in DOMAIN frames[f].bind \cup {v} : (IF n = v THEN new ELSE frames[f].bind[n]) \in Bindings
    BY <1>2, BindingsTyped
  <2>3. wider(f) \in [DOMAIN frames[f].bind \cup {v} -> Bindings]
    BY <2>2
  <2> QED
    BY <2>1, <2>3 DEF Binds
<1>4. frames' = [f \in DOMAIN frames |-> next(f)]
  BY DEF Declare
<1>5. ASSUME NEW f \in DOMAIN frames
      PROVE  /\ next(f) \in Frames /\ SameButNames(next(f), frames[f])
             /\ next(f).bind = (IF f = Top THEN wider(f) ELSE frames[f].bind)
             /\ next(f).locals = (IF f = InnermostRegion THEN frames[f].locals \cup {v}
                                                         ELSE frames[f].locals)
  <2>1. frames[f] \in Frames
    BY BindingsTyped
  <2>2. PICK w : w = wider(f)
    OBVIOUS
  <2>3. w \in Binds
    BY <1>3, <2>2
  <2>4. PICK b : b = IF f = Top THEN w ELSE frames[f].bind
    OBVIOUS
  <2>5. PICK l : l = IF f = InnermostRegion THEN frames[f].locals \cup {v} ELSE frames[f].locals
    OBVIOUS
  <2>6. b \in Binds /\ l \in SUBSET Names
    BY <2>1, <2>3, <2>4, <2>5 DEF Frames
  <2>7. next(f) = [frames[f] EXCEPT !.bind = b, !.locals = l]
    BY <2>1, <2>2, <2>4, <2>5 DEF Frames
  <2> HIDE DEF next
  <2>8. next(f) \in Frames /\ SameButNames(next(f), frames[f])
        /\ next(f).bind = b /\ next(f).locals = l
    BY <2>1, <2>6, <2>7 DEF Frames, SameButNames
  <2> HIDE DEF wider
  <2> QED
    BY <2>2, <2>4, <2>5, <2>8
<1>6. frames' \in Seq(Frames) /\ Len(frames') = Len(frames)
  <2> HIDE DEF next
  <2>1. frames' \in [1..Len(frames) -> Frames]
    BY <1>1, <1>4, <1>5
  <2> QED
    BY <1>1, <2>1
<1>7. \A f \in DOMAIN frames : frames'[f] = next(f)
  BY <1>4
<1>8. \A f \in DOMAIN frames :
        /\ DOMAIN next(f).bind = DOMAIN frames[f].bind \cup (IF f = Top THEN {v} ELSE {})
        /\ \A n \in DOMAIN frames[f].bind :
             f # Top \/ n # v => next(f).bind[n] = frames[f].bind[n]
  <2> TAKE f \in DOMAIN frames
  <2>1. next(f).bind = (IF f = Top THEN wider(f) ELSE frames[f].bind)
    BY <1>5
  <2> HIDE DEF next, new
  <2> QED
    BY <2>1
<1>9. next(Top).bind[v] = new
  <2>1. next(Top).bind = wider(Top)
    BY <1>5, TopTyped
  <2>2. wider(Top)[v] = new
    BY DEF new
  <2> QED
    BY <2>1, <2>2
<1>10. \A f \in DOMAIN frames :
         /\ frames[f].locals \subseteq next(f).locals
         /\ f = InnermostRegion => v \in next(f).locals
  <2> TAKE f \in DOMAIN frames
  <2>1. next(f).locals = (IF f = InnermostRegion THEN frames[f].locals \cup {v}
                                                 ELSE frames[f].locals)
    BY <1>5
  <2> HIDE DEF next
  <2> QED
    BY <2>1
<1>11. \A f \in DOMAIN frames : SameButNames(next(f), frames[f])
  BY <1>5
<1> HIDE DEF next, wider
<1>12. frames'[Top].bind[v] = new
  BY <1>7, <1>9, TopTyped
<1>13. (IF Live THEN Len(world) + 1 ELSE 1) = (IF Live THEN Len(objects) + 1 ELSE 1)
  OBVIOUS
<1>14. new = [mut |-> mut, moved |-> FALSE, obj |-> IF Live THEN Len(objects) + 1 ELSE 1]
  BY <1>13
<1> HIDE DEF new
<1>15. \A f \in DOMAIN frames :
         /\ SameButNames(frames'[f], frames[f])
         /\ frames[f].locals \subseteq frames'[f].locals
         /\ f = InnermostRegion => v \in frames'[f].locals
  <2> TAKE f \in DOMAIN frames
  <2>1. PICK g : g = next(f)
    OBVIOUS
  <2>2. /\ SameButNames(g, frames[f]) /\ frames[f].locals \subseteq g.locals
        /\ f = InnermostRegion => v \in g.locals
    <3>1. SameButNames(next(f), frames[f])
      BY <1>11
    <3>2. /\ frames[f].locals \subseteq next(f).locals
          /\ f = InnermostRegion => v \in next(f).locals
      BY <1>10
    <3> QED
      BY <2>1, <3>1, <3>2 DEF SameButNames
  <2>3. frames'[f] = g
    BY <2>1, <1>7
  <2> QED
    BY <2>2, <2>3
<1>16. \A f \in DOMAIN frames :
         /\ DOMAIN frames'[f].bind = DOMAIN frames[f].bind \cup (IF f = Top THEN {v} ELSE {})
         /\ \A n \in DOMAIN frames[f].bind :
              f # Top \/ n # v => frames'[f].bind[n] = frames[f].bind[n]
  BY <1>7, <1>8
<1>17. frames'[Top].bind[v] =
         [mut |-> mut, moved |-> FALSE, obj |-> IF Live THEN Len(objects) + 1 ELSE 1]
  BY <1>12, <1>14
<1> QED
  BY <1>6, <1>15, <1>16, <1>17, Zenon DEF Declared

(* A transfer marks the binding.                                           *)
Marked(v) ==
  /\ frames' \in Seq(Frames) /\ Len(frames') = Len(frames)
  /\ \A f \in DOMAIN frames :
       /\ SameButNames(frames'[f], frames[f]) /\ frames'[f].locals = frames[f].locals
       /\ DOMAIN frames'[f].bind = DOMAIN frames[f].bind
       /\ \A n \in DOMAIN frames[f].bind :
            /\ frames'[f].bind[n].obj = frames[f].bind[n].obj
            /\ frames'[f].bind[n].mut = frames[f].bind[n].mut
            /\ frames[f].bind[n].moved => frames'[f].bind[n].moved
            /\ f = Max(Bound(v)) /\ n = v => frames'[f].bind[n].moved

LEMMA TransferMarks ==
  ASSUME OTypeOK, NEW v, Known(v),
         frames' = [frames EXCEPT ![Max(Bound(v))].bind[v].moved = TRUE]
  PROVE  Marked(v)
<1>1. PICK m : m = Max(Bound(v))
  OBVIOUS
<1>2. m \in DOMAIN frames /\ v \in DOMAIN frames[m].bind
  BY <1>1, KnownTyped
<1>3. PICK old : old = frames[m].bind
  OBVIOUS
<1>4. PICK b : b = [old EXCEPT ![v].moved = TRUE]
  OBVIOUS
<1>5. PICK D \in SUBSET Names : old \in [D -> Bindings]
  <2>1. frames[m].bind \in Binds
    BY <1>2, BindingsTyped DEF Frames
  <2> QED
    BY <2>1, <1>3 DEF Binds
<1>6. old[v] \in Bindings
  BY <1>2, <1>3, <1>5
<1>7. b \in [D -> Bindings] /\ b[v].moved /\ b[v].obj = old[v].obj /\ b[v].mut = old[v].mut
  BY <1>2, <1>3, <1>4, <1>5, <1>6 DEF Bindings
<1>8. \A n \in D : n # v => b[n] = old[n]
  BY <1>4, <1>5
<1>9. b \in Binds
  BY <1>7 DEF Binds
<1>10. PICK g : g = [frames[m] EXCEPT !.bind = b]
  OBVIOUS
<1>11. frames[m] \in Frames
  BY <1>2, BindingsTyped
<1>12. /\ g \in Frames /\ SameButNames(g, frames[m]) /\ g.locals = frames[m].locals
       /\ g.bind = b
  BY <1>9, <1>10, <1>11 DEF Frames, SameButNames
<1>13. frames' = [frames EXCEPT ![m] = g]
  BY <1>1, <1>2, <1>3, <1>4, <1>10, <1>11 DEF Frames
<1>14. frames' \in Seq(Frames) /\ Len(frames') = Len(frames) /\ frames'[m] = g
       /\ \A f \in DOMAIN frames : f # m => frames'[f] = frames[f]
  <2>1. frames \in Seq(Frames) /\ m \in 1..Len(frames)
    BY <1>2 DEF OTypeOK
  <2>2. g \in Frames
    BY <1>12
  <2>3. DOMAIN frames = 1..Len(frames)
    BY <2>1
  <2>4. frames' \in Seq(Frames) /\ Len(frames') = Len(frames)
    <3>1. [frames EXCEPT ![m] = g] \in Seq(Frames)
      BY <2>1, <2>2, ExceptSeq
    <3>2. Len([frames EXCEPT ![m] = g]) = Len(frames)
      BY <2>1, <2>2, ExceptSeq
    <3> QED
      BY <1>13, <3>1, <3>2
  <2>5. frames'[m] = g /\ \A f \in DOMAIN frames : f # m => frames'[f] = frames[f]
    BY <2>1, <2>3, <1>13
  <2> QED
    BY <2>4, <2>5
<1>15. ASSUME NEW f \in DOMAIN frames
       PROVE  /\ SameButNames(frames'[f], frames[f]) /\ frames'[f].locals = frames[f].locals
              /\ DOMAIN frames'[f].bind = DOMAIN frames[f].bind
  <2>1. CASE f = m
    BY <2>1, <1>3, <1>5, <1>7, <1>12, <1>14
  <2>2. CASE f # m
    BY <2>2, <1>14 DEF SameButNames
  <2> QED
    BY <2>1, <2>2
<1>16. ASSUME NEW f \in DOMAIN frames, NEW n \in DOMAIN frames[f].bind
       PROVE  /\ frames'[f].bind[n].obj = frames[f].bind[n].obj
              /\ frames'[f].bind[n].mut = frames[f].bind[n].mut
              /\ frames[f].bind[n].moved => frames'[f].bind[n].moved
              /\ f = m /\ n = v => frames'[f].bind[n].moved
  <2>1. CASE f = m /\ n = v
    BY <2>1, <1>3, <1>7, <1>12, <1>14
  <2>2. CASE f = m /\ n # v
    <3>1. frames'[f].bind[n] = frames[f].bind[n]
      BY <2>2, <1>3, <1>5, <1>8, <1>12, <1>14
    <3> QED
      BY <2>2, <3>1
  <2>3. CASE f # m
    BY <2>3, <1>14
  <2> QED
    BY <2>1, <2>2, <2>3
<1> QED
  BY <1>1, <1>14, <1>15, <1>16 DEF Marked

LEMMA OpenFrames ==
  ASSUME OTypeOK, NEW kind, NEW r \in Regions \cup {NoName}, NEW taken \in BOOLEAN,
         OpenBlock(kind, r, taken)
  PROVE  /\ frames' \in Seq(Frames) /\ Len(frames') = Top + 1
         /\ \A f \in DOMAIN frames : frames'[f] = frames[f]
         /\ frames'[Top + 1].id = Now + 1 /\ frames'[Top + 1].start = Now
         /\ frames'[Top + 1].region = r /\ frames'[Top + 1].run = (Live /\ taken)
         /\ DOMAIN frames'[Top + 1].bind = {}
<1>1. PICK b : b = [v \in {} |-> 0]
  OBVIOUS
<1>2. b \in Binds /\ DOMAIN b = {}
  <2>1. b \in [{} -> Bindings]
    BY <1>1
  <2> QED
    BY <1>1, <2>1 DEF Binds
<1>3. PICK new : new = [id |-> Now + 1, start |-> Now, region |-> r, locals |-> {},
                        run |-> Live /\ taken, bind |-> b]
  OBVIOUS
<1>4. new \in Frames
  BY <1>2, <1>3, TopTyped DEF Frames
<1>5. frames' = Append(frames, new)
  BY <1>1, <1>3 DEF OpenBlock
<1>6. /\ frames' \in Seq(Frames) /\ Len(frames') = Top + 1 /\ frames'[Top + 1] = new
      /\ \A f \in DOMAIN frames : frames'[f] = frames[f]
  BY <1>4, <1>5, AppendProperties DEF OTypeOK, Top
<1> QED
  BY <1>2, <1>3, <1>6

LEMMA CloseFrames ==
  ASSUME OTypeOK, CloseBlock
  PROVE  /\ frames' \in Seq(Frames) /\ Len(frames') = Top - 1 /\ Top - 1 >= 1
         /\ \A f \in DOMAIN frames' : f \in DOMAIN frames /\ f < Top /\ frames'[f] = frames[f]
<1>1. Top > 1 /\ frames' = SubSeq(frames, 1, Top - 1) /\ Top \in Nat /\ Top = Len(frames)
  BY TopTyped DEF CloseBlock, Top
<1>2. \A i \in 1..Top - 1 : frames[i] \in Frames
  BY <1>1, BindingsTyped DEF OTypeOK
<1>3. frames' \in Seq(Frames) /\ Len(frames') = Top - 1
  BY <1>1, <1>2, SubSeqProperties
<1>4. \A f \in 1..Top - 1 : frames'[f] = frames[f]
  BY <1>1
<1>5. DOMAIN frames' = 1..Top - 1 /\ DOMAIN frames = 1..Top
  BY <1>1, <1>3 DEF OTypeOK
<1> QED
  BY <1>1, <1>3, <1>4, <1>5

-----------------------------------------------------------------------------
(* Frames and the names bound in them.                                     *)

(* Frames are numbered as they are opened, and what is nested in a branch  *)
(* that is not taken does not run; if all are taken, all frames run.       *)
FramesOk ==
  /\ frames[1].id = 1 /\ frames[1].region = NoName
  /\ \A f \in DOMAIN frames : frames[f].id \in 1..pos + 1 /\ frames[f].start <= pos
  /\ \A f, g \in DOMAIN frames :
       f < g => frames[f].id < frames[g].id /\ (frames[g].run => frames[f].run)
  /\ ~skipped => \A f \in DOMAIN frames : frames[f].run

LEMMA FramesKept ==
  ASSUME OTypeOK, FramesOk, OTypeOK', pos <= pos', skipped' = skipped,
         Len(frames') = Len(frames),
         \A f \in DOMAIN frames : SameButNames(frames'[f], frames[f])
  PROVE  FramesOk'
<1>1. DOMAIN frames' = DOMAIN frames /\ 1 \in DOMAIN frames
  BY DEF OTypeOK
<1>2. \A f \in DOMAIN frames : /\ frames'[f].id = frames[f].id /\ frames'[f].start = frames[f].start
                               /\ frames'[f].region = frames[f].region
                               /\ frames'[f].run = frames[f].run
  BY DEF SameButNames
<1>3. pos \in Nat /\ pos' \in Nat /\ \A f \in DOMAIN frames : frames[f].id \in Nat /\ frames[f].start \in Nat
  BY BindingsTyped DEF OTypeOK, Frames
<1>4. \A f \in DOMAIN frames' : frames'[f].id \in 1..pos' + 1 /\ frames'[f].start <= pos'
  BY <1>1, <1>2, <1>3 DEF FramesOk
<1>5. \A f, g \in DOMAIN frames' :
        f < g => frames'[f].id < frames'[g].id /\ (frames'[g].run => frames'[f].run)
  BY <1>1, <1>2 DEF FramesOk
<1>6. ~skipped' => \A f \in DOMAIN frames' : frames'[f].run
  BY <1>1, <1>2 DEF FramesOk
<1> QED
  BY <1>1, <1>2, <1>4, <1>5, <1>6 DEF FramesOk

LEMMA FramesOpened ==
  ASSUME OTypeOK, FramesOk, OTypeOK', NEW kind, NEW r \in Regions \cup {NoName},
         NEW taken \in BOOLEAN, OpenBlock(kind, r, taken)
  PROVE  FramesOk'
<1>1. /\ Len(frames') = Top + 1 /\ \A f \in DOMAIN frames : frames'[f] = frames[f]
      /\ frames'[Top + 1].id = Now + 1 /\ frames'[Top + 1].start = Now
      /\ frames'[Top + 1].run = (Live /\ taken)
  BY OpenFrames
<1>2. /\ pos' = pos + 1 /\ pos \in Nat /\ Now = pos + 1 /\ Top \in Nat /\ Top >= 1
      /\ skipped' = (skipped \/ (Live /\ ~taken)) /\ Live = frames[Top].run /\ Top \in DOMAIN frames
  BY TopTyped DEF OpenBlock, Stmt, OTypeOK, Live
<1>3. DOMAIN frames = 1..Top /\ DOMAIN frames' = 1..Top + 1
  BY <1>1 DEF OTypeOK, Top
<1>4. \A f \in DOMAIN frames' : f \in DOMAIN frames \/ f = Top + 1
  BY <1>2, <1>3
<1>5. \A f \in DOMAIN frames : frames[f].id \in Nat /\ frames[f].start \in Nat /\ f <= Top
  BY <1>3, BindingsTyped DEF Frames
<1>6. frames'[1].id = 1 /\ frames'[1].region = NoName
  BY <1>1, <1>2, <1>3 DEF FramesOk
<1>7. ASSUME NEW f \in DOMAIN frames'
      PROVE  frames'[f].id \in 1..pos' + 1 /\ frames'[f].start <= pos'
  <2>1. CASE f \in DOMAIN frames
    BY <2>1, <1>1, <1>2, <1>5 DEF FramesOk
  <2>2. CASE f = Top + 1
    BY <2>2, <1>1, <1>2
  <2> QED
    BY <2>1, <2>2, <1>4
<1>8. ASSUME NEW f \in DOMAIN frames', NEW g \in DOMAIN frames', f < g
      PROVE  frames'[f].id < frames'[g].id /\ (frames'[g].run => frames'[f].run)
  <2>1. f \in DOMAIN frames /\ f <= Top /\ f \in Nat
    BY <1>8, <1>2, <1>3
  <2>2. CASE g \in DOMAIN frames
    BY <2>1, <2>2, <1>8, <1>1 DEF FramesOk
  <2>3. CASE g = Top + 1
    <3>1. frames[f].id <= pos + 1 /\ frames[f].id \in Nat
      BY <2>1, <1>2 DEF FramesOk
    <3>2. Live => frames[f].run
      <4>1. CASE f = Top
        BY <4>1, <1>2
      <4>2. CASE f < Top
        BY <4>2, <2>1, <1>2 DEF FramesOk
      <4> QED
        BY <4>1, <4>2, <2>1, <1>2
    <3>3. frames'[f].id = frames[f].id /\ frames'[f].run = frames[f].run
      BY <2>1, <1>1
    <3>4. frames'[g].id = pos + 2 /\ (frames'[g].run => Live)
      <4>1. frames'[g].id = Now + 1
        BY <2>3, <1>1
      <4>2. frames'[g].run => Live
        BY <2>3, <1>1
      <4> QED
        BY <4>1, <4>2, <1>2
    <3>5. frames'[f].id < frames'[g].id
      BY <3>1, <3>3, <3>4, <1>2
    <3> QED
      BY <3>2, <3>3, <3>4, <3>5
  <2> QED
    BY <2>2, <2>3, <1>4
<1>9. ASSUME ~skipped', NEW f \in DOMAIN frames' PROVE frames'[f].run
  <2>1. ~skipped /\ ~(Live /\ ~taken)
    BY <1>9, <1>2
  <2>2. Live /\ taken
    BY <2>1, <1>2 DEF FramesOk
  <2>3. CASE f \in DOMAIN frames
    BY <2>1, <2>3, <1>1 DEF FramesOk
  <2>4. CASE f = Top + 1
    BY <2>2, <2>4, <1>1
  <2> QED
    BY <2>3, <2>4, <1>4
<1> QED
  BY <1>6, <1>7, <1>8, <1>9 DEF FramesOk

LEMMA FramesClosed ==
  ASSUME OTypeOK, FramesOk, OTypeOK', CloseBlock
  PROVE  FramesOk'
<1>1. /\ Len(frames') = Top - 1 /\ Top - 1 >= 1
      /\ \A f \in DOMAIN frames' : f \in DOMAIN frames /\ frames'[f] = frames[f]
  BY CloseFrames
<1>2. pos' = pos /\ skipped' = skipped
  BY DEF CloseBlock
<1>3. 1 \in DOMAIN frames'
  BY <1>1 DEF OTypeOK
<1> QED
  BY <1>1, <1>2, <1>3 DEF FramesOk

(* If the innermost frame runs, all do.                                    *)
LEMMA LiveRuns ==
  ASSUME OTypeOK, FramesOk, Live
  PROVE  \A f \in DOMAIN frames : frames[f].run
<1> TAKE f \in DOMAIN frames
<1>1. f <= Top /\ f \in Nat /\ Top \in Nat /\ Top \in DOMAIN frames /\ frames[Top].run
  BY TopTyped DEF OTypeOK, Top, Live
<1>2. CASE f = Top
  BY <1>1, <1>2
<1>3. CASE f < Top
  BY <1>1, <1>3 DEF FramesOk
<1> QED
  BY <1>1, <1>2, <1>3

(* Running frames bind different names to different objects, and what a    *)
(* binding says of its object is so: whether it is mut, that it has moved. *)
NamesOk ==
  /\ \A f \in DOMAIN frames, v \in Names : Named(f, v) =>
       /\ At(f, v).obj \in DOMAIN objects
       /\ objects[At(f, v).obj].mut = At(f, v).mut
       /\ objects[At(f, v).obj].moved => At(f, v).moved
  /\ \A f, g \in DOMAIN frames, v, w \in Names :
       Named(f, v) /\ Named(g, w) /\ At(f, v).obj = At(g, w).obj => f = g /\ v = w

(* A name of the next state is one of this state, or new.                  *)
OldName(f, v) ==
  /\ f \in DOMAIN frames /\ Named(f, v)
  /\ At(f, v)'.obj = At(f, v).obj /\ At(f, v)'.mut = At(f, v).mut
  /\ At(f, v).moved => At(f, v)'.moved

NewName(f, v, x, mut) ==
  /\ Live /\ f = Top /\ v = x
  /\ At(f, v)' = [mut |-> mut, moved |-> FALSE, obj |-> Len(objects) + 1]

NamesFrom(x, mut) ==
  \A f \in DOMAIN frames', v \in Names :
    Named(f, v)' => OldName(f, v) \/ NewName(f, v, x, mut)

(* Of a step that declares nothing.                                        *)
NoNewNames == \A f \in DOMAIN frames', v \in Names : Named(f, v)' => OldName(f, v)

LEMMA DeclaredNames ==
  ASSUME OTypeOK, NEW x \in Names, NEW mut \in BOOLEAN, Declared(x, mut)
  PROVE  NamesFrom(x, mut)
<1> SUFFICES ASSUME NEW f \in DOMAIN frames', NEW v \in Names, Named(f, v)'
             PROVE  OldName(f, v) \/ NewName(f, v, x, mut)
  BY DEF NamesFrom
<1>1. DOMAIN frames' = DOMAIN frames
  BY DEF Declared, OTypeOK
<1>2. f \in DOMAIN frames /\ frames'[f].run /\ v \in DOMAIN frames'[f].bind
  BY <1>1 DEF Named
<1>3. /\ frames'[f].run = frames[f].run
      /\ DOMAIN frames'[f].bind = DOMAIN frames[f].bind \cup (IF f = Top THEN {x} ELSE {})
      /\ \A n \in DOMAIN frames[f].bind : f # Top \/ n # x => frames'[f].bind[n] = frames[f].bind[n]
  BY <1>2 DEF Declared, SameButNames
<1>4. CASE f = Top /\ v = x
  <2>1. Live
    BY <1>2, <1>3, <1>4 DEF Live
  <2>2. frames'[Top].bind[x] = [mut |-> mut, moved |-> FALSE, obj |-> Len(objects) + 1]
    BY <2>1 DEF Declared
  <2> QED
    BY <1>4, <2>1, <2>2 DEF NewName, At
<1>5. CASE ~(f = Top /\ v = x)
  <2>1. v \in DOMAIN frames[f].bind
    BY <1>2, <1>3, <1>5
  <2>2. frames'[f].bind[v] = frames[f].bind[v]
    BY <1>3, <1>5, <2>1
  <2> QED
    BY <1>2, <1>3, <2>1, <2>2 DEF OldName, Named, At
<1> QED
  BY <1>4, <1>5

LEMMA MarkedNames ==
  ASSUME OTypeOK, NEW x, Marked(x)
  PROVE  NoNewNames
<1> SUFFICES ASSUME NEW f \in DOMAIN frames', NEW v \in Names, Named(f, v)'
             PROVE  OldName(f, v)
  BY DEF NoNewNames
<1>1. DOMAIN frames' = DOMAIN frames
  BY DEF Marked, OTypeOK
<1>2. f \in DOMAIN frames /\ frames'[f].run /\ v \in DOMAIN frames'[f].bind
  BY <1>1 DEF Named
<1>3. frames[f].run /\ v \in DOMAIN frames[f].bind
  BY <1>2 DEF Marked, SameButNames
<1> QED
  BY <1>2, <1>3 DEF Marked, OldName, Named, At

LEMMA KeptNames ==
  ASSUME \A f \in DOMAIN frames' :
           \/ f \in DOMAIN frames /\ frames'[f] = frames[f]
           \/ DOMAIN frames'[f].bind = {}
  PROVE  NoNewNames
<1> SUFFICES ASSUME NEW f \in DOMAIN frames', NEW v \in Names, Named(f, v)'
             PROVE  OldName(f, v)
  BY DEF NoNewNames
<1>1. frames'[f].run /\ v \in DOMAIN frames'[f].bind
  BY DEF Named
<1>2. f \in DOMAIN frames /\ frames'[f] = frames[f]
  BY <1>1
<1> QED
  BY <1>1, <1>2 DEF OldName, Named, At

(* The objects there were stay, but for what a step does to them.          *)
ObjectsStay ==
  /\ Len(objects) <= Len(objects')
  /\ \A o \in DOMAIN objects : /\ o \in DOMAIN objects' /\ objects'[o].mut = objects[o].mut
                               /\ objects'[o].home = objects[o].home

NobodyMoves == \A o \in DOMAIN objects : objects'[o].moved => objects[o].moved

LEMMA NamesKept ==
  ASSUME OTypeOK, NamesOk, NoNewNames, ObjectsStay, NobodyMoves
  PROVE  NamesOk'
<1>1. ASSUME NEW f \in DOMAIN frames', NEW v \in Names, Named(f, v)'
      PROVE  /\ At(f, v)'.obj \in DOMAIN objects'
             /\ objects'[At(f, v)'.obj].mut = At(f, v)'.mut
             /\ objects'[At(f, v)'.obj].moved => At(f, v)'.moved
  <2>1. OldName(f, v)
    BY <1>1 DEF NoNewNames
  <2>2. PICK b, c : b = At(f, v) /\ c = At(f, v)'
    OBVIOUS
  <2>3. f \in DOMAIN frames /\ Named(f, v) /\ c.obj = b.obj /\ c.mut = b.mut /\ (b.moved => c.moved)
    BY <2>1, <2>2 DEF OldName
  <2>4. b.obj \in DOMAIN objects /\ objects[b.obj].mut = b.mut /\ (objects[b.obj].moved => b.moved)
    BY <2>2, <2>3 DEF NamesOk
  <2> QED
    BY <2>2, <2>3, <2>4 DEF ObjectsStay, NobodyMoves
<1>2. ASSUME NEW f \in DOMAIN frames', NEW g \in DOMAIN frames', NEW v \in Names, NEW w \in Names,
             Named(f, v)', Named(g, w)', At(f, v)'.obj = At(g, w)'.obj
      PROVE  f = g /\ v = w
  <2>1. OldName(f, v) /\ OldName(g, w)
    BY <1>2 DEF NoNewNames
  <2> QED
    BY <1>2, <2>1 DEF OldName, NamesOk
<1> QED
  BY <1>1, <1>2 DEF NamesOk

(* A new name is bound to a new object.                                    *)
LEMMA NamesAdded ==
  ASSUME OTypeOK, NamesOk, NEW x \in Names, NEW mut \in BOOLEAN, NamesFrom(x, mut),
         ObjectsStay, NobodyMoves,
         Live => /\ Len(objects) + 1 \in DOMAIN objects'
                 /\ objects'[Len(objects) + 1].mut = mut
                 /\ objects'[Len(objects) + 1].moved = FALSE
  PROVE  NamesOk'
<1>1. ASSUME NEW f \in DOMAIN frames', NEW v \in Names, Named(f, v)'
      PROVE  /\ At(f, v)'.obj \in DOMAIN objects'
             /\ objects'[At(f, v)'.obj].mut = At(f, v)'.mut
             /\ objects'[At(f, v)'.obj].moved => At(f, v)'.moved
  <2>1. PICK b, c : b = At(f, v) /\ c = At(f, v)'
    OBVIOUS
  <2>2. CASE OldName(f, v)
    <3>1. f \in DOMAIN frames /\ Named(f, v) /\ c.obj = b.obj /\ c.mut = b.mut /\ (b.moved => c.moved)
      BY <2>1, <2>2 DEF OldName
    <3>2. b.obj \in DOMAIN objects /\ objects[b.obj].mut = b.mut /\ (objects[b.obj].moved => b.moved)
      BY <2>1, <3>1 DEF NamesOk
    <3> QED
      BY <2>1, <3>1, <3>2 DEF ObjectsStay, NobodyMoves
  <2>3. CASE NewName(f, v, x, mut)
    <3>1. Live /\ c = [mut |-> mut, moved |-> FALSE, obj |-> Len(objects) + 1]
      BY <2>1, <2>3 DEF NewName
    <3> QED
      BY <2>1, <3>1
  <2> QED
    BY <1>1, <2>2, <2>3 DEF NamesFrom
<1>2. ASSUME NEW f \in DOMAIN frames', NEW g \in DOMAIN frames', NEW v \in Names, NEW w \in Names,
             Named(f, v)', Named(g, w)', At(f, v)'.obj = At(g, w)'.obj
      PROVE  f = g /\ v = w
  <2>1. PICK n : n = Len(objects)
    OBVIOUS
  <2>2. n \in Nat /\ DOMAIN objects = 1..n
    BY <2>1 DEF OTypeOK
  <2>3. \A h \in DOMAIN frames', u \in Names :
          /\ OldName(h, u) => At(h, u)'.obj \in 1..n
          /\ NewName(h, u, x, mut) => At(h, u)'.obj = n + 1 /\ h = Top /\ u = x
    BY <2>1, <2>2 DEF OldName, NamesOk, NewName
  <2>4. (OldName(f, v) \/ NewName(f, v, x, mut)) /\ (OldName(g, w) \/ NewName(g, w, x, mut))
    BY <1>2 DEF NamesFrom
  <2>5. CASE OldName(f, v) /\ OldName(g, w)
    <3>1. Named(f, v) /\ f \in DOMAIN frames /\ At(f, v)'.obj = At(f, v).obj
      BY <2>5 DEF OldName
    <3>2. Named(g, w) /\ g \in DOMAIN frames /\ At(g, w)'.obj = At(g, w).obj
      BY <2>5 DEF OldName
    <3>3. At(f, v).obj = At(g, w).obj
      BY <1>2, <3>1, <3>2
    <3> QED
      BY <3>1, <3>2, <3>3 DEF NamesOk
  <2>6. CASE NewName(f, v, x, mut) /\ NewName(g, w, x, mut)
    BY <2>3, <2>6
  <2>7. CASE OldName(f, v) /\ NewName(g, w, x, mut)
    BY <1>2, <2>2, <2>3, <2>7
  <2>8. CASE NewName(f, v, x, mut) /\ OldName(g, w)
    BY <1>2, <2>2, <2>3, <2>8
  <2> QED
    BY <2>4, <2>5, <2>6, <2>7, <2>8
<1> QED
  BY <1>1, <1>2 DEF NamesOk

(* What a known name stands for while the statement is executed.           *)
LEMMA KnownRuns ==
  ASSUME OTypeOK, FramesOk, NamesOk, Live, NEW v \in Names, Known(v)
  PROVE  /\ Max(Bound(v)) \in DOMAIN frames /\ Named(Max(Bound(v)), v)
         /\ At(Max(Bound(v)), v) = Binding(v)
         /\ Obj(v) = Binding(v).obj /\ Obj(v) \in DOMAIN objects
         /\ objects[Obj(v)].mut = Binding(v).mut
         /\ objects[Obj(v)].moved => Moved(v)
         /\ \A f \in DOMAIN frames, w \in Names :
              Named(f, w) /\ At(f, w).obj = Obj(v) => w = v
<1>1. PICK m : m = Max(Bound(v))
  OBVIOUS
<1>2. /\ m \in DOMAIN frames /\ v \in DOMAIN frames[m].bind /\ Binding(v) = At(m, v)
      /\ Obj(v) = Binding(v).obj /\ Moved(v) = Binding(v).moved
  BY <1>1, KnownTyped
<1>3. Named(m, v)
  BY <1>2, LiveRuns DEF Named
<1>4. /\ At(m, v).obj \in DOMAIN objects /\ objects[At(m, v).obj].mut = At(m, v).mut
      /\ objects[At(m, v).obj].moved => At(m, v).moved
  BY <1>2, <1>3 DEF NamesOk
<1>5. \A f \in DOMAIN frames, w \in Names :
        Named(f, w) /\ At(f, w).obj = At(m, v).obj => w = v
  BY <1>2, <1>3 DEF NamesOk
<1> QED
  BY <1>1, <1>2, <1>3, <1>4, <1>5

-----------------------------------------------------------------------------
(* What the statements do to objects.                                      *)

SameStamps(g, o) == g.wrote = o.wrote /\ g.mutAt = o.mutAt /\ g.refAt = o.refAt

(* W is the world U, object by object, but for what a statement changes.   *)
SameWorld(W, U) ==
  W \in Seq(Objs) /\ Len(W) = Len(U) /\ DOMAIN W = DOMAIN U
    /\ \A i \in DOMAIN U : W[i].mut = U[i].mut /\ W[i].home = U[i].home

LEMMA OneObject ==
  ASSUME NEW U \in Seq(Objs), NEW o \in DOMAIN U, NEW g \in Objs,
         NEW W, W = [U EXCEPT ![o] = g]
  PROVE  /\ W \in Seq(Objs) /\ Len(W) = Len(U) /\ DOMAIN W = DOMAIN U /\ W[o] = g
         /\ \A i \in DOMAIN U : i # o => W[i] = U[i]
<1>1. DOMAIN U = 1..Len(U)
  OBVIOUS
<1>2. W \in Seq(Objs) /\ Len(W) = Len(U)
  <2>1. [U EXCEPT ![o] = g] \in Seq(Objs)
    BY <1>1, ExceptSeq
  <2>2. Len([U EXCEPT ![o] = g]) = Len(U)
    BY <1>1, ExceptSeq
  <2> QED
    BY <2>1, <2>2
<1>3. W[o] = g /\ \A i \in DOMAIN U : i # o => W[i] = U[i]
  OBVIOUS
<1> QED
  BY <1>1, <1>2, <1>3

RefSet(U, o, ref) == [U EXCEPT ![o].ref = ref]

LEMMA RefChanged ==
  ASSUME NEW U \in Seq(Objs), NEW o \in DOMAIN U, NEW ref \in RefRecs,
         NEW W, W = RefSet(U, o, ref)
  PROVE  /\ SameWorld(W, U)
         /\ W[o].ref = ref
         /\ \A i \in DOMAIN U : /\ i # o => W[i] = U[i]
                                /\ SameStamps(W[i], U[i])
                                /\ W[i].field = U[i].field /\ W[i].dead = U[i].dead
                                /\ W[i].moved = U[i].moved
<1>1. U \in Seq(Objs) /\ o \in DOMAIN U /\ U[o] \in Objs
  OBVIOUS
<1>2. PICK g : g = [U[o] EXCEPT !.ref = ref]
  OBVIOUS
<1>3. /\ g \in Objs /\ g.ref = ref /\ SameStamps(g, U[o]) /\ g.field = U[o].field
      /\ g.dead = U[o].dead /\ g.moved = U[o].moved /\ g.mut = U[o].mut /\ g.home = U[o].home
  BY <1>1, <1>2 DEF Objs, SameStamps
<1>4. W = [U EXCEPT ![o] = g]
  BY <1>2 DEF RefSet
<1>5. /\ W \in Seq(Objs) /\ Len(W) = Len(U) /\ DOMAIN W = DOMAIN U /\ W[o] = g
      /\ \A i \in DOMAIN U : i # o => W[i] = U[i]
  <2>1. g \in Objs
    BY <1>3
  <2>2. PICK w : w = [U EXCEPT ![o] = g]
    OBVIOUS
  <2>3. /\ w \in Seq(Objs) /\ Len(w) = Len(U) /\ DOMAIN w = DOMAIN U /\ w[o] = g
        /\ \A i \in DOMAIN U : i # o => w[i] = U[i]
    BY <1>1, <2>1, <2>2, OneObject
  <2> QED
    BY <1>4, <2>2, <2>3
<1> QED
  BY <1>3, <1>5 DEF SameWorld, SameStamps

FieldSet(U, o, t) == [U EXCEPT ![o].field = t]

LEMMA FieldChanged ==
  ASSUME NEW U \in Seq(Objs), NEW o \in DOMAIN U, NEW t \in Nat,
         NEW W, W = FieldSet(U, o, t)
  PROVE  /\ SameWorld(W, U)
         /\ W[o].field = t
         /\ \A i \in DOMAIN U : /\ i # o => W[i] = U[i]
                                /\ SameStamps(W[i], U[i])
                                /\ W[i].ref = U[i].ref /\ W[i].dead = U[i].dead
                                /\ W[i].moved = U[i].moved
<1>1. U \in Seq(Objs) /\ o \in DOMAIN U /\ U[o] \in Objs
  OBVIOUS
<1>2. PICK g : g = [U[o] EXCEPT !.field = t]
  OBVIOUS
<1>3. /\ g \in Objs /\ g.field = t /\ SameStamps(g, U[o]) /\ g.ref = U[o].ref
      /\ g.dead = U[o].dead /\ g.moved = U[o].moved /\ g.mut = U[o].mut /\ g.home = U[o].home
  BY <1>1, <1>2 DEF Objs, SameStamps
<1>4. W = [U EXCEPT ![o] = g]
  BY <1>2 DEF FieldSet
<1>5. /\ W \in Seq(Objs) /\ Len(W) = Len(U) /\ DOMAIN W = DOMAIN U /\ W[o] = g
      /\ \A i \in DOMAIN U : i # o => W[i] = U[i]
  <2>1. g \in Objs
    BY <1>3
  <2>2. PICK w : w = [U EXCEPT ![o] = g]
    OBVIOUS
  <2>3. /\ w \in Seq(Objs) /\ Len(w) = Len(U) /\ DOMAIN w = DOMAIN U /\ w[o] = g
        /\ \A i \in DOMAIN U : i # o => w[i] = U[i]
    BY <1>1, <2>1, <2>2, OneObject
  <2> QED
    BY <1>4, <2>2, <2>3
<1> QED
  BY <1>3, <1>5 DEF SameWorld, SameStamps

MovedSet(U, o) == [U EXCEPT ![o].moved = TRUE]

LEMMA MovedChanged ==
  ASSUME NEW U \in Seq(Objs), NEW o \in DOMAIN U,
         NEW W, W = MovedSet(U, o)
  PROVE  /\ SameWorld(W, U)
         /\ \A i \in DOMAIN U : /\ i # o => W[i] = U[i]
                                /\ SameStamps(W[i], U[i])
                                /\ W[i].ref = U[i].ref /\ W[i].dead = U[i].dead
                                /\ W[i].field = U[i].field
<1>1. U \in Seq(Objs) /\ o \in DOMAIN U /\ U[o] \in Objs
  OBVIOUS
<1>2. PICK g : g = [U[o] EXCEPT !.moved = TRUE]
  OBVIOUS
<1>3. /\ g \in Objs /\ SameStamps(g, U[o]) /\ g.ref = U[o].ref
      /\ g.dead = U[o].dead /\ g.field = U[o].field /\ g.mut = U[o].mut /\ g.home = U[o].home
  BY <1>1, <1>2 DEF Objs, SameStamps
<1>4. W = [U EXCEPT ![o] = g]
  BY <1>2 DEF MovedSet
<1>5. /\ W \in Seq(Objs) /\ Len(W) = Len(U) /\ DOMAIN W = DOMAIN U /\ W[o] = g
      /\ \A i \in DOMAIN U : i # o => W[i] = U[i]
  <2>1. g \in Objs
    BY <1>3
  <2>2. PICK w : w = [U EXCEPT ![o] = g]
    OBVIOUS
  <2>3. /\ w \in Seq(Objs) /\ Len(w) = Len(U) /\ DOMAIN w = DOMAIN U /\ w[o] = g
        /\ \A i \in DOMAIN U : i # o => w[i] = U[i]
    BY <1>1, <2>1, <2>2, OneObject
  <2> QED
    BY <1>4, <2>2, <2>3
<1> QED
  BY <1>3, <1>5 DEF SameWorld, SameStamps

(* What a statement leaves of an object that is only read or written.      *)
SameObj(g, o) ==
  /\ g.ref = o.ref /\ g.field = o.field /\ g.dead = o.dead /\ g.moved = o.moved

LEMMA WroteChanged ==
  ASSUME OTypeOK, NEW v, Obj(v) \in DOMAIN objects,
         NEW W, W = [objects EXCEPT ![Obj(v)].wrote = Now]
  PROVE  /\ SameWorld(W, objects)
         /\ \A i \in DOMAIN objects :
              /\ SameObj(W[i], objects[i])
              /\ i # Obj(v) => SameStamps(W[i], objects[i])
              /\ W[i].wrote \in {objects[i].wrote, Now}
              /\ W[i].mutAt = objects[i].mutAt /\ W[i].refAt = objects[i].refAt
<1>1. PICK o : o = Obj(v)
  OBVIOUS
<1>2. objects \in Seq(Objs) /\ o \in DOMAIN objects /\ objects[o] \in Objs /\ Now \in Nat
  BY <1>1, TopTyped DEF OTypeOK
<1>3. PICK g : g = [objects[o] EXCEPT !.wrote = Now]
  OBVIOUS
<1>4. /\ g \in Objs /\ SameObj(g, objects[o]) /\ g.wrote = Now /\ g.mutAt = objects[o].mutAt
      /\ g.refAt = objects[o].refAt /\ g.mut = objects[o].mut /\ g.home = objects[o].home
  BY <1>2, <1>3 DEF Objs, SameObj
<1>5. W = [objects EXCEPT ![o] = g]
  BY <1>1, <1>3
<1>6. /\ W \in Seq(Objs) /\ Len(W) = Len(objects) /\ DOMAIN W = DOMAIN objects /\ W[o] = g
      /\ \A i \in DOMAIN objects : i # o => W[i] = objects[i]
  BY <1>2, <1>4, <1>5, OneObject
<1> QED
  BY <1>1, <1>4, <1>6 DEF SameWorld, SameStamps, SameObj

LEMMA TouchedChanged ==
  ASSUME OTypeOK, NEW s, NEW mut \in BOOLEAN, Obj(s) \in DOMAIN objects,
         NEW W, W = Touched(s, mut)
  PROVE  /\ SameWorld(W, objects)
         /\ \A i \in DOMAIN objects :
              /\ SameObj(W[i], objects[i])
              /\ i # Obj(s) => SameStamps(W[i], objects[i])
              /\ W[i].wrote = objects[i].wrote
              /\ W[i].refAt \in {objects[i].refAt, Now}
              /\ W[i].mutAt = objects[i].mutAt \/ (mut /\ W[i].mutAt = Now)
<1>1. PICK o : o = Obj(s)
  OBVIOUS
<1>2. objects \in Seq(Objs) /\ o \in DOMAIN objects /\ objects[o] \in Objs /\ Now \in Nat
  BY <1>1, TopTyped DEF OTypeOK
<1>3. PICK at : at = IF mut THEN Now ELSE objects[o].mutAt
  OBVIOUS
<1>4. PICK g : g = [objects[o] EXCEPT !.refAt = Now, !.mutAt = at]
  OBVIOUS
<1>5. at \in Nat /\ (at = objects[o].mutAt \/ (mut /\ at = Now))
  BY <1>2, <1>3 DEF Objs
<1>6. /\ g \in Objs /\ SameObj(g, objects[o]) /\ g.wrote = objects[o].wrote /\ g.mutAt = at
      /\ g.refAt = Now /\ g.mut = objects[o].mut /\ g.home = objects[o].home
  BY <1>2, <1>4, <1>5 DEF Objs, SameObj
<1>7. W = [objects EXCEPT ![o] = g]
  <2>1. W = [objects EXCEPT ![o].refAt = Now, ![o].mutAt = IF mut THEN Now ELSE @]
    BY <1>1 DEF Touched
  <2>2. W = [objects EXCEPT ![o] = [objects[o] EXCEPT !.refAt = Now, !.mutAt = at]]
    BY <2>1, <1>2, <1>3 DEF Objs
  <2> QED
    BY <2>2, <1>4
<1>8. /\ W \in Seq(Objs) /\ Len(W) = Len(objects) /\ DOMAIN W = DOMAIN objects /\ W[o] = g
      /\ \A i \in DOMAIN objects : i # o => W[i] = objects[i]
  BY <1>2, <1>6, <1>7, OneObject
<1>9. SameWorld(W, objects)
  BY <1>6, <1>8 DEF SameWorld
<1> QED
  BY <1>1, <1>5, <1>6, <1>8, <1>9 DEF SameStamps, SameObj

LEMMA ObjectAdded ==
  ASSUME NEW U \in Seq(Objs), NEW g \in Objs, NEW W, W = Append(U, g)
  PROVE  /\ W \in Seq(Objs) /\ Len(W) = Len(U) + 1 /\ W[Len(U) + 1] = g
         /\ Len(U) \in Nat /\ DOMAIN U = 1..Len(U) /\ DOMAIN W = 1..Len(U) + 1
         /\ \A i \in DOMAIN U : i \in DOMAIN W /\ W[i] = U[i]
  BY AppendProperties

-----------------------------------------------------------------------------
(* References and the borrows that stand for them.                         *)

(* Whatever name the referent has, there is a borrow of it, of the block   *)
(* that made the reference.                                                *)
Covered(ref) ==
  \A f \in DOMAIN frames, v \in Names :
    Named(f, v) /\ At(f, v).obj = ref.to =>
      \E k \in DOMAIN borrows :
        /\ borrows[k].source = v /\ borrows[k].block = ref.blk
        /\ borrows[k].place = NoName /\ borrows[k].mut = ref.mut

(* Nothing has happened to the referent since that the reference excludes. *)
Undisturbed(world, ref) ==
  /\ world[ref.to].wrote <= ref.born /\ world[ref.to].mutAt <= ref.born
  /\ ref.mut => world[ref.to].refAt <= ref.born

Sound(ref) ==
  ref.to # 0 =>
    /\ ref.to \in DOMAIN objects /\ ref.born <= pos /\ ref.blk <= pos + 1
    /\ ref.mut => objects[ref.to].mut
    /\ ref.blk \in OpenIds => Covered(ref) /\ Undisturbed(objects, ref)

StampsOk ==
  \A o \in DOMAIN objects :
    objects[o].wrote <= pos /\ objects[o].mutAt <= pos /\ objects[o].refAt <= pos

AliasInv == StampsOk /\ \A o \in DOMAIN objects : Sound(objects[o].ref)

(* A change of the world that no such reference suffers from.              *)
Calm(W) ==
  \A ref \in RefRecs :
    ref.to \in DOMAIN objects /\ ref.blk \in OpenIds /\ Covered(ref) /\ Undisturbed(objects, ref)
      => Undisturbed(W, ref)

LEMMA CoveredBorrow ==
  ASSUME OTypeOK, FramesOk, NamesOk, Live, NEW v \in Names, Known(v),
         NEW ref \in RefRecs, ref.to = Obj(v), ref.blk \in OpenIds, Covered(ref)
  PROVE  \E b \in Active(v) : b.mut = ref.mut
<1>1. PICK m : m = Max(Bound(v))
  OBVIOUS
<1>2. m \in DOMAIN frames /\ Named(m, v) /\ At(m, v).obj = ref.to
  BY <1>1, KnownRuns
<1>3. PICK k \in DOMAIN borrows :
        /\ borrows[k].source = v /\ borrows[k].block = ref.blk
        /\ borrows[k].place = NoName /\ borrows[k].mut = ref.mut
  BY <1>2 DEF Covered
<1>4. borrows[k] \in Range(borrows)
  BY <1>3 DEF Range
<1> QED
  BY <1>3, <1>4 DEF Active

LEMMA BorrowAllowed ==
  ASSUME NEW s, NEW mut, BorrowErrors(s, mut) = {}
  PROVE  /\ \A b \in Active(s) : ~b.mut /\ ~mut
         /\ mut => Binding(s).mut
<1> DEFINE clash == \E b \in Active(s) : b.mut \/ mut
<1>1. Fail(clash, "conflict") = {} /\ Fail(~clash /\ mut /\ ~Binding(s).mut, "mutable") = {}
  BY DEF BorrowErrors
<1>2. ~clash /\ ~(~clash /\ mut /\ ~Binding(s).mut)
  BY <1>1 DEF Fail
<1> QED
  BY <1>2

LEMMA TouchedCalm ==
  ASSUME OTypeOK, FramesOk, NamesOk, Live, NEW s \in Names, Known(s),
         NEW mut \in BOOLEAN, BorrowErrors(s, mut) = {}
  PROVE  Calm(Touched(s, mut))
<1>1. PICK W : W = Touched(s, mut)
  OBVIOUS
<1>2. Obj(s) \in DOMAIN objects
  BY KnownRuns
<1>3. \A i \in DOMAIN objects :
        /\ i # Obj(s) => SameStamps(W[i], objects[i])
        /\ W[i].wrote = objects[i].wrote
        /\ W[i].refAt \in {objects[i].refAt, Now}
        /\ W[i].mutAt = objects[i].mutAt \/ (mut /\ W[i].mutAt = Now)
  BY <1>1, <1>2, TouchedChanged
<1>4. SUFFICES ASSUME NEW ref \in RefRecs, ref.to \in DOMAIN objects, ref.blk \in OpenIds,
                      Covered(ref), Undisturbed(objects, ref)
               PROVE  Undisturbed(W, ref)
  BY <1>1 DEF Calm
<1>5. CASE ref.to # Obj(s)
  BY <1>3, <1>4, <1>5 DEF SameStamps, Undisturbed
<1>6. CASE ref.to = Obj(s)
  <2>1. PICK b \in Active(s) : b.mut = ref.mut
    BY <1>4, <1>6, CoveredBorrow
  <2>2. ~ref.mut /\ ~mut
    BY <2>1, BorrowAllowed
  <2> QED
    BY <1>3, <1>4, <2>2 DEF Undisturbed
<1> QED
  BY <1>5, <1>6

LEMMA WroteCalm ==
  ASSUME OTypeOK, FramesOk, NamesOk, Live, NEW v \in Names, Known(v), Active(v) = {},
         NEW W, W = [objects EXCEPT ![Obj(v)].wrote = Now]
  PROVE  Calm(W)
<1>1. Obj(v) \in DOMAIN objects
  BY KnownRuns
<1>2. \A i \in DOMAIN objects : i # Obj(v) => SameStamps(W[i], objects[i])
  BY <1>1, WroteChanged
<1>3. SUFFICES ASSUME NEW ref \in RefRecs, ref.to \in DOMAIN objects, ref.blk \in OpenIds,
                      Covered(ref), Undisturbed(objects, ref)
               PROVE  Undisturbed(W, ref)
  BY DEF Calm
<1>4. ref.to # Obj(v)
  BY <1>3, CoveredBorrow
<1> QED
  BY <1>2, <1>3, <1>4 DEF SameStamps, Undisturbed

LEMMA StampsCalm ==
  ASSUME NEW W, \A i \in DOMAIN objects : SameStamps(W[i], objects[i])
  PROVE  Calm(W)
  BY DEF Calm, SameStamps, Undisturbed

(* Calm for one change on top of another.                                  *)
LEMMA StampsCalmAfter ==
  ASSUME NEW U, NEW W, Calm(U), \A i \in DOMAIN objects : SameStamps(W[i], U[i])
  PROVE  Calm(W)
  BY DEF Calm, SameStamps, Undisturbed

(* What any step leaves to a reference that stays.                         *)
NamesFresh ==
  \A f \in DOMAIN frames', v \in Names :
    Named(f, v)' => OldName(f, v) \/ At(f, v)'.obj = Len(objects) + 1

IdsFresh == \A i \in Nat : i <= pos + 1 /\ i \in OpenIds' => i \in OpenIds

BorrowsGrow ==
  \A k \in DOMAIN borrows : k \in DOMAIN borrows' /\ borrows'[k] = borrows[k]

Onward ==
  /\ NamesFresh /\ IdsFresh /\ BorrowsGrow /\ ObjectsStay /\ Calm(objects') /\ pos <= pos'

LEMMA SoundStays ==
  ASSUME OTypeOK, OTypeOK', Onward, NEW ref \in RefRecs, Sound(ref)
  PROVE  Sound(ref)'
<1> SUFFICES ASSUME ref.to # 0
             PROVE  /\ ref.to \in DOMAIN objects' /\ ref.born <= pos' /\ ref.blk <= pos' + 1
                    /\ ref.mut => objects'[ref.to].mut
                    /\ ref.blk \in OpenIds' => Covered(ref)' /\ Undisturbed(objects', ref)
  BY DEF Sound
<1>1. /\ ref.to \in DOMAIN objects /\ ref.born <= pos /\ ref.blk <= pos + 1
      /\ ref.mut => objects[ref.to].mut
      /\ ref.blk \in OpenIds => Covered(ref) /\ Undisturbed(objects, ref)
  BY DEF Sound
<1>2. /\ pos \in Nat /\ pos' \in Nat /\ pos <= pos' /\ ref.born \in Nat /\ ref.blk \in Nat
      /\ ref.to \in Nat
  BY DEF OTypeOK, RefRecs, Onward
<1>3. ref.born <= pos' /\ ref.blk <= pos' + 1
  BY <1>1, <1>2
<1>4. ref.to \in DOMAIN objects' /\ (ref.mut => objects'[ref.to].mut)
  BY <1>1 DEF Onward, ObjectsStay
<1>5. ASSUME ref.blk \in OpenIds' PROVE Covered(ref)' /\ Undisturbed(objects', ref)
  <2>1. ref.blk \in OpenIds
    BY <1>1, <1>2, <1>5 DEF Onward, IdsFresh
  <2>2. Covered(ref) /\ Undisturbed(objects, ref)
    BY <1>1, <2>1
  <2>3. Undisturbed(objects', ref)
    BY <1>1, <2>1, <2>2 DEF Onward, Calm
  <2>4. ASSUME NEW f \in DOMAIN frames', NEW v \in Names, Named(f, v)', At(f, v)'.obj = ref.to
        PROVE  \E k \in DOMAIN borrows' :
                 /\ borrows'[k].source = v /\ borrows'[k].block = ref.blk
                 /\ borrows'[k].place = NoName /\ borrows'[k].mut = ref.mut
    <3>1. ref.to # Len(objects) + 1
      BY <1>1 DEF OTypeOK
    <3>2. OldName(f, v)
      BY <2>4, <3>1 DEF Onward, NamesFresh
    <3>3. f \in DOMAIN frames /\ Named(f, v) /\ At(f, v).obj = ref.to
      BY <2>4, <3>2 DEF OldName
    <3>4. PICK k \in DOMAIN borrows :
            /\ borrows[k].source = v /\ borrows[k].block = ref.blk
            /\ borrows[k].place = NoName /\ borrows[k].mut = ref.mut
      BY <2>2, <3>3 DEF Covered
    <3>5. k \in DOMAIN borrows' /\ borrows'[k] = borrows[k]
      BY <3>4 DEF Onward, BorrowsGrow
    <3> QED
      BY <3>4, <3>5
  <2>5. Covered(ref)'
    BY <2>4 DEF Covered
  <2> QED
    BY <2>3, <2>5
<1> QED
  BY <1>3, <1>4, <1>5

(* A copy is of no open block.                                             *)
LEMMA SoundCopy ==
  ASSUME OTypeOK, OTypeOK', FramesOk', Onward, NEW ref \in RefRecs, Sound(ref),
         NEW copy, copy = [ref EXCEPT !.blk = 0]
  PROVE  copy \in RefRecs /\ Sound(copy)'
<1>1. /\ copy \in RefRecs /\ copy.to = ref.to /\ copy.mut = ref.mut /\ copy.born = ref.born
      /\ copy.blk = 0
  BY DEF RefRecs
<1>2. Sound(ref)'
  BY SoundStays
<1>3. 0 \notin OpenIds'
  BY DEF FramesOk, OpenIds
<1>4. pos' \in Nat
  BY DEF OTypeOK
<1> QED
  BY <1>1, <1>2, <1>3, <1>4 DEF Sound

(* A new reference to s, with its borrow.                                  *)
LEMMA SoundNew ==
  ASSUME OTypeOK, OTypeOK', FramesOk, NamesOk, StampsOk', Live, pos' = Now,
         NamesFresh, ObjectsStay,
         NEW s \in Vals, Known(s), NEW mut \in BOOLEAN, BorrowErrors(s, mut) = {},
         NEW ref, ref = RefTo(s, mut),
         NEW k \in DOMAIN borrows', NEW v, borrows'[k] = Record(v, s, mut)
  PROVE  ref \in RefRecs /\ Sound(ref)'
<1>1. s \in Names
  BY DEF Names
<1>2. PICK o : o = Obj(s)
  OBVIOUS
<1>3. /\ o \in DOMAIN objects /\ objects[o].mut = Binding(s).mut
      /\ \A f \in DOMAIN frames, w \in Names : Named(f, w) /\ At(f, w).obj = o => w = s
  BY <1>1, <1>2, KnownRuns
<1>4. o \in Nat /\ pos \in Nat /\ Now = pos + 1 /\ TopId \in Nat /\ pos' = pos + 1
  BY <1>3, TopTyped DEF OTypeOK
<1>5. ref = [to |-> o, mut |-> mut, born |-> Now, blk |-> TopId]
  BY <1>2 DEF RefTo
<1>6. ref \in RefRecs
  BY <1>4, <1>5 DEF RefRecs
<1>7. TopId <= pos + 1
  BY TopTyped DEF FramesOk, TopId
<1>8. o \in DOMAIN objects' /\ objects'[o].mut = objects[o].mut
  BY <1>3 DEF ObjectsStay
<1>9. mut => objects'[o].mut
  BY <1>3, <1>8, BorrowAllowed
<1>10. Undisturbed(objects', ref)
  BY <1>4, <1>5, <1>8 DEF StampsOk, Undisturbed
<1>11. ASSUME NEW f \in DOMAIN frames', NEW w \in Names, Named(f, w)', At(f, w)'.obj = o
       PROVE  \E j \in DOMAIN borrows' :
                /\ borrows'[j].source = w /\ borrows'[j].block = TopId
                /\ borrows'[j].place = NoName /\ borrows'[j].mut = mut
  <2>1. o # Len(objects) + 1
    BY <1>3 DEF OTypeOK
  <2>2. OldName(f, w)
    BY <1>11, <2>1 DEF NamesFresh
  <2>3. f \in DOMAIN frames /\ Named(f, w) /\ At(f, w).obj = o
    BY <1>11, <2>2 DEF OldName
  <2>4. w = s
    BY <1>3, <2>3
  <2>5. /\ borrows'[k].source = s /\ borrows'[k].block = TopId
        /\ borrows'[k].place = NoName /\ borrows'[k].mut = mut
    BY DEF Record
  <2> QED
    BY <2>4, <2>5
<1>12. Covered(ref)'
  <2>1. ref.to = o /\ ref.blk = TopId /\ ref.mut = mut
    BY <1>5
  <2> QED
    BY <1>11, <2>1 DEF Covered
<1>13. ref.to = o /\ ref.born <= pos' /\ ref.blk <= pos' + 1 /\ ref.mut = mut
  BY <1>4, <1>5, <1>7
<1>14. ref.to \in DOMAIN objects' /\ (ref.mut => objects'[ref.to].mut)
  BY <1>8, <1>9, <1>13
<1> QED
  BY <1>6, <1>10, <1>12, <1>13, <1>14 DEF Sound

-----------------------------------------------------------------------------
(* Fields and the borrows kept for them.                                   *)

(* A field is known by the name of its aggregate and the referent's: while *)
(* both are bound there is a borrow that says so.                          *)
FieldInv ==
  /\ \A o \in DOMAIN objects : objects[o].field # 0 => objects[o].field \in DOMAIN objects
  /\ \A f, g \in DOMAIN frames, w, v \in Names :
       Named(f, w) /\ Named(g, v) /\ objects[At(f, w).obj].field = At(g, v).obj =>
         \E k \in DOMAIN borrows : borrows[k].place = w /\ borrows[k].source = v

LEMMA FieldsStay ==
  ASSUME OTypeOK, NamesOk, NamesOk', FieldInv, NamesFresh, BorrowsGrow, ObjectsStay,
         \A o \in DOMAIN objects : objects'[o].field = objects[o].field,
         Len(objects') <= Len(objects) + 1,
         Len(objects) + 1 \in DOMAIN objects' => objects'[Len(objects) + 1].field = 0,
         objects' \in Seq(Objs)
  PROVE  FieldInv'
<1>1. PICK n : n = Len(objects)
  OBVIOUS
<1>2. n \in Nat /\ DOMAIN objects = 1..n /\ DOMAIN objects' \subseteq 1..n + 1
      /\ Len(objects') \in Nat /\ DOMAIN objects' = 1..Len(objects')
  BY <1>1 DEF OTypeOK
<1>3. \A o \in DOMAIN objects' : o \in DOMAIN objects \/ (o = n + 1 /\ objects'[o].field = 0)
  BY <1>1, <1>2
<1>4. \A o \in DOMAIN objects' : objects'[o].field # 0 => objects'[o].field \in DOMAIN objects
  BY <1>3 DEF FieldInv
<1>5. ASSUME NEW f \in DOMAIN frames', NEW g \in DOMAIN frames', NEW w \in Names, NEW v \in Names,
             Named(f, w)', Named(g, v)', objects'[At(f, w)'.obj].field = At(g, v)'.obj
      PROVE  \E k \in DOMAIN borrows' : borrows'[k].place = w /\ borrows'[k].source = v
  <2>1. PICK a, t : a = At(f, w)'.obj /\ t = At(g, v)'.obj
    OBVIOUS
  <2>2. a \in DOMAIN objects' /\ t \in DOMAIN objects' /\ objects'[a].field = t
    BY <1>5, <2>1 DEF NamesOk
  <2>3. t # 0 /\ t \in DOMAIN objects
    BY <1>2, <1>4, <2>2
  <2>4. a \in DOMAIN objects /\ objects[a].field = t
    BY <1>3, <2>2, <2>3
  <2>5. OldName(f, w) /\ OldName(g, v)
    BY <1>1, <1>2, <1>5, <2>1, <2>3, <2>4 DEF NamesFresh
  <2>6. /\ f \in DOMAIN frames /\ Named(f, w) /\ At(f, w).obj = a
        /\ g \in DOMAIN frames /\ Named(g, v) /\ At(g, v).obj = t
    BY <2>1, <2>5 DEF OldName
  <2>7. PICK k \in DOMAIN borrows : borrows[k].place = w /\ borrows[k].source = v
    BY <2>4, <2>6 DEF FieldInv
  <2> QED
    BY <2>7 DEF BorrowsGrow
<1>6. \A o \in DOMAIN objects' : objects'[o].field # 0 => objects'[o].field \in DOMAIN objects'
  BY <1>4 DEF ObjectsStay
<1> QED
  BY <1>5, <1>6 DEF FieldInv

-----------------------------------------------------------------------------
(* The steps, by kind, for what holds of every function.                   *)

Core == OTypeOK /\ FramesOk /\ NamesOk /\ AliasInv /\ FieldInv

Settled == OTypeOK' /\ FramesOk' /\ NamesOk' /\ StampsOk' /\ Onward

LEMMA RecordTyped ==
  ASSUME OTypeOK, NEW v \in Names \cup {NoName}, NEW s \in Vals, NEW mut \in BOOLEAN
  PROVE  Record(v, s, mut) \in Borrows
  BY TopTyped DEF Record, Borrows

LEMMA AppendGrows ==
  ASSUME OTypeOK, NEW b \in Borrows, borrows' = Append(borrows, b)
  PROVE  /\ borrows' \in Seq(Borrows) /\ BorrowsGrow
         /\ Len(borrows) + 1 \in DOMAIN borrows' /\ borrows'[Len(borrows) + 1] = b
<1>1. borrows \in Seq(Borrows)
  BY DEF OTypeOK
<1>2. /\ borrows' \in Seq(Borrows) /\ Len(borrows') = Len(borrows) + 1
      /\ borrows'[Len(borrows) + 1] = b
      /\ \A i \in 1..Len(borrows) : borrows'[i] = borrows[i]
  BY <1>1, AppendProperties
<1>3. Len(borrows) \in Nat /\ DOMAIN borrows = 1..Len(borrows)
      /\ DOMAIN borrows' = 1..Len(borrows) + 1
  BY <1>1, <1>2
<1> QED
  BY <1>2, <1>3 DEF BorrowsGrow

LEMMA ConcatGrows ==
  ASSUME OTypeOK, NEW t \in Seq(Borrows), borrows' = borrows \o t
  PROVE  /\ borrows' \in Seq(Borrows) /\ BorrowsGrow
         /\ Len(borrows') = Len(borrows) + Len(t)
         /\ \A i \in DOMAIN t : /\ Len(borrows) + i \in DOMAIN borrows'
                                /\ borrows'[Len(borrows) + i] = t[i]
<1>1. borrows \in Seq(Borrows) /\ Len(borrows) \in Nat /\ Len(t) \in Nat
      /\ DOMAIN t = 1..Len(t) /\ DOMAIN borrows = 1..Len(borrows)
  BY DEF OTypeOK
<1>2. /\ borrows' \in Seq(Borrows) /\ Len(borrows') = Len(borrows) + Len(t)
      /\ \A i \in 1..Len(borrows) + Len(t) :
           borrows'[i] = IF i <= Len(borrows) THEN borrows[i] ELSE t[i - Len(borrows)]
  BY <1>1, ConcatProperties
<1>3. DOMAIN borrows' = 1..Len(borrows) + Len(t)
  BY <1>1, <1>2
<1>4. BorrowsGrow
  BY <1>1, <1>2, <1>3 DEF BorrowsGrow
<1>5. ASSUME NEW i \in DOMAIN t
      PROVE  /\ Len(borrows) + i \in DOMAIN borrows'
             /\ borrows'[Len(borrows) + i] = t[i]
  <2>1. PICK j : j = Len(borrows) + i
    OBVIOUS
  <2>2. j \in 1..Len(borrows) + Len(t) /\ ~ (j <= Len(borrows)) /\ j - Len(borrows) = i
    BY <1>1, <2>1
  <2> QED
    BY <1>2, <1>3, <2>1, <2>2
<1> QED
  BY <1>2, <1>4, <1>5

(* References that stay or are sound.                                      *)
LEMMA AliasKept ==
  ASSUME OTypeOK, AliasInv, Settled,
         \A o \in DOMAIN objects' :
           \/ o \in DOMAIN objects /\ objects'[o].ref = objects[o].ref
           \/ Sound(objects[o].ref)'
  PROVE  AliasInv'
<1>1. ASSUME NEW o \in DOMAIN objects' PROVE Sound(objects[o].ref)'
  <2>1. CASE o \in DOMAIN objects /\ objects'[o].ref = objects[o].ref
    <3>1. PICK ref : ref = objects[o].ref
      OBVIOUS
    <3>2. objects[o] \in Objs
      BY <2>1 DEF OTypeOK
    <3>3. Sound(ref) /\ ref \in RefRecs
      BY <2>1, <3>1, <3>2 DEF AliasInv, Objs
    <3>4. Sound(ref)'
      BY <3>3, SoundStays DEF Settled
    <3> QED
      BY <2>1, <3>1, <3>4
  <2> QED
    BY <1>1, <2>1
<1> QED
  BY <1>1 DEF AliasInv, Settled

LEMMA SameIds ==
  ASSUME Len(frames') = Len(frames), OTypeOK, frames' \in Seq(Frames),
         \A f \in DOMAIN frames : SameButNames(frames'[f], frames[f])
  PROVE  IdsFresh
<1>1. DOMAIN frames' = DOMAIN frames
  BY DEF OTypeOK
<1> QED
  BY <1>1 DEF IdsFresh, OpenIds, SameButNames

(* Statements that open, close and declare nothing.                        *)
LEMMA SameStep ==
  ASSUME Core, Same, pos < pos', pos' \in Nat, borrows' \in Seq(Borrows), BorrowsGrow,
         SameWorld(objects', objects), NobodyMoves, Calm(objects'), StampsOk'
  PROVE  Settled
<1> USE DEF Core
<1>1. /\ frames' = frames /\ defs' = defs /\ suspects' = suspects /\ allocated' = allocated
      /\ skipped' = skipped /\ shadowed' = shadowed
  BY DEF Same
<1>2. OTypeOK'
  BY <1>1 DEF OTypeOK, SameWorld
<1>3. pos \in Nat /\ pos <= pos'
  BY DEF OTypeOK
<1>4. \A f \in DOMAIN frames : SameButNames(frames'[f], frames[f])
  BY <1>1 DEF SameButNames
<1>5. FramesOk'
  BY <1>1, <1>2, <1>3, <1>4, FramesKept
<1>6. NoNewNames
  BY <1>1, KeptNames
<1>7. ObjectsStay
  BY <1>2 DEF SameWorld, ObjectsStay, OTypeOK
<1>8. NamesOk'
  BY <1>6, <1>7, NamesKept
<1>9. NamesFresh
  BY <1>6 DEF NoNewNames, NamesFresh
<1>10. IdsFresh
  BY <1>1, <1>2, <1>4, SameIds DEF OTypeOK
<1> QED
  BY <1>2, <1>3, <1>5, <1>7, <1>8, <1>9, <1>10 DEF Settled, Onward

(* Declarations.                                                           *)
LEMMA DeclareStep ==
  ASSUME Core, NEW x \in Names, NEW mut \in BOOLEAN, NEW object, NEW W,
         Declare(x, mut, object, W), pos' = Now,
         borrows' \in Seq(Borrows), BorrowsGrow, allocated' \in [Names -> Regions \cup {NoName}],
         Live => /\ object \in Objs /\ object.mut = mut /\ object.moved = FALSE
                 /\ object.wrote = 0 /\ object.mutAt = 0 /\ object.refAt = 0
                 /\ SameWorld(W, objects) /\ Calm(W)
                 /\ \A i \in DOMAIN objects :
                      /\ W[i].moved => objects[i].moved
                      /\ W[i].wrote <= Now /\ W[i].mutAt <= Now /\ W[i].refAt <= Now
  PROVE  /\ Settled /\ Declared(x, mut) /\ NamesFrom(x, mut)
         /\ Live => objects' = Append(W, object)
         /\ ~Live => objects' = objects
<1> USE DEF Core
<1>1. Declared(x, mut)
  BY DeclareBinds DEF SameWorld
<1>2. /\ defs' = [defs EXCEPT ![x] = Now] /\ suspects' = suspects \ {x}
      /\ shadowed' = (shadowed \/ defs[x] > 0) /\ skipped' = skipped
      /\ Live => objects' = Append(W, object)
      /\ ~Live => objects' = objects
  BY DEF Declare, Execute
<1>3. Now \in Nat /\ pos \in Nat /\ Now = pos + 1 /\ Len(objects) \in Nat
      /\ DOMAIN objects = 1..Len(objects) /\ objects \in Seq(Objs)
  BY TopTyped DEF OTypeOK
<1>4. ASSUME Live
      PROVE  /\ objects' \in Seq(Objs) /\ Len(objects') = Len(objects) + 1
             /\ objects'[Len(objects) + 1] = object /\ DOMAIN objects' = 1..Len(objects) + 1
             /\ \A i \in DOMAIN objects : i \in DOMAIN objects' /\ objects'[i] = W[i]
  <2>1. /\ W \in Seq(Objs) /\ object \in Objs /\ Len(W) = Len(objects)
        /\ DOMAIN W = DOMAIN objects /\ objects' = Append(W, object)
    BY <1>2, <1>4 DEF SameWorld
  <2> QED
    BY <2>1, ObjectAdded
<1>5. objects' \in Seq(Objs)
  BY <1>2, <1>3, <1>4
<1>6. OTypeOK'
  <2>1. frames' \in Seq(Frames) /\ Len(frames') >= 1
    BY <1>1 DEF Declared, OTypeOK
  <2>2. defs' \in [Names -> Nat] /\ suspects' \subseteq Names
    BY <1>2, <1>3 DEF OTypeOK
  <2>3. shadowed' \in BOOLEAN /\ skipped' \in BOOLEAN
    BY <1>2 DEF OTypeOK
  <2> QED
    BY <1>3, <1>5, <2>1, <2>2, <2>3 DEF OTypeOK
<1>7. Len(frames') = Len(frames) /\ \A f \in DOMAIN frames : SameButNames(frames'[f], frames[f])
  BY <1>1 DEF Declared
<1>8. FramesOk'
  <2>1. pos <= pos'
    BY <1>3
  <2> QED
    BY <1>2, <1>6, <1>7, <2>1, FramesKept
<1>9. NamesFrom(x, mut)
  BY <1>1, DeclaredNames
<1>10. ObjectsStay
  <2>1. CASE Live
    BY <2>1, <1>3, <1>4 DEF SameWorld, ObjectsStay
  <2>2. CASE ~Live
    <3>1. objects' = objects
      BY <2>2, <1>2
    <3>2. Len(objects) <= Len(objects')
      BY <3>1, <1>3
    <3> QED
      BY <3>1, <3>2 DEF ObjectsStay
  <2> QED
    BY <2>1, <2>2
<1>11. NobodyMoves
  <2>1. CASE Live
    BY <2>1, <1>4 DEF NobodyMoves
  <2>2. CASE ~Live
    BY <2>2, <1>2 DEF NobodyMoves
  <2> QED
    BY <2>1, <2>2
<1>12. NamesOk'
  <2>1. Live => /\ Len(objects) + 1 \in DOMAIN objects'
                /\ objects'[Len(objects) + 1].mut = mut
                /\ objects'[Len(objects) + 1].moved = FALSE
    BY <1>3, <1>4
  <2> QED
    BY <2>1, <1>9, <1>10, <1>11, NamesAdded
<1>13. NamesFresh
  <2>1. \A f \in DOMAIN frames', v \in Names :
          NewName(f, v, x, mut) => At(f, v)'.obj = Len(objects) + 1
    BY DEF NewName
  <2> QED
    BY <2>1, <1>9 DEF NamesFrom, NamesFresh
<1>14. IdsFresh
  BY <1>6, <1>7, SameIds DEF OTypeOK
<1>15. Calm(objects')
  <2>1. CASE Live
    BY <2>1, <1>4 DEF Calm, Undisturbed
  <2>2. CASE ~Live
    BY <2>2, <1>2 DEF Calm
  <2> QED
    BY <2>1, <2>2
<1>16. StampsOk'
  <2>1. CASE Live
    <3>1. \A o \in DOMAIN objects' : o \in DOMAIN objects \/ o = Len(objects) + 1
      BY <2>1, <1>3, <1>4
    <3> QED
      BY <2>1, <3>1, <1>3, <1>4 DEF StampsOk
  <2>2. CASE ~Live
    <3>1. \A o \in DOMAIN objects : /\ objects[o].wrote \in Nat /\ objects[o].mutAt \in Nat
                                    /\ objects[o].refAt \in Nat
      <4>1. \A o \in DOMAIN objects : objects[o] \in Objs
        BY <1>3
      <4> QED
        BY <4>1 DEF Objs
    <3>2. \A o \in DOMAIN objects : /\ objects[o].wrote <= pos /\ objects[o].mutAt <= pos
                                    /\ objects[o].refAt <= pos
      BY DEF StampsOk, AliasInv
    <3>3. objects' = objects
      BY <2>2, <1>2
    <3> QED
      BY <3>1, <3>2, <3>3, <1>3 DEF StampsOk
  <2> QED
    BY <2>1, <2>2
<1> QED
  BY <1>1, <1>2, <1>3, <1>6, <1>8, <1>9, <1>10, <1>12, <1>13, <1>14, <1>15, <1>16 DEF Settled, Onward

(* Statements that execute, or not.                                        *)
LEMMA ExecuteStep ==
  ASSUME Core, Same, pos' = Now, borrows' \in Seq(Borrows), BorrowsGrow, NEW W, Execute(W),
         Live => /\ SameWorld(W, objects) /\ Calm(W)
                 /\ \A i \in DOMAIN objects :
                      /\ W[i].moved => objects[i].moved
                      /\ W[i].wrote <= Now /\ W[i].mutAt <= Now /\ W[i].refAt <= Now
  PROVE  /\ Settled
         /\ Live => objects' = W
         /\ ~Live => objects' = objects
         /\ DOMAIN objects' = DOMAIN objects
<1>1. (Live => objects' = W) /\ (~Live => objects' = objects)
  BY DEF Execute
<1>2. Now \in Nat /\ pos \in Nat /\ Now = pos + 1 /\ objects \in Seq(Objs)
  BY TopTyped DEF Core, OTypeOK
<1>3. \A i \in DOMAIN objects : /\ objects[i].wrote \in Nat /\ objects[i].mutAt \in Nat
                                /\ objects[i].refAt \in Nat
  <2>1. \A i \in DOMAIN objects : objects[i] \in Objs
    BY <1>2
  <2> QED
    BY <2>1 DEF Objs
<1>4. SameWorld(objects', objects)
  <2>1. SameWorld(objects, objects)
    BY <1>2 DEF SameWorld
  <2> QED
    BY <1>1, <2>1
<1>5. NobodyMoves
  BY <1>1 DEF NobodyMoves
<1>6. Calm(objects')
  <2>1. Calm(objects)
    BY DEF Calm
  <2> QED
    BY <1>1, <2>1
<1>7. StampsOk'
  <2>1. DOMAIN objects' = DOMAIN objects
    BY <1>4 DEF SameWorld
  <2>2. CASE Live
    BY <2>1, <2>2, <1>1 DEF StampsOk
  <2>3. CASE ~Live
    <3>1. \A o \in DOMAIN objects : /\ objects[o].wrote <= pos /\ objects[o].mutAt <= pos
                                    /\ objects[o].refAt <= pos
      BY DEF Core, StampsOk, AliasInv
    <3>2. objects' = objects
      BY <2>3, <1>1
    <3> QED
      BY <3>1, <3>2, <1>2, <1>3 DEF StampsOk
  <2> QED
    BY <2>2, <2>3
<1>8. Settled
  <2>1. pos < pos' /\ pos' \in Nat
    BY <1>2
  <2> QED
    BY <2>1, <1>4, <1>5, <1>6, <1>7, SameStep
<1> QED
  BY <1>1, <1>4, <1>8 DEF SameWorld

LEMMA ErrorFree ==
  ASSUME NEW E, Stmt(E)
  PROVE  E = {} /\ pos' = Now /\ pos < MaxStmts
  BY DEF Stmt

(* Statements after which references and fields are as they were.          *)
LEMMA CoreKept ==
  ASSUME Core, Settled, DOMAIN objects' = DOMAIN objects,
         \A o \in DOMAIN objects : /\ objects'[o].ref = objects[o].ref
                                   /\ objects'[o].field = objects[o].field
  PROVE  Core'
<1>1. AliasInv'
  BY AliasKept DEF Core
<1>2. objects' \in Seq(Objs) /\ objects \in Seq(Objs)
  BY DEF Core, Settled, OTypeOK
<1>3. Len(objects') = Len(objects) /\ Len(objects) \in Nat /\ Len(objects) + 1 \notin DOMAIN objects'
  BY <1>2
<1>4. FieldInv'
  <2>1. Len(objects') <= Len(objects) + 1
    BY <1>3
  <2> QED
    BY <1>2, <1>3, <2>1, FieldsStay DEF Core, Settled, Onward
<1> QED
  BY <1>1, <1>4 DEF Core, Settled

SameRefs ==
  /\ DOMAIN objects' = DOMAIN objects
  /\ \A i \in DOMAIN objects : objects'[i].ref = objects[i].ref /\ objects'[i].dead = objects[i].dead

LEMMA ExecuteCore ==
  ASSUME Core, Same, pos' = Now, borrows' \in Seq(Borrows), BorrowsGrow, NEW W, Execute(W),
         Live => /\ SameWorld(W, objects) /\ Calm(W)
                 /\ \A i \in DOMAIN objects :
                      /\ SameObj(W[i], objects[i])
                      /\ W[i].wrote <= Now /\ W[i].mutAt <= Now /\ W[i].refAt <= Now
  PROVE  Core' /\ Settled /\ SameRefs
<1>1. Live => \A i \in DOMAIN objects : W[i].moved => objects[i].moved
  BY DEF SameObj
<1>2. /\ Settled /\ (Live => objects' = W) /\ (~Live => objects' = objects)
      /\ DOMAIN objects' = DOMAIN objects
  BY <1>1, ExecuteStep
<1>3. \A o \in DOMAIN objects : /\ objects'[o].ref = objects[o].ref
                                /\ objects'[o].field = objects[o].field
                                /\ objects'[o].dead = objects[o].dead
  BY <1>2 DEF SameObj
<1> QED
  BY <1>2, <1>3, CoreKept DEF SameRefs

LEMMA StampsBefore ==
  ASSUME Core
  PROVE  /\ Now \in Nat /\ Now = pos + 1 /\ pos \in Nat
         /\ \A i \in DOMAIN objects :
              /\ objects[i] \in Objs
              /\ objects[i].wrote <= Now /\ objects[i].mutAt <= Now /\ objects[i].refAt <= Now
<1>1. Now \in Nat /\ Now = pos + 1 /\ pos \in Nat
  BY TopTyped DEF Core, OTypeOK
<1>2. \A i \in DOMAIN objects : objects[i] \in Objs
  BY DEF Core, OTypeOK
<1>3. \A i \in DOMAIN objects : /\ objects[i].wrote \in Nat /\ objects[i].mutAt \in Nat
                                /\ objects[i].refAt \in Nat
  BY <1>2 DEF Objs
<1>4. \A i \in DOMAIN objects : /\ objects[i].wrote <= pos /\ objects[i].mutAt <= pos
                                /\ objects[i].refAt <= pos
  BY DEF Core, AliasInv, StampsOk
<1> QED
  BY <1>1, <1>2, <1>3, <1>4

LEMMA WroteStep ==
  ASSUME Core, Live, NEW v \in Vals, Known(v), Active(v) = {},
         NEW W, W = [objects EXCEPT ![Obj(v)].wrote = Now]
  PROVE  /\ SameWorld(W, objects) /\ Calm(W)
         /\ \A i \in DOMAIN objects :
              /\ SameObj(W[i], objects[i])
              /\ W[i].wrote <= Now /\ W[i].mutAt <= Now /\ W[i].refAt <= Now
<1>1. v \in Names
  BY DEF Names
<1>2. Obj(v) \in DOMAIN objects
  BY <1>1, KnownRuns DEF Core
<1>3. Calm(W)
  BY <1>1, WroteCalm DEF Core
<1>4. /\ SameWorld(W, objects)
      /\ \A i \in DOMAIN objects :
            /\ SameObj(W[i], objects[i])
            /\ W[i].wrote \in {objects[i].wrote, Now}
            /\ W[i].mutAt = objects[i].mutAt /\ W[i].refAt = objects[i].refAt
  BY <1>2, WroteChanged DEF Core
<1>5. Now \in Nat
  BY StampsBefore
<1> QED
  BY <1>3, <1>4, <1>5, StampsBefore

LEMMA AssignCore ==
  ASSUME Core, NEW v \in Vals, Assign(v)
  PROVE  Core' /\ Settled /\ SameRefs
<1>1. AssignErrors(v) = {} /\ pos' = Now /\ Known(v) /\ borrows' = borrows /\ Same
      /\ Execute([objects EXCEPT ![Obj(v)].wrote = Now])
  BY ErrorFree DEF Assign
<1>2. PICK W : W = [objects EXCEPT ![Obj(v)].wrote = Now]
  OBVIOUS
<1>3. Active(v) = {}
  BY <1>1 DEF AssignErrors, Fail
<1>4. Live => /\ SameWorld(W, objects) /\ Calm(W)
              /\ \A i \in DOMAIN objects :
                   /\ SameObj(W[i], objects[i])
                   /\ W[i].wrote <= Now /\ W[i].mutAt <= Now /\ W[i].refAt <= Now
  BY <1>1, <1>2, <1>3, WroteStep
<1>5. borrows' \in Seq(Borrows) /\ BorrowsGrow
  BY <1>1 DEF BorrowsGrow, Core, OTypeOK
<1> QED
  BY <1>1, <1>2, <1>4, <1>5, ExecuteCore

(* `&s` and `&mut s`, allowed.                                             *)
LEMMA TouchedStep ==
  ASSUME Core, Live, NEW s \in Vals, Known(s), NEW mut \in BOOLEAN, BorrowErrors(s, mut) = {},
         NEW W, W = Touched(s, mut)
  PROVE  /\ SameWorld(W, objects) /\ Calm(W) /\ Obj(s) \in DOMAIN objects
         /\ \A i \in DOMAIN objects :
              /\ SameObj(W[i], objects[i])
              /\ W[i].wrote <= Now /\ W[i].mutAt <= Now /\ W[i].refAt <= Now
<1>1. s \in Names
  BY DEF Names
<1>2. Obj(s) \in DOMAIN objects
  BY <1>1, KnownRuns DEF Core
<1>3. Calm(W)
  BY <1>1, TouchedCalm DEF Core
<1>4. /\ SameWorld(W, objects)
      /\ \A i \in DOMAIN objects :
            /\ SameObj(W[i], objects[i])
            /\ W[i].wrote = objects[i].wrote
            /\ W[i].refAt \in {objects[i].refAt, Now}
            /\ W[i].mutAt = objects[i].mutAt \/ (mut /\ W[i].mutAt = Now)
  BY <1>2, TouchedChanged DEF Core
<1>5. Now \in Nat
  BY StampsBefore
<1> QED
  BY <1>2, <1>3, <1>4, <1>5, StampsBefore

LEMMA LendCore ==
  ASSUME Core, NEW s \in Vals, NEW mut \in BOOLEAN, Lend(s, mut)
  PROVE  Core' /\ Settled /\ SameRefs
<1>1. /\ BorrowErrors(s, mut) \cup Mention(s) = {} /\ pos' = Now /\ Known(s) /\ Same
      /\ borrows' = Append(borrows, Record(NoName, s, mut)) /\ Execute(Touched(s, mut))
  BY ErrorFree DEF Lend
<1>2. BorrowErrors(s, mut) = {}
  BY <1>1
<1>3. Record(NoName, s, mut) \in Borrows
  BY RecordTyped DEF Core
<1>4. borrows' \in Seq(Borrows) /\ BorrowsGrow
  BY <1>1, <1>3, AppendGrows DEF Core
<1>5. PICK W : W = Touched(s, mut)
  OBVIOUS
<1>6. Live => /\ SameWorld(W, objects) /\ Calm(W)
              /\ \A i \in DOMAIN objects :
                   /\ SameObj(W[i], objects[i])
                   /\ W[i].wrote <= Now /\ W[i].mutAt <= Now /\ W[i].refAt <= Now
  BY <1>1, <1>2, <1>5, TouchedStep
<1> QED
  BY <1>1, <1>4, <1>5, <1>6, ExecuteCore

(* Reads, and the last statement.                                          *)
LEMMA ReadCore ==
  ASSUME Core, Same, UNCHANGED <<borrows, objects>>, pos < pos', pos' \in Nat
  PROVE  Core' /\ Settled /\ SameRefs
<1>1. borrows' = borrows /\ objects' = objects /\ objects \in Seq(Objs) /\ pos \in Nat
  BY DEF Core, OTypeOK
<1>2. borrows' \in Seq(Borrows) /\ BorrowsGrow /\ SameWorld(objects', objects)
      /\ NobodyMoves /\ Calm(objects')
  BY <1>1 DEF BorrowsGrow, SameWorld, NobodyMoves, Calm, Core, OTypeOK
<1>3. StampsOk'
  <2>1. \A o \in DOMAIN objects : /\ objects[o].wrote \in Nat /\ objects[o].mutAt \in Nat
                                  /\ objects[o].refAt \in Nat
    BY StampsBefore DEF Objs
  <2>2. \A o \in DOMAIN objects : /\ objects[o].wrote <= pos /\ objects[o].mutAt <= pos
                                  /\ objects[o].refAt <= pos
    BY DEF Core, AliasInv, StampsOk
  <2> QED
    BY <2>1, <2>2, <1>1 DEF StampsOk
<1>4. Settled
  BY <1>2, <1>3, SameStep
<1> QED
  BY <1>1, <1>4, CoreKept DEF SameRefs

(* What a declaration makes.                                               *)
LEMMA NewObjTyped ==
  ASSUME NEW home \in Nat, NEW mut \in BOOLEAN, NEW ref \in RefRecs,
         NEW object, object = NewObj(home, mut, ref)
  PROVE  /\ object \in Objs /\ object.mut = mut /\ object.moved = FALSE /\ object.field = 0
         /\ object.ref = ref /\ object.home = home /\ object.dead = FALSE
         /\ object.wrote = 0 /\ object.mutAt = 0 /\ object.refAt = 0
  BY DEF NewObj, Objs

LEMMA DeclaredCore ==
  ASSUME Core, Settled, NEW W, NEW object, NEW ref,
         ~Live => objects' = objects,
         Live => /\ objects' = Append(W, object) /\ object \in Objs /\ SameWorld(W, objects)
                 /\ object.field = 0 /\ object.ref = ref /\ Sound(ref)'
                 /\ \A i \in DOMAIN objects : /\ W[i].ref = objects[i].ref
                                              /\ W[i].field = objects[i].field
  PROVE  Core'
<1>1. CASE ~Live
  BY <1>1, CoreKept
<1>2. CASE Live
  <2>1. PICK n : n = Len(objects)
    OBVIOUS
  <2>2. n \in Nat /\ DOMAIN objects = 1..n
    BY <2>1 DEF Core, OTypeOK
  <2>3. /\ objects' \in Seq(Objs) /\ Len(objects') = n + 1 /\ objects'[n + 1] = object
        /\ DOMAIN objects' = 1..n + 1
        /\ \A i \in DOMAIN objects : i \in DOMAIN objects' /\ objects'[i] = W[i]
    <3>1. W \in Seq(Objs) /\ Len(W) = n /\ DOMAIN W = DOMAIN objects
      BY <1>2, <2>1 DEF SameWorld
    <3> QED
      BY <1>2, <3>1, ObjectAdded
  <2>4. \A i \in DOMAIN objects' : i \in DOMAIN objects \/ i = n + 1
    BY <2>2, <2>3
  <2>5. ASSUME NEW o \in DOMAIN objects'
        PROVE  \/ o \in DOMAIN objects /\ objects'[o].ref = objects[o].ref
               \/ Sound(objects[o].ref)'
    <3>1. CASE o \in DOMAIN objects
      BY <1>2, <2>3, <3>1
    <3>2. CASE o = n + 1
      <4>1. objects'[o].ref = ref
        BY <1>2, <2>3, <3>2
      <4> QED
        BY <1>2, <4>1
    <3> QED
      BY <2>4, <3>1, <3>2
  <2>6. AliasInv'
    BY <2>5, AliasKept DEF Core
  <2>7. FieldInv'
    <3>1. \A o \in DOMAIN objects : objects'[o].field = objects[o].field
      BY <1>2, <2>3
    <3>2. objects'[n + 1].field = 0
      BY <1>2, <2>3
    <3>3. Len(objects') <= n + 1
      BY <2>2, <2>3
    <3> QED
      BY <2>1, <2>3, <3>1, <3>2, <3>3, FieldsStay DEF Core, Settled, Onward
  <2> QED
    BY <2>6, <2>7 DEF Core, Settled
<1> QED
  BY <1>1, <1>2

(* What a declaration leaves of the objects.                               *)
Added(object) ==
  /\ Live => /\ DOMAIN objects' = 1..Len(objects) + 1
             /\ objects'[Len(objects) + 1] = object
             /\ \A i \in DOMAIN objects : SameObj(objects'[i], objects[i])
  /\ ~Live => objects' = objects

LEMMA AddedIs ==
  ASSUME OTypeOK, NEW W, NEW object, ~Live => objects' = objects,
         Live => /\ objects' = Append(W, object) /\ object \in Objs /\ SameWorld(W, objects)
                 /\ \A i \in DOMAIN objects : SameObj(W[i], objects[i])
  PROVE  Added(object)
<1>1. CASE ~Live
  BY <1>1 DEF Added
<1>2. CASE Live
  <2>1. PICK n : n = Len(objects)
    OBVIOUS
  <2>2. W \in Seq(Objs) /\ Len(W) = n /\ DOMAIN W = DOMAIN objects
    BY <1>2, <2>1 DEF SameWorld
  <2>3. objects' = Append(W, object) /\ object \in Objs
    BY <1>2
  <2>4. /\ objects'[n + 1] = object /\ DOMAIN objects' = 1..n + 1
        /\ \A i \in DOMAIN W : i \in DOMAIN objects' /\ objects'[i] = W[i]
    BY <2>2, <2>3, ObjectAdded
  <2> QED
    BY <1>2, <2>1, <2>2, <2>4 DEF Added
<1> QED
  BY <1>1, <1>2

LEMMA NoRefSound == NoRef \in RefRecs /\ NoRef.to = 0 /\ Sound(NoRef)'
  BY DEF NoRef, RefRecs, Sound

(* Where `let` puts an object: in the region named, or the innermost one,  *)
(* or the body.                                                            *)
LetHome(r) ==
  LET there == {f \in RegionFrames : frames[f].region = r} IN
  IF there = {} THEN frames[Max({1, InnermostRegion})].id ELSE frames[Max(there)].id

LEMMA LetHomeIs ==
  ASSUME OTypeOK, FramesOk, NEW r,
         r # NoName => \E f \in RegionFrames : frames[f].region = r
  PROVE  /\ LetHome(r) \in Nat
         /\ r # NoName => \E h \in RegionFrames : frames[h].region = r /\ LetHome(r) = frames[h].id
         /\ r = NoName => \/ RegionFrames = {} /\ LetHome(r) = 1
                          \/ RegionFrames # {} /\ LetHome(r) = frames[InnermostRegion].id
<1>1. PICK there : there = {f \in RegionFrames : frames[f].region = r}
  OBVIOUS
<1>2. Len(frames) \in Nat /\ DOMAIN frames = 1..Len(frames) /\ RegionFrames \subseteq DOMAIN frames
      /\ 1 \in DOMAIN frames
  BY DEF OTypeOK, RegionFrames
<1>3. \A f \in DOMAIN frames : frames[f].id \in Nat
  BY BindingsTyped DEF Frames
<1>4. CASE r # NoName
  <2>1. there # {} /\ there \in SUBSET (1..Len(frames))
    BY <1>1, <1>2, <1>4
  <2>2. Max(there) \in there
    BY <1>2, <2>1, MaxOf
  <2>3. LetHome(r) = frames[Max(there)].id
    BY <1>1, <2>1 DEF LetHome
  <2> QED
    BY <1>1, <1>2, <1>3, <1>4, <2>2, <2>3
<1>5. CASE r = NoName
  <2>1. there = {}
    BY <1>1, <1>5 DEF RegionFrames
  <2>2. LetHome(r) = frames[Max({1, InnermostRegion})].id
    BY <1>1, <2>1 DEF LetHome
  <2>3. CASE RegionFrames = {}
    <3>1. InnermostRegion = 0
      BY <2>3 DEF InnermostRegion
    <3>2. Max({1, 0}) = 1
      BY DEF Max
    <3> QED
      BY <1>2, <1>3, <1>5, <2>2, <2>3, <3>1, <3>2 DEF FramesOk
  <2>4. CASE RegionFrames # {}
    <3>1. PICK m : m = InnermostRegion
      OBVIOUS
    <3>2. m \in DOMAIN frames /\ m \in Nat /\ m >= 1
      BY <1>2, <2>4, <3>1, InnermostTyped
    <3>3. Max({1, m}) \in {1, m} /\ \A y \in {1, m} : y <= Max({1, m})
      <4>1. {1, m} \in SUBSET (1..m)
        BY <3>2
      <4> QED
        BY <3>2, <4>1, MaxOf
    <3>4. Max({1, m}) = m
      BY <3>2, <3>3
    <3> QED
      BY <1>3, <1>5, <2>2, <2>4, <3>1, <3>2, <3>4
  <2> QED
    BY <2>3, <2>4
<1> QED
  BY <1>4, <1>5

LEMMA LetCore ==
  ASSUME Core, NEW v \in Names, NEW mut \in BOOLEAN, NEW r \in Regions \cup {NoName}, Let(v, mut, r)
  PROVE  /\ Core' /\ Settled /\ Declared(v, mut) /\ NamesFrom(v, mut)
         /\ r # NoName => \E f \in RegionFrames : frames[f].region = r
         /\ Added(NewObj(LetHome(r), mut, NoRef))
<1>1. PICK there : there = {f \in RegionFrames : frames[f].region = r}
  OBVIOUS
<1>2. PICK object : object = NewObj(LetHome(r), mut, NoRef)
  OBVIOUS
<1>3. /\ Fail(r # NoName /\ there = {}, "region") = {} /\ pos' = Now /\ borrows' = borrows
      /\ Declare(v, mut, object, objects)
      /\ allocated' = IF there = {} THEN allocated ELSE [allocated EXCEPT ![v] = r]
  BY <1>1, <1>2, ErrorFree DEF Let, LetHome
<1>4. r # NoName => \E f \in RegionFrames : frames[f].region = r
  BY <1>1, <1>3 DEF Fail
<1>5. LetHome(r) \in Nat
  BY <1>4, LetHomeIs DEF Core
<1>6. /\ object \in Objs /\ object.mut = mut /\ object.moved = FALSE /\ object.field = 0
      /\ object.ref = NoRef /\ object.wrote = 0 /\ object.mutAt = 0 /\ object.refAt = 0
  BY <1>2, <1>5, NoRefSound DEF NewObj, Objs
<1>7. SameWorld(objects, objects) /\ Calm(objects)
  BY DEF SameWorld, Calm, Core, OTypeOK
<1>8. borrows' \in Seq(Borrows) /\ BorrowsGrow /\ allocated' \in [Names -> Regions \cup {NoName}]
  BY <1>3 DEF BorrowsGrow, Core, OTypeOK
<1>9. /\ Settled /\ Declared(v, mut) /\ NamesFrom(v, mut)
      /\ Live => objects' = Append(objects, object)
      /\ ~Live => objects' = objects
  BY <1>3, <1>6, <1>7, <1>8, StampsBefore, DeclareStep
<1>10. Core'
  BY <1>6, <1>7, <1>9, NoRefSound, DeclaredCore
<1>11. Added(object)
  BY <1>6, <1>7, <1>9, AddedIs DEF SameObj, Core
<1> QED
  BY <1>2, <1>4, <1>9, <1>10, <1>11

LEMMA LetRefCore ==
  ASSUME Core, NEW r \in Refs, NEW s \in Vals, NEW mut \in BOOLEAN, LetRef(r, s, mut)
  PROVE  /\ Core' /\ Settled /\ Declared(r, TRUE) /\ NamesFrom(r, TRUE)
         /\ Added(NewObj(0, TRUE, RefTo(s, mut)))
<1>1. PICK ref : ref = RefTo(s, mut)
  OBVIOUS
<1>2. PICK W : W = Touched(s, mut)
  OBVIOUS
<1>3. PICK object : object = NewObj(0, TRUE, ref)
  OBVIOUS
<1>4. /\ BorrowErrors(s, mut) \cup Mention(s) = {} /\ pos' = Now /\ Known(s)
      /\ borrows' = Append(borrows, Record(r, s, mut)) /\ Declare(r, TRUE, object, W)
      /\ allocated' = allocated
  BY <1>1, <1>2, <1>3, ErrorFree DEF LetRef
<1>5. BorrowErrors(s, mut) = {} /\ r \in Names /\ s \in Names
  BY <1>4 DEF Names
<1>6. Record(r, s, mut) \in Borrows
  BY <1>5, RecordTyped DEF Core
<1>7. /\ borrows' \in Seq(Borrows) /\ BorrowsGrow /\ Len(borrows) + 1 \in DOMAIN borrows'
      /\ borrows'[Len(borrows) + 1] = Record(r, s, mut)
  BY <1>4, <1>6, AppendGrows DEF Core
<1>8. Live => /\ SameWorld(W, objects) /\ Calm(W) /\ Obj(s) \in DOMAIN objects
              /\ \A i \in DOMAIN objects :
                   /\ SameObj(W[i], objects[i])
                   /\ W[i].wrote <= Now /\ W[i].mutAt <= Now /\ W[i].refAt <= Now
  BY <1>2, <1>4, <1>5, TouchedStep
<1>9. Live => ref \in RefRecs
  <2>1. Obj(s) \in Nat /\ TopId \in Nat /\ Now \in Nat
    BY <1>4, KnownTyped, TopTyped DEF Core
  <2> QED
    BY <1>1, <2>1 DEF RefTo, RefRecs
<1>10. Live => /\ object \in Objs /\ object.mut = TRUE /\ object.moved = FALSE
               /\ object.field = 0 /\ object.ref = ref
               /\ object.wrote = 0 /\ object.mutAt = 0 /\ object.refAt = 0
  BY <1>3, <1>9 DEF NewObj, Objs
<1>11. allocated' \in [Names -> Regions \cup {NoName}]
  BY <1>4 DEF Core, OTypeOK
<1>12. Live => \A i \in DOMAIN objects : W[i].moved => objects[i].moved
  BY <1>8 DEF SameObj
<1>13. /\ Settled /\ Declared(r, TRUE) /\ NamesFrom(r, TRUE)
       /\ Live => objects' = Append(W, object)
       /\ ~Live => objects' = objects
  BY <1>4, <1>5, <1>7, <1>8, <1>10, <1>11, <1>12, DeclareStep
<1>14. Live => Sound(ref)'
  BY <1>1, <1>4, <1>5, <1>7, <1>13, SoundNew DEF Core, Settled, Onward
<1>15. Core'
  <2>1. Live => \A i \in DOMAIN objects : /\ W[i].ref = objects[i].ref
                                          /\ W[i].field = objects[i].field
    BY <1>8 DEF SameObj
  <2> QED
    BY <1>8, <1>10, <1>13, <1>14, <2>1, DeclaredCore
<1>16. Added(object)
  BY <1>8, <1>10, <1>13, AddedIs DEF Core
<1> QED
  BY <1>1, <1>3, <1>13, <1>15, <1>16

(* The youngest borrow of a name.                                          *)
BornOk == \A k \in DOMAIN borrows : borrows[k].born \in 1..pos

Youngest(i, v) ==
  /\ i \in DOMAIN borrows /\ borrows[i].var = v
  /\ \A j \in DOMAIN borrows : borrows[j].var = v =>
       \/ borrows[j].born < borrows[i].born
       \/ borrows[j].born = borrows[i].born /\ j <= i

LEMMA YoungestIs ==
  ASSUME OTypeOK, BornOk, NEW v, NEW k \in DOMAIN borrows, borrows[k].var = v
  PROVE  \E i \in DOMAIN borrows : Youngest(i, v)
<1>1. Len(borrows) \in Nat /\ DOMAIN borrows = 1..Len(borrows) /\ pos \in Nat
  BY DEF OTypeOK
<1>2. PICK T : T = {borrows[j].born : j \in {j \in DOMAIN borrows : borrows[j].var = v}}
  OBVIOUS
<1>3. T \in SUBSET (1..pos) /\ T # {}
  BY <1>2 DEF BornOk
<1>4. PICK m : m = Max(T)
  OBVIOUS
<1>5. m \in T /\ \A y \in T : y <= m
  BY <1>1, <1>3, <1>4, MaxOf
<1>6. PICK U : U = {j \in DOMAIN borrows : borrows[j].var = v /\ borrows[j].born = m}
  OBVIOUS
<1>7. U \in SUBSET (1..Len(borrows)) /\ U # {}
  BY <1>1, <1>2, <1>5, <1>6
<1>8. PICK i : i = Max(U)
  OBVIOUS
<1>9. i \in U /\ \A y \in U : y <= i
  BY <1>1, <1>7, <1>8, MaxOf
<1>10. i \in DOMAIN borrows /\ borrows[i].var = v /\ borrows[i].born = m
  BY <1>6, <1>9
<1>11. ASSUME NEW j \in DOMAIN borrows, borrows[j].var = v
       PROVE  \/ borrows[j].born < borrows[i].born
              \/ borrows[j].born = borrows[i].born /\ j <= i
  <2>1. borrows[j].born \in T /\ borrows[j].born \in Nat /\ m \in Nat
    BY <1>1, <1>2, <1>3, <1>5, <1>11 DEF BornOk
  <2>2. borrows[j].born <= m
    BY <1>5, <2>1
  <2>3. borrows[j].born = m => j <= i
    BY <1>6, <1>9, <1>11
  <2> QED
    BY <1>10, <2>1, <2>2, <2>3
<1> QED
  BY <1>10, <1>11 DEF Youngest

LEMMA OneYoungest ==
  ASSUME OTypeOK, NEW v, NEW i \in DOMAIN borrows, NEW j \in DOMAIN borrows,
         Youngest(i, v), Youngest(j, v)
  PROVE  i = j
<1>1. i \in Nat /\ j \in Nat /\ borrows[i] \in Borrows /\ borrows[j] \in Borrows
  BY DEF OTypeOK
<1>2. borrows[i].born \in Nat /\ borrows[j].born \in Nat
  BY <1>1 DEF Borrows
<1> QED
  BY <1>1, <1>2 DEF Youngest

(* What copy_borrow registers: nothing, or the youngest borrow again.      *)
Copied(b, i, to) ==
  /\ b \in Borrows /\ b.source = borrows[i].source /\ b.var = to /\ b.mut = borrows[i].mut
  /\ b.born = Now /\ b.escapes = borrows[i].escapes /\ b.place = NoName

LEMMA CopyOfIs ==
  ASSUME OTypeOK, BornOk, NEW to \in Names, NEW from
  PROVE  \/ CopyOf(to, from) = <<>> /\ \A i \in DOMAIN borrows : borrows[i].var # from
         \/ \E i \in DOMAIN borrows, b \in Borrows :
              Youngest(i, from) /\ CopyOf(to, from) = <<b>> /\ Copied(b, i, to)
<1>1. PICK known : known = {i \in DOMAIN borrows : borrows[i].var = from}
  OBVIOUS
<1>2. CASE known = {}
  BY <1>1, <1>2 DEF CopyOf
<1>3. CASE known # {}
  <2>1. PICK i : i = CHOOSE l \in known : \A j \in known :
                       borrows[j].born < borrows[l].born
                         \/ (borrows[j].born = borrows[l].born /\ j <= l)
    OBVIOUS
  <2>2. \E k \in known : \A j \in known :
          borrows[j].born < borrows[k].born \/ (borrows[j].born = borrows[k].born /\ j <= k)
    <3>1. PICK k \in DOMAIN borrows : Youngest(k, from)
      BY <1>1, <1>3, YoungestIs
    <3>2. k \in known
      BY <1>1, <3>1 DEF Youngest
    <3> QED
      BY <1>1, <3>1, <3>2 DEF Youngest
  <2>3. i \in known /\ \A j \in known :
          borrows[j].born < borrows[i].born \/ (borrows[j].born = borrows[i].born /\ j <= i)
    BY <2>1, <2>2
  <2>4. i \in DOMAIN borrows /\ Youngest(i, from)
    BY <1>1, <2>3 DEF Youngest
  <2>5. PICK b : b = [borrows[i] EXCEPT !.var = to, !.born = Now, !.block = TopId, !.place = NoName]
    OBVIOUS
  <2>6. CopyOf(to, from) = <<b>>
    BY <1>1, <1>3, <2>1, <2>5 DEF CopyOf
  <2>7. borrows[i] \in Borrows
    BY <2>4 DEF OTypeOK
  <2>8. Copied(b, i, to)
    BY <2>5, <2>7, TopTyped DEF Copied, Borrows
  <2> QED
    BY <2>4, <2>6, <2>8 DEF Copied
<1> QED
  BY <1>2, <1>3

LEMMA CopyTyped ==
  ASSUME OTypeOK, BornOk, NEW to \in Names, NEW from
  PROVE  CopyOf(to, from) \in Seq(Borrows)
<1>1. CASE CopyOf(to, from) = <<>>
  BY <1>1
<1>2. CASE \E i \in DOMAIN borrows, b \in Borrows :
              Youngest(i, from) /\ CopyOf(to, from) = <<b>> /\ Copied(b, i, to)
  BY <1>2
<1> QED
  BY <1>1, <1>2, CopyOfIs

(* Copies of references.                                                   *)
LEMMA CopyRefIs ==
  ASSUME Core, Live, NEW v \in Names, Known(v)
  PROVE  /\ objects[Obj(v)].ref \in RefRecs /\ Sound(objects[Obj(v)].ref)
         /\ CopyRef(v) = [objects[Obj(v)].ref EXCEPT !.blk = 0]
         /\ CopyRef(v) \in RefRecs
<1>1. PICK o : o = Obj(v)
  OBVIOUS
<1>2. o \in DOMAIN objects
  BY <1>1, KnownRuns DEF Core
<1>3. objects[o] \in Objs /\ Sound(objects[o].ref)
  BY <1>2 DEF Core, OTypeOK, AliasInv
<1>4. objects[o].ref \in RefRecs
  BY <1>3 DEF Objs
<1>5. [objects[o].ref EXCEPT !.blk = 0] \in RefRecs
  BY <1>4 DEF RefRecs
<1> QED
  BY <1>1, <1>3, <1>4, <1>5 DEF CopyRef

LEMMA LetCopyCore ==
  ASSUME Core, BornOk, NEW r \in Refs, NEW from \in Refs, LetCopy(r, from)
  PROVE  /\ Core' /\ Settled /\ Declared(r, TRUE) /\ NamesFrom(r, TRUE)
         /\ Added(NewObj(0, TRUE, CopyRef(from)))
<1>1. PICK ref : ref = CopyRef(from)
  OBVIOUS
<1>2. PICK object : object = NewObj(0, TRUE, ref)
  OBVIOUS
<1>3. /\ pos' = Now /\ Known(from) /\ borrows' = borrows \o CopyOf(r, from)
      /\ Declare(r, TRUE, object, objects) /\ allocated' = allocated
  BY <1>1, <1>2, ErrorFree DEF LetCopy
<1>4. r \in Names /\ from \in Names
  BY DEF Names
<1>5. borrows' \in Seq(Borrows) /\ BorrowsGrow
  <2>1. PICK t : t = CopyOf(r, from)
    OBVIOUS
  <2>2. t \in Seq(Borrows)
    BY <1>4, <2>1, CopyTyped DEF Core
  <2> QED
    BY <1>3, <2>1, <2>2, ConcatGrows DEF Core
<1>6. PICK old : old = objects[Obj(from)].ref
  OBVIOUS
<1>7. Live => ref \in RefRecs /\ old \in RefRecs /\ Sound(old) /\ ref = [old EXCEPT !.blk = 0]
  BY <1>1, <1>3, <1>4, <1>6, CopyRefIs
<1>8. Live => /\ object \in Objs /\ object.mut = TRUE /\ object.moved = FALSE
              /\ object.field = 0 /\ object.ref = ref
              /\ object.wrote = 0 /\ object.mutAt = 0 /\ object.refAt = 0
  BY <1>2, <1>7 DEF NewObj, Objs
<1>9. SameWorld(objects, objects) /\ Calm(objects)
  BY DEF SameWorld, Calm, Core, OTypeOK
<1>10. allocated' \in [Names -> Regions \cup {NoName}]
  BY <1>3 DEF Core, OTypeOK
<1>11. /\ Settled /\ Declared(r, TRUE) /\ NamesFrom(r, TRUE)
       /\ Live => objects' = Append(objects, object)
       /\ ~Live => objects' = objects
  BY <1>3, <1>4, <1>5, <1>8, <1>9, <1>10, StampsBefore, DeclareStep
<1>12. Live => Sound(ref)'
  BY <1>7, <1>11, SoundCopy DEF Core, Settled
<1>13. Core'
  BY <1>8, <1>9, <1>11, <1>12, DeclaredCore
<1>14. Added(object)
  BY <1>8, <1>9, <1>11, AddedIs DEF SameObj, Core
<1> QED
  BY <1>1, <1>2, <1>11, <1>13, <1>14

(* An assignment to a reference.                                           *)
LEMMA RefSetCore ==
  ASSUME Core, Settled, NEW o, NEW ref, DOMAIN objects' = DOMAIN objects,
         \A i \in DOMAIN objects : objects'[i].field = objects[i].field,
         Live => /\ objects'[o].ref = ref /\ Sound(ref)'
                 /\ \A i \in DOMAIN objects : i # o => objects'[i].ref = objects[i].ref,
         ~Live => objects' = objects
  PROVE  Core'
<1>1. CASE ~Live
  BY <1>1, CoreKept
<1>2. CASE Live
  <2>1. ASSUME NEW i \in DOMAIN objects'
        PROVE  \/ i \in DOMAIN objects /\ objects'[i].ref = objects[i].ref
               \/ Sound(objects[i].ref)'
    <3>1. CASE i = o
      <4>1. objects'[i].ref = ref
        BY <1>2, <3>1
      <4> QED
        BY <1>2, <4>1
    <3>2. CASE i # o
      BY <1>2, <3>2
    <3> QED
      BY <3>1, <3>2
  <2>2. AliasInv'
    BY <2>1, AliasKept DEF Core
  <2>3. objects' \in Seq(Objs) /\ objects \in Seq(Objs)
    BY DEF Core, Settled, OTypeOK
  <2>4. Len(objects') = Len(objects) /\ Len(objects) \in Nat /\ Len(objects) + 1 \notin DOMAIN objects'
    BY <2>3
  <2>5. FieldInv'
    <3>1. Len(objects') <= Len(objects) + 1
      BY <2>4
    <3> QED
      BY <2>3, <2>4, <3>1, FieldsStay DEF Core, Settled, Onward
  <2> QED
    BY <2>2, <2>5 DEF Core, Settled
<1> QED
  BY <1>1, <1>2

LEMMA RefSetStep ==
  ASSUME Core, NEW U, SameWorld(U, objects), Calm(U),
         \A i \in DOMAIN objects :
           /\ SameObj(U[i], objects[i])
           /\ U[i].wrote <= Now /\ U[i].mutAt <= Now /\ U[i].refAt <= Now,
         NEW o \in DOMAIN objects, NEW ref \in RefRecs,
         NEW W, W = RefSet(U, o, ref)
  PROVE  /\ SameWorld(W, objects) /\ Calm(W) /\ W[o].ref = ref
         /\ \A i \in DOMAIN objects :
              /\ i # o => W[i].ref = objects[i].ref
              /\ W[i].moved => objects[i].moved
              /\ W[i].field = objects[i].field /\ W[i].dead = objects[i].dead
              /\ W[i].wrote <= Now /\ W[i].mutAt <= Now /\ W[i].refAt <= Now
<1>1. U \in Seq(Objs) /\ DOMAIN U = DOMAIN objects /\ o \in DOMAIN U
  BY DEF SameWorld
<1>2. /\ SameWorld(W, U)
      /\ W[o].ref = ref
      /\ \A i \in DOMAIN U : /\ i # o => W[i] = U[i]
                             /\ SameStamps(W[i], U[i])
                             /\ W[i].field = U[i].field /\ W[i].dead = U[i].dead
                             /\ W[i].moved = U[i].moved
  BY <1>1, RefChanged
<1>3. Calm(W)
  BY <1>1, <1>2, StampsCalmAfter
<1> QED
  BY <1>1, <1>2, <1>3 DEF SameWorld, SameStamps, SameObj

LEMMA AssignRefCore ==
  ASSUME Core, NEW r \in Refs, NEW s \in Vals, NEW mut \in BOOLEAN, AssignRef(r, s, mut)
  PROVE  /\ Core' /\ Settled /\ ~mut /\ DOMAIN objects' = DOMAIN objects
         /\ Live => /\ Obj(r) \in DOMAIN objects /\ objects'[Obj(r)].ref = RefTo(s, mut)
                    /\ \A i \in DOMAIN objects : /\ i # Obj(r) => objects'[i].ref = objects[i].ref
                                                 /\ objects'[i].dead = objects[i].dead
         /\ ~Live => objects' = objects
<1>1. PICK ref : ref = RefTo(s, mut)
  OBVIOUS
<1>2. PICK U : U = Touched(s, mut)
  OBVIOUS
<1>3. PICK W : W = RefSet(U, Obj(r), ref)
  OBVIOUS
<1>4. PICK t : t = <<Record(r, s, mut), Record(NoName, s, mut)>>
  OBVIOUS
<1>5. /\ AssignErrors(r) \cup BorrowErrors(s, mut) \cup Fail(mut, "conflict") \cup Mention(s) = {}
      /\ pos' = Now /\ Known(s) /\ Known(r) /\ borrows' = borrows \o t /\ Execute(W) /\ Same
  BY <1>1, <1>2, <1>3, <1>4, ErrorFree DEF AssignRef, RefSet
<1>6. BorrowErrors(s, mut) = {} /\ ~mut /\ r \in Names /\ s \in Names
  BY <1>5 DEF Names, Fail
<1>7. Record(r, s, mut) \in Borrows /\ Record(NoName, s, mut) \in Borrows
  BY <1>6, RecordTyped DEF Core
<1>8. t \in Seq(Borrows) /\ 1 \in DOMAIN t /\ t[1] = Record(r, s, mut)
  BY <1>4, <1>7
<1>9. /\ borrows' \in Seq(Borrows) /\ BorrowsGrow /\ Len(borrows) + 1 \in DOMAIN borrows'
      /\ borrows'[Len(borrows) + 1] = Record(r, s, mut)
  BY <1>5, <1>8, ConcatGrows DEF Core
<1>10. Live => /\ SameWorld(U, objects) /\ Calm(U)
               /\ \A i \in DOMAIN objects :
                    /\ SameObj(U[i], objects[i])
                    /\ U[i].wrote <= Now /\ U[i].mutAt <= Now /\ U[i].refAt <= Now
  BY <1>2, <1>5, <1>6, TouchedStep
<1>11. PICK o : o = Obj(r)
  OBVIOUS
<1>12. Live => o \in DOMAIN objects
  BY <1>5, <1>6, <1>11, KnownRuns DEF Core
<1>13. ref \in RefRecs
  <2>1. Obj(s) \in Nat /\ TopId \in Nat /\ Now \in Nat
    BY <1>5, KnownTyped, TopTyped DEF Core
  <2> QED
    BY <1>1, <2>1 DEF RefTo, RefRecs
<1>14. Live => /\ SameWorld(W, objects) /\ Calm(W) /\ W[o].ref = ref
               /\ \A i \in DOMAIN objects :
                    /\ i # o => W[i].ref = objects[i].ref
                    /\ W[i].moved => objects[i].moved
                    /\ W[i].field = objects[i].field /\ W[i].dead = objects[i].dead
                    /\ W[i].wrote <= Now /\ W[i].mutAt <= Now /\ W[i].refAt <= Now
  BY <1>3, <1>10, <1>11, <1>12, <1>13, RefSetStep
<1>15. /\ Settled /\ DOMAIN objects' = DOMAIN objects
       /\ (Live => objects' = W) /\ (~Live => objects' = objects)
  BY <1>5, <1>9, <1>14, ExecuteStep
<1>16. Live => Sound(ref)'
  BY <1>1, <1>5, <1>6, <1>9, <1>15, SoundNew DEF Core, Settled, Onward
<1>17. Live => /\ objects'[o].ref = ref
               /\ \A i \in DOMAIN objects : /\ i # o => objects'[i].ref = objects[i].ref
                                            /\ objects'[i].dead = objects[i].dead
  BY <1>14, <1>15
<1>18. Core'
  <2>1. \A i \in DOMAIN objects : objects'[i].field = objects[i].field
    BY <1>14, <1>15
  <2> QED
    BY <1>15, <1>16, <1>17, <2>1, RefSetCore
<1> QED
  BY <1>1, <1>6, <1>11, <1>12, <1>15, <1>17, <1>18

LEMMA AssignCopyCore ==
  ASSUME Core, BornOk, NEW r \in Refs, NEW from \in Refs, AssignCopy(r, from)
  PROVE  /\ Core' /\ Settled /\ DOMAIN objects' = DOMAIN objects
         /\ Live => /\ Obj(r) \in DOMAIN objects /\ objects'[Obj(r)].ref = CopyRef(from)
                    /\ \A i \in DOMAIN objects : /\ i # Obj(r) => objects'[i].ref = objects[i].ref
                                                 /\ objects'[i].dead = objects[i].dead
         /\ ~Live => objects' = objects
<1>1. PICK ref : ref = CopyRef(from)
  OBVIOUS
<1>2. PICK o : o = Obj(r)
  OBVIOUS
<1>3. PICK W : W = RefSet(objects, o, ref)
  OBVIOUS
<1>4. /\ pos' = Now /\ Known(from) /\ Known(r) /\ borrows' = borrows \o CopyOf(r, from)
      /\ Execute(W) /\ Same
  BY <1>1, <1>2, <1>3, ErrorFree DEF AssignCopy, RefSet
<1>5. r \in Names /\ from \in Names
  BY DEF Names
<1>6. borrows' \in Seq(Borrows) /\ BorrowsGrow
  <2>1. PICK t : t = CopyOf(r, from)
    OBVIOUS
  <2>2. t \in Seq(Borrows)
    BY <1>5, <2>1, CopyTyped DEF Core
  <2> QED
    BY <1>4, <2>1, <2>2, ConcatGrows DEF Core
<1>7. PICK old : old = objects[Obj(from)].ref
  OBVIOUS
<1>8. Live => ref \in RefRecs /\ old \in RefRecs /\ Sound(old) /\ ref = [old EXCEPT !.blk = 0]
  BY <1>1, <1>4, <1>5, <1>7, CopyRefIs
<1>9. Live => o \in DOMAIN objects
  BY <1>2, <1>4, <1>5, KnownRuns DEF Core
<1>10. Live => /\ SameWorld(W, objects) /\ Calm(W) /\ W[o].ref = ref
               /\ \A i \in DOMAIN objects :
                    /\ i # o => W[i].ref = objects[i].ref
                    /\ W[i].moved => objects[i].moved
                    /\ W[i].field = objects[i].field /\ W[i].dead = objects[i].dead
                    /\ W[i].wrote <= Now /\ W[i].mutAt <= Now /\ W[i].refAt <= Now
  <2>1. /\ SameWorld(objects, objects) /\ Calm(objects)
        /\ \A i \in DOMAIN objects : SameObj(objects[i], objects[i])
    BY DEF SameWorld, Calm, SameObj, Core, OTypeOK
  <2> QED
    BY <1>3, <1>8, <1>9, <2>1, StampsBefore, RefSetStep
<1>11. /\ Settled /\ DOMAIN objects' = DOMAIN objects
       /\ (Live => objects' = W) /\ (~Live => objects' = objects)
  BY <1>4, <1>6, <1>10, ExecuteStep
<1>12. Live => Sound(ref)'
  BY <1>8, <1>11, SoundCopy DEF Core, Settled
<1>13. Live => /\ objects'[o].ref = ref
               /\ \A i \in DOMAIN objects : /\ i # o => objects'[i].ref = objects[i].ref
                                            /\ objects'[i].dead = objects[i].dead
  BY <1>10, <1>11
<1>14. Core'
  <2>1. \A i \in DOMAIN objects : objects'[i].field = objects[i].field
    BY <1>10, <1>11
  <2> QED
    BY <1>11, <1>12, <1>13, <2>1, RefSetCore
<1> QED
  BY <1>1, <1>2, <1>9, <1>11, <1>13, <1>14

LEMMA StoreFieldCore ==
  ASSUME Core, NEW w \in Boxes, NEW s \in Vals, StoreField(w, s)
  PROVE  /\ Core' /\ Settled
         /\ DOMAIN objects' = DOMAIN objects
         /\ \A i \in DOMAIN objects : objects'[i].ref = objects[i].ref
                                      /\ objects'[i].dead = objects[i].dead
<1>1. PICK t : t = <<[Record(NoName, s, FALSE) EXCEPT !.place = w], Record(NoName, s, FALSE)>>
  OBVIOUS
<1>2. PICK U : U = Touched(s, FALSE)
  OBVIOUS
<1>3. PICK a, b : a = Obj(w) /\ b = Obj(s)
  OBVIOUS
<1>4. PICK W : W = FieldSet(U, a, b)
  OBVIOUS
<1>5. /\ Use(w) \cup BorrowErrors(s, FALSE) \cup Mention(s) = {} /\ pos' = Now
      /\ Known(w) /\ Known(s) /\ borrows' = borrows \o t /\ Execute(W) /\ Same
  BY <1>1, <1>2, <1>3, <1>4, ErrorFree DEF StoreField, FieldSet
<1>6. BorrowErrors(s, FALSE) = {} /\ w \in Names /\ s \in Names
  BY <1>5 DEF Names
<1>7. Record(NoName, s, FALSE) \in Borrows
  BY TopTyped DEF Core, Record, Borrows
<1>8. [Record(NoName, s, FALSE) EXCEPT !.place = w] \in Borrows
  BY <1>7 DEF Borrows
<1>9. t \in Seq(Borrows) /\ 1 \in DOMAIN t /\ t[1] = [Record(NoName, s, FALSE) EXCEPT !.place = w]
  <2>1. PICK c, d : c = Record(NoName, s, FALSE) /\ d = [Record(NoName, s, FALSE) EXCEPT !.place = w]
    OBVIOUS
  <2>2. t = <<d, c>> /\ c \in Borrows /\ d \in Borrows
    BY <1>1, <1>7, <1>8, <2>1
  <2>3. t \in Seq(Borrows) /\ 1 \in DOMAIN t /\ t[1] = d
    BY <2>2
  <2> QED
    BY <2>1, <2>3
<1>10. borrows' \in Seq(Borrows) /\ BorrowsGrow /\ Len(borrows) + 1 \in DOMAIN borrows'
       /\ borrows'[Len(borrows) + 1] = t[1]
  BY <1>5, <1>9, ConcatGrows DEF Core
<1>11. t[1].place = w /\ t[1].source = s
  BY <1>9 DEF Record
<1>12. Live => /\ SameWorld(U, objects) /\ Calm(U)
               /\ \A i \in DOMAIN objects :
                    /\ SameObj(U[i], objects[i])
                    /\ U[i].wrote <= Now /\ U[i].mutAt <= Now /\ U[i].refAt <= Now
  BY <1>2, <1>5, <1>6, TouchedStep
<1>13. Live => /\ a \in DOMAIN objects /\ b \in DOMAIN objects
               /\ \A f \in DOMAIN frames, v \in Names : Named(f, v) /\ At(f, v).obj = a => v = w
               /\ \A f \in DOMAIN frames, v \in Names : Named(f, v) /\ At(f, v).obj = b => v = s
  BY <1>3, <1>5, <1>6, KnownRuns DEF Core
<1>14. b \in Nat
  BY <1>3, <1>5, KnownTyped DEF Core
<1>15. ASSUME Live
       PROVE  /\ SameWorld(W, objects) /\ Calm(W) /\ W[a].field = b
              /\ \A i \in DOMAIN objects :
                   /\ i # a => W[i].field = objects[i].field
                   /\ W[i].moved => objects[i].moved
                   /\ W[i].ref = objects[i].ref /\ W[i].dead = objects[i].dead
                   /\ W[i].wrote <= Now /\ W[i].mutAt <= Now /\ W[i].refAt <= Now
  <2>1. U \in Seq(Objs) /\ DOMAIN U = DOMAIN objects /\ a \in DOMAIN U
    BY <1>12, <1>13, <1>15 DEF SameWorld
  <2>2. /\ SameWorld(W, U)
        /\ W[a].field = b
        /\ \A i \in DOMAIN U : /\ i # a => W[i] = U[i]
                               /\ SameStamps(W[i], U[i])
                               /\ W[i].ref = U[i].ref /\ W[i].dead = U[i].dead
                               /\ W[i].moved = U[i].moved
    BY <2>1, <1>4, <1>14, FieldChanged
  <2>3. Calm(W)
    BY <1>12, <1>15, <2>1, <2>2, StampsCalmAfter
  <2> QED
    BY <1>12, <1>15, <2>1, <2>2, <2>3 DEF SameWorld, SameStamps, SameObj
<1>16. /\ Settled /\ DOMAIN objects' = DOMAIN objects
       /\ (Live => objects' = W) /\ (~Live => objects' = objects)
  BY <1>5, <1>10, <1>15, ExecuteStep
<1>17. \A i \in DOMAIN objects : objects'[i].ref = objects[i].ref
                                 /\ objects'[i].dead = objects[i].dead
  BY <1>15, <1>16
<1>18. Core'
  <2>1. CASE ~Live
    BY <2>1, <1>16, CoreKept
  <2>2. CASE Live
    <3>1. AliasInv'
      BY <1>16, <1>17, AliasKept DEF Core
    <3>2. objects'[a].field = b /\ \A i \in DOMAIN objects : i # a => objects'[i].field = objects[i].field
      BY <2>2, <1>15, <1>16
    <3>3. \A o \in DOMAIN objects' : objects'[o].field # 0 => objects'[o].field \in DOMAIN objects'
      BY <2>2, <3>2, <1>13, <1>16 DEF Core, FieldInv
    <3>4. frames' = frames
      BY <1>5 DEF Same
    <3>5. ASSUME NEW f \in DOMAIN frames', NEW g \in DOMAIN frames', NEW x \in Names, NEW v \in Names,
                 Named(f, x)', Named(g, v)', objects'[At(f, x)'.obj].field = At(g, v)'.obj
          PROVE  \E k \in DOMAIN borrows' : borrows'[k].place = x /\ borrows'[k].source = v
      <4>1. /\ f \in DOMAIN frames /\ g \in DOMAIN frames /\ Named(f, x) /\ Named(g, v)
            /\ objects'[At(f, x).obj].field = At(g, v).obj
        BY <3>4, <3>5 DEF Named, At
      <4>2. CASE At(f, x).obj = a
        <5>1. x = w /\ At(g, v).obj = b
          BY <2>2, <3>2, <4>1, <4>2, <1>13
        <5>2. v = s
          BY <2>2, <4>1, <5>1, <1>13
        <5> QED
          BY <5>1, <5>2, <1>10, <1>11
      <4>3. CASE At(f, x).obj # a
        <5>1. At(f, x).obj \in DOMAIN objects
          BY <4>1 DEF Core, NamesOk
        <5>2. objects[At(f, x).obj].field = At(g, v).obj
          BY <3>2, <4>1, <4>3, <5>1
        <5>3. PICK k \in DOMAIN borrows : borrows[k].place = x /\ borrows[k].source = v
          BY <4>1, <5>2 DEF Core, FieldInv
        <5> QED
          BY <5>3, <1>10 DEF BorrowsGrow
      <4> QED
        BY <4>2, <4>3
    <3>6. FieldInv'
      BY <3>3, <3>5 DEF FieldInv
    <3> QED
      BY <1>16, <3>1, <3>6 DEF Core, Settled
  <2> QED
    BY <2>1, <2>2
<1> QED
  BY <1>16, <1>17, <1>18

(* A transfer.                                                             *)
LEMMA NamesMoved ==
  ASSUME OTypeOK, NamesOk, NoNewNames, ObjectsStay,
         \A o \in DOMAIN objects : objects'[o].moved =>
           \/ objects[o].moved
           \/ \A f \in DOMAIN frames', v \in Names :
                Named(f, v)' /\ At(f, v)'.obj = o => At(f, v)'.moved
  PROVE  NamesOk'
<1>1. ASSUME NEW f \in DOMAIN frames', NEW v \in Names, Named(f, v)'
      PROVE  /\ At(f, v)'.obj \in DOMAIN objects'
             /\ objects'[At(f, v)'.obj].mut = At(f, v)'.mut
             /\ objects'[At(f, v)'.obj].moved => At(f, v)'.moved
  <2>1. OldName(f, v)
    BY <1>1 DEF NoNewNames
  <2>2. PICK b, c : b = At(f, v) /\ c = At(f, v)'
    OBVIOUS
  <2>3. f \in DOMAIN frames /\ Named(f, v) /\ c.obj = b.obj /\ c.mut = b.mut /\ (b.moved => c.moved)
    BY <2>1, <2>2 DEF OldName
  <2>4. b.obj \in DOMAIN objects /\ objects[b.obj].mut = b.mut /\ (objects[b.obj].moved => b.moved)
    BY <2>2, <2>3 DEF NamesOk
  <2>5. objects'[b.obj].moved => c.moved
    <3>1. objects'[b.obj].moved => objects[b.obj].moved \/ At(f, v)'.moved
      BY <1>1, <2>2, <2>3, <2>4
    <3> QED
      BY <3>1, <2>2, <2>3, <2>4
  <2> QED
    BY <2>2, <2>3, <2>4, <2>5 DEF ObjectsStay
<1>2. ASSUME NEW f \in DOMAIN frames', NEW g \in DOMAIN frames', NEW v \in Names, NEW w \in Names,
             Named(f, v)', Named(g, w)', At(f, v)'.obj = At(g, w)'.obj
      PROVE  f = g /\ v = w
  <2>1. OldName(f, v) /\ OldName(g, w)
    BY <1>2 DEF NoNewNames
  <2> QED
    BY <1>2, <2>1 DEF OldName, NamesOk
<1> QED
  BY <1>1, <1>2 DEF NamesOk

LEMMA TransferCore ==
  ASSUME Core, NEW v \in Vals, NEW r \in Regions, CheckTransfer(v, r)
  PROVE  /\ Core' /\ Settled /\ Marked(v) /\ NoNewNames
         /\ DOMAIN objects' = DOMAIN objects
         /\ \A i \in DOMAIN objects : /\ objects'[i].ref = objects[i].ref
                                      /\ objects'[i].dead = objects[i].dead
<1>1. PICK o : o = Obj(v)
  OBVIOUS
<1>2. PICK W : W = MovedSet(objects, o)
  OBVIOUS
<1>3. /\ Known(v) /\ pos' = Now /\ Execute(W) /\ borrows' = borrows /\ defs' = defs
      /\ frames' = [frames EXCEPT ![Max(Bound(v))].bind[v].moved = TRUE]
      /\ suspects' = suspects /\ allocated' = allocated /\ skipped' = skipped /\ shadowed' = shadowed
  BY <1>1, <1>2, ErrorFree DEF CheckTransfer, MovedSet
<1>4. OTypeOK /\ v \in Names /\ objects \in Seq(Objs) /\ pos \in Nat /\ Now = pos + 1
  BY TopTyped DEF Core, Names, OTypeOK
<1>5. Marked(v)
  BY <1>3, <1>4, TransferMarks
<1>6. NoNewNames
  BY <1>4, <1>5, MarkedNames
<1>7. (Live => objects' = W) /\ (~Live => objects' = objects)
  BY <1>3 DEF Execute
<1>8. Live => /\ SameWorld(W, objects)
              /\ \A i \in DOMAIN objects : /\ i # o => W[i] = objects[i]
                                           /\ SameStamps(W[i], objects[i])
                                           /\ W[i].ref = objects[i].ref
                                           /\ W[i].dead = objects[i].dead
                                           /\ W[i].field = objects[i].field
  <2>1. Live => o \in DOMAIN objects
    BY <1>1, <1>3, <1>4, KnownRuns DEF Core
  <2> QED
    BY <2>1, <1>2, <1>4, MovedChanged
<1>9. /\ SameWorld(objects', objects)
      /\ \A i \in DOMAIN objects : /\ SameStamps(objects'[i], objects[i])
                                   /\ objects'[i].ref = objects[i].ref
                                   /\ objects'[i].dead = objects[i].dead
                                   /\ objects'[i].field = objects[i].field
                                   /\ i # o => objects'[i] = objects[i]
  <2>1. CASE Live
    BY <2>1, <1>7, <1>8
  <2>2. CASE ~Live
    BY <2>2, <1>4, <1>7 DEF SameWorld, SameStamps
  <2> QED
    BY <2>1, <2>2
<1>10. OTypeOK'
  <2>1. frames' \in Seq(Frames) /\ Len(frames') >= 1
    BY <1>4, <1>5 DEF Marked, OTypeOK
  <2> QED
    BY <1>3, <1>4, <1>9, <2>1 DEF OTypeOK, SameWorld
<1>11. Len(frames') = Len(frames) /\ \A f \in DOMAIN frames : SameButNames(frames'[f], frames[f])
  BY <1>5 DEF Marked
<1>12. FramesOk'
  <2>1. pos <= pos'
    BY <1>3, <1>4
  <2> QED
    BY <1>3, <1>4, <1>10, <1>11, <2>1, FramesKept DEF Core
<1>13. ObjectsStay
  BY <1>4, <1>9, <1>10 DEF SameWorld, ObjectsStay, OTypeOK
<1>14. NamesOk'
  <2>1. ASSUME NEW i \in DOMAIN objects, objects'[i].moved, ~objects[i].moved,
               NEW f \in DOMAIN frames', NEW w \in Names, Named(f, w)', At(f, w)'.obj = i
        PROVE  At(f, w)'.moved
    <3>1. i = o /\ Live
      BY <2>1, <1>7, <1>9
    <3>2. PICK m : m = Max(Bound(v))
      OBVIOUS
    <3>3. m \in DOMAIN frames /\ Named(m, v) /\ At(m, v).obj = o
      BY <3>1, <3>2, <1>1, <1>3, <1>4, KnownRuns DEF Core
    <3>4. f \in DOMAIN frames /\ Named(f, w) /\ At(f, w).obj = o
      BY <2>1, <3>1, <1>6 DEF NoNewNames, OldName
    <3>5. f = m /\ w = v
      BY <3>3, <3>4, <1>4 DEF Core, NamesOk
    <3> QED
      BY <3>2, <3>3, <3>5, <1>5 DEF Marked, At, Named
  <2> QED
    BY <2>1, <1>4, <1>6, <1>13, NamesMoved DEF Core
<1>15. Settled
  <2>1. StampsOk'
    BY <1>3, <1>9, StampsBefore DEF StampsOk, SameWorld, SameStamps
  <2>2. NamesFresh
    BY <1>6 DEF NoNewNames, NamesFresh
  <2>3. IdsFresh
    BY <1>4, <1>10, <1>11, SameIds DEF OTypeOK
  <2>4. BorrowsGrow /\ pos <= pos'
    BY <1>3, <1>4 DEF BorrowsGrow
  <2>5. Calm(objects')
    BY <1>9, StampsCalm
  <2> QED
    BY <1>10, <1>12, <1>13, <1>14, <2>1, <2>2, <2>3, <2>4, <2>5 DEF Settled, Onward
<1>16. Core'
  BY <1>9, <1>15, CoreKept DEF SameWorld
<1> QED
  BY <1>5, <1>6, <1>9, <1>15, <1>16 DEF SameWorld

(* Blocks.                                                                 *)
LEMMA OpenCore ==
  ASSUME Core, NEW kind, NEW r \in Regions \cup {NoName}, NEW taken \in BOOLEAN,
         OpenBlock(kind, r, taken)
  PROVE  Core' /\ Settled /\ NoNewNames /\ objects' = objects
<1>1. /\ pos' = Now /\ borrows' = borrows /\ defs' = defs /\ suspects' = suspects
      /\ allocated' = allocated /\ objects' = objects
      /\ skipped' = (skipped \/ (Live /\ ~taken))
      /\ shadowed' = (shadowed \/ r \in {frames[f].region : f \in RegionFrames})
  BY ErrorFree DEF OpenBlock
<1>2. OTypeOK /\ pos \in Nat /\ Now = pos + 1 /\ objects \in Seq(Objs) /\ Top \in Nat
      /\ DOMAIN frames = 1..Top
  BY TopTyped DEF Core, OTypeOK, Top
<1>3. /\ frames' \in Seq(Frames) /\ Len(frames') = Top + 1
      /\ \A f \in DOMAIN frames : frames'[f] = frames[f]
      /\ frames'[Top + 1].id = Now + 1 /\ DOMAIN frames'[Top + 1].bind = {}
  BY <1>2, OpenFrames
<1>4. OTypeOK'
  <2>1. skipped' \in BOOLEAN /\ shadowed' \in BOOLEAN
    BY <1>1, <1>2 DEF OTypeOK
  <2>2. Len(frames') >= 1 /\ pos' \in Nat
    BY <1>1, <1>2, <1>3
  <2> QED
    BY <1>1, <1>2, <1>3, <2>1, <2>2 DEF OTypeOK
<1>5. FramesOk'
  BY <1>4, FramesOpened DEF Core
<1>6. \A f \in DOMAIN frames' : f \in DOMAIN frames \/ f = Top + 1
  BY <1>2, <1>3
<1>7. NoNewNames
  BY <1>3, <1>6, KeptNames
<1>8. ObjectsStay /\ NobodyMoves /\ Calm(objects')
  <2>1. Len(objects) <= Len(objects')
    BY <1>1, <1>2
  <2> QED
    BY <1>1, <2>1 DEF ObjectsStay, NobodyMoves, Calm
<1>9. NamesOk'
  BY <1>7, <1>8, NamesKept DEF Core
<1>10. Settled
  <2>1. StampsOk'
    BY <1>1, StampsBefore DEF StampsOk
  <2>2. NamesFresh
    BY <1>7 DEF NoNewNames, NamesFresh
  <2>3. IdsFresh
    <3>1. ASSUME NEW i \in Nat, i <= pos + 1, i \in OpenIds' PROVE i \in OpenIds
      <4>1. PICK f \in DOMAIN frames' : i = frames'[f].id
        BY <3>1 DEF OpenIds
      <4>2. CASE f = Top + 1
        BY <3>1, <4>1, <4>2, <1>2, <1>3
      <4>3. CASE f \in DOMAIN frames
        BY <4>1, <4>3, <1>3 DEF OpenIds
      <4> QED
        BY <4>2, <4>3, <1>6
    <3> QED
      BY <3>1 DEF IdsFresh
  <2>4. BorrowsGrow /\ pos <= pos'
    BY <1>1, <1>2 DEF BorrowsGrow
  <2> QED
    BY <1>4, <1>5, <1>8, <1>9, <2>1, <2>2, <2>3, <2>4 DEF Settled, Onward
<1>11. Core'
  BY <1>1, <1>10, CoreKept
<1> QED
  BY <1>1, <1>7, <1>10, <1>11

LEMMA CloseCore ==
  ASSUME Core, CloseBlock
  PROVE  /\ Core' /\ Settled /\ NoNewNames /\ DOMAIN objects' = DOMAIN objects
         /\ \A i \in DOMAIN objects :
              /\ objects'[i].ref = objects[i].ref
              /\ objects'[i].dead =>
                   objects[i].dead \/ (/\ frames[Top].region # NoName
                                       /\ objects[i].home = frames[Top].id)
<1>1. PICK gone2 : gone2 = [i \in DOMAIN objects |-> [objects[i] EXCEPT !.dead = @ \/
                             (frames[Top].region # NoName /\ objects[i].home = frames[Top].id)]]
  OBVIOUS
<1>2. /\ pos' = pos /\ borrows' = borrows /\ defs' = defs /\ skipped' = skipped
      /\ shadowed' = shadowed /\ Execute(gone2)
      /\ suspects' = (IF frames[Top].region = NoName THEN suspects
                                                   ELSE suspects \cup NewSuspects(frames[Top]))
      /\ allocated' = [v \in Names |->
           IF allocated[v] = frames[Top].region THEN NoName ELSE allocated[v]]
  BY <1>1 DEF CloseBlock
<1>3. OTypeOK /\ pos \in Nat /\ objects \in Seq(Objs) /\ Len(objects) \in Nat
      /\ DOMAIN objects = 1..Len(objects) /\ borrows \in Seq(Borrows)
  BY DEF Core, OTypeOK
<1>4. \A i \in DOMAIN objects :
        /\ gone2[i] \in Objs
        /\ gone2[i].mut = objects[i].mut /\ gone2[i].home = objects[i].home
        /\ gone2[i].ref = objects[i].ref /\ gone2[i].field = objects[i].field
        /\ gone2[i].moved = objects[i].moved /\ SameStamps(gone2[i], objects[i])
        /\ gone2[i].dead = (objects[i].dead \/ (/\ frames[Top].region # NoName
                                                /\ objects[i].home = frames[Top].id))
  <2> TAKE i \in DOMAIN objects
  <2>1. objects[i] \in Objs
    BY <1>3
  <2>2. PICK d : d = (objects[i].dead \/ (/\ frames[Top].region # NoName
                                          /\ objects[i].home = frames[Top].id))
    OBVIOUS
  <2>3. d \in BOOLEAN
    BY <2>1, <2>2 DEF Objs
  <2>4. PICK g : g = [objects[i] EXCEPT !.dead = d]
    OBVIOUS
  <2>5. gone2[i] = g
    BY <1>1, <2>2, <2>4
  <2>6. g \in Objs /\ g.dead = d
    BY <2>1, <2>3, <2>4 DEF Objs
  <2>7. /\ g.mut = objects[i].mut /\ g.home = objects[i].home /\ g.ref = objects[i].ref
        /\ g.field = objects[i].field /\ g.moved = objects[i].moved
        /\ SameStamps(g, objects[i])
    BY <2>1, <2>4 DEF Objs, SameStamps
  <2> QED
    BY <2>2, <2>5, <2>6, <2>7
<1>5. gone2 \in Seq(Objs) /\ Len(gone2) = Len(objects) /\ DOMAIN gone2 = DOMAIN objects
  <2>1. gone2 \in [1..Len(objects) -> Objs]
    BY <1>1, <1>3, <1>4
  <2> QED
    BY <1>3, <2>1
<1>6. SameWorld(gone2, objects)
  BY <1>4, <1>5 DEF SameWorld
<1>7. /\ SameWorld(objects', objects)
      /\ \A i \in DOMAIN objects :
           /\ objects'[i].ref = objects[i].ref /\ objects'[i].field = objects[i].field
           /\ objects'[i].moved = objects[i].moved /\ SameStamps(objects'[i], objects[i])
           /\ objects'[i].dead =>
                objects[i].dead \/ (/\ frames[Top].region # NoName
                                    /\ objects[i].home = frames[Top].id)
  <2>1. CASE Live
    <3>1. objects' = gone2
      BY <2>1, <1>2 DEF Execute
    <3> QED
      BY <3>1, <1>4, <1>6
  <2>2. CASE ~Live
    <3>1. objects' = objects
      BY <2>2, <1>2 DEF Execute
    <3> QED
      BY <3>1, <1>3 DEF SameWorld, SameStamps
  <2> QED
    BY <2>1, <2>2
<1>8. /\ frames' \in Seq(Frames) /\ Len(frames') >= 1
      /\ \A f \in DOMAIN frames' : f \in DOMAIN frames /\ frames'[f] = frames[f]
  BY <1>3, CloseFrames
<1>9. OTypeOK'
  <2>1. suspects' \subseteq Names
    <3>1. NewSuspects(frames[Top]) \subseteq Names
      <4>1. \A b \in Range(borrows) : b \in Borrows
        BY <1>3 DEF Range
      <4> QED
        BY <4>1 DEF NewSuspects, Borrows
    <3> QED
      BY <1>2, <1>3, <3>1 DEF OTypeOK
  <2>2. allocated' \in [Names -> Regions \cup {NoName}]
    BY <1>2, <1>3 DEF OTypeOK
  <2> QED
    BY <1>2, <1>3, <1>7, <1>8, <2>1, <2>2 DEF OTypeOK, SameWorld
<1>10. FramesOk'
  BY <1>3, <1>9, FramesClosed DEF Core
<1>11. NoNewNames
  BY <1>8, KeptNames
<1>12. ObjectsStay /\ NobodyMoves
  BY <1>3, <1>7, <1>9 DEF ObjectsStay, NobodyMoves, SameWorld, OTypeOK
<1>13. NamesOk'
  BY <1>3, <1>11, <1>12, NamesKept DEF Core
<1>14. Settled
  <2>1. StampsOk'
    BY <1>2, <1>7 DEF Core, AliasInv, StampsOk, SameWorld, SameStamps
  <2>2. NamesFresh
    BY <1>11 DEF NoNewNames, NamesFresh
  <2>3. IdsFresh
    BY <1>8 DEF IdsFresh, OpenIds
  <2>4. BorrowsGrow /\ pos <= pos'
    BY <1>2, <1>3 DEF BorrowsGrow
  <2>5. Calm(objects')
    BY <1>7, StampsCalm
  <2> QED
    BY <1>9, <1>10, <1>12, <1>13, <2>1, <2>2, <2>3, <2>4, <2>5 DEF Settled, Onward
<1>15. Core'
  BY <1>7, <1>14, CoreKept DEF SameWorld
<1> QED
  BY <1>7, <1>11, <1>14, <1>15 DEF SameWorld

-----------------------------------------------------------------------------
(* The borrows a step registers.                                           *)

NewBorn == \A j \in DOMAIN borrows' : j \in DOMAIN borrows \/ (borrows'[j].born = pos' /\ pos < pos')

(* None of them for a name, or one, number k, for v.                       *)
SilentBorrows == \A j \in DOMAIN borrows' : j \in DOMAIN borrows \/ borrows'[j].var = NoName

FreshBorrow(k, v) ==
  /\ k \in DOMAIN borrows' /\ k \notin DOMAIN borrows /\ borrows'[k].var = v
  /\ \A j \in DOMAIN borrows' : j \in DOMAIN borrows \/ j = k \/ borrows'[j].var = NoName

LEMMA ConcatOnly ==
  ASSUME OTypeOK, NEW t \in Seq(Borrows), borrows' = borrows \o t
  PROVE  /\ \A j \in DOMAIN borrows' :
              j \in DOMAIN borrows \/ \E i \in DOMAIN t : j = Len(borrows) + i
         /\ \A i \in DOMAIN t : Len(borrows) + i \notin DOMAIN borrows
<1>1. borrows \in Seq(Borrows) /\ Len(borrows) \in Nat /\ Len(t) \in Nat
      /\ DOMAIN t = 1..Len(t) /\ DOMAIN borrows = 1..Len(borrows)
  BY DEF OTypeOK
<1>2. DOMAIN borrows' = 1..Len(borrows) + Len(t)
  <2>1. borrows' \in Seq(Borrows) /\ Len(borrows') = Len(borrows) + Len(t)
    BY ConcatGrows
  <2> QED
    BY <2>1
<1>3. ASSUME NEW j \in DOMAIN borrows', j \notin DOMAIN borrows
      PROVE  \E i \in DOMAIN t : j = Len(borrows) + i
  <2>1. j - Len(borrows) \in DOMAIN t /\ j = Len(borrows) + (j - Len(borrows))
    BY <1>1, <1>2, <1>3
  <2> QED
    BY <2>1
<1> QED
  BY <1>1, <1>3

(* One more borrow.                                                        *)
LEMMA OneBorrow ==
  ASSUME OTypeOK, NEW b \in Borrows, borrows' = borrows \o <<b>>
  PROVE  /\ Len(borrows) + 1 \in DOMAIN borrows' /\ Len(borrows) + 1 \notin DOMAIN borrows
         /\ borrows'[Len(borrows) + 1] = b /\ BorrowsGrow
         /\ \A j \in DOMAIN borrows' : j \in DOMAIN borrows \/ j = Len(borrows) + 1
<1>1. PICK t : t = <<b>>
  OBVIOUS
<1>2. t \in Seq(Borrows) /\ DOMAIN t = {1} /\ t[1] = b
  BY <1>1
<1>3. borrows' = borrows \o t
  BY <1>1
<1>4. /\ BorrowsGrow
      /\ \A i \in DOMAIN t : /\ Len(borrows) + i \in DOMAIN borrows'
                             /\ borrows'[Len(borrows) + i] = t[i]
  BY <1>2, <1>3, ConcatGrows
<1>5. /\ \A j \in DOMAIN borrows' :
           j \in DOMAIN borrows \/ \E i \in DOMAIN t : j = Len(borrows) + i
      /\ \A i \in DOMAIN t : Len(borrows) + i \notin DOMAIN borrows
  BY <1>2, <1>3, ConcatOnly
<1> QED
  BY <1>2, <1>4, <1>5

LEMMA TwoBorrows ==
  ASSUME OTypeOK, NEW b \in Borrows, NEW c \in Borrows, borrows' = borrows \o <<b, c>>
  PROVE  /\ Len(borrows) + 1 \in DOMAIN borrows' /\ Len(borrows) + 1 \notin DOMAIN borrows
         /\ borrows'[Len(borrows) + 1] = b /\ borrows'[Len(borrows) + 2] = c
         /\ \A j \in DOMAIN borrows' :
              j \in DOMAIN borrows \/ j = Len(borrows) + 1 \/ j = Len(borrows) + 2
<1>1. PICK t : t = <<b, c>>
  OBVIOUS
<1>2. t \in Seq(Borrows) /\ DOMAIN t = {1, 2} /\ t[1] = b /\ t[2] = c
  BY <1>1
<1>3. borrows' = borrows \o t
  BY <1>1
<1>4. \A i \in DOMAIN t : /\ Len(borrows) + i \in DOMAIN borrows'
                          /\ borrows'[Len(borrows) + i] = t[i]
  BY <1>2, <1>3, ConcatGrows
<1>5. /\ \A j \in DOMAIN borrows' :
           j \in DOMAIN borrows \/ \E i \in DOMAIN t : j = Len(borrows) + i
      /\ \A i \in DOMAIN t : Len(borrows) + i \notin DOMAIN borrows
  BY <1>2, <1>3, ConcatOnly
<1> QED
  BY <1>2, <1>4, <1>5

(* The borrows of the statements.                                          *)
LEMMA NoBorrows ==
  ASSUME borrows' = borrows
  PROVE  SilentBorrows /\ NewBorn
  BY DEF SilentBorrows, NewBorn

LEMMA RecordIs ==
  ASSUME OTypeOK, NEW v \in Names \cup {NoName}, NEW s \in Vals, NEW mut \in BOOLEAN, pos' = Now
  PROVE  /\ Record(v, s, mut).var = v /\ Record(v, s, mut).born = pos' /\ pos < pos'
         /\ Record(v, s, mut).source = s /\ Record(v, s, mut).escapes = (s # Param)
  BY TopTyped DEF Record, OTypeOK

LEMMA LendBorrows ==
  ASSUME OTypeOK, NEW s \in Vals, NEW mut \in BOOLEAN, Lend(s, mut)
  PROVE  SilentBorrows /\ NewBorn
<1>1. PICK b : b = Record(NoName, s, mut)
  OBVIOUS
<1>2. pos' = Now /\ borrows' = Append(borrows, b)
  BY <1>1, ErrorFree DEF Lend
<1>3. b \in Borrows /\ b.var = NoName /\ b.born = pos' /\ pos < pos'
  BY <1>1, <1>2, RecordTyped, RecordIs
<1>4. borrows' = borrows \o <<b>>
  BY <1>2, <1>3, AppendIsConcat DEF OTypeOK
<1> QED
  BY <1>3, <1>4, OneBorrow DEF SilentBorrows, NewBorn

LEMMA StoreBorrows ==
  ASSUME OTypeOK, NEW w \in Boxes, NEW s \in Vals, StoreField(w, s)
  PROVE  SilentBorrows /\ NewBorn
<1>1. PICK mut \in BOOLEAN : mut = FALSE
  OBVIOUS
<1>2. PICK c : c = Record(NoName, s, mut)
  OBVIOUS
<1>3. PICK b : b = [c EXCEPT !.place = w]
  OBVIOUS
<1>4. pos' = Now /\ borrows' = borrows \o <<b, c>>
  BY <1>1, <1>2, <1>3, ErrorFree DEF StoreField
<1>5. c \in Borrows /\ c.var = NoName /\ c.born = pos' /\ pos < pos'
  <2>1. c \in Borrows
    BY <1>2, RecordTyped
  <2> QED
    BY <2>1, <1>2, <1>4, TopTyped DEF Record, OTypeOK
<1>6. b \in Borrows /\ b.var = NoName /\ b.born = pos'
  BY <1>3, <1>5 DEF Borrows
<1> QED
  BY <1>4, <1>5, <1>6, TwoBorrows DEF SilentBorrows, NewBorn

LEMMA LetRefBorrows ==
  ASSUME OTypeOK, NEW r \in Refs, NEW s \in Vals, NEW mut \in BOOLEAN, LetRef(r, s, mut)
  PROVE  /\ NewBorn
         /\ \E k \in DOMAIN borrows' : FreshBorrow(k, r) /\ borrows'[k] = Record(r, s, mut)
<1>1. PICK b : b = Record(r, s, mut)
  OBVIOUS
<1>2. pos' = Now /\ borrows' = Append(borrows, b) /\ r \in Names
  BY <1>1, ErrorFree DEF LetRef, Names
<1>3. b \in Borrows /\ b.var = r /\ b.born = pos' /\ pos < pos'
  BY <1>1, <1>2, RecordTyped, RecordIs
<1>4. borrows' = borrows \o <<b>>
  BY <1>2, <1>3, AppendIsConcat DEF OTypeOK
<1>5. PICK k : k = Len(borrows) + 1
  OBVIOUS
<1>6. /\ k \in DOMAIN borrows' /\ k \notin DOMAIN borrows /\ borrows'[k] = b
      /\ \A j \in DOMAIN borrows' : j \in DOMAIN borrows \/ j = k
  BY <1>3, <1>4, <1>5, OneBorrow
<1> QED
  BY <1>1, <1>3, <1>6 DEF FreshBorrow, NewBorn

LEMMA AssignRefBorrows ==
  ASSUME OTypeOK, NEW r \in Refs, NEW s \in Vals, NEW mut \in BOOLEAN, AssignRef(r, s, mut)
  PROVE  /\ NewBorn
         /\ \E k \in DOMAIN borrows' : FreshBorrow(k, r) /\ borrows'[k] = Record(r, s, mut)
<1>1. PICK b, c : b = Record(r, s, mut) /\ c = Record(NoName, s, mut)
  OBVIOUS
<1>2. pos' = Now /\ borrows' = borrows \o <<b, c>> /\ r \in Names
  BY <1>1, ErrorFree DEF AssignRef, Names
<1>3. /\ b \in Borrows /\ b.var = r /\ b.born = pos' /\ pos < pos'
      /\ c \in Borrows /\ c.var = NoName /\ c.born = pos'
  <2>1. b \in Borrows
    BY <1>1, <1>2, RecordTyped
  <2>2. c \in Borrows
    BY <1>1, RecordTyped
  <2> QED
    BY <2>1, <2>2, <1>1, <1>2, TopTyped DEF Record, OTypeOK
<1>4. PICK k, l : k = Len(borrows) + 1 /\ l = Len(borrows) + 2
  OBVIOUS
<1>5. /\ k \in DOMAIN borrows' /\ k \notin DOMAIN borrows /\ borrows'[k] = b /\ borrows'[l] = c
      /\ \A j \in DOMAIN borrows' : j \in DOMAIN borrows \/ j = k \/ j = l
  BY <1>2, <1>3, <1>4, TwoBorrows
<1> QED
  BY <1>1, <1>3, <1>5 DEF FreshBorrow, NewBorn

LEMMA CopyBorrows ==
  ASSUME OTypeOK, BornOk, NEW to \in Names, NEW from, pos' = Now,
         borrows' = borrows \o CopyOf(to, from)
  PROVE  /\ NewBorn
         /\ \/ borrows' = borrows /\ \A i \in DOMAIN borrows : borrows[i].var # from
            \/ \E i \in DOMAIN borrows, k \in DOMAIN borrows' :
                 Youngest(i, from) /\ FreshBorrow(k, to) /\ Copied(borrows'[k], i, to)
<1>1. CASE CopyOf(to, from) = <<>> /\ \A i \in DOMAIN borrows : borrows[i].var # from
  <2>1. borrows' = borrows
    BY <1>1, ConcatEmptySeq DEF OTypeOK
  <2> QED
    BY <1>1, <2>1, NoBorrows
<1>2. CASE \E i \in DOMAIN borrows, b \in Borrows :
             Youngest(i, from) /\ CopyOf(to, from) = <<b>> /\ Copied(b, i, to)
  <2>1. PICK i \in DOMAIN borrows, b \in Borrows :
          Youngest(i, from) /\ CopyOf(to, from) = <<b>> /\ Copied(b, i, to)
    BY <1>2
  <2>2. borrows' = borrows \o <<b>>
    BY <2>1
  <2>3. b.var = to /\ b.born = pos' /\ pos < pos'
    BY <2>1, TopTyped DEF Copied, OTypeOK
  <2>4. PICK k : k = Len(borrows) + 1
    OBVIOUS
  <2>5. /\ k \in DOMAIN borrows' /\ k \notin DOMAIN borrows /\ borrows'[k] = b
        /\ \A j \in DOMAIN borrows' : j \in DOMAIN borrows \/ j = k
    BY <2>2, <2>4, OneBorrow
  <2>6. NewBorn /\ FreshBorrow(k, to)
    BY <2>3, <2>5 DEF FreshBorrow, NewBorn
  <2>7. Copied(borrows'[k], i, to)
    BY <2>1, <2>5
  <2> QED
    BY <2>1, <2>5, <2>6, <2>7
<1> QED
  BY <1>1, <1>2, CopyOfIs

LEMMA BornKept ==
  ASSUME OTypeOK, OTypeOK', BornOk, BorrowsGrow, NewBorn, pos <= pos'
  PROVE  BornOk'
<1>1. pos \in Nat /\ pos' \in Nat
  BY DEF OTypeOK
<1>2. ASSUME NEW k \in DOMAIN borrows' PROVE borrows'[k].born \in 1..pos'
  <2>1. CASE k \in DOMAIN borrows
    <3>1. borrows[k].born \in 1..pos /\ borrows'[k] = borrows[k]
      BY <2>1 DEF BornOk, BorrowsGrow
    <3> QED
      BY <1>1, <3>1
  <2>2. CASE k \notin DOMAIN borrows
    BY <1>1, <2>2 DEF NewBorn
  <2> QED
    BY <2>1, <2>2
<1> QED
  BY <1>2 DEF BornOk

-----------------------------------------------------------------------------
(* Where objects are, by the names that are bound to them.                 *)

(* A name that is bound has been declared, at a statement before.          *)
DefsOk ==
  /\ \A v \in Names : defs[v] <= pos
  /\ \A f \in DOMAIN frames : \A v \in DOMAIN frames[f].bind : v = Param \/ defs[v] > 0

(* An object of a region is of one that was open when its name was         *)
(* declared, and its name is a local of a region open in that one.         *)
Placed(f, v, o) ==
  \/ objects[o].home \in {0, 1}
  \/ \E i, h \in RegionFrames : /\ h <= i /\ i <= f /\ v \in frames[i].locals
                                /\ objects[o].home = frames[h].id

LocalInv == \A f \in DOMAIN frames, v \in Names : Named(f, v) => Placed(f, v, At(f, v).obj)

DeadInv ==
  \A o \in DOMAIN objects :
    /\ objects[o].home <= pos + 1
    /\ objects[o].dead => objects[o].home # 0 /\ objects[o].home \notin OpenIds

ParamInv == \A f \in DOMAIN frames : Named(f, Param) => At(f, Param).obj = 1

(* While no name is declared again, of a variable or of a region.          *)
BoundOnce ==
  \A f, g \in DOMAIN frames, v \in Names :
    v \in DOMAIN frames[f].bind /\ v \in DOMAIN frames[g].bind => f = g

RegionOnce == \A f, g \in RegionFrames : frames[f].region = frames[g].region => f = g

(* regionck.allocated names the region the object is in.                   *)
AllocOk ==
  /\ \A v \in Names : v = Param \/ defs[v] = 0 => allocated[v] = NoName
  /\ \A f \in DOMAIN frames, v \in Names :
       Named(f, v) /\ allocated[v] # NoName =>
         \E h \in RegionFrames : /\ frames[h].region = allocated[v]
                                 /\ objects[At(f, v).obj].home = frames[h].id

OnceInv == ~shadowed => BoundOnce /\ RegionOnce /\ AllocOk

NameSide == DefsOk /\ LocalInv /\ DeadInv /\ ParamInv /\ OnceInv

(* Of a step that closes no block.                                         *)
FramesGrow ==
  \A f \in DOMAIN frames : /\ f \in DOMAIN frames' /\ SameButNames(frames'[f], frames[f])
                           /\ frames[f].locals \subseteq frames'[f].locals

LEMMA RegionsGrow ==
  ASSUME FramesGrow
  PROVE  /\ \A f \in RegionFrames : f \in RegionFrames'
         /\ \A f \in DOMAIN frames : f \in RegionFrames' => f \in RegionFrames
  BY DEF FramesGrow, SameButNames, RegionFrames

LEMMA PlacedStays ==
  ASSUME FramesGrow, ObjectsStay, NEW f, NEW v, NEW o \in DOMAIN objects, Placed(f, v, o)
  PROVE  Placed(f, v, o)'
<1>1. objects'[o].home = objects[o].home
  BY DEF ObjectsStay
<1>2. CASE objects[o].home \in {0, 1}
  BY <1>1, <1>2 DEF Placed
<1>3. CASE \E i, h \in RegionFrames : /\ h <= i /\ i <= f /\ v \in frames[i].locals
                                      /\ objects[o].home = frames[h].id
  <2>1. PICK i \in RegionFrames, h \in RegionFrames :
          h <= i /\ i <= f /\ v \in frames[i].locals /\ objects[o].home = frames[h].id
    BY <1>3
  <2>2. i \in RegionFrames' /\ h \in RegionFrames' /\ i \in DOMAIN frames /\ h \in DOMAIN frames
    BY <2>1, RegionsGrow DEF RegionFrames
  <2>3. v \in frames'[i].locals /\ objects'[o].home = frames'[h].id
    BY <1>1, <2>1, <2>2 DEF FramesGrow, SameButNames
  <2> QED
    BY <2>1, <2>2, <2>3 DEF Placed
<1> QED
  BY <1>2, <1>3 DEF Placed

(* Steps that declare nothing and keep the frames.                         *)
StillNames ==
  /\ Len(frames') = Len(frames)
  /\ \A f \in DOMAIN frames : /\ SameButNames(frames'[f], frames[f])
                              /\ frames'[f].locals = frames[f].locals
                              /\ DOMAIN frames'[f].bind = DOMAIN frames[f].bind
  /\ defs' = defs /\ allocated' = allocated /\ suspects' = suspects
  /\ shadowed' = shadowed /\ skipped' = skipped

LEMMA SameStill ==
  ASSUME Same
  PROVE  StillNames
  BY DEF Same, StillNames, SameButNames

LEMMA MarkedStill ==
  ASSUME NEW v, Marked(v), defs' = defs, allocated' = allocated, suspects' = suspects,
         shadowed' = shadowed, skipped' = skipped
  PROVE  StillNames
  BY DEF Marked, StillNames

LEMMA StillFrames ==
  ASSUME OTypeOK, OTypeOK', StillNames
  PROVE  /\ FramesGrow /\ DOMAIN frames' = DOMAIN frames /\ RegionFrames' = RegionFrames
         /\ OpenIds' = OpenIds
<1>1. DOMAIN frames' = DOMAIN frames
  BY DEF StillNames, OTypeOK
<1>2. FramesGrow
  BY <1>1 DEF StillNames, FramesGrow
<1>3. RegionFrames' = RegionFrames
  BY <1>1 DEF StillNames, SameButNames, RegionFrames
<1>4. OpenIds' = OpenIds
  BY <1>1 DEF StillNames, SameButNames, OpenIds
<1> QED
  BY <1>1, <1>2, <1>3, <1>4

LEMMA NameSideStill ==
  ASSUME Core, Settled, NameSide, StillNames, NoNewNames, DOMAIN objects' = DOMAIN objects,
         \A i \in DOMAIN objects : objects'[i].dead = objects[i].dead
  PROVE  NameSide'
<1>1. /\ FramesGrow /\ DOMAIN frames' = DOMAIN frames /\ RegionFrames' = RegionFrames
      /\ OpenIds' = OpenIds
  BY StillFrames DEF Core, Settled
<1>2. /\ pos \in Nat /\ pos' \in Nat /\ pos <= pos' /\ ObjectsStay
      /\ \A v \in Names : defs[v] \in Nat
      /\ \A o \in DOMAIN objects : objects[o].home \in Nat
  <2>1. \A o \in DOMAIN objects : objects[o] \in Objs
    BY DEF Core, OTypeOK
  <2> QED
    BY <2>1 DEF Core, Settled, Onward, OTypeOK, Objs
<1>3. DefsOk'
  BY <1>1, <1>2 DEF NameSide, DefsOk, StillNames
<1>4. \A f \in DOMAIN frames', v \in Names : Named(f, v)' =>
        /\ Named(f, v) /\ f \in DOMAIN frames /\ At(f, v)'.obj = At(f, v).obj
        /\ At(f, v).obj \in DOMAIN objects
  BY DEF NoNewNames, OldName, Core, NamesOk
<1>5. LocalInv'
  <2> SUFFICES ASSUME NEW f \in DOMAIN frames', NEW v \in Names, Named(f, v)'
               PROVE  Placed(f, v, At(f, v).obj)'
    BY DEF LocalInv
  <2>1. PICK o : o = At(f, v)'.obj
    OBVIOUS
  <2>2. o \in DOMAIN objects /\ Placed(f, v, o)
    BY <1>4, <2>1 DEF NameSide, LocalInv
  <2>3. Placed(f, v, o)'
    BY <1>1, <1>2, <2>2, PlacedStays
  <2> QED
    BY <2>1, <2>3 DEF Placed
<1>6. DeadInv'
  <2> SUFFICES ASSUME NEW o \in DOMAIN objects'
               PROVE  /\ objects'[o].home <= pos' + 1
                      /\ objects'[o].dead => objects'[o].home # 0 /\ objects'[o].home \notin OpenIds'
    BY DEF DeadInv
  <2>1. objects'[o].home = objects[o].home /\ objects'[o].dead = objects[o].dead
    BY <1>2 DEF ObjectsStay
  <2>2. objects[o].home <= pos + 1
    BY DEF NameSide, DeadInv
  <2> QED
    BY <1>1, <1>2, <2>1, <2>2 DEF NameSide, DeadInv
<1>7. ParamInv'
  <2>1. Param \in Names
    BY OwnershipAssumption DEF Names
  <2> QED
    BY <1>4, <2>1 DEF NameSide, ParamInv
<1>8. ASSUME ~shadowed' PROVE BoundOnce' /\ RegionOnce' /\ AllocOk'
  <2>1. BoundOnce /\ RegionOnce /\ AllocOk
    BY <1>8 DEF NameSide, OnceInv, StillNames
  <2>2. BoundOnce'
    BY <1>1, <2>1 DEF BoundOnce, StillNames
  <2>3. \A f \in RegionFrames : frames'[f].region = frames[f].region /\ frames'[f].id = frames[f].id
    BY <1>1 DEF FramesGrow, SameButNames, RegionFrames
  <2>4. RegionOnce'
    BY <1>1, <2>1, <2>3 DEF RegionOnce
  <2>5. \A v \in Names : v = Param \/ defs'[v] = 0 => allocated'[v] = NoName
    BY <2>1 DEF AllocOk, StillNames
  <2>6. ASSUME NEW f \in DOMAIN frames', NEW v \in Names, Named(f, v)', allocated'[v] # NoName
        PROVE  \E h \in RegionFrames' : /\ frames'[h].region = allocated'[v]
                                        /\ objects'[At(f, v)'.obj].home = frames'[h].id
    <3>1. PICK o : o = At(f, v)'.obj
      OBVIOUS
    <3>2. /\ Named(f, v) /\ f \in DOMAIN frames /\ At(f, v).obj = o /\ o \in DOMAIN objects
          /\ allocated[v] # NoName /\ allocated'[v] = allocated[v]
      BY <1>4, <2>6, <3>1 DEF StillNames
    <3>3. PICK h \in RegionFrames : frames[h].region = allocated[v] /\ objects[o].home = frames[h].id
      BY <2>1, <3>2 DEF AllocOk
    <3>4. objects'[o].home = objects[o].home
      BY <1>2, <3>2 DEF ObjectsStay
    <3> QED
      BY <1>1, <2>3, <3>1, <3>2, <3>3, <3>4
  <2>7. AllocOk'
    BY <2>5, <2>6 DEF AllocOk
  <2> QED
    BY <2>2, <2>4, <2>7
<1> QED
  BY <1>3, <1>5, <1>6, <1>7, <1>8 DEF NameSide, OnceInv

(* A declaration puts its object in the body, in an open region, or on the *)
(* stack, and knows the region by its name.                                *)
HomeOpen(home) == home \in {0, 1} \/ \E h \in RegionFrames : home = frames[h].id

LEMMA DeclaredFrames ==
  ASSUME OTypeOK, NEW x, NEW mut, Declared(x, mut)
  PROVE  /\ FramesGrow /\ DOMAIN frames' = DOMAIN frames /\ RegionFrames' = RegionFrames
         /\ OpenIds' = OpenIds
         /\ \A f \in DOMAIN frames :
              DOMAIN frames'[f].bind = DOMAIN frames[f].bind \cup (IF f = Top THEN {x} ELSE {})
<1>1. DOMAIN frames' = DOMAIN frames
  BY DEF Declared, OTypeOK
<1>2. FramesGrow
  BY <1>1 DEF Declared, FramesGrow
<1>3. RegionFrames' = RegionFrames
  BY <1>1 DEF Declared, SameButNames, RegionFrames
<1>4. OpenIds' = OpenIds
  BY <1>1 DEF Declared, SameButNames, OpenIds
<1> QED
  BY <1>1, <1>2, <1>3, <1>4 DEF Declared

LEMMA NameSideDeclared ==
  ASSUME Core, Settled, NameSide, NEW x \in Names, x # Param, NEW mut, NEW object,
         Declared(x, mut), NamesFrom(x, mut), Added(object), pos' = Now,
         defs' = [defs EXCEPT ![x] = Now], shadowed' = (shadowed \/ defs[x] > 0),
         \A v \in Names : v # x => allocated'[v] = allocated[v],
         Live => object.dead = FALSE /\ HomeOpen(object.home),
         Live /\ ~shadowed' /\ allocated'[x] # NoName =>
           \E h \in RegionFrames : /\ frames[h].region = allocated'[x]
                                   /\ object.home = frames[h].id
  PROVE  NameSide'
<1>1. /\ FramesGrow /\ DOMAIN frames' = DOMAIN frames /\ RegionFrames' = RegionFrames
      /\ OpenIds' = OpenIds
      /\ \A f \in DOMAIN frames :
           DOMAIN frames'[f].bind = DOMAIN frames[f].bind \cup (IF f = Top THEN {x} ELSE {})
  BY DeclaredFrames DEF Core
<1>2. /\ pos \in Nat /\ pos' = pos + 1 /\ ObjectsStay /\ Top \in DOMAIN frames /\ Now = pos + 1
      /\ \A v \in Names : defs[v] \in Nat
      /\ \A o \in DOMAIN objects : objects[o].home \in Nat
  <2>1. \A o \in DOMAIN objects : objects[o] \in Objs
    BY DEF Core, OTypeOK
  <2> QED
    BY <2>1, TopTyped DEF Core, Settled, Onward, OTypeOK, Objs
<1>3. /\ defs'[x] = pos + 1 /\ \A v \in Names : v # x => defs'[v] = defs[v]
  BY <1>2 DEF Core, OTypeOK
<1>4. \A f \in DOMAIN frames : DOMAIN frames[f].bind \subseteq Names
  BY BindingsTyped DEF Core
<1>5. DefsOk'
  <2>1. \A v \in Names : defs'[v] <= pos'
    BY <1>2, <1>3 DEF NameSide, DefsOk
  <2>2. ASSUME NEW f \in DOMAIN frames', NEW v \in DOMAIN frames'[f].bind
        PROVE  v = Param \/ defs'[v] > 0
    <3>1. CASE v = x
      BY <1>2, <1>3, <3>1
    <3>2. CASE v # x
      <4>1. v \in DOMAIN frames[f].bind /\ f \in DOMAIN frames
        BY <1>1, <2>2, <3>2
      <4> QED
        BY <1>3, <1>4, <3>2, <4>1 DEF NameSide, DefsOk
    <3> QED
      BY <3>1, <3>2
  <2> QED
    BY <2>1, <2>2 DEF DefsOk
<1>6. PICK n : n = Len(objects)
  OBVIOUS
<1>7. n \in Nat /\ DOMAIN objects = 1..n
  BY <1>6 DEF Core, OTypeOK
<1>8. ASSUME NEW f \in DOMAIN frames', NEW v \in Names, Named(f, v)'
      PROVE  \/ /\ Named(f, v) /\ f \in DOMAIN frames /\ At(f, v)'.obj = At(f, v).obj
                /\ At(f, v).obj \in DOMAIN objects /\ v \in DOMAIN frames[f].bind
             \/ Live /\ f = Top /\ v = x /\ At(f, v)'.obj = n + 1
  <2>1. OldName(f, v) \/ NewName(f, v, x, mut)
    BY <1>8 DEF NamesFrom
  <2>2. CASE OldName(f, v)
    BY <2>2 DEF OldName, Core, NamesOk, Named
  <2>3. CASE NewName(f, v, x, mut)
    BY <2>3, <1>6 DEF NewName
  <2> QED
    BY <2>1, <2>2, <2>3
<1>9. Live => /\ n + 1 \in DOMAIN objects' /\ objects'[n + 1] = object
              /\ \A o \in DOMAIN objects' : o \in DOMAIN objects \/ o = n + 1
  BY <1>6, <1>7 DEF Added
<1>10. PICK top : top = Top
  OBVIOUS
<1>11. Live => Placed(top, x, n + 1)'
  <2>1. SUFFICES ASSUME Live PROVE Placed(top, x, n + 1)'
    OBVIOUS
  <2>2. CASE object.home \in {0, 1}
    BY <2>1, <2>2, <1>9 DEF Placed
  <2>3. CASE \E h \in RegionFrames : object.home = frames[h].id
    <3>1. PICK h \in RegionFrames : object.home = frames[h].id
      BY <2>3
    <3>2. PICK i : i = InnermostRegion
      OBVIOUS
    <3>3. i \in RegionFrames /\ i \in DOMAIN frames /\ h <= i
      BY <3>1, <3>2, InnermostTyped DEF Core
    <3>4. i <= top
      BY <3>3, <1>10 DEF Core, OTypeOK, Top
    <3>5. x \in frames'[i].locals /\ frames'[h].id = frames[h].id
      BY <3>1, <3>2, <3>3 DEF Declared, SameButNames, RegionFrames
    <3> QED
      BY <1>1, <1>9, <2>1, <3>1, <3>3, <3>4, <3>5 DEF Placed
  <2> QED
    BY <2>1, <2>2, <2>3 DEF HomeOpen
<1>12. LocalInv'
  <2> SUFFICES ASSUME NEW f \in DOMAIN frames', NEW v \in Names, Named(f, v)'
               PROVE  Placed(f, v, At(f, v).obj)'
    BY DEF LocalInv
  <2>1. PICK o : o = At(f, v)'.obj
    OBVIOUS
  <2>2. CASE /\ Named(f, v) /\ f \in DOMAIN frames /\ At(f, v)'.obj = At(f, v).obj
             /\ At(f, v).obj \in DOMAIN objects
    <3>1. o \in DOMAIN objects /\ Placed(f, v, o)
      BY <2>1, <2>2 DEF NameSide, LocalInv
    <3>2. Placed(f, v, o)'
      BY <1>1, <1>2, <3>1, PlacedStays
    <3> QED
      BY <2>1, <3>2 DEF Placed
  <2>3. CASE Live /\ f = Top /\ v = x /\ At(f, v)'.obj = n + 1
    BY <1>10, <1>11, <2>3 DEF Placed
  <2> QED
    BY <1>8, <2>2, <2>3
<1>13. DeadInv'
  <2>1. ASSUME NEW o \in DOMAIN objects
        PROVE  /\ objects'[o].home <= pos' + 1
               /\ objects'[o].dead => objects'[o].home # 0 /\ objects'[o].home \notin OpenIds'
    <3>1. objects'[o].home = objects[o].home /\ objects'[o].dead = objects[o].dead
      BY <1>2 DEF ObjectsStay, Added, SameObj
    <3>2. objects[o].home <= pos + 1
      BY DEF NameSide, DeadInv
    <3> QED
      BY <1>1, <1>2, <3>1, <3>2 DEF NameSide, DeadInv
  <2>2. ASSUME Live PROVE objects'[n + 1].home <= pos' + 1 /\ ~objects'[n + 1].dead
    <3>1. objects'[n + 1] = object /\ ~object.dead /\ HomeOpen(object.home)
      BY <1>9, <2>2
    <3>2. \A h \in RegionFrames : frames[h].id \in 1..pos + 1
      BY DEF Core, FramesOk, RegionFrames
    <3>3. object.home \in Nat /\ object.home <= pos' + 1
      BY <1>2, <3>1, <3>2 DEF HomeOpen
    <3> QED
      BY <3>1, <3>3
  <2>3. \A o \in DOMAIN objects' : o \in DOMAIN objects \/ (Live /\ o = n + 1)
    BY <1>9 DEF Added
  <2> QED
    BY <2>1, <2>2, <2>3 DEF DeadInv
<1>14. ParamInv'
  <2>1. Param \in Names
    BY OwnershipAssumption DEF Names
  <2> QED
    BY <1>8, <2>1 DEF NameSide, ParamInv
<1>15. ASSUME ~shadowed' PROVE BoundOnce' /\ RegionOnce' /\ AllocOk'
  <2>1. BoundOnce /\ RegionOnce /\ AllocOk /\ defs[x] = 0
    <3>1. ~shadowed /\ ~(defs[x] > 0)
      BY <1>15
    <3>2. defs[x] = 0
      BY <1>2, <3>1
    <3> QED
      BY <3>1, <3>2 DEF NameSide, OnceInv
  <2>2. \A f \in DOMAIN frames : x \notin DOMAIN frames[f].bind
    BY <2>1 DEF NameSide, DefsOk
  <2>3. BoundOnce'
    BY <1>1, <2>1, <2>2 DEF BoundOnce
  <2>4. \A f \in RegionFrames : frames'[f].region = frames[f].region /\ frames'[f].id = frames[f].id
    BY <1>1 DEF FramesGrow, SameButNames, RegionFrames
  <2>5. RegionOnce'
    BY <1>1, <2>1, <2>4 DEF RegionOnce
  <2>6. \A v \in Names : v = Param \/ defs'[v] = 0 => allocated'[v] = NoName
    BY <1>2, <1>3, <2>1 DEF AllocOk
  <2>7. ASSUME NEW f \in DOMAIN frames', NEW v \in Names, Named(f, v)', allocated'[v] # NoName
        PROVE  \E h \in RegionFrames' : /\ frames'[h].region = allocated'[v]
                                        /\ objects'[At(f, v)'.obj].home = frames'[h].id
    <3>1. PICK o : o = At(f, v)'.obj
      OBVIOUS
    <3>2. CASE /\ Named(f, v) /\ f \in DOMAIN frames /\ At(f, v)'.obj = At(f, v).obj
               /\ At(f, v).obj \in DOMAIN objects /\ v \in DOMAIN frames[f].bind
      <4>1. v # x /\ allocated'[v] = allocated[v]
        BY <2>2, <3>2
      <4>2. PICK h \in RegionFrames : frames[h].region = allocated[v] /\ objects[o].home = frames[h].id
        BY <2>1, <2>7, <3>1, <3>2, <4>1 DEF AllocOk
      <4>3. objects'[o].home = objects[o].home
        BY <1>2, <3>1, <3>2 DEF ObjectsStay
      <4> QED
        BY <1>1, <2>4, <3>1, <4>1, <4>2, <4>3
    <3>3. CASE Live /\ f = Top /\ v = x /\ At(f, v)'.obj = n + 1
      <4>1. PICK h \in RegionFrames : /\ frames[h].region = allocated'[x]
                                      /\ object.home = frames[h].id
        BY <1>15, <2>7, <3>3
      <4> QED
        BY <1>1, <1>9, <2>4, <3>3, <4>1
    <3> QED
      BY <1>8, <2>7, <3>2, <3>3
  <2>8. AllocOk'
    BY <2>6, <2>7 DEF AllocOk
  <2> QED
    BY <2>3, <2>5, <2>8
<1> QED
  BY <1>5, <1>12, <1>13, <1>14, <1>15 DEF NameSide, OnceInv

LEMMA NameSideOpened ==
  ASSUME Core, Settled, NameSide, NoNewNames, objects' = objects,
         NEW kind, NEW r \in Regions \cup {NoName}, NEW taken \in BOOLEAN, OpenBlock(kind, r, taken)
  PROVE  NameSide' /\ FramesGrow
<1>1. /\ pos' = Now /\ defs' = defs /\ allocated' = allocated
      /\ shadowed' = (shadowed \/ r \in {frames[f].region : f \in RegionFrames})
  BY ErrorFree DEF OpenBlock
<1>2. /\ pos \in Nat /\ Now = pos + 1 /\ Top \in Nat /\ Top >= 1 /\ DOMAIN frames = 1..Top
      /\ \A v \in Names : defs[v] \in Nat
      /\ \A o \in DOMAIN objects : objects[o].home \in Nat
  <2>1. \A o \in DOMAIN objects : objects[o] \in Objs
    BY DEF Core, OTypeOK
  <2> QED
    BY <2>1, TopTyped DEF Core, OTypeOK, Objs, Top
<1>3. /\ frames' \in Seq(Frames) /\ Len(frames') = Top + 1
      /\ \A f \in DOMAIN frames : frames'[f] = frames[f]
      /\ frames'[Top + 1].id = Now + 1 /\ frames'[Top + 1].region = r
      /\ DOMAIN frames'[Top + 1].bind = {}
  BY OpenFrames DEF Core
<1>4. DOMAIN frames' = 1..Top + 1
  BY <1>3
<1>5. PICK n : n = Top + 1
  OBVIOUS
<1>6. /\ \A f \in DOMAIN frames' : f \in DOMAIN frames \/ f = n
      /\ \A f \in DOMAIN frames : f \in DOMAIN frames' /\ frames'[f] = frames[f] /\ f # n
      /\ frames'[n].id = Now + 1 /\ frames'[n].region = r /\ DOMAIN frames'[n].bind = {}
  BY <1>2, <1>3, <1>4, <1>5
<1>7. FramesGrow
  BY <1>6 DEF FramesGrow, SameButNames
<1>8. \A f \in RegionFrames' : f \in RegionFrames \/ (f = n /\ r # NoName)
  BY <1>6 DEF RegionFrames
<1>9. DefsOk'
  <2>1. \A v \in Names : defs'[v] <= pos'
    BY <1>1, <1>2 DEF NameSide, DefsOk
  <2>2. \A f \in DOMAIN frames' : \A v \in DOMAIN frames'[f].bind : v = Param \/ defs'[v] > 0
    BY <1>1, <1>6 DEF NameSide, DefsOk
  <2> QED
    BY <2>1, <2>2 DEF DefsOk
<1>10. \A f \in DOMAIN frames', v \in Names : Named(f, v)' =>
        /\ Named(f, v) /\ f \in DOMAIN frames /\ At(f, v)'.obj = At(f, v).obj
        /\ At(f, v).obj \in DOMAIN objects
  BY DEF NoNewNames, OldName, Core, NamesOk
<1>11. LocalInv'
  <2> SUFFICES ASSUME NEW f \in DOMAIN frames', NEW v \in Names, Named(f, v)'
               PROVE  Placed(f, v, At(f, v).obj)'
    BY DEF LocalInv
  <2>1. PICK o : o = At(f, v)'.obj
    OBVIOUS
  <2>2. o \in DOMAIN objects /\ Placed(f, v, o)
    BY <1>10, <2>1 DEF NameSide, LocalInv
  <2>3. Placed(f, v, o)'
    BY <1>7, <2>2, PlacedStays DEF Settled, Onward
  <2> QED
    BY <2>1, <2>3 DEF Placed
<1>12. DeadInv'
  <2> SUFFICES ASSUME NEW o \in DOMAIN objects
               PROVE  /\ objects[o].home <= pos' + 1
                      /\ objects[o].dead => objects[o].home # 0 /\ objects[o].home \notin OpenIds'
    BY DEF DeadInv
  <2>1. objects[o].home \in Nat /\ objects[o].home <= pos + 1
    BY <1>2 DEF NameSide, DeadInv
  <2>2. \A i \in OpenIds' : i \in OpenIds \/ i = Now + 1
    BY <1>6 DEF OpenIds
  <2>3. objects[o].home \in OpenIds' => objects[o].home \in OpenIds
    BY <1>2, <2>1, <2>2
  <2>4. objects[o].home <= pos' + 1
    BY <1>1, <1>2, <2>1
  <2> QED
    BY <2>3, <2>4 DEF NameSide, DeadInv
<1>13. ParamInv'
  <2>1. Param \in Names
    BY OwnershipAssumption DEF Names
  <2> QED
    BY <1>10, <2>1 DEF NameSide, ParamInv
<1>14. ASSUME ~shadowed' PROVE BoundOnce' /\ RegionOnce' /\ AllocOk'
  <2>1. ~shadowed /\ r \notin {frames[f].region : f \in RegionFrames}
    BY <1>1, <1>14
  <2>2. BoundOnce /\ RegionOnce /\ AllocOk
    BY <2>1 DEF NameSide, OnceInv
  <2>3. BoundOnce'
    BY <1>6, <2>2 DEF BoundOnce
  <2>4. RegionOnce'
    <3> SUFFICES ASSUME NEW f \in RegionFrames', NEW g \in RegionFrames',
                        frames'[f].region = frames'[g].region
                 PROVE  f = g
      BY DEF RegionOnce
    <3>1. \A h \in RegionFrames : h \in DOMAIN frames /\ frames'[h].region = frames[h].region
      BY <1>6 DEF RegionFrames
    <3>2. CASE f \in RegionFrames /\ g \in RegionFrames
      BY <2>2, <3>1, <3>2 DEF RegionOnce
    <3>3. CASE f = n /\ g \in RegionFrames
      BY <1>6, <2>1, <3>1, <3>3
    <3>4. CASE f \in RegionFrames /\ g = n
      BY <1>6, <2>1, <3>1, <3>4
    <3>5. CASE f = n /\ g = n
      BY <3>5
    <3> QED
      BY <1>8, <3>2, <3>3, <3>4, <3>5
  <2>5. \A v \in Names : v = Param \/ defs'[v] = 0 => allocated'[v] = NoName
    BY <1>1, <2>2 DEF AllocOk
  <2>6. ASSUME NEW f \in DOMAIN frames', NEW v \in Names, Named(f, v)', allocated'[v] # NoName
        PROVE  \E h \in RegionFrames' : /\ frames'[h].region = allocated'[v]
                                        /\ objects'[At(f, v)'.obj].home = frames'[h].id
    <3>1. PICK o : o = At(f, v)'.obj
      OBVIOUS
    <3>2. /\ Named(f, v) /\ f \in DOMAIN frames /\ At(f, v).obj = o
          /\ allocated[v] # NoName /\ allocated'[v] = allocated[v]
      BY <1>1, <1>10, <2>6, <3>1
    <3>3. PICK h \in RegionFrames : frames[h].region = allocated[v] /\ objects[o].home = frames[h].id
      BY <2>2, <3>2 DEF AllocOk
    <3>4. h \in DOMAIN frames /\ h \in RegionFrames' /\ frames'[h] = frames[h]
      BY <1>6, <1>7, <3>3, RegionsGrow DEF RegionFrames
    <3> QED
      BY <3>1, <3>2, <3>3, <3>4
  <2>7. AllocOk'
    BY <2>5, <2>6 DEF AllocOk
  <2> QED
    BY <2>3, <2>4, <2>7
<1> QED
  BY <1>7, <1>9, <1>11, <1>12, <1>13, <1>14 DEF NameSide, OnceInv

(* The end of a block: what is named lies further out.                     *)
LEMMA ClosedFrames ==
  ASSUME OTypeOK, CloseBlock
  PROVE  /\ \A f \in DOMAIN frames' : f \in DOMAIN frames /\ f < Top /\ frames'[f] = frames[f]
         /\ \A f \in DOMAIN frames : f < Top => f \in DOMAIN frames'
         /\ \A f \in DOMAIN frames : f \in Nat /\ f <= Top
         /\ Top \in Nat
<1>1. /\ Len(frames') = Top - 1 /\ frames' \in Seq(Frames) /\ Top \in Nat
      /\ \A f \in DOMAIN frames' : f \in DOMAIN frames /\ f < Top /\ frames'[f] = frames[f]
  BY CloseFrames, TopTyped
<1>2. DOMAIN frames' = 1..Top - 1 /\ DOMAIN frames = 1..Top
  BY <1>1 DEF OTypeOK, Top
<1> QED
  BY <1>1, <1>2

LEMMA NameSideClosed ==
  ASSUME Core, Settled, NameSide, NoNewNames, CloseBlock, DOMAIN objects' = DOMAIN objects,
         \A i \in DOMAIN objects :
           objects'[i].dead => objects[i].dead \/ (/\ frames[Top].region # NoName
                                                   /\ objects[i].home = frames[Top].id)
  PROVE  NameSide'
<1>1. /\ pos' = pos /\ defs' = defs /\ shadowed' = shadowed
      /\ allocated' = [v \in Names |->
           IF allocated[v] = frames[Top].region THEN NoName ELSE allocated[v]]
  BY DEF CloseBlock
<1>2. /\ \A f \in DOMAIN frames' : f \in DOMAIN frames /\ f < Top /\ frames'[f] = frames[f]
      /\ \A f \in DOMAIN frames : f < Top => f \in DOMAIN frames'
      /\ \A f \in DOMAIN frames : f \in Nat /\ f <= Top
      /\ Top \in Nat
  BY ClosedFrames DEF Core
<1>3. \A f \in RegionFrames : f < Top => f \in RegionFrames' /\ frames'[f] = frames[f]
  BY <1>2 DEF RegionFrames
<1>4. \A f \in RegionFrames' : f \in RegionFrames /\ f < Top /\ frames'[f] = frames[f]
  BY <1>2 DEF RegionFrames
<1>5. \A f \in DOMAIN frames', v \in Names : Named(f, v)' =>
        /\ Named(f, v) /\ f \in DOMAIN frames /\ f < Top /\ At(f, v)'.obj = At(f, v).obj
        /\ At(f, v).obj \in DOMAIN objects
  BY <1>2 DEF NoNewNames, OldName, Core, NamesOk
<1>6. \A o \in DOMAIN objects : objects'[o].home = objects[o].home
  BY DEF Settled, Onward, ObjectsStay
<1>7. DefsOk'
  BY <1>1, <1>2 DEF NameSide, DefsOk
<1>8. LocalInv'
  <2> SUFFICES ASSUME NEW f \in DOMAIN frames', NEW v \in Names, Named(f, v)'
               PROVE  Placed(f, v, At(f, v).obj)'
    BY DEF LocalInv
  <2>1. PICK o : o = At(f, v)'.obj
    OBVIOUS
  <2>2. o \in DOMAIN objects /\ Placed(f, v, o) /\ f < Top /\ f \in DOMAIN frames
    BY <1>5, <2>1 DEF NameSide, LocalInv
  <2>3. Placed(f, v, o)'
    <3>1. CASE objects[o].home \in {0, 1}
      BY <1>6, <2>2, <3>1 DEF Placed
    <3>2. CASE \E i, h \in RegionFrames : /\ h <= i /\ i <= f /\ v \in frames[i].locals
                                          /\ objects[o].home = frames[h].id
      <4>1. PICK i \in RegionFrames, h \in RegionFrames :
              h <= i /\ i <= f /\ v \in frames[i].locals /\ objects[o].home = frames[h].id
        BY <3>2
      <4>2. i \in DOMAIN frames /\ h \in DOMAIN frames
        BY DEF RegionFrames
      <4>3. i < Top /\ h < Top
        BY <1>2, <2>2, <4>1, <4>2
      <4> QED
        BY <1>3, <1>6, <2>2, <4>1, <4>3 DEF Placed
    <3> QED
      BY <2>2, <3>1, <3>2 DEF Placed
  <2> QED
    BY <2>1, <2>3 DEF Placed
<1>9. DeadInv'
  <2> SUFFICES ASSUME NEW o \in DOMAIN objects
               PROVE  /\ objects'[o].home <= pos' + 1
                      /\ objects'[o].dead => objects'[o].home # 0 /\ objects'[o].home \notin OpenIds'
    BY DEF DeadInv
  <2>1. objects'[o].home <= pos' + 1
    BY <1>1, <1>6 DEF NameSide, DeadInv
  <2>2. CASE objects[o].dead
    BY <1>2, <1>6, <2>1, <2>2 DEF NameSide, DeadInv, OpenIds
  <2>3. CASE objects[o].home = frames[Top].id
    <3>1. Top \in DOMAIN frames /\ \A f \in DOMAIN frames : frames[f].id \in 1..pos + 1
      BY TopTyped DEF Core, FramesOk
    <3>2. \A f \in DOMAIN frames' : frames'[f].id < frames[Top].id
      BY <1>2, <3>1 DEF Core, FramesOk
    <3>3. \A f \in DOMAIN frames' : frames'[f].id # frames[Top].id
      <4> TAKE f \in DOMAIN frames'
      <4>1. f \in DOMAIN frames /\ frames'[f] = frames[f]
        BY <1>2
      <4>2. frames'[f].id \in Nat /\ frames[Top].id \in Nat
        BY <3>1, <4>1
      <4> QED
        BY <3>2, <4>2
    <3>4. frames[Top].id # 0
      BY <3>1
    <3> QED
      BY <1>6, <2>1, <2>3, <3>3, <3>4 DEF OpenIds
  <2>4. CASE ~objects'[o].dead
    BY <2>1, <2>4
  <2> QED
    BY <2>2, <2>3, <2>4
<1>10. ParamInv'
  <2>1. Param \in Names
    BY OwnershipAssumption DEF Names
  <2> QED
    BY <1>5, <2>1 DEF NameSide, ParamInv
<1>11. ASSUME ~shadowed' PROVE BoundOnce' /\ RegionOnce' /\ AllocOk'
  <2>1. BoundOnce /\ RegionOnce /\ AllocOk
    BY <1>1, <1>11 DEF NameSide, OnceInv
  <2>2. BoundOnce'
    BY <1>2, <2>1 DEF BoundOnce
  <2>3. RegionOnce'
    BY <1>4, <2>1 DEF RegionOnce
  <2>4. \A v \in Names : v = Param \/ defs'[v] = 0 => allocated'[v] = NoName
    BY <1>1, <2>1 DEF AllocOk
  <2>5. ASSUME NEW f \in DOMAIN frames', NEW v \in Names, Named(f, v)', allocated'[v] # NoName
        PROVE  \E h \in RegionFrames' : /\ frames'[h].region = allocated'[v]
                                        /\ objects'[At(f, v)'.obj].home = frames'[h].id
    <3>1. PICK o : o = At(f, v)'.obj
      OBVIOUS
    <3>2. /\ Named(f, v) /\ f \in DOMAIN frames /\ At(f, v).obj = o /\ o \in DOMAIN objects
          /\ allocated[v] # NoName /\ allocated'[v] = allocated[v]
          /\ allocated[v] # frames[Top].region
      BY <1>1, <1>5, <2>5, <3>1
    <3>3. PICK h \in RegionFrames : frames[h].region = allocated[v] /\ objects[o].home = frames[h].id
      BY <2>1, <3>2 DEF AllocOk
    <3>4. h \in DOMAIN frames /\ h # Top
      BY <3>2, <3>3 DEF RegionFrames
    <3>5. h < Top
      BY <1>2, <3>4
    <3> QED
      BY <1>3, <1>6, <3>1, <3>2, <3>3, <3>5
  <2>6. AllocOk'
    BY <2>4, <2>5 DEF AllocOk
  <2> QED
    BY <2>2, <2>3, <2>6
<1> QED
  BY <1>7, <1>8, <1>9, <1>10, <1>11 DEF NameSide, OnceInv

-----------------------------------------------------------------------------
(* References and the youngest borrow of their name.                       *)

(* What a borrow knows of the referent: it is in the body or on the stack, *)
(* or goes with a region that the borrowed name is local to, or one        *)
(* further out, open since before the borrow.                              *)
Held(b, o) ==
  \/ objects[o].home \in {0, 1}
  \/ \E j, h \in RegionFrames : /\ h <= j /\ b.source \in frames[j].locals
                                /\ frames[j].start < b.born /\ objects[o].home = frames[h].id

(* The youngest borrow of a name stands for the reference it holds.        *)
Tracked(ref, v) ==
  /\ ref.to # 0
  /\ \E i \in DOMAIN borrows :
       /\ Youngest(i, v) /\ defs[v] <= borrows[i].born
       /\ ref.to > 1 => borrows[i].escapes
       /\ v \in suspects \/ Held(borrows[i], ref.to)

TrackInv ==
  ~shadowed /\ ~skipped =>
    \A f \in DOMAIN frames, v \in Refs : Named(f, v) => Tracked(objects[At(f, v).obj].ref, v)

(* Only names of references stand for references.                          *)
PlainInv ==
  \A f \in DOMAIN frames, v \in Names :
    Named(f, v) /\ v \notin Refs => objects[At(f, v).obj].ref.to = 0

LEMMA HeldStays ==
  ASSUME FramesGrow, ObjectsStay, NEW b, NEW o \in DOMAIN objects, Held(b, o)
  PROVE  Held(b, o)'
<1>1. objects'[o].home = objects[o].home
  BY DEF ObjectsStay
<1>2. CASE objects[o].home \in {0, 1}
  BY <1>1, <1>2 DEF Held
<1>3. CASE \E j, h \in RegionFrames : /\ h <= j /\ b.source \in frames[j].locals
                                      /\ frames[j].start < b.born
                                      /\ objects[o].home = frames[h].id
  <2>1. PICK j \in RegionFrames, h \in RegionFrames :
          /\ h <= j /\ b.source \in frames[j].locals
          /\ frames[j].start < b.born /\ objects[o].home = frames[h].id
    BY <1>3
  <2>2. j \in RegionFrames' /\ h \in RegionFrames' /\ j \in DOMAIN frames /\ h \in DOMAIN frames
    BY <2>1, RegionsGrow DEF RegionFrames
  <2>3. /\ b.source \in frames'[j].locals /\ objects'[o].home = frames'[h].id
        /\ frames'[j].start = frames[j].start
    BY <1>1, <2>1, <2>2 DEF FramesGrow, SameButNames
  <2> QED
    BY <2>1, <2>2, <2>3 DEF Held
<1> QED
  BY <1>2, <1>3 DEF Held

LEMMA YoungestStays ==
  ASSUME BorrowsGrow, NEW v, NEW i, Youngest(i, v),
         \A j \in DOMAIN borrows' : j \in DOMAIN borrows \/ borrows'[j].var # v
  PROVE  Youngest(i, v)'
  BY DEF Youngest, BorrowsGrow

LEMMA YoungestFresh ==
  ASSUME OTypeOK, OTypeOK', BornOk, BorrowsGrow, NEW v, v # NoName, NEW k, FreshBorrow(k, v),
         borrows'[k].born = pos', pos < pos'
  PROVE  Youngest(k, v)'
<1>1. pos \in Nat /\ pos' \in Nat /\ k \in DOMAIN borrows' /\ borrows'[k].var = v /\ k \in Nat
  BY DEF FreshBorrow, OTypeOK
<1>2. ASSUME NEW j \in DOMAIN borrows', borrows'[j].var = v
      PROVE  \/ borrows'[j].born < borrows'[k].born
             \/ borrows'[j].born = borrows'[k].born /\ j <= k
  <2>1. CASE j \in DOMAIN borrows
    <3>1. borrows[j].born \in 1..pos /\ borrows'[j] = borrows[j]
      BY <2>1 DEF BornOk, BorrowsGrow
    <3> QED
      BY <1>1, <3>1
  <2>2. CASE j \notin DOMAIN borrows
    <3>1. j = k
      BY <1>2, <2>2 DEF FreshBorrow
    <3> QED
      BY <1>1, <3>1
  <2> QED
    BY <2>1, <2>2
<1> QED
  BY <1>1, <1>2 DEF Youngest

LEMMA TrackedStays ==
  ASSUME BorrowsGrow, FramesGrow, ObjectsStay, NEW v, NEW ref, Tracked(ref, v),
         ref.to \in DOMAIN objects, defs'[v] = defs[v], v \in suspects => v \in suspects',
         \A j \in DOMAIN borrows' : j \in DOMAIN borrows \/ borrows'[j].var # v
  PROVE  Tracked(ref, v)'
<1>1. PICK i \in DOMAIN borrows :
        /\ Youngest(i, v) /\ defs[v] <= borrows[i].born
        /\ ref.to > 1 => borrows[i].escapes
        /\ v \in suspects \/ Held(borrows[i], ref.to)
  BY DEF Tracked
<1>2. PICK b : b = borrows[i]
  OBVIOUS
<1>3. i \in DOMAIN borrows' /\ borrows'[i] = b
  BY <1>1, <1>2 DEF BorrowsGrow
<1>4. Youngest(i, v)'
  BY <1>1, YoungestStays
<1>5. v \in suspects' \/ Held(b, ref.to)'
  BY <1>1, <1>2, HeldStays
<1> QED
  BY <1>1, <1>2, <1>3, <1>4, <1>5 DEF Tracked, Held

LEMMA TrackedNew ==
  ASSUME OTypeOK, OTypeOK', BornOk, BorrowsGrow, FramesGrow, ObjectsStay,
         NEW v, v # NoName, NEW k, FreshBorrow(k, v),
         borrows'[k].born = pos', pos < pos', defs'[v] <= pos',
         NEW ref, ref.to \in DOMAIN objects, ref.to # 0,
         NEW b, b = borrows'[k], ref.to > 1 => b.escapes, Held(b, ref.to)
  PROVE  Tracked(ref, v)'
<1>1. Youngest(k, v)'
  BY YoungestFresh
<1>2. k \in DOMAIN borrows'
  BY DEF FreshBorrow
<1>3. Held(b, ref.to)'
  BY HeldStays
<1> QED
  BY <1>1, <1>2, <1>3 DEF Tracked, Held

(* A step that gives at most the name x another reference.                 *)
LEMMA TrackStep ==
  ASSUME Core, Settled, FramesGrow, TrackInv, NEW x,
         ~shadowed' /\ ~skipped' => ~shadowed /\ ~skipped,
         \A j \in DOMAIN borrows' : j \in DOMAIN borrows \/ borrows'[j].var \in {x, NoName},
         \A v \in Refs : v # x => defs'[v] = defs[v] /\ (v \in suspects => v \in suspects'),
         ~shadowed' /\ ~skipped' =>
           \A f \in DOMAIN frames', v \in Refs : Named(f, v)' =>
             \/ /\ v # x /\ OldName(f, v)
                /\ objects'[At(f, v).obj].ref = objects[At(f, v).obj].ref
             \/ Tracked(objects[At(f, v).obj].ref, v)'
  PROVE  TrackInv'
<1> SUFFICES ASSUME ~shadowed', ~skipped', NEW f \in DOMAIN frames', NEW v \in Refs, Named(f, v)'
             PROVE  Tracked(objects[At(f, v).obj].ref, v)'
  BY DEF TrackInv
<1>1. CASE /\ v # x /\ OldName(f, v)
           /\ objects'[At(f, v).obj].ref = objects[At(f, v).obj].ref
  <2>1. v \in Names /\ v # NoName
    BY OwnershipAssumption DEF Names
  <2>2. PICK o : o = At(f, v).obj
    OBVIOUS
  <2>3. At(f, v)'.obj = o /\ Named(f, v) /\ f \in DOMAIN frames
    BY <1>1, <2>2 DEF OldName
  <2>4. PICK ref : ref = objects[o].ref
    OBVIOUS
  <2>5. Tracked(ref, v)
    BY <2>2, <2>3, <2>4 DEF TrackInv
  <2>6. ref.to \in DOMAIN objects
    <3>1. o \in DOMAIN objects
      BY <2>1, <2>2, <2>3 DEF Core, NamesOk
    <3>2. Sound(ref)
      BY <2>4, <3>1 DEF Core, AliasInv
    <3> QED
      BY <2>5, <3>2 DEF Tracked, Sound
  <2>7. \A j \in DOMAIN borrows' : j \in DOMAIN borrows \/ borrows'[j].var # v
    BY <1>1, <2>1
  <2>8. Tracked(ref, v)'
    BY <1>1, <2>5, <2>6, <2>7, TrackedStays DEF Settled, Onward
  <2>9. objects'[At(f, v)'.obj].ref = ref
    BY <1>1, <2>2, <2>3, <2>4
  <2> QED
    BY <2>8, <2>9 DEF Tracked, Held
<1> QED
  BY <1>1

(* A step that changes no reference.                                       *)
LEMMA TrackSame ==
  ASSUME Core, Settled, FramesGrow, TrackInv, SilentBorrows,
         ~shadowed' /\ ~skipped' => ~shadowed /\ ~skipped,
         \A i \in DOMAIN objects : objects'[i].ref = objects[i].ref,
         \A v \in Refs : defs'[v] = defs[v] /\ (v \in suspects => v \in suspects'),
         \A f \in DOMAIN frames', v \in Refs : Named(f, v)' => OldName(f, v)
  PROVE  TrackInv'
<1>1. \A v \in Refs : v # NoName /\ v \in Names
  BY OwnershipAssumption DEF Names
<1>2. \A f \in DOMAIN frames', v \in Refs : Named(f, v)' =>
        /\ v # NoName /\ OldName(f, v)
        /\ objects'[At(f, v).obj].ref = objects[At(f, v).obj].ref
  BY <1>1 DEF OldName, Core, NamesOk
<1>3. \A j \in DOMAIN borrows' : j \in DOMAIN borrows \/ borrows'[j].var \in {NoName, NoName}
  BY DEF SilentBorrows
<1> QED
  BY <1>1, <1>2, <1>3, TrackStep

LEMMA PlainKept ==
  ASSUME Core, PlainInv,
         \A f \in DOMAIN frames', v \in Names : Named(f, v)' /\ v \notin Refs =>
           \/ OldName(f, v) /\ objects'[At(f, v).obj].ref = objects[At(f, v).obj].ref
           \/ objects'[At(f, v)'.obj].ref.to = 0
  PROVE  PlainInv'
<1> SUFFICES ASSUME NEW f \in DOMAIN frames', NEW v \in Names, Named(f, v)', v \notin Refs
             PROVE  objects'[At(f, v)'.obj].ref.to = 0
  BY DEF PlainInv
<1>1. CASE OldName(f, v) /\ objects'[At(f, v).obj].ref = objects[At(f, v).obj].ref
  <2>1. PICK o : o = At(f, v).obj
    OBVIOUS
  <2>2. At(f, v)'.obj = o /\ Named(f, v) /\ f \in DOMAIN frames
    BY <1>1, <2>1 DEF OldName
  <2>3. objects[o].ref.to = 0
    BY <2>1, <2>2 DEF PlainInv
  <2> QED
    BY <1>1, <2>1, <2>2, <2>3
<1> QED
  BY <1>1

-----------------------------------------------------------------------------
(* The inductive invariant, action by action.                              *)

OInv == Core /\ BornOk /\ NameSide /\ PlainInv /\ TrackInv

LEMMA SilentStep ==
  ASSUME OInv, Core', Settled, SameRefs, StillNames, NoNewNames, SilentBorrows, NewBorn
  PROVE  OInv'
<1>1. FramesGrow
  BY StillFrames DEF OInv, Core, Settled
<1>2. NameSide'
  BY NameSideStill DEF OInv, SameRefs
<1>3. BornOk'
  BY BornKept DEF OInv, Core, Settled, Onward
<1>4. PlainInv'
  <2>1. \A f \in DOMAIN frames', v \in Names : Named(f, v)' =>
          OldName(f, v) /\ objects'[At(f, v).obj].ref = objects[At(f, v).obj].ref
    BY DEF NoNewNames, OldName, OInv, Core, NamesOk, SameRefs
  <2> QED
    BY <2>1, PlainKept DEF OInv
<1>5. TrackInv'
  <2>1. /\ ~shadowed' /\ ~skipped' => ~shadowed /\ ~skipped
        /\ \A v \in Refs : defs'[v] = defs[v] /\ (v \in suspects => v \in suspects')
    BY DEF StillNames
  <2>2. \A f \in DOMAIN frames', v \in Refs : Named(f, v)' => OldName(f, v)
    BY DEF NoNewNames, Names
  <2> QED
    BY <1>1, <2>1, <2>2, TrackSame DEF OInv, SameRefs
<1> QED
  BY <1>2, <1>3, <1>4, <1>5 DEF OInv

LEMMA SameNames ==
  ASSUME Same
  PROVE  StillNames /\ NoNewNames
  BY SameStill, KeptNames DEF Same

LEMMA AssignInv ==
  ASSUME OInv, NEW v \in Vals, Assign(v)
  PROVE  OInv'
<1>1. Core' /\ Settled /\ SameRefs
  BY AssignCore DEF OInv
<1>2. Same /\ borrows' = borrows
  BY DEF Assign
<1> QED
  BY <1>1, <1>2, SameNames, NoBorrows, SilentStep

LEMMA LendInv ==
  ASSUME OInv, NEW s \in Vals, NEW mut \in BOOLEAN, Lend(s, mut)
  PROVE  OInv'
<1>1. Core' /\ Settled /\ SameRefs
  BY LendCore DEF OInv
<1>2. Same
  BY DEF Lend
<1>3. SilentBorrows /\ NewBorn
  BY LendBorrows DEF OInv, Core
<1> QED
  BY <1>1, <1>2, <1>3, SameNames, SilentStep

LEMMA StoreFieldInv ==
  ASSUME OInv, NEW w \in Boxes, NEW s \in Vals, StoreField(w, s)
  PROVE  OInv'
<1>1. Core' /\ Settled /\ SameRefs
  BY StoreFieldCore DEF OInv, SameRefs
<1>2. Same
  BY DEF StoreField
<1>3. SilentBorrows /\ NewBorn
  BY StoreBorrows DEF OInv, Core
<1> QED
  BY <1>1, <1>2, <1>3, SameNames, SilentStep

LEMMA ReadInv ==
  ASSUME OInv, Same, UNCHANGED <<borrows, objects>>, pos < pos', pos' \in Nat
  PROVE  OInv'
<1>1. Core' /\ Settled /\ SameRefs
  BY ReadCore DEF OInv
<1>2. borrows' = borrows
  OBVIOUS
<1> QED
  BY <1>1, <1>2, SameNames, NoBorrows, SilentStep

LEMMA TransferInv ==
  ASSUME OInv, NEW v \in Vals, NEW r \in Regions, CheckTransfer(v, r)
  PROVE  OInv'
<1>1. Core' /\ Settled /\ Marked(v) /\ NoNewNames /\ SameRefs
  BY TransferCore DEF OInv, SameRefs
<1>2. /\ borrows' = borrows /\ defs' = defs /\ allocated' = allocated /\ suspects' = suspects
      /\ shadowed' = shadowed /\ skipped' = skipped
  BY DEF CheckTransfer
<1>3. StillNames
  BY <1>1, <1>2, MarkedStill
<1> QED
  BY <1>1, <1>2, <1>3, NoBorrows, SilentStep

LEMMA OpenInv ==
  ASSUME OInv, NEW kind, NEW r \in Regions \cup {NoName}, NEW taken \in BOOLEAN,
         OpenBlock(kind, r, taken)
  PROVE  OInv'
<1>1. Core' /\ Settled /\ NoNewNames /\ objects' = objects
  BY OpenCore DEF OInv
<1>2. NameSide' /\ FramesGrow
  BY <1>1, NameSideOpened DEF OInv
<1>3. /\ borrows' = borrows /\ defs' = defs /\ suspects' = suspects
      /\ skipped' = (skipped \/ (Live /\ ~taken))
      /\ shadowed' = (shadowed \/ r \in {frames[f].region : f \in RegionFrames})
  BY DEF OpenBlock
<1>4. SilentBorrows /\ NewBorn
  BY <1>3, NoBorrows
<1>5. BornOk'
  BY <1>1, <1>4, BornKept DEF OInv, Core, Settled, Onward
<1>6. PlainInv'
  <2>1. \A f \in DOMAIN frames', v \in Names : Named(f, v)' =>
          OldName(f, v) /\ objects'[At(f, v).obj].ref = objects[At(f, v).obj].ref
    BY <1>1 DEF NoNewNames
  <2> QED
    BY <2>1, PlainKept DEF OInv
<1>7. TrackInv'
  <2>1. ~shadowed' /\ ~skipped' => ~shadowed /\ ~skipped
    BY <1>3
  <2>2. \A f \in DOMAIN frames', v \in Refs : Named(f, v)' => OldName(f, v)
    BY <1>1 DEF NoNewNames, Names
  <2> QED
    BY <1>1, <1>2, <1>3, <1>4, <2>1, <2>2, TrackSame DEF OInv
<1> QED
  BY <1>1, <1>2, <1>5, <1>6, <1>7 DEF OInv

(* The scan at a region's end finds the borrow of every reference that     *)
(* the region's objects leave dangling.                                    *)
LEMMA TrackedClosed ==
  ASSUME OInv, CloseBlock, Settled, NEW v \in Refs, NEW ref, Tracked(ref, v),
         ref.to \in DOMAIN objects
  PROVE  Tracked(ref, v)'
<1>1. PICK i \in DOMAIN borrows :
        /\ Youngest(i, v) /\ defs[v] <= borrows[i].born
        /\ ref.to > 1 => borrows[i].escapes
        /\ v \in suspects \/ Held(borrows[i], ref.to)
  BY DEF Tracked
<1>2. PICK b : b = borrows[i]
  OBVIOUS
<1>3. /\ borrows' = borrows /\ defs' = defs
      /\ suspects' = (IF frames[Top].region = NoName THEN suspects
                                                   ELSE suspects \cup NewSuspects(frames[Top]))
  BY DEF CloseBlock
<1>4. Youngest(i, v)'
  BY <1>1, <1>3 DEF Youngest
<1>5. v # NoName /\ b.var = v /\ b \in Range(borrows)
  BY <1>1, <1>2, OwnershipAssumption DEF Youngest, Range
<1>6. /\ \A f \in DOMAIN frames : f < Top => f \in DOMAIN frames' /\ frames'[f] = frames[f]
      /\ \A f \in DOMAIN frames : f \in Nat /\ f <= Top
      /\ Top \in Nat
  BY ClosedFrames DEF OInv, Core
<1>7. objects'[ref.to].home = objects[ref.to].home
  BY DEF Settled, Onward, ObjectsStay
<1>8. v \in suspects' \/ Held(b, ref.to)'
  <2>1. CASE v \in suspects
    BY <1>3, <2>1
  <2>2. CASE objects[ref.to].home \in {0, 1}
    BY <1>7, <2>2 DEF Held
  <2>3. CASE \E j, h \in RegionFrames : /\ h <= j /\ b.source \in frames[j].locals
                                        /\ frames[j].start < b.born
                                        /\ objects[ref.to].home = frames[h].id
    <3>1. PICK j \in RegionFrames, h \in RegionFrames :
            /\ h <= j /\ b.source \in frames[j].locals /\ frames[j].start < b.born
            /\ objects[ref.to].home = frames[h].id
      BY <2>3
    <3>2. j \in DOMAIN frames /\ h \in DOMAIN frames /\ frames[j].region # NoName
      BY <3>1 DEF RegionFrames
    <3>3. CASE j = Top
      <4>1. v \in NewSuspects(frames[Top])
        <5>1. b.born > frames[Top].start
          <6>1. b.born \in Nat /\ frames[j].start \in Nat
            BY <1>1, <1>2, <3>2, BindingsTyped DEF OInv, Core, BornOk, Frames
          <6> QED
            BY <3>1, <3>3, <6>1
        <5>2. b.source \in frames[Top].locals /\ defs[b.var] <= b.born /\ b.var # NoName
          BY <1>1, <1>2, <1>5, <3>1, <3>3
        <5> QED
          BY <1>5, <5>1, <5>2 DEF NewSuspects
      <4> QED
        BY <1>3, <3>2, <3>3, <4>1
    <3>4. CASE j # Top
      <4>1. j < Top /\ h < Top
        BY <1>6, <3>1, <3>2, <3>4
      <4>2. /\ j \in DOMAIN frames' /\ frames'[j] = frames[j]
            /\ h \in DOMAIN frames' /\ frames'[h] = frames[h]
        BY <1>6, <3>2, <4>1
      <4>3. j \in RegionFrames' /\ h \in RegionFrames'
        BY <3>1, <4>2 DEF RegionFrames
      <4> QED
        BY <1>7, <3>1, <4>2, <4>3 DEF Held
    <3> QED
      BY <3>3, <3>4
  <2> QED
    BY <1>1, <1>2, <2>1, <2>2, <2>3 DEF Held
<1> QED
  BY <1>1, <1>2, <1>3, <1>4, <1>8 DEF Tracked, Held

LEMMA CloseInv ==
  ASSUME OInv, CloseBlock
  PROVE  OInv'
<1>1. /\ Core' /\ Settled /\ NoNewNames /\ DOMAIN objects' = DOMAIN objects
      /\ \A i \in DOMAIN objects :
           /\ objects'[i].ref = objects[i].ref
           /\ objects'[i].dead =>
                objects[i].dead \/ (/\ frames[Top].region # NoName
                                    /\ objects[i].home = frames[Top].id)
  BY CloseCore DEF OInv
<1>2. NameSide'
  BY <1>1, NameSideClosed DEF OInv
<1>3. borrows' = borrows /\ shadowed' = shadowed /\ skipped' = skipped
  BY DEF CloseBlock
<1>4. BornOk'
  BY <1>1, <1>3, NoBorrows, BornKept DEF OInv, Core, Settled, Onward
<1>5. \A f \in DOMAIN frames', v \in Names : Named(f, v)' =>
        OldName(f, v) /\ objects'[At(f, v).obj].ref = objects[At(f, v).obj].ref
  BY <1>1 DEF NoNewNames, OldName, OInv, Core, NamesOk
<1>6. PlainInv'
  BY <1>5, PlainKept DEF OInv
<1>7. TrackInv'
  <2> SUFFICES ASSUME ~shadowed', ~skipped', NEW f \in DOMAIN frames', NEW v \in Refs, Named(f, v)'
               PROVE  Tracked(objects[At(f, v).obj].ref, v)'
    BY DEF TrackInv
  <2>1. v \in Names
    BY DEF Names
  <2>2. PICK o : o = At(f, v).obj
    OBVIOUS
  <2>3. /\ At(f, v)'.obj = o /\ Named(f, v) /\ f \in DOMAIN frames
        /\ objects'[o].ref = objects[o].ref
    BY <1>5, <2>1, <2>2 DEF OldName
  <2>4. PICK ref : ref = objects[o].ref
    OBVIOUS
  <2>5. Tracked(ref, v)
    BY <1>3, <2>2, <2>3, <2>4 DEF OInv, TrackInv
  <2>6. ref.to \in DOMAIN objects
    <3>1. o \in DOMAIN objects
      BY <2>1, <2>2, <2>3 DEF OInv, Core, NamesOk
    <3>2. Sound(ref)
      BY <2>4, <3>1 DEF OInv, Core, AliasInv
    <3> QED
      BY <2>5, <3>2 DEF Tracked, Sound
  <2>7. Tracked(ref, v)'
    BY <1>1, <2>5, <2>6, TrackedClosed
  <2> QED
    BY <2>3, <2>4, <2>7 DEF Tracked, Held
<1> QED
  BY <1>1, <1>2, <1>4, <1>6, <1>7 DEF OInv

(* A name that is declared for the first time.                             *)
LEMMA FirstTime ==
  ASSUME OInv, NEW x \in Names, x # Param, shadowed' = (shadowed \/ defs[x] > 0), ~shadowed'
  PROVE  /\ ~shadowed /\ defs[x] = 0 /\ allocated[x] = NoName
         /\ \A f \in DOMAIN frames : x \notin DOMAIN frames[f].bind
<1>1. ~shadowed /\ ~(defs[x] > 0)
  OBVIOUS
<1>2. defs[x] \in Nat
  BY DEF OInv, Core, OTypeOK
<1>3. defs[x] = 0
  BY <1>1, <1>2
<1>4. allocated[x] = NoName
  BY <1>1, <1>3 DEF OInv, NameSide, OnceInv, AllocOk
<1>5. \A f \in DOMAIN frames : x \notin DOMAIN frames[f].bind
  BY <1>1 DEF OInv, NameSide, DefsOk
<1> QED
  BY <1>1, <1>3, <1>4, <1>5

LEMMA LetInv ==
  ASSUME OInv, NEW v \in Names, v # Param, v \notin Refs, NEW mut \in BOOLEAN,
         NEW r \in Regions \cup {NoName}, Let(v, mut, r)
  PROVE  OInv'
<1>1. PICK home : home = LetHome(r)
  OBVIOUS
<1>2. PICK object : object = NewObj(home, mut, NoRef)
  OBVIOUS
<1>3. /\ Core' /\ Settled /\ Declared(v, mut) /\ NamesFrom(v, mut) /\ Added(object)
      /\ r # NoName => \E f \in RegionFrames : frames[f].region = r
  BY <1>1, <1>2, LetCore DEF OInv
<1>4. object.dead = FALSE /\ object.home = home /\ object.ref.to = 0
  BY <1>2 DEF NewObj, NoRef
<1>5. PICK there : there = {f \in RegionFrames : frames[f].region = r}
  OBVIOUS
<1>6. /\ pos' = Now /\ borrows' = borrows
      /\ allocated' = IF there = {} THEN allocated ELSE [allocated EXCEPT ![v] = r]
      /\ defs' = [defs EXCEPT ![v] = Now] /\ suspects' = suspects \ {v}
      /\ shadowed' = (shadowed \/ defs[v] > 0) /\ skipped' = skipped
  BY <1>5, ErrorFree DEF Let, Declare
<1>7. /\ r # NoName => \E h \in RegionFrames : frames[h].region = r /\ home = frames[h].id
      /\ r = NoName => home = 1 \/ (RegionFrames # {} /\ home = frames[InnermostRegion].id)
  BY <1>1, <1>3, LetHomeIs DEF OInv, Core
<1>8. HomeOpen(object.home)
  BY <1>4, <1>7, InnermostTyped DEF HomeOpen, OInv, Core
<1>9. ASSUME ~shadowed', allocated'[v] # NoName
      PROVE  \E h \in RegionFrames : frames[h].region = allocated'[v] /\ object.home = frames[h].id
  <2>1. allocated[v] = NoName
    BY <1>6, <1>9, FirstTime
  <2>2. there # {} /\ allocated'[v] = r
    BY <1>6, <1>9, <2>1 DEF OInv, Core, OTypeOK
  <2>3. r # NoName
    BY <1>9, <2>2
  <2> QED
    BY <1>4, <1>7, <2>2, <2>3
<1>10. \A x \in Names : x # v => allocated'[x] = allocated[x]
  BY <1>6 DEF OInv, Core, OTypeOK
<1>11. NameSide'
  BY <1>3, <1>4, <1>6, <1>8, <1>9, <1>10, NameSideDeclared DEF OInv
<1>12. SilentBorrows /\ NewBorn
  BY <1>6, NoBorrows
<1>13. BornOk'
  BY <1>3, <1>12, BornKept DEF OInv, Core, Settled, Onward
<1>14. \A i \in DOMAIN objects : objects'[i].ref = objects[i].ref
  BY <1>3 DEF Added, SameObj
<1>15. \A f \in DOMAIN frames', x \in Names : Named(f, x)' =>
         \/ OldName(f, x) /\ objects'[At(f, x).obj].ref = objects[At(f, x).obj].ref
         \/ x = v /\ objects'[At(f, x)'.obj].ref.to = 0
  <2> TAKE f \in DOMAIN frames', x \in Names
  <2> HAVE Named(f, x)'
  <2>1. CASE OldName(f, x)
    BY <1>14, <2>1 DEF OldName, OInv, Core, NamesOk
  <2>2. CASE NewName(f, x, v, mut)
    BY <1>3, <1>4, <2>2 DEF NewName, Added
  <2> QED
    BY <1>3, <2>1, <2>2 DEF NamesFrom
<1>16. PlainInv'
  BY <1>15, PlainKept DEF OInv
<1>17. TrackInv'
  <2>1. FramesGrow
    BY <1>3, DeclaredFrames DEF OInv, Core
  <2>2. ~shadowed' /\ ~skipped' => ~shadowed /\ ~skipped
    BY <1>6
  <2>3. \A x \in Refs : defs'[x] = defs[x] /\ (x \in suspects => x \in suspects')
    BY <1>6 DEF OInv, Core, OTypeOK, Names
  <2>4. \A f \in DOMAIN frames', x \in Refs : Named(f, x)' => OldName(f, x)
    BY <1>15 DEF Names
  <2> QED
    BY <1>3, <1>12, <1>14, <2>1, <2>2, <2>3, <2>4, TrackSame DEF OInv
<1> QED
  BY <1>3, <1>11, <1>13, <1>16, <1>17 DEF OInv

(* The borrow of `&s` stands for the reference made.                       *)
LEMMA RefToHeld ==
  ASSUME OInv, Live, NEW s \in Vals, Known(s), NEW b, b.source = s, b.born = Now,
         b.escapes = (s # Param)
  PROVE  /\ Obj(s) \in DOMAIN objects /\ Obj(s) # 0 /\ Held(b, Obj(s))
         /\ Obj(s) > 1 => b.escapes
<1>1. s \in Names
  BY DEF Names
<1>2. PICK m : m = Max(Bound(s))
  OBVIOUS
<1>3. PICK o : o = Obj(s)
  OBVIOUS
<1>4. m \in DOMAIN frames /\ Named(m, s) /\ At(m, s).obj = o /\ o \in DOMAIN objects
  BY <1>1, <1>2, <1>3, KnownRuns DEF OInv, Core
<1>5. o # 0
  BY <1>4 DEF OInv, Core, OTypeOK
<1>6. Placed(m, s, o)
  BY <1>1, <1>4 DEF OInv, NameSide, LocalInv
<1>7. Held(b, o)
  <2>1. CASE objects[o].home \in {0, 1}
    BY <2>1 DEF Held
  <2>2. CASE \E i, h \in RegionFrames : /\ h <= i /\ i <= m /\ s \in frames[i].locals
                                        /\ objects[o].home = frames[h].id
    <3>1. PICK i \in RegionFrames, h \in RegionFrames :
            h <= i /\ i <= m /\ s \in frames[i].locals /\ objects[o].home = frames[h].id
      BY <2>2
    <3>2. i \in DOMAIN frames
      BY <3>1 DEF RegionFrames
    <3>3. frames[i].start <= pos /\ frames[i].start \in Nat
      BY <3>2, BindingsTyped DEF OInv, Core, FramesOk, Frames
    <3>4. frames[i].start < b.born
      BY <3>3, TopTyped DEF OInv, Core, OTypeOK
    <3> QED
      BY <3>1, <3>4 DEF Held
  <2> QED
    BY <1>6, <2>1, <2>2 DEF Placed
<1>8. o > 1 => b.escapes
  <2>1. CASE s = Param
    <3>1. o = 1
      BY <1>4, <2>1 DEF OInv, NameSide, ParamInv
    <3> QED
      BY <3>1
  <2>2. CASE s # Param
    <3>1. b.escapes
      BY <2>2
    <3> QED
      BY <3>1
  <2> QED
    BY <2>1, <2>2
<1> QED
  BY <1>3, <1>4, <1>5, <1>7, <1>8

(* The copy of a borrow stands for the copy of the reference.              *)
LEMMA CopyHeld ==
  ASSUME OInv, ~shadowed, ~skipped, Live, NEW from \in Refs, Known(from), from \notin suspects,
         NEW to, NEW i \in DOMAIN borrows, Youngest(i, from), NEW b, Copied(b, i, to)
  PROVE  /\ CopyRef(from).to \in DOMAIN objects /\ CopyRef(from).to # 0
         /\ Held(b, CopyRef(from).to)
         /\ CopyRef(from).to > 1 => b.escapes
<1>1. from \in Names
  BY DEF Names
<1>2. PICK m : m = Max(Bound(from))
  OBVIOUS
<1>3. PICK o : o = Obj(from)
  OBVIOUS
<1>4. m \in DOMAIN frames /\ Named(m, from) /\ At(m, from).obj = o /\ o \in DOMAIN objects
  BY <1>1, <1>2, <1>3, KnownRuns DEF OInv, Core
<1>5. PICK ref : ref = objects[o].ref
  OBVIOUS
<1>6. Tracked(ref, from)
  BY <1>4, <1>5 DEF OInv, TrackInv
<1>7. PICK l \in DOMAIN borrows :
        /\ Youngest(l, from) /\ defs[from] <= borrows[l].born
        /\ ref.to > 1 => borrows[l].escapes
        /\ from \in suspects \/ Held(borrows[l], ref.to)
  BY <1>6 DEF Tracked
<1>8. l = i
  BY <1>7, OneYoungest DEF OInv, Core
<1>9. ref.to # 0 /\ ref.to \in DOMAIN objects
  <2>1. Sound(ref)
    BY <1>4, <1>5 DEF OInv, Core, AliasInv
  <2> QED
    BY <1>6, <2>1 DEF Tracked, Sound
<1>10. CopyRef(from).to = ref.to
  <2>1. CopyRef(from) = [ref EXCEPT !.blk = 0] /\ ref \in RefRecs
    BY <1>1, <1>3, <1>5, CopyRefIs DEF OInv
  <2> QED
    BY <2>1 DEF RefRecs
<1>11. PICK c : c = borrows[i]
  OBVIOUS
<1>12. /\ b.source = c.source /\ b.born = Now /\ b.escapes = c.escapes
       /\ Held(c, ref.to) /\ (ref.to > 1 => c.escapes)
  BY <1>7, <1>8, <1>11 DEF Copied
<1>13. c.born \in 1..pos /\ pos \in Nat /\ Now = pos + 1
  BY <1>11, TopTyped DEF OInv, BornOk, Core, OTypeOK
<1>14. Held(b, ref.to)
  <2>1. \A j \in RegionFrames : frames[j].start < c.born => frames[j].start < b.born
    <3> TAKE j \in RegionFrames
    <3>1. frames[j].start \in Nat
      BY BindingsTyped DEF OInv, Core, RegionFrames, Frames
    <3> QED
      BY <1>12, <1>13, <3>1
  <2> QED
    BY <1>12, <2>1 DEF Held
<1> QED
  BY <1>9, <1>10, <1>12, <1>14

(* A reference that is known has been borrowed.                            *)
LEMMA RefBorrowed ==
  ASSUME OInv, ~shadowed, ~skipped, Live, NEW v \in Refs, Known(v)
  PROVE  \E i \in DOMAIN borrows : Youngest(i, v) /\ borrows[i].var = v
<1>1. v \in Names
  BY DEF Names
<1>2. PICK m : m = Max(Bound(v))
  OBVIOUS
<1>3. m \in DOMAIN frames /\ Named(m, v)
  BY <1>1, <1>2, KnownRuns DEF OInv, Core
<1>4. PICK ref : ref = objects[At(m, v).obj].ref
  OBVIOUS
<1>5. Tracked(ref, v)
  BY <1>3, <1>4 DEF OInv, TrackInv
<1> QED
  BY <1>5 DEF Tracked, Youngest

(* A declaration of a reference.                                           *)
LEMMA DeclaredRefInv ==
  ASSUME OInv, Core', Settled, NEW r \in Refs, NEW ref, Declared(r, TRUE), NamesFrom(r, TRUE),
         Added(NewObj(0, TRUE, ref)), pos' = Now, defs' = [defs EXCEPT ![r] = Now],
         suspects' = suspects \ {r}, shadowed' = (shadowed \/ defs[r] > 0), skipped' = skipped,
         allocated' = allocated, NewBorn,
         \A j \in DOMAIN borrows' : j \in DOMAIN borrows \/ borrows'[j].var \in {r, NoName},
         ~shadowed' /\ ~skipped' => Tracked(ref, r)'
  PROVE  OInv'
<1>1. r \in Names /\ r # Param
  BY OwnershipAssumption DEF Names
<1>2. PICK object : object = NewObj(0, TRUE, ref)
  OBVIOUS
<1>3. object.dead = FALSE /\ object.home = 0 /\ object.ref = ref
  BY <1>2 DEF NewObj
<1>4. Added(object)
  BY <1>2
<1>5. NameSide'
  <2>1. HomeOpen(object.home)
    BY <1>3 DEF HomeOpen
  <2>2. ~shadowed' => allocated'[r] = NoName
    BY <1>1, FirstTime
  <2>3. PICK mut : mut = TRUE
    OBVIOUS
  <2>4. Declared(r, mut) /\ NamesFrom(r, mut)
    BY <2>3
  <2> QED
    BY <1>1, <1>3, <1>4, <2>1, <2>2, <2>4, NameSideDeclared DEF OInv
<1>6. BornOk'
  BY BornKept DEF OInv, Core, Settled, Onward
<1>7. \A i \in DOMAIN objects : objects'[i].ref = objects[i].ref
  BY <1>4 DEF Added, SameObj
<1>8. \A f \in DOMAIN frames', x \in Names : Named(f, x)' =>
        \/ OldName(f, x) /\ objects'[At(f, x).obj].ref = objects[At(f, x).obj].ref
        \/ x = r /\ objects'[At(f, x)'.obj].ref = ref
  <2> TAKE f \in DOMAIN frames', x \in Names
  <2> HAVE Named(f, x)'
  <2>1. CASE OldName(f, x)
    BY <1>7, <2>1 DEF OldName, OInv, Core, NamesOk
  <2>2. CASE NewName(f, x, r, TRUE)
    BY <1>3, <1>4, <2>2 DEF NewName, Added
  <2> QED
    BY <2>1, <2>2 DEF NamesFrom
<1>9. PlainInv'
  BY <1>8, PlainKept DEF OInv
<1>10. TrackInv'
  <2>1. FramesGrow
    BY DeclaredFrames DEF OInv, Core
  <2>2. ~shadowed' /\ ~skipped' => ~shadowed /\ ~skipped
    OBVIOUS
  <2>3. \A x \in Refs : x # r => defs'[x] = defs[x] /\ (x \in suspects => x \in suspects')
    BY DEF OInv, Core, OTypeOK, Names
  <2>4. ASSUME ~shadowed', ~skipped', NEW f \in DOMAIN frames', NEW x \in Refs, Named(f, x)'
        PROVE  \/ /\ x # r /\ OldName(f, x)
                  /\ objects'[At(f, x).obj].ref = objects[At(f, x).obj].ref
               \/ Tracked(objects[At(f, x).obj].ref, x)'
    <3>1. x \in Names
      BY DEF Names
    <3>2. CASE OldName(f, x) /\ objects'[At(f, x).obj].ref = objects[At(f, x).obj].ref
      <4>1. x # r
        BY <1>1, <2>4, <3>2, FirstTime DEF OldName, Named
      <4> QED
        BY <3>2, <4>1
    <3>3. CASE x = r /\ objects'[At(f, x)'.obj].ref = ref
      <4>1. Tracked(ref, r)'
        BY <2>4
      <4>2. Tracked(objects[At(f, x).obj].ref, x)'
        BY <3>3, <4>1 DEF Tracked, Held
      <4> QED
        BY <4>2
    <3> QED
      BY <1>8, <2>4, <3>1, <3>2, <3>3
  <2> QED
    BY <2>1, <2>2, <2>3, <2>4, TrackStep DEF OInv
<1> QED
  BY <1>5, <1>6, <1>9, <1>10 DEF OInv

LEMMA LetRefInv ==
  ASSUME OInv, NEW r \in Refs, NEW s \in Vals, NEW mut \in BOOLEAN, LetRef(r, s, mut)
  PROVE  OInv'
<1>1. PICK ref : ref = RefTo(s, mut)
  OBVIOUS
<1>2. /\ Core' /\ Settled /\ Declared(r, TRUE) /\ NamesFrom(r, TRUE)
      /\ Added(NewObj(0, TRUE, ref))
  BY <1>1, LetRefCore DEF OInv
<1>3. /\ pos' = Now /\ Known(s) /\ allocated' = allocated
      /\ defs' = [defs EXCEPT ![r] = Now] /\ suspects' = suspects \ {r}
      /\ shadowed' = (shadowed \/ defs[r] > 0) /\ skipped' = skipped
  BY ErrorFree DEF LetRef, Declare
<1>4. NewBorn /\ \E k \in DOMAIN borrows' : FreshBorrow(k, r) /\ borrows'[k] = Record(r, s, mut)
  BY LetRefBorrows DEF OInv, Core
<1>5. PICK k \in DOMAIN borrows' : FreshBorrow(k, r) /\ borrows'[k] = Record(r, s, mut)
  BY <1>4
<1>6. \A j \in DOMAIN borrows' : j \in DOMAIN borrows \/ borrows'[j].var \in {r, NoName}
  BY <1>5 DEF FreshBorrow
<1>7. r \in Names /\ r # NoName /\ s \in Names
  BY OwnershipAssumption DEF Names
<1>8. ASSUME ~shadowed', ~skipped' PROVE Tracked(ref, r)'
  <2>1. Live
    BY <1>3, <1>8, TopTyped DEF OInv, Core, FramesOk, Live
  <2>2. PICK b : b = Record(r, s, mut)
    OBVIOUS
  <2>3. b.source = s /\ b.born = Now /\ b.born = pos' /\ pos < pos' /\ b.escapes = (s # Param)
    BY <1>3, <1>7, <2>2, RecordIs DEF OInv, Core
  <2>4. /\ Obj(s) \in DOMAIN objects /\ Obj(s) # 0 /\ Held(b, Obj(s))
        /\ Obj(s) > 1 => b.escapes
    BY <1>3, <2>1, <2>3, RefToHeld
  <2>5. ref.to = Obj(s)
    BY <1>1 DEF RefTo
  <2>6. FramesGrow
    BY <1>2, DeclaredFrames DEF OInv, Core
  <2>7. defs'[r] <= pos' /\ borrows'[k] = b
    BY <1>2, <1>3, <1>5, <1>7, <2>2 DEF OInv, Core, Settled, OTypeOK
  <2>8. PICK t : t = ref.to
    OBVIOUS
  <2>9. t \in DOMAIN objects /\ t # 0 /\ Held(b, t) /\ (t > 1 => b.escapes)
    BY <2>4, <2>5, <2>8
  <2> QED
    BY <1>2, <1>5, <1>7, <2>3, <2>6, <2>7, <2>8, <2>9, TrackedNew DEF OInv, Core, Settled, Onward
<1> QED
  BY <1>2, <1>3, <1>4, <1>6, <1>8, DeclaredRefInv

LEMMA LetCopyInv ==
  ASSUME OInv, NEW r \in Refs, NEW from \in Refs, LetCopy(r, from)
  PROVE  OInv'
<1>1. PICK ref : ref = CopyRef(from)
  OBVIOUS
<1>2. /\ Core' /\ Settled /\ Declared(r, TRUE) /\ NamesFrom(r, TRUE)
      /\ Added(NewObj(0, TRUE, ref))
  BY <1>1, LetCopyCore DEF OInv
<1>3. /\ pos' = Now /\ Known(from) /\ allocated' = allocated
      /\ defs' = [defs EXCEPT ![r] = Now] /\ suspects' = suspects \ {r}
      /\ shadowed' = (shadowed \/ defs[r] > 0) /\ skipped' = skipped
      /\ borrows' = borrows \o CopyOf(r, from) /\ Use(from) = {}
  BY ErrorFree DEF LetCopy, Declare
<1>4. r \in Names /\ r # NoName /\ from \in Names
  BY OwnershipAssumption DEF Names
<1>5. /\ NewBorn
      /\ \/ borrows' = borrows /\ \A i \in DOMAIN borrows : borrows[i].var # from
         \/ \E i \in DOMAIN borrows, k \in DOMAIN borrows' :
              Youngest(i, from) /\ FreshBorrow(k, r) /\ Copied(borrows'[k], i, r)
  BY <1>3, <1>4, CopyBorrows DEF OInv, Core
<1>6. \A j \in DOMAIN borrows' : j \in DOMAIN borrows \/ borrows'[j].var \in {r, NoName}
  BY <1>5 DEF FreshBorrow
<1>7. ASSUME ~shadowed', ~skipped' PROVE Tracked(ref, r)'
  <2>1. Live /\ ~shadowed /\ ~skipped
    BY <1>3, <1>7, TopTyped DEF OInv, Core, FramesOk, Live
  <2>2. from \notin suspects
    BY <1>3 DEF Use, Mention, Fail
  <2>3. PICK i \in DOMAIN borrows, k \in DOMAIN borrows' :
          Youngest(i, from) /\ FreshBorrow(k, r) /\ Copied(borrows'[k], i, r)
    BY <1>3, <1>5, <2>1, RefBorrowed
  <2>4. PICK b : b = borrows'[k]
    OBVIOUS
  <2>5. Copied(b, i, r)
    BY <2>3, <2>4
  <2>6. /\ CopyRef(from).to \in DOMAIN objects /\ CopyRef(from).to # 0
        /\ Held(b, CopyRef(from).to)
        /\ CopyRef(from).to > 1 => b.escapes
    BY <1>3, <2>1, <2>2, <2>3, <2>5, CopyHeld
  <2>7. FramesGrow
    BY <1>2, DeclaredFrames DEF OInv, Core
  <2>8. defs'[r] <= pos'
    BY <1>2, <1>3, <1>4 DEF OInv, Core, Settled, OTypeOK
  <2>9. b.born = pos' /\ pos < pos'
    BY <1>3, <2>5, TopTyped DEF Copied, OInv, Core, OTypeOK
  <2>10. ref.to \in DOMAIN objects /\ ref.to # 0 /\ Held(b, ref.to) /\ (ref.to > 1 => b.escapes)
    BY <1>1, <2>6
  <2> QED
    BY <1>2, <1>4, <2>3, <2>4, <2>7, <2>8, <2>9, <2>10, TrackedNew
       DEF OInv, Core, Settled, Onward
<1> QED
  BY <1>2, <1>3, <1>5, <1>6, <1>7, DeclaredRefInv

(* An assignment of a reference, to a name that keeps its object.          *)
LEMMA AssignedRefInv ==
  ASSUME OInv, Core', Settled, Same, NEW r \in Refs, Known(r), NEW ref,
         DOMAIN objects' = DOMAIN objects,
         Live => /\ objects'[Obj(r)].ref = ref
                 /\ \A i \in DOMAIN objects : /\ i # Obj(r) => objects'[i].ref = objects[i].ref
                                              /\ objects'[i].dead = objects[i].dead,
         ~Live => objects' = objects, NewBorn,
         \A j \in DOMAIN borrows' : j \in DOMAIN borrows \/ borrows'[j].var \in {r, NoName},
         ~shadowed /\ ~skipped => Tracked(ref, r)'
  PROVE  OInv'
<1>1. r \in Names
  BY DEF Names
<1>2. StillNames /\ NoNewNames
  BY SameNames
<1>3. FramesGrow
  BY <1>2, StillFrames DEF OInv, Core, Settled
<1>4. NameSide'
  BY <1>2, NameSideStill DEF OInv
<1>5. BornOk'
  BY BornKept DEF OInv, Core, Settled, Onward
<1>6. \A f \in DOMAIN frames', x \in Names : Named(f, x)' =>
        /\ OldName(f, x)
        /\ x # r => objects'[At(f, x).obj].ref = objects[At(f, x).obj].ref
  <2> TAKE f \in DOMAIN frames', x \in Names
  <2> HAVE Named(f, x)'
  <2>1. OldName(f, x)
    BY <1>2 DEF NoNewNames
  <2>2. At(f, x).obj \in DOMAIN objects
    BY <2>1 DEF OldName, OInv, Core, NamesOk
  <2>3. Live /\ x # r => At(f, x).obj # Obj(r)
    BY <1>1, <2>1, KnownRuns DEF OldName, OInv, Core
  <2> QED
    BY <2>1, <2>2, <2>3
<1>7. PlainInv'
  BY <1>6, PlainKept DEF OInv
<1>8. TrackInv'
  <2>1. /\ ~shadowed' /\ ~skipped' => ~shadowed /\ ~skipped
        /\ \A x \in Refs : defs'[x] = defs[x] /\ (x \in suspects => x \in suspects')
    BY <1>2 DEF StillNames
  <2>2. ASSUME ~shadowed', ~skipped', NEW f \in DOMAIN frames', NEW x \in Refs, Named(f, x)'
        PROVE  \/ /\ x # r /\ OldName(f, x)
                  /\ objects'[At(f, x).obj].ref = objects[At(f, x).obj].ref
               \/ Tracked(objects[At(f, x).obj].ref, x)'
    <3>1. x \in Names
      BY DEF Names
    <3>2. CASE x # r
      BY <1>6, <2>2, <3>1, <3>2
    <3>3. CASE x = r
      <4>1. Live /\ ~shadowed /\ ~skipped
        BY <2>1, <2>2, TopTyped DEF OInv, Core, FramesOk, Live
      <4>2. PICK m : m = Max(Bound(r))
        OBVIOUS
      <4>3. m \in DOMAIN frames /\ Named(m, r) /\ At(m, r).obj = Obj(r)
        BY <1>1, <4>1, <4>2, KnownRuns DEF OInv, Core
      <4>4. OldName(f, r)
        BY <1>1, <1>6, <2>2, <3>3
      <4>5. f = m
        <5>1. BoundOnce
          BY <4>1 DEF OInv, NameSide, OnceInv
        <5> QED
          BY <1>1, <4>3, <4>4, <5>1 DEF BoundOnce, OldName, Named
      <4>6. At(f, r)'.obj = Obj(r)
        BY <4>3, <4>4, <4>5 DEF OldName
      <4>7. objects'[At(f, x)'.obj].ref = ref
        BY <3>3, <4>1, <4>6
      <4>8. Tracked(ref, r)'
        BY <4>1
      <4>9. Tracked(objects[At(f, x).obj].ref, x)'
        BY <3>3, <4>7, <4>8 DEF Tracked, Held
      <4> QED
        BY <4>9
    <3> QED
      BY <3>2, <3>3
  <2> QED
    BY <1>3, <2>1, <2>2, TrackStep DEF OInv
<1> QED
  BY <1>4, <1>5, <1>7, <1>8 DEF OInv

LEMMA AssignRefInv ==
  ASSUME OInv, NEW r \in Refs, NEW s \in Vals, NEW mut \in BOOLEAN, AssignRef(r, s, mut)
  PROVE  OInv'
<1>1. PICK ref : ref = RefTo(s, mut)
  OBVIOUS
<1>2. /\ Core' /\ Settled /\ DOMAIN objects' = DOMAIN objects
      /\ Live => /\ objects'[Obj(r)].ref = ref
                 /\ \A i \in DOMAIN objects : /\ i # Obj(r) => objects'[i].ref = objects[i].ref
                                              /\ objects'[i].dead = objects[i].dead
      /\ ~Live => objects' = objects
  BY <1>1, AssignRefCore DEF OInv
<1>3. pos' = Now /\ Known(s) /\ Known(r) /\ Same
  BY ErrorFree DEF AssignRef
<1>4. NewBorn /\ \E k \in DOMAIN borrows' : FreshBorrow(k, r) /\ borrows'[k] = Record(r, s, mut)
  BY AssignRefBorrows DEF OInv, Core
<1>5. PICK k \in DOMAIN borrows' : FreshBorrow(k, r) /\ borrows'[k] = Record(r, s, mut)
  BY <1>4
<1>6. \A j \in DOMAIN borrows' : j \in DOMAIN borrows \/ borrows'[j].var \in {r, NoName}
  BY <1>5 DEF FreshBorrow
<1>7. r \in Names /\ r # NoName /\ s \in Names
  BY OwnershipAssumption DEF Names
<1>8. ASSUME ~shadowed, ~skipped PROVE Tracked(ref, r)'
  <2>1. Live
    BY <1>8, TopTyped DEF OInv, Core, FramesOk, Live
  <2>2. PICK b : b = Record(r, s, mut)
    OBVIOUS
  <2>3. b.source = s /\ b.born = Now /\ b.born = pos' /\ pos < pos' /\ b.escapes = (s # Param)
    BY <1>3, <1>7, <2>2, RecordIs DEF OInv, Core
  <2>4. /\ Obj(s) \in DOMAIN objects /\ Obj(s) # 0 /\ Held(b, Obj(s))
        /\ Obj(s) > 1 => b.escapes
    BY <1>3, <2>1, <2>3, RefToHeld
  <2>5. ref.to = Obj(s)
    BY <1>1 DEF RefTo
  <2>6. FramesGrow
    BY <1>2, <1>3, SameNames, StillFrames DEF OInv, Core, Settled
  <2>7. defs'[r] <= pos' /\ borrows'[k] = b
    <3>1. defs'[r] = defs[r] /\ defs[r] <= pos /\ defs[r] \in Nat /\ pos \in Nat /\ pos' \in Nat
      BY <1>2, <1>3, <1>7 DEF Same, OInv, NameSide, DefsOk, Core, OTypeOK, Settled
    <3> QED
      BY <1>5, <2>2, <2>3, <3>1
  <2>8. PICK t : t = ref.to
    OBVIOUS
  <2>9. t \in DOMAIN objects /\ t # 0 /\ Held(b, t) /\ (t > 1 => b.escapes)
    BY <2>4, <2>5, <2>8
  <2> QED
    BY <1>2, <1>5, <1>7, <2>3, <2>6, <2>7, <2>8, <2>9, TrackedNew DEF OInv, Core, Settled, Onward
<1> QED
  BY <1>2, <1>3, <1>4, <1>6, <1>8, AssignedRefInv

LEMMA AssignCopyInv ==
  ASSUME OInv, NEW r \in Refs, NEW from \in Refs, AssignCopy(r, from)
  PROVE  OInv'
<1>1. PICK ref : ref = CopyRef(from)
  OBVIOUS
<1>2. /\ Core' /\ Settled /\ DOMAIN objects' = DOMAIN objects
      /\ Live => /\ objects'[Obj(r)].ref = ref
                 /\ \A i \in DOMAIN objects : /\ i # Obj(r) => objects'[i].ref = objects[i].ref
                                              /\ objects'[i].dead = objects[i].dead
      /\ ~Live => objects' = objects
  BY <1>1, AssignCopyCore DEF OInv
<1>3. /\ pos' = Now /\ Known(from) /\ Known(r) /\ Same
      /\ borrows' = borrows \o CopyOf(r, from) /\ Use(from) = {}
  BY ErrorFree DEF AssignCopy
<1>4. r \in Names /\ r # NoName /\ from \in Names
  BY OwnershipAssumption DEF Names
<1>5. /\ NewBorn
      /\ \/ borrows' = borrows /\ \A i \in DOMAIN borrows : borrows[i].var # from
         \/ \E i \in DOMAIN borrows, k \in DOMAIN borrows' :
              Youngest(i, from) /\ FreshBorrow(k, r) /\ Copied(borrows'[k], i, r)
  BY <1>3, <1>4, CopyBorrows DEF OInv, Core
<1>6. \A j \in DOMAIN borrows' : j \in DOMAIN borrows \/ borrows'[j].var \in {r, NoName}
  BY <1>5 DEF FreshBorrow
<1>7. ASSUME ~shadowed, ~skipped PROVE Tracked(ref, r)'
  <2>1. Live
    BY <1>7, TopTyped DEF OInv, Core, FramesOk, Live
  <2>2. from \notin suspects
    BY <1>3 DEF Use, Mention, Fail
  <2>3. PICK i \in DOMAIN borrows, k \in DOMAIN borrows' :
          Youngest(i, from) /\ FreshBorrow(k, r) /\ Copied(borrows'[k], i, r)
    BY <1>3, <1>5, <1>7, <2>1, RefBorrowed
  <2>4. PICK b : b = borrows'[k]
    OBVIOUS
  <2>5. Copied(b, i, r)
    BY <2>3, <2>4
  <2>6. /\ CopyRef(from).to \in DOMAIN objects /\ CopyRef(from).to # 0
        /\ Held(b, CopyRef(from).to)
        /\ CopyRef(from).to > 1 => b.escapes
    BY <1>3, <1>7, <2>1, <2>2, <2>3, <2>5, CopyHeld
  <2>7. FramesGrow
    BY <1>2, <1>3, SameNames, StillFrames DEF OInv, Core, Settled
  <2>8. defs'[r] <= pos'
    BY <1>2, <1>3, <1>4 DEF Same, OInv, NameSide, DefsOk, Core, OTypeOK, Settled, Onward
  <2>9. b.born = pos' /\ pos < pos'
    BY <1>3, <2>5, TopTyped DEF Copied, OInv, Core, OTypeOK
  <2>10. ref.to \in DOMAIN objects /\ ref.to # 0 /\ Held(b, ref.to) /\ (ref.to > 1 => b.escapes)
    BY <1>1, <2>6
  <2> QED
    BY <1>2, <1>4, <2>3, <2>4, <2>7, <2>8, <2>9, <2>10, TrackedNew
       DEF OInv, Core, Settled, Onward
<1> QED
  BY <1>2, <1>3, <1>5, <1>6, <1>7, AssignedRefInv

-----------------------------------------------------------------------------
(* The functions one can write.                                            *)

LEMMA OInvInit ==
  ASSUME OInit
  PROVE  OInv
<1>1. Param \in Vals /\ Param \in Names /\ Param \notin Refs
  BY OwnershipAssumption DEF Names
<1>2. PICK bind : bind = [v \in {Param} |-> [mut |-> FALSE, moved |-> FALSE, obj |-> 1]]
  OBVIOUS
<1>3. PICK frame : frame = [id |-> 1, start |-> 0, region |-> NoName, run |-> TRUE, locals |-> {},
                            bind |-> bind]
  OBVIOUS
<1>4. PICK object : object = NewObj(0, FALSE, NoRef)
  OBVIOUS
<1>5. /\ pos = 0 /\ borrows = <<>> /\ suspects = {} /\ frames = <<frame>> /\ objects = <<object>>
      /\ defs = [v \in Names |-> 0] /\ allocated = [v \in Names |-> NoName]
      /\ skipped = FALSE /\ shadowed = FALSE
  BY <1>2, <1>3, <1>4 DEF OInit
<1>6. /\ DOMAIN bind = {Param} /\ bind[Param] = [mut |-> FALSE, moved |-> FALSE, obj |-> 1]
      /\ bind \in Binds
  <2>1. [mut |-> FALSE, moved |-> FALSE, obj |-> 1] \in Bindings
    BY DEF Bindings
  <2>2. bind \in [{Param} -> Bindings]
    BY <1>2, <2>1
  <2>3. {Param} \in SUBSET Names
    BY <1>1
  <2> QED
    BY <1>2, <2>2, <2>3 DEF Binds
<1>7. /\ frame \in Frames /\ frame.id = 1 /\ frame.start = 0 /\ frame.region = NoName /\ frame.run
      /\ frame.bind = bind /\ frame.locals = {}
  BY <1>3, <1>6 DEF Frames
<1>8. /\ object \in Objs /\ object.ref = NoRef /\ object.home = 0 /\ object.mut = FALSE
      /\ object.moved = FALSE /\ object.dead = FALSE /\ object.field = 0
      /\ object.wrote = 0 /\ object.mutAt = 0 /\ object.refAt = 0
  BY <1>4 DEF NewObj, Objs, NoRef, RefRecs
<1>9. /\ DOMAIN frames = {1} /\ frames[1] = frame /\ DOMAIN objects = {1} /\ objects[1] = object
      /\ DOMAIN borrows = {}
  BY <1>5
<1>10. OTypeOK
  <2>1. pos \in Nat /\ suspects \subseteq Names /\ skipped \in BOOLEAN /\ shadowed \in BOOLEAN
    BY <1>5
  <2>2. frames \in Seq(Frames) /\ Len(frames) >= 1 /\ borrows \in Seq(Borrows)
    BY <1>5, <1>7
  <2>3. objects \in Seq(Objs)
    BY <1>5, <1>8
  <2>4. defs \in [Names -> Nat] /\ allocated \in [Names -> Regions \cup {NoName}]
    BY <1>5
  <2> QED
    BY <2>1, <2>2, <2>3, <2>4 DEF OTypeOK
<1>11. FramesOk
  BY <1>5, <1>7, <1>9 DEF FramesOk
<1>12. \A f \in DOMAIN frames, v \in Names : Named(f, v) =>
         f = 1 /\ v = Param /\ At(f, v) = [mut |-> FALSE, moved |-> FALSE, obj |-> 1]
  BY <1>6, <1>7, <1>9 DEF Named, At
<1>13. NamesOk
  <2>1. ASSUME NEW f \in DOMAIN frames, NEW v \in Names, Named(f, v)
        PROVE  /\ At(f, v).obj \in DOMAIN objects
               /\ objects[At(f, v).obj].mut = At(f, v).mut
               /\ ~objects[At(f, v).obj].moved
    <3>1. At(f, v).obj = 1 /\ At(f, v).mut = FALSE
      BY <1>12, <2>1
    <3> QED
      BY <1>8, <1>9, <3>1
  <2>2. \A f, g \in DOMAIN frames, v, w \in Names : Named(f, v) /\ Named(g, w) => f = g /\ v = w
    BY <1>12
  <2> QED
    BY <2>1, <2>2 DEF NamesOk
<1>14. RegionFrames = {}
  BY <1>7, <1>9 DEF RegionFrames
<1>15. AliasInv
  BY <1>5, <1>8, <1>9 DEF AliasInv, StampsOk, Sound, NoRef
<1>16. FieldInv
  <2>1. \A f, g \in DOMAIN frames, w, v \in Names :
          Named(f, w) /\ Named(g, v) => objects[At(f, w).obj].field = 0 /\ At(g, v).obj = 1
    <3>1. \A f \in DOMAIN frames, v \in Names : Named(f, v) => At(f, v).obj = 1
      BY <1>12
    <3> QED
      BY <1>8, <1>9, <3>1
  <2>2. \A o \in DOMAIN objects : objects[o].field = 0
    BY <1>8, <1>9
  <2> QED
    BY <2>1, <2>2 DEF FieldInv
<1>17. BornOk
  BY <1>9 DEF BornOk
<1>18. NameSide
  <2>1. DefsOk
    BY <1>1, <1>5, <1>6, <1>7, <1>9 DEF DefsOk
  <2>2. LocalInv
    BY <1>8, <1>9, <1>12 DEF LocalInv, Placed
  <2>3. DeadInv
    BY <1>5, <1>8, <1>9 DEF DeadInv
  <2>4. ParamInv
    BY <1>1, <1>12 DEF ParamInv
  <2>5. BoundOnce /\ RegionOnce
    BY <1>9, <1>14 DEF BoundOnce, RegionOnce
  <2>6. AllocOk
    BY <1>5 DEF AllocOk
  <2> QED
    BY <2>1, <2>2, <2>3, <2>4, <2>5, <2>6 DEF NameSide, OnceInv
<1>19. PlainInv
  BY <1>8, <1>9, <1>12 DEF PlainInv, NoRef
<1>20. TrackInv
  BY <1>1, <1>12 DEF TrackInv, Names
<1> QED
  BY <1>10, <1>11, <1>13, <1>15, <1>16, <1>17, <1>18, <1>19, <1>20 DEF OInv, Core

LEMMA OInvStep ==
  ASSUME OInv, [ONext]_oVars
  PROVE  OInv'
<1>1. CASE UNCHANGED oVars
  <2>1. /\ pos' = pos /\ frames' = frames /\ borrows' = borrows /\ defs' = defs
        /\ suspects' = suspects /\ allocated' = allocated /\ gone' = gone /\ objects' = objects
        /\ skipped' = skipped /\ shadowed' = shadowed
    BY <1>1 DEF oVars
  <2>2. Core'
    BY <2>1 DEF OInv, Core, OTypeOK, FramesOk, NamesOk, Named, At, AliasInv, StampsOk, Sound,
                FieldInv, Covered, OpenIds
  <2>3. BornOk' /\ PlainInv' /\ TrackInv'
    <3>1. BornOk'
      BY <2>1 DEF OInv, BornOk
    <3>2. PlainInv'
      BY <2>1 DEF OInv, PlainInv, Named, At
    <3>3. RegionFrames' = RegionFrames
      BY <2>1 DEF RegionFrames
    <3>4. \A b, o : Held(b, o) => Held(b, o)'
      BY <2>1, <3>3 DEF Held
    <3>5. \A i, v : Youngest(i, v) => Youngest(i, v)'
      BY <2>1 DEF Youngest
    <3>6. \A ref, v : Tracked(ref, v) => Tracked(ref, v)'
      BY <2>1, <3>4, <3>5 DEF Tracked
    <3>7. TrackInv'
      BY <2>1, <3>6 DEF OInv, TrackInv, Named, At
    <3> QED
      BY <3>1, <3>2, <3>7
  <2>4. NameSide'
    BY <2>1 DEF OInv, NameSide, DefsOk, LocalInv, Placed, DeadInv, ParamInv, OnceInv, BoundOnce,
                RegionOnce, AllocOk, Named, At, RegionFrames, OpenIds
  <2> QED
    BY <2>2, <2>3, <2>4 DEF OInv
<1>2. CASE \E v \in Vals \ {Param}, mut \in BOOLEAN, r \in Regions \cup {NoName} : Let(v, mut, r)
  BY <1>2, LetInv, OwnershipAssumption DEF Names
<1>3. CASE \E w \in Boxes : Let(w, FALSE, NoName) \/ ReadField(w) \/ \E s \in Vals : StoreField(w, s)
  <2>1. PICK w \in Boxes : Let(w, FALSE, NoName) \/ ReadField(w) \/ \E s \in Vals : StoreField(w, s)
    BY <1>3
  <2>2. CASE Let(w, FALSE, NoName)
    <3>1. PICK mut \in BOOLEAN, r \in Regions \cup {NoName} : mut = FALSE /\ r = NoName
      OBVIOUS
    <3>2. Let(w, mut, r)
      BY <2>2, <3>1
    <3>3. w \in Names /\ w # Param /\ w \notin Refs
      BY OwnershipAssumption DEF Names
    <3> QED
      BY <3>2, <3>3, LetInv
  <2>3. CASE ReadField(w)
    BY <2>3, ErrorFree, ReadInv, TopTyped DEF ReadField, OInv, Core, OTypeOK
  <2>4. CASE \E s \in Vals : StoreField(w, s)
    BY <2>4, StoreFieldInv
  <2> QED
    BY <2>1, <2>2, <2>3, <2>4
<1>4. CASE \E r \in Refs, s \in Vals, mut \in BOOLEAN : LetRef(r, s, mut) \/ AssignRef(r, s, mut)
  BY <1>4, LetRefInv, AssignRefInv
<1>5. CASE \E r, from \in Refs : r # from /\ (LetCopy(r, from) \/ AssignCopy(r, from))
  BY <1>5, LetCopyInv, AssignCopyInv
<1>6. CASE \E v \in Vals : Assign(v) \/ \E mut \in BOOLEAN : Lend(v, mut)
  BY <1>6, AssignInv, LendInv
<1>7. CASE \E v \in Vals \cup Refs : Read(v)
  BY <1>7, ErrorFree, ReadInv, TopTyped DEF Read, OInv, Core, OTypeOK
<1>8. CASE \E v \in Vals, r \in Regions : CheckTransfer(v, r)
  BY <1>8, TransferInv
<1>9. CASE \E kind \in {"block", "branch", "region"}, r \in Regions \cup {NoName},
             taken \in BOOLEAN : OpenBlock(kind, r, taken)
  BY <1>9, OpenInv
<1>10. CASE CloseBlock
  BY <1>10, CloseInv
<1>11. CASE \E r \in Refs : ReturnRef(r)
  BY <1>11, ReadInv, OwnershipAssumption DEF ReturnRef, OInv, Core, OTypeOK
<1> QED
  BY <1>1, <1>2, <1>3, <1>4, <1>5, <1>6, <1>7, <1>8, <1>9, <1>10, <1>11 DEF ONext

-----------------------------------------------------------------------------
(* What a statement does wrong.                                            *)

Good == RefsStayAlive /\ OneOwnerOneWriter

(* Words no statement adds: some of them only where every name is declared *)
(* once, and some only where also every branch is taken.                   *)
Harmless(words) ==
  /\ words \cap {"alias", "immutable"} = {}
  /\ ~shadowed => words \cap {"twice", "foreign", "moved", "lost"} = {}
  /\ ~shadowed /\ ~skipped => words \cap {"dangling", "escaped"} = {}

LEMMA GoodKept ==
  ASSUME Good, ~shadowed' => ~shadowed, ~skipped' => ~skipped, NEW words, Harmless(words),
         misuse' \in {misuse, misuse \cup words}
  PROVE  Good'
<1>1. BorrowsExclude'
  BY DEF Good, OneOwnerOneWriter, BorrowsExclude, Harmless
<1>2. TransfersOnce'
  BY DEF Good, OneOwnerOneWriter, TransfersOnce, Harmless
<1>3. RefsStayAlive'
  BY DEF Good, RefsStayAlive, Harmless
<1> QED
  BY <1>1, <1>2, <1>3 DEF Good, OneOwnerOneWriter

LEMMA GoodQuiet ==
  ASSUME Good, ~shadowed' => ~shadowed, ~skipped' => ~skipped, misuse' = misuse
  PROVE  Good'
<1>1. Harmless({})
  BY DEF Harmless
<1> QED
  BY <1>1, GoodKept

LEMMA GoodSuffers ==
  ASSUME Good, Same \/ (shadowed' = shadowed /\ skipped' = skipped), NEW words, Suffer(words),
         Live => Harmless(words)
  PROVE  Good'
<1>1. shadowed' = shadowed /\ skipped' = skipped
  BY DEF Same
<1>2. CASE Live
  BY <1>1, <1>2, GoodKept DEF Suffer
<1>3. CASE ~Live
  BY <1>1, <1>3, GoodQuiet DEF Suffer
<1> QED
  BY <1>2, <1>3

(* A name may be used: its object has not moved, and what a reference      *)
(* refers to is there.                                                     *)
LEMMA UsedStays ==
  ASSUME OInv, Live, NEW v \in Names, Known(v), Use(v) = {}
  PROVE  ~objects[Obj(v)].moved /\ v \notin suspects
<1>1. ~Moved(v) /\ v \notin suspects
  BY DEF Use, Mention, Fail
<1>2. objects[Obj(v)].moved => Moved(v)
  BY KnownRuns DEF OInv, Core
<1> QED
  BY <1>1, <1>2

LEMMA ReferentLives ==
  ASSUME OInv, Live, ~shadowed, ~skipped, NEW v \in Names, Known(v), v \notin suspects,
         NEW ref, ref = objects[Obj(v)].ref, ref.to # 0
  PROVE  v \in Refs /\ ~objects[ref.to].dead
<1>1. PICK m : m = Max(Bound(v))
  OBVIOUS
<1>2. m \in DOMAIN frames /\ Named(m, v) /\ objects[At(m, v).obj].ref = ref
      /\ Obj(v) \in DOMAIN objects
  BY <1>1, KnownRuns DEF OInv, Core
<1>3. v \in Refs
  BY <1>2 DEF OInv, PlainInv
<1>4. Tracked(ref, v)
  BY <1>2, <1>3 DEF OInv, TrackInv
<1>5. PICK i \in DOMAIN borrows : Held(borrows[i], ref.to)
  BY <1>4 DEF Tracked
<1>6. ref.to \in DOMAIN objects
  BY <1>2 DEF OInv, Core, AliasInv, Sound
<1>7. objects[ref.to].home = 0 \/ objects[ref.to].home \in OpenIds
  <2>1. 1 \in OpenIds
    BY DEF OInv, Core, FramesOk, OTypeOK, OpenIds
  <2>2. \A h \in RegionFrames : frames[h].id \in OpenIds
    BY DEF RegionFrames, OpenIds
  <2> QED
    BY <1>5, <2>1, <2>2 DEF Held
<1>8. ~objects[ref.to].dead
  BY <1>6, <1>7 DEF OInv, NameSide, DeadInv
<1> QED
  BY <1>3, <1>8

LEMMA ReadHarmless ==
  ASSUME OInv, Live, NEW v \in Vals \cup Refs, Known(v), Use(v) = {}
  PROVE  Harmless(Fail(objects[Obj(v)].moved, "moved") \cup Wrong(v))
<1>1. v \in Names
  BY DEF Names
<1>2. ~objects[Obj(v)].moved /\ v \notin suspects
  BY <1>1, UsedStays
<1>3. PICK ref : ref = objects[Obj(v)].ref
  OBVIOUS
<1>4. Obj(v) \in DOMAIN objects
  BY <1>1, KnownRuns DEF OInv, Core
<1>5. Sound(ref)
  BY <1>3, <1>4 DEF OInv, Core, AliasInv
<1>6. Fail(objects[Obj(v)].moved, "moved") = {}
  BY <1>2 DEF Fail
<1>7. Wrong(v) \subseteq {"dangling", "immutable", "alias"}
  BY DEF Wrong, Fail
<1>8. "immutable" \notin Wrong(v)
  BY <1>3, <1>5 DEF Wrong, Fail, Sound
<1>9. "alias" \notin Wrong(v)
  <2>1. SUFFICES ASSUME ref.to # 0, ref.blk \in OpenIds
                 PROVE  ~ (\/ objects[ref.to].wrote > ref.born
                           \/ objects[ref.to].mutAt > ref.born
                           \/ ref.mut /\ objects[ref.to].refAt > ref.born)
    BY <1>3 DEF Wrong, Fail
  <2>2. Undisturbed(objects, ref) /\ ref.to \in DOMAIN objects
    BY <1>5, <2>1 DEF Sound
  <2>3. objects[ref.to] \in Objs /\ objects[Obj(v)] \in Objs
    BY <1>4, <2>2 DEF OInv, Core, OTypeOK
  <2>4. /\ objects[ref.to].wrote \in Nat /\ objects[ref.to].mutAt \in Nat
        /\ objects[ref.to].refAt \in Nat /\ ref.born \in Nat
    BY <1>3, <2>3 DEF Objs, RefRecs
  <2> QED
    BY <2>2, <2>4 DEF Undisturbed
<1>10. ~shadowed /\ ~skipped => "dangling" \notin Wrong(v)
  <2>1. SUFFICES ASSUME ~shadowed, ~skipped, ref.to # 0 PROVE ~objects[ref.to].dead
    BY <1>3 DEF Wrong, Fail
  <2> QED
    BY <1>1, <1>2, <1>3, <2>1, ReferentLives
<1> QED
  BY <1>6, <1>7, <1>8, <1>9, <1>10 DEF Harmless

(* One borrow is kept for the field, and it is of the name its referent    *)
(* has: check_embedded_deref looks at the right name.                      *)
LEMMA FieldFound ==
  ASSUME OInv, Live, NEW w \in Boxes, Known(w), NEW v \in Vals, Known(v),
         Obj(v) = objects[Obj(w)].field, NEW kept, kept = {i \in DOMAIN borrows : borrows[i].place = w},
         Cardinality(kept) = 1
  PROVE  kept # {} /\ borrows[Min(kept)].source = v
<1>1. w \in Names /\ v \in Names
  BY DEF Names
<1>2. PICK m, n : m = Max(Bound(w)) /\ n = Max(Bound(v))
  OBVIOUS
<1>3. m \in DOMAIN frames /\ Named(m, w) /\ At(m, w).obj = Obj(w)
  BY <1>1, <1>2, KnownRuns DEF OInv, Core
<1>4. n \in DOMAIN frames /\ Named(n, v) /\ At(n, v).obj = Obj(v)
  BY <1>1, <1>2, KnownRuns DEF OInv, Core
<1>5. PICK k \in DOMAIN borrows : borrows[k].place = w /\ borrows[k].source = v
  BY <1>1, <1>3, <1>4 DEF OInv, Core, FieldInv
<1>6. DOMAIN borrows = 1..Len(borrows) /\ Len(borrows) \in Nat
  BY DEF OInv, Core, OTypeOK
<1>7. IsFiniteSet(kept)
  <2>1. IsFiniteSet(1..Len(borrows))
    BY <1>6, FS_Interval
  <2>2. kept \in SUBSET (1..Len(borrows))
    BY <1>6
  <2> QED
    BY <2>1, <2>2, FS_Subset
<1>8. PICK x : kept = {x}
  BY <1>7, FS_Singleton
<1>9. kept = {k} /\ k \in Nat
  BY <1>5, <1>6, <1>8
<1>10. Min(kept) = k
  <2>1. kept \in SUBSET Nat /\ kept # {}
    BY <1>9
  <2>2. Min(kept) \in kept
    BY <2>1, MinOf
  <2> QED
    BY <1>9, <2>2
<1> QED
  BY <1>5, <1>9, <1>10

LEMMA FieldHarmless ==
  ASSUME OInv, Live, NEW w \in Boxes, ReadField(w)
  PROVE  \E words : Suffer(words) /\ Harmless(words)
<1>1. PICK kept : kept = {i \in DOMAIN borrows : borrows[i].place = w}
  OBVIOUS
<1>2. PICK field : field = objects[Obj(w)].field
  OBVIOUS
<1>3. PICK named : named = (Cardinality(kept) = 1 /\ \E v \in Vals : Known(v) /\ Obj(v) = field)
  OBVIOUS
<1>4. PICK words : words = Fail(field # 0 /\ (objects[field].moved \/ objects[field].dead), "field")
                           \cup Fail(field # 0 /\ objects[field].moved /\ named, "lost")
  OBVIOUS
<1>5. /\ Known(w) /\ Suffer(words)
      /\ Use(w) \cup Fail(kept # {} /\ Known(borrows[Min(kept)].source)
                          /\ Moved(borrows[Min(kept)].source), "dangling") = {}
  BY <1>1, <1>2, <1>3, <1>4, ErrorFree DEF ReadField
<1>6. ~(kept # {} /\ Known(borrows[Min(kept)].source) /\ Moved(borrows[Min(kept)].source))
  BY <1>5 DEF Fail
<1>7. ~(objects[field].moved /\ named)
  <2>1. SUFFICES ASSUME objects[field].moved, named PROVE FALSE
    OBVIOUS
  <2>2. Cardinality(kept) = 1 /\ \E v \in Vals : Known(v) /\ Obj(v) = field
    BY <1>3, <2>1
  <2>3. PICK v \in Vals : Known(v) /\ Obj(v) = field
    BY <2>2
  <2>4. kept # {} /\ borrows[Min(kept)].source = v
    BY <1>1, <1>2, <1>5, <2>2, <2>3, FieldFound
  <2>5. v \in Names /\ objects[Obj(v)].moved
    BY <2>1, <2>3 DEF Names
  <2>6. Moved(v)
    BY <2>3, <2>5, KnownRuns DEF OInv, Core
  <2> QED
    BY <1>6, <2>3, <2>4, <2>6
<1>8. words \subseteq {"field"}
  BY <1>4, <1>7 DEF Fail
<1>9. Harmless(words)
  BY <1>8 DEF Harmless
<1> QED
  BY <1>5, <1>9

LEMMA TransferHarmless ==
  ASSUME OInv, Live, NEW v \in Vals, NEW r \in Regions, Known(v),
         Use(v) \cup TransferErrors(v, r) = {}
  PROVE  Harmless(Fail(objects[Obj(v)].moved, "twice")
                  \cup Fail(RegionFrames = {} \/ objects[Obj(v)].home # frames[InnermostRegion].id,
                            "foreign"))
<1>1. v \in Names /\ r # NoName
  BY OwnershipAssumption DEF Names
<1>2. ~objects[Obj(v)].moved
  BY <1>1, UsedStays
<1>3. /\ r \in {frames[f].region : f \in RegionFrames} /\ allocated[v] = r
      /\ InnermostRegion # 0 => frames[InnermostRegion].region = r
  BY DEF TransferErrors, Fail
<1>4. /\ RegionFrames # {} /\ InnermostRegion \in RegionFrames
      /\ frames[InnermostRegion].region = r
  BY <1>3, InnermostTyped DEF OInv, Core
<1>5. PICK m : m = Max(Bound(v))
  OBVIOUS
<1>6. m \in DOMAIN frames /\ Named(m, v) /\ At(m, v).obj = Obj(v)
  BY <1>1, <1>5, KnownRuns DEF OInv, Core
<1>7. ~shadowed => objects[Obj(v)].home = frames[InnermostRegion].id
  <2>1. SUFFICES ASSUME ~shadowed PROVE objects[Obj(v)].home = frames[InnermostRegion].id
    OBVIOUS
  <2>2. RegionOnce /\ AllocOk
    BY <2>1 DEF OInv, NameSide, OnceInv
  <2>3. PICK h \in RegionFrames : frames[h].region = r /\ objects[Obj(v)].home = frames[h].id
    BY <1>1, <1>3, <1>6, <2>2 DEF AllocOk
  <2>4. h = InnermostRegion
    BY <1>4, <2>2, <2>3 DEF RegionOnce
  <2> QED
    BY <2>3, <2>4
<1> QED
  BY <1>2, <1>4, <1>7 DEF Fail, Harmless

LEMMA ReturnHarmless ==
  ASSUME OInv, Live, NEW r \in Refs, Known(r), Use(r) \cup Fail(Escapes(r), "dangling") = {}
  PROVE  Harmless(Fail(objects[Obj(r)].ref.to > 1, "escaped"))
<1>1. r \in Names
  BY DEF Names
<1>2. ~Escapes(r)
  BY DEF Fail
<1>3. PICK m : m = Max(Bound(r))
  OBVIOUS
<1>4. PICK ref : ref = objects[Obj(r)].ref
  OBVIOUS
<1>5. m \in DOMAIN frames /\ Named(m, r) /\ objects[At(m, r).obj].ref = ref
  BY <1>1, <1>3, <1>4, KnownRuns DEF OInv, Core
<1>6. ~shadowed /\ ~skipped => ~(ref.to > 1)
  <2>1. SUFFICES ASSUME ~shadowed, ~skipped, ref.to > 1 PROVE FALSE
    OBVIOUS
  <2>2. Tracked(ref, r)
    BY <1>5, <2>1 DEF OInv, TrackInv
  <2>3. PICK i \in DOMAIN borrows : Youngest(i, r) /\ borrows[i].escapes
    BY <2>1, <2>2 DEF Tracked
  <2> QED
    BY <1>2, <2>3 DEF Escapes, Youngest
<1> QED
  BY <1>4, <1>6 DEF Fail, Harmless

(* A statement that declares or keeps names and does nothing wrong.        *)
LEMMA GoodDeclares ==
  ASSUME Good, NEW v, NEW mut, NEW object, NEW world, Declare(v, mut, object, world),
         misuse' = misuse
  PROVE  Good'
<1>1. shadowed' = (shadowed \/ defs[v] > 0) /\ skipped' = skipped
  BY DEF Declare
<1> QED
  BY <1>1, GoodQuiet

LEMMA GoodKeeps ==
  ASSUME Good, Same, misuse' = misuse
  PROVE  Good'
<1>1. shadowed' = shadowed /\ skipped' = skipped
  BY DEF Same
<1> QED
  BY <1>1, GoodQuiet

LEMMA GoodStep ==
  ASSUME OInv, Good, [ONext]_oVars
  PROVE  Good'
<1>1. CASE UNCHANGED oVars
  BY <1>1, GoodQuiet DEF oVars
<1>2. CASE \E v \in Vals \ {Param}, mut \in BOOLEAN, r \in Regions \cup {NoName} : Let(v, mut, r)
  <2>1. PICK v \in Vals \ {Param}, mut \in BOOLEAN, r \in Regions \cup {NoName} : Let(v, mut, r)
    BY <1>2
  <2>2. misuse' = misuse /\ \E object : Declare(v, mut, object, objects)
    BY <2>1 DEF Let
  <2> QED
    BY <2>2, GoodDeclares
<1>3. CASE \E w \in Boxes : Let(w, FALSE, NoName) \/ ReadField(w) \/ \E s \in Vals : StoreField(w, s)
  <2>1. PICK w \in Boxes : Let(w, FALSE, NoName) \/ ReadField(w) \/ \E s \in Vals : StoreField(w, s)
    BY <1>3
  <2>2. CASE Let(w, FALSE, NoName)
    BY <2>2, GoodDeclares DEF Let
  <2>3. CASE ReadField(w)
    <3>1. Same /\ \E words : Suffer(words)
      BY <2>3 DEF ReadField
    <3>2. Live => \E words : Suffer(words) /\ Harmless(words)
      BY <2>3, FieldHarmless
    <3> QED
      BY <3>1, <3>2, GoodSuffers
  <2>4. CASE \E s \in Vals : StoreField(w, s)
    BY <2>4, GoodKeeps DEF StoreField
  <2> QED
    BY <2>1, <2>2, <2>3, <2>4
<1>4. CASE \E r \in Refs, s \in Vals, mut \in BOOLEAN : LetRef(r, s, mut) \/ AssignRef(r, s, mut)
  <2>1. PICK r \in Refs, s \in Vals, mut \in BOOLEAN : LetRef(r, s, mut) \/ AssignRef(r, s, mut)
    BY <1>4
  <2>2. CASE LetRef(r, s, mut)
    BY <2>2, GoodDeclares DEF LetRef
  <2>3. CASE AssignRef(r, s, mut)
    BY <2>3, GoodKeeps DEF AssignRef
  <2> QED
    BY <2>1, <2>2, <2>3
<1>5. CASE \E r, from \in Refs : r # from /\ (LetCopy(r, from) \/ AssignCopy(r, from))
  <2>1. PICK r, from \in Refs : LetCopy(r, from) \/ AssignCopy(r, from)
    BY <1>5
  <2>2. CASE LetCopy(r, from)
    BY <2>2, GoodDeclares DEF LetCopy
  <2>3. CASE AssignCopy(r, from)
    BY <2>3, GoodKeeps DEF AssignCopy
  <2> QED
    BY <2>1, <2>2, <2>3
<1>6. CASE \E v \in Vals : Assign(v) \/ \E mut \in BOOLEAN : Lend(v, mut)
  <2>1. PICK v \in Vals : Assign(v) \/ \E mut \in BOOLEAN : Lend(v, mut)
    BY <1>6
  <2>2. CASE Assign(v)
    BY <2>2, GoodKeeps DEF Assign
  <2>3. CASE \E mut \in BOOLEAN : Lend(v, mut)
    BY <2>3, GoodKeeps DEF Lend
  <2> QED
    BY <2>1, <2>2, <2>3
<1>7. CASE \E v \in Vals \cup Refs : Read(v)
  <2>1. PICK v \in Vals \cup Refs : Read(v)
    BY <1>7
  <2>2. PICK words : words = Fail(objects[Obj(v)].moved, "moved") \cup Wrong(v)
    OBVIOUS
  <2>3. Known(v) /\ Use(v) = {} /\ Suffer(words) /\ Same
    BY <2>1, <2>2, ErrorFree DEF Read
  <2>4. Live => Harmless(words)
    BY <2>2, <2>3, ReadHarmless
  <2> QED
    BY <2>3, <2>4, GoodSuffers
<1>8. CASE \E v \in Vals, r \in Regions : CheckTransfer(v, r)
  <2>1. PICK v \in Vals, r \in Regions : CheckTransfer(v, r)
    BY <1>8
  <2>2. PICK words : words = Fail(objects[Obj(v)].moved, "twice")
                             \cup Fail(RegionFrames = {}
                                       \/ objects[Obj(v)].home # frames[InnermostRegion].id, "foreign")
    OBVIOUS
  <2>3. /\ Known(v) /\ Use(v) \cup TransferErrors(v, r) = {} /\ Suffer(words)
        /\ shadowed' = shadowed /\ skipped' = skipped
    BY <2>1, <2>2, ErrorFree DEF CheckTransfer
  <2>4. Live => Harmless(words)
    BY <2>2, <2>3, TransferHarmless
  <2> QED
    BY <2>3, <2>4, GoodSuffers
<1>9. CASE \E kind \in {"block", "branch", "region"}, r \in Regions \cup {NoName},
             taken \in BOOLEAN : OpenBlock(kind, r, taken)
  BY <1>9, GoodQuiet DEF OpenBlock
<1>10. CASE CloseBlock
  BY <1>10, GoodQuiet DEF CloseBlock
<1>11. CASE \E r \in Refs : ReturnRef(r)
  <2>1. PICK r \in Refs : ReturnRef(r)
    BY <1>11
  <2>2. PICK words : words = Fail(objects[Obj(r)].ref.to > 1, "escaped")
    OBVIOUS
  <2>3. Known(r) /\ Use(r) \cup Fail(Escapes(r), "dangling") = {} /\ Suffer(words) /\ Same
    BY <2>1, <2>2 DEF ReturnRef
  <2>4. Live => Harmless(words)
    BY <2>2, <2>3, ReturnHarmless
  <2> QED
    BY <2>3, <2>4, GoodSuffers
<1> QED
  BY <1>1, <1>2, <1>3, <1>4, <1>5, <1>6, <1>7, <1>8, <1>9, <1>10, <1>11 DEF ONext

(* The tables of the two checkers, which are by name, stand for the        *)
(* objects of the execution, in every function they accept: what           *)
(* BorrowChecker and CheckState keep from statement to statement.          *)
THEOREM TablesStandForObjects == OSpec => []OInv
<1>1. OInit => OInv
  BY OInvInit
<1>2. OInv /\ [ONext]_oVars => OInv'
  BY OInvStep
<1> QED
  BY <1>1, <1>2, PTL DEF OSpec

LEMMA GoodAlways == OSpec => []Good
<1>1. OInit => OInv /\ Good
  BY OInvInit DEF OInit, Good, RefsStayAlive, OneOwnerOneWriter, BorrowsExclude, TransfersOnce
<1>2. OInv /\ Good /\ [ONext]_oVars => OInv' /\ Good'
  BY OInvStep, GoodStep
<1> QED
  BY <1>1, <1>2, PTL DEF OSpec

(* A function both checkers accept reads no reference to an object of a    *)
(* region that has ended and returns none to an object of its own, if it   *)
(* declares each name once and takes every branch: check_dangling_return   *)
(* and the scan of check_region of BorrowChecker.                          *)
THEOREM RefsStayAliveHolds == OSpec => []RefsStayAlive
<1>1. Good => RefsStayAlive
  BY DEF Good
<1> QED
  BY <1>1, GoodAlways, PTL

(* A function both checkers accept has one owner and one writer for every  *)
(* object: a reference sees in its block no write and no reference it      *)
(* excludes, nothing that is not mut is reached by &mut, and an object is  *)
(* transferred once, out of the region it is in, and not read later:       *)
(* register_borrow, check_assign, check_transfer, check_embedded_deref.    *)
THEOREM OneOwnerOneWriterHolds == OSpec => []OneOwnerOneWriter
<1>1. Good => OneOwnerOneWriter
  BY DEF Good
<1> QED
  BY <1>1, GoodAlways, PTL

=============================================================================
