--------------------------- MODULE OwnershipCheck ---------------------------
(***************************************************************************)
(* The borrow checker (rlyeh-borrowck) and the region checker              *)
(* (rlyeh-regionck), run over a function body statement by statement, next *)
(* to an execution of that body: the checkers know names and statement     *)
(* numbers, the execution knows objects.  A step is one statement, the     *)
(* opening of a block or its end; which statement comes next is open, so   *)
(* the behaviours are the functions one can write.                         *)
(*                                                                         *)
(* The pre-scan of the borrow checker knows where a name is used later.    *)
(* Here a borrow that the scan at a region's end would find used beyond it *)
(* makes its variable a suspect, and the later use is the error.           *)
(*                                                                         *)
(* A loop body is a branch here: its second turn is not executed.          *)
(***************************************************************************)
EXTENDS Naturals, Sequences, FiniteSetsExt, Functions

CONSTANTS
  Vals, Refs, Boxes,  \* names of values, of references, of aggregates
                      \* with a reference field
  Param,              \* the one of Vals that is a reference parameter
  Regions,            \* region names
  NoName,
  MaxStmts, MaxFrames \* bounds on a function's length and nesting

ASSUME OwnershipAssumption ==
  /\ Vals \cap Refs = {} /\ Vals \cap Boxes = {} /\ Refs \cap Boxes = {}
  /\ Param \in Vals /\ NoName \notin Vals \cup Refs \cup Boxes \cup Regions
  /\ MaxStmts \in Nat /\ MaxFrames \in Nat

VARIABLES
  pos,          \* number of the last statement (BorrowChecker.pos)
  frames,       \* the open blocks: scopes, block_stack, region_local_stack
  borrows,      \* BorrowChecker.borrows
  defs,         \* the last `let` of each name
  suspects,     \* names that may not be used again before their next `let`
  allocated, gone,  \* CheckState.allocated and .transferred of regionck
  objects,         \* the objects of the execution
  misuse,       \* what the execution did wrong
  skipped, shadowed \* a branch was not taken, a name was declared again

oVars == <<pos, frames, borrows, defs, suspects, allocated, gone,
           objects, misuse, skipped, shadowed>>

Names == Vals \cup Refs \cup Boxes
NoRef == [to |-> 0, mut |-> FALSE, born |-> 0, blk |-> 0]

----------------------------------------------------------------------------
(* Names and frames. *)
Now == pos + 1
Top == Len(frames)
TopId == frames[Top].id
OpenIds == {frames[f].id : f \in DOMAIN frames}
Bound(v) == {f \in DOMAIN frames : v \in DOMAIN frames[f].bind}
Known(v) == Bound(v) # {}
Binding(v) == frames[Max(Bound(v))].bind[v]
Moved(v) == Binding(v).moved
RegionFrames == {f \in DOMAIN frames : frames[f].region # NoName}
InnermostRegion == IF RegionFrames = {} THEN 0 ELSE Max(RegionFrames)
Live == frames[Top].run
Obj(v) == Binding(v).obj
Fail(condition, error) == IF condition THEN {error} ELSE {}

(* The uses a statement makes of v: check_expr of Variable, and pre-scan. *)
Mention(v) == Fail(v \in suspects, "dangling")
Use(v) == Fail(Moved(v), "moved") \cup Mention(v)

(* active_borrows: until the end of the block that took the borrow. *)
Active(v) ==
  {b \in Range(borrows) :
     b.source = v /\ b.block \in OpenIds /\ b.place = NoName}

(* register_borrow: its errors, and the record it leaves. *)
BorrowErrors(s, mut) ==
  LET clash == \E b \in Active(s) : b.mut \/ mut IN
  Fail(clash, "conflict") \cup Fail(~clash /\ mut /\ ~Binding(s).mut, "mutable")

Record(var, s, mut) ==
  [source |-> s, var |-> var, mut |-> mut, born |-> Now, block |-> TopId,
   escapes |-> s # Param, place |-> NoName]

(* mutant: a copied reference is not tracked *)
CopyOfNothing(to, from) == <<>>

(* copy_borrow: the youngest borrow of `from`, again for `to`. *)
CopyOf(to, from) ==
  LET known == {i \in DOMAIN borrows : borrows[i].var = from} IN
  IF known = {} THEN <<>>
  ELSE LET i == CHOOSE i \in known : \A j \in known :
                  borrows[j].born < borrows[i].born
                    \/ (borrows[j].born = borrows[i].born /\ j <= i) IN
       <<[borrows[i] EXCEPT !.var = to, !.born = Now, !.block = TopId, !.place = NoName]>>

----------------------------------------------------------------------------
(* The execution. *)
NewObj(home, mut, ref) ==
  [home |-> home, mut |-> mut, ref |-> ref, field |-> 0, dead |-> FALSE,
   moved |-> FALSE, wrote |-> 0, mutAt |-> 0, refAt |-> 0]

RefTo(s, mut) == [to |-> Obj(s), mut |-> mut, born |-> Now, blk |-> TopId]
CopyRef(v) == [objects[Obj(v)].ref EXCEPT !.blk = 0]

(* `&s` and `&mut s` leave their mark on the object. *)
Touched(s, mut) ==
  [objects EXCEPT ![Obj(s)].refAt = Now, ![Obj(s)].mutAt = IF mut THEN Now ELSE @]

(* What is wrong with going through the reference in v now.  A reference   *)
(* excludes others inside the block that made it.                          *)
Wrong(v) ==
  LET ref == objects[Obj(v)].ref
      target == objects[ref.to] IN
  IF ref.to = 0 THEN {} ELSE
    Fail(target.dead, "dangling")
    \cup Fail(ref.mut /\ ~target.mut, "immutable")
    \cup Fail(ref.blk \in OpenIds /\
              (\/ target.wrote > ref.born \/ target.mutAt > ref.born
               \/ ref.mut /\ target.refAt > ref.born), "alias")

Suffer(words) == misuse' = IF Live THEN misuse \cup words ELSE misuse
Execute(world) == objects' = IF Live THEN world ELSE objects

----------------------------------------------------------------------------
OInit ==
  /\ pos = 0 /\ borrows = <<>> /\ suspects = {} /\ gone = {}
  /\ frames = <<[id |-> 1, start |-> 0, region |-> NoName, run |-> TRUE, locals |-> {},
                 bind |-> [v \in {Param} |-> [mut |-> FALSE, moved |-> FALSE, obj |-> 1]]]>>
  /\ defs = [v \in Names |-> 0]
  /\ allocated = [v \in Names |-> NoName]
  /\ objects = <<NewObj(0, FALSE, NoRef)>>
  /\ misuse = {} /\ skipped = FALSE /\ shadowed = FALSE

(* One more statement, for which the checkers report nothing: a function   *)
(* they reject is not run.                                                 *)
Stmt(errors) == errors = {} /\ pos < MaxStmts /\ pos' = Now

Declare(v, mut, object, world) ==
  /\ frames' = [f \in DOMAIN frames |->
       [frames[f] EXCEPT
          !.bind = IF f = Top THEN [n \in DOMAIN @ \cup {v} |->
                     IF n = v THEN [mut |-> mut, moved |-> FALSE,
                                    obj |-> IF Live THEN Len(world) + 1 ELSE 1]
                              ELSE @[n]] ELSE @,
          !.locals = IF f = InnermostRegion THEN @ \cup {v} ELSE @]]
  /\ defs' = [defs EXCEPT ![v] = Now]
  /\ suspects' = suspects \ {v}
  /\ shadowed' = (shadowed \/ defs[v] > 0)
  /\ Execute(Append(world, object))
  /\ UNCHANGED skipped

(* let [mut] v = ... [in 'r] *)
Let(v, mut, r) ==
  LET there == {f \in RegionFrames : frames[f].region = r} IN
  /\ Stmt(Fail(r # NoName /\ there = {}, "region"))
  /\ Declare(v, mut, NewObj(IF there = {} THEN frames[Max({1, InnermostRegion})].id
                                         ELSE frames[Max(there)].id, mut, NoRef), objects)
  /\ allocated' = IF there = {} THEN allocated ELSE [allocated EXCEPT ![v] = r]
  /\ UNCHANGED <<borrows, gone, misuse>>

(* let r = &s, let r = &mut s *)
LetRef(r, s, mut) ==
  /\ Known(s) /\ Stmt(BorrowErrors(s, mut) \cup Mention(s))
  /\ borrows' = Append(borrows, Record(r, s, mut))
  /\ Declare(r, TRUE, NewObj(0, TRUE, RefTo(s, mut)), Touched(s, mut))
  /\ UNCHANGED <<allocated, gone, misuse>>

(* let r = from *)
LetCopy(r, from) ==
  /\ Known(from) /\ Stmt(Use(from))
  /\ borrows' = borrows \o CopyOf(r, from)
  /\ Declare(r, TRUE, NewObj(0, TRUE, CopyRef(from)), objects)
  /\ UNCHANGED <<allocated, gone, misuse>>

AssignErrors(v) ==
  Fail(Active(v) # {}, "conflict") \cup Fail(Moved(v), "moved")
  \cup Fail(~Moved(v) /\ ~Binding(v).mut, "assign")

Same == UNCHANGED <<frames, defs, suspects, allocated, gone, skipped, shadowed>>

(* v = ... *)
Assign(v) ==
  /\ Known(v) /\ Stmt(AssignErrors(v))
  /\ Execute([objects EXCEPT ![Obj(v)].wrote = Now])
  /\ UNCHANGED <<borrows, misuse>> /\ Same

(* r = &s, r = &mut s: the borrow is registered for r, and once more when  *)
(* the value is checked as an expression, which no `&mut` survives.        *)
AssignRef(r, s, mut) ==
  /\ Known(r) /\ Known(s)
  /\ Stmt(AssignErrors(r) \cup BorrowErrors(s, mut) \cup Fail(mut, "conflict") \cup Mention(s))
  /\ borrows' = borrows \o <<Record(r, s, mut), Record(NoName, s, mut)>>
  /\ Execute([Touched(s, mut) EXCEPT ![Obj(r)].ref = RefTo(s, mut)])
  /\ UNCHANGED misuse /\ Same

(* r = from *)
AssignCopy(r, from) ==
  /\ Known(r) /\ Known(from) /\ Stmt(AssignErrors(r) \cup Use(from))
  /\ borrows' = borrows \o CopyOf(r, from)
  /\ Execute([objects EXCEPT ![Obj(r)].ref = CopyRef(from)])
  /\ UNCHANGED misuse /\ Same

(* A read of a value, and *r or *r = ... through a reference. *)
Read(v) ==
  /\ Known(v) /\ Stmt(Use(v))
  /\ Suffer(Fail(objects[Obj(v)].moved, "moved") \cup Wrong(v))
  /\ UNCHANGED <<borrows, objects>> /\ Same

(* f(&s), f(&mut s) *)
Lend(s, mut) ==
  /\ Known(s) /\ Stmt(BorrowErrors(s, mut) \cup Mention(s))
  /\ borrows' = Append(borrows, Record(NoName, s, mut))
  /\ Execute(Touched(s, mut))
  /\ UNCHANGED misuse /\ Same

(* w.field = &s, as a statement or from the literal of an aggregate. *)
StoreField(w, s) ==
  /\ Known(w) /\ Known(s) /\ Stmt(Use(w) \cup BorrowErrors(s, FALSE) \cup Mention(s))
  /\ borrows' = borrows \o <<[Record(NoName, s, FALSE) EXCEPT !.place = w],
                             Record(NoName, s, FALSE)>>
  /\ Execute([Touched(s, FALSE) EXCEPT ![Obj(w)].field = Obj(s)])
  /\ UNCHANGED misuse /\ Same

(* *w.field: check_embedded_deref looks at the first borrow kept there, if *)
(* the name it borrows is still in scope; the scan of the region is over.  *)
ReadField(w) ==
  LET kept == {i \in DOMAIN borrows : borrows[i].place = w}
      field == objects[Obj(w)].field
      named == Cardinality(kept) = 1 /\ \E v \in Vals : Known(v) /\ Obj(v) = field IN
  /\ Known(w)
  /\ Stmt(Use(w) \cup Fail(kept # {} /\ Known(borrows[Min(kept)].source)
                          /\ Moved(borrows[Min(kept)].source), "dangling"))
  /\ Suffer(Fail(field # 0 /\ (objects[field].moved \/ objects[field].dead), "field")
            \cup Fail(field # 0 /\ objects[field].moved /\ named, "lost"))
  /\ UNCHANGED <<borrows, objects>> /\ Same

(* mutant: the region named need not be the innermost one *)
TransferErrorsAnywhere(v, r) ==
  Fail(r \notin {frames[f].region : f \in RegionFrames}, "region")
  \cup Fail(v \in gone, "twice") \cup Fail(allocated[v] # r, "foreign")

(* check_transfer of the region checker. *)
TransferErrors(v, r) ==
  Fail(r \notin {frames[f].region : f \in RegionFrames}, "region")
  \cup Fail(v \in gone, "twice") \cup Fail(allocated[v] # r, "foreign")
  \cup Fail(InnermostRegion # 0 /\ frames[InnermostRegion].region # r, "outer")

(* transfer v out of 'r *)
CheckTransfer(v, r) ==
  /\ Known(v) /\ Stmt(Use(v) \cup TransferErrors(v, r))
  /\ frames' = [frames EXCEPT ![Max(Bound(v))].bind[v].moved = TRUE]
  /\ gone' = gone \cup {v}
  /\ Suffer(Fail(objects[Obj(v)].moved, "twice")
            \cup Fail(RegionFrames = {} \/ objects[Obj(v)].home # frames[InnermostRegion].id, "foreign"))
  /\ Execute([objects EXCEPT ![Obj(v)].moved = TRUE])
  /\ UNCHANGED <<borrows, defs, suspects, allocated, skipped, shadowed>>

(* A block, a branch or loop body (taken or not), a region. *)
OpenBlock(kind, r, taken) ==
  /\ Top < MaxFrames /\ Stmt({})
  /\ (kind = "region") = (r # NoName) /\ (kind = "branch" \/ taken)
  /\ frames' = Append(frames, [id |-> Now + 1, start |-> Now, region |-> r, locals |-> {},
                               run |-> Live /\ taken, bind |-> [v \in {} |-> 0]])
  /\ skipped' = (skipped \/ (Live /\ ~taken))
  /\ shadowed' = (shadowed \/ r \in {frames[f].region : f \in RegionFrames})
  /\ UNCHANGED <<borrows, defs, suspects, allocated, gone, objects, misuse>>

(* mutant: the scan at the end of a region looks at `let` borrows only *)
NewSuspectsLet(frame) ==
  {b.var : b \in {b \in Range(borrows) :
     b.var # NoName /\ b.born > frame.start /\ b.source \in frame.locals
     /\ defs[b.var] = b.born}}

(* The scan at a region's end: references born in it, to its locals. *)
NewSuspects(frame) ==
  {b.var : b \in {b \in Range(borrows) :
     /\ b.var # NoName
     /\ b.born > frame.start /\ b.source \in frame.locals
     /\ defs[b.var] <= b.born}}

(* The end of a block; a region takes its objects with it. *)
CloseBlock ==
  LET frame == frames[Top] IN
  /\ Top > 1
  /\ frames' = SubSeq(frames, 1, Top - 1)
  /\ suspects' = IF frame.region = NoName THEN suspects ELSE suspects \cup NewSuspects(frame)
  /\ allocated' = [v \in Names |->
       IF allocated[v] = frame.region THEN NoName ELSE allocated[v]]
  /\ Execute([i \in DOMAIN objects |-> [objects[i] EXCEPT !.dead = @ \/
       (frame.region # NoName /\ objects[i].home = frame.id)]])
  /\ UNCHANGED <<pos, borrows, defs, gone, misuse, skipped, shadowed>>

(* check_dangling_return, of a variable. *)
Escapes(r) == \E i \in DOMAIN borrows : borrows[i].var = r /\ borrows[i].escapes

(* return r, or r as the value of the body: nothing comes after it. *)
ReturnRef(r) ==
  /\ Known(r) /\ pos < MaxStmts /\ pos' = MaxStmts
  /\ Use(r) \cup Fail(Escapes(r), "dangling") = {}
  /\ Suffer(Fail(objects[Obj(r)].ref.to > 1, "escaped"))
  /\ UNCHANGED <<borrows, objects>> /\ Same

ONext ==
  \/ \E v \in Vals \ {Param}, mut \in BOOLEAN, r \in Regions \cup {NoName} : Let(v, mut, r)
  \/ \E w \in Boxes : Let(w, FALSE, NoName) \/ ReadField(w) \/ \E s \in Vals : StoreField(w, s)
  \/ \E r \in Refs, s \in Vals, mut \in BOOLEAN : LetRef(r, s, mut) \/ AssignRef(r, s, mut)
  \/ \E r, from \in Refs : r # from /\ (LetCopy(r, from) \/ AssignCopy(r, from))
  \/ \E v \in Vals : Assign(v) \/ \E mut \in BOOLEAN : Lend(v, mut)
  \/ \E v \in Vals \cup Refs : Read(v)
  \/ \E v \in Vals, r \in Regions : CheckTransfer(v, r)
  \/ \E kind \in {"block", "branch", "region"}, r \in Regions \cup {NoName},
        taken \in BOOLEAN : OpenBlock(kind, r, taken)
  \/ CloseBlock
  \/ \E r \in Refs : ReturnRef(r)

OSpec == OInit /\ [][ONext]_oVars

----------------------------------------------------------------------------
(* The properties: what a function both checkers accept never does. *)

(* It neither reads a reference to an object of a region that has ended    *)
(* nor returns one to an object of its own, if every name is declared once *)
(* and every branch is taken: the scan at a region's end knows names and   *)
(* statement numbers, the execution knows objects.                         *)
RefsStayAlive == ~shadowed /\ ~skipped => misuse \cap {"dangling", "escaped"} = {}

(* Inside the block that took it a reference sees no write and no other    *)
(* reference it excludes; nothing that is not mut is reached by &mut.      *)
BorrowsExclude == misuse \cap {"alias", "immutable"} = {}

(* Objects are transferred once, and out of the innermost region, where    *)
(* they are, and not read later; nor is a field through its only reference *)
(* while the object it refers to has its name.                             *)
TransfersOnce ==
  ~shadowed => misuse \cap {"twice", "foreign", "moved", "lost"} = {}

(* No field is read whose referent was transferred, or is gone with its    *)
(* region: what the comment on check_embedded_deref says of it.            *)
FieldsStayAlive == ~shadowed => "field" \notin misuse

(* Both: at every moment an object has one owner, and a write one name to  *)
(* go through.                                                             *)
OneOwnerOneWriter == BorrowsExclude /\ TransfersOnce
=============================================================================
