-------------------------- MODULE ActorMail_proofs --------------------------
(***************************************************************************)
(* Where the messages are, and who will look at them.                      *)
(*                                                                         *)
(* PendingInv: pending counts the entries of the ready queues and the      *)
(* batches in progress, under every strategy.  Every step queues an entry  *)
(* or none (QueuesPending), takes one (PickPending) or ends a batch        *)
(* (BatchEnds); so a worker that reads 0 leaves empty queues behind.       *)
(*                                                                         *)
(* MailInv, with actors restarted one by one: mail of a registered actor   *)
(* is awaited, by an entry or by a thread that queues one or looks into    *)
(* that mailbox again, or its sender is about to queue an entry; and       *)
(* whoever holds running is inside, or about to remove the actor.  Steps   *)
(* keep it in one of these ways: no thread moves (UnmovedMail), a thread   *)
(* goes on and what it watches stays awaited (HandsMail), a restart hands  *)
(* its mailbox on (InsertMail), a push is announced until it is notified   *)
(* (PushMail).                                                             *)
(*                                                                         *)
(* OrderInv, with it: mailboxes are sorted by the senders' numbers, hold   *)
(* nothing that was handled, and nothing newer than what their sender      *)
(* still has in hand.                                                      *)
(*                                                                         *)
(* DrainInv, where callers only send: what a caller has not announced yet  *)
(* was under way when the shutdown began; so when the last worker leaves   *)
(* (pending 0: nothing queued, nobody looking) MailInv leaves only that.   *)
(***************************************************************************)
EXTENDS ActorRuntime_proofs, FiniteSetTheorems

-----------------------------------------------------------------------------
(* pending: the entries in the ready queues and the batches in progress. *)
PendingInv == IsFiniteSet(QueuedEntries) /\ IsFiniteSet(Processing) /\ PendingAccounting

InProcess == {"claim", "take", "pop", "handling", "settle", "return", "putback", "panicked"}

LEMMA InQueue == \A e : e \in QueuedEntries <=> \E a \in Actors : \E i \in 1..ready[a] : e = <<a, i>>
  BY DEF QueuedEntries

LEMMA QueuedMore ==
  ASSUME TypeOK, NEW a \in Actors, ready' = [ready EXCEPT ![a] = @ + 1], IsFiniteSet(QueuedEntries)
  PROVE  IsFiniteSet(QueuedEntries') /\ Cardinality(QueuedEntries') = Cardinality(QueuedEntries) + 1
<1>1. ready \in [Actors -> Nat] /\ ready'[a] = ready[a] + 1 /\ \A b \in Actors \ {a} : ready'[b] = ready[b]
  BY DEF TypeOK
<1>2. PICK e : e = <<a, ready[a] + 1>>
  OBVIOUS
<1>3. \A x : x \in QueuedEntries' <=> x \in QueuedEntries \cup {e}
  <2>1. \A x : x \in QueuedEntries' <=> \E b \in Actors : \E i \in 1..ready'[b] : x = <<b, i>>
    BY DEF QueuedEntries
  <2>2. \A i : i \in 1..ready'[a] <=> i \in 1..ready[a] \/ i = ready[a] + 1
    BY <1>1
  <2> QED
    BY <1>1, <1>2, <2>1, <2>2, InQueue
<1>4. QueuedEntries' = QueuedEntries \cup {e}
  BY <1>3
<1>5. e \notin QueuedEntries
  BY <1>1, <1>2, InQueue
<1> QED
  BY <1>4, <1>5, FS_AddElement

LEMMA QueuedLess ==
  ASSUME TypeOK, NEW a \in Actors, ready[a] > 0, ready' = [ready EXCEPT ![a] = @ - 1],
         IsFiniteSet(QueuedEntries)
  PROVE  IsFiniteSet(QueuedEntries') /\ Cardinality(QueuedEntries') = Cardinality(QueuedEntries) - 1
<1>1. ready \in [Actors -> Nat] /\ ready'[a] = ready[a] - 1 /\ \A b \in Actors \ {a} : ready'[b] = ready[b]
  BY DEF TypeOK
<1>2. PICK e : e = <<a, ready[a]>>
  OBVIOUS
<1>3. \A x : x \in QueuedEntries' <=> x \in QueuedEntries \ {e}
  <2>1. \A x : x \in QueuedEntries' <=> \E b \in Actors : \E i \in 1..ready'[b] : x = <<b, i>>
    BY DEF QueuedEntries
  <2>2. \A i : i \in 1..ready'[a] <=> i \in 1..ready[a] /\ i # ready[a]
    BY <1>1
  <2> QED
    BY <1>1, <1>2, <2>1, <2>2, InQueue
<1>4. QueuedEntries' = QueuedEntries \ {e}
  BY <1>3
<1>5. e \in QueuedEntries
  BY <1>1, <1>2, InQueue
<1> QED
  BY <1>4, <1>5, FS_RemoveElement

(* A step queues an entry or none ... *)
SameQueues == ready' = ready /\ pending' = pending
Queues == SameQueues \/ \E a \in Actors : Enqueue(a)

LEMMA QueuesPending ==
  ASSUME TypeOK, PendingInv, Queues, Processing' = Processing
  PROVE  PendingInv'
<1>1. CASE SameQueues
  <2>1. QueuedEntries' = QueuedEntries
    BY <1>1 DEF SameQueues, QueuedEntries
  <2> QED
    BY <1>1, <2>1 DEF SameQueues, PendingInv, PendingAccounting
<1>2. ASSUME NEW a \in Actors, Enqueue(a) PROVE PendingInv'
  <2>1. IsFiniteSet(QueuedEntries') /\ Cardinality(QueuedEntries') = Cardinality(QueuedEntries) + 1
    BY <1>2, QueuedMore DEF Enqueue, PendingInv
  <2>2. Cardinality(QueuedEntries) \in Nat /\ Cardinality(Processing) \in Nat
    BY FS_CardinalityType DEF PendingInv
  <2> QED
    BY <1>2, <2>1, <2>2 DEF Enqueue, PendingInv, PendingAccounting
<1> QED
  BY <1>1, <1>2 DEF Queues

(* ... or ends the batch of a worker. *)
LEMMA BatchEnds ==
  ASSUME TypeOK, PendingInv, NEW w \in Workers, PendingSub, Moves(w),
         th[w].pc \in InProcess, th'[w].pc \notin InProcess
  PROVE  PendingInv'
<1>1. Processing' = Processing \ {w} /\ w \in Processing
  BY DEF Moves, Threads, Processing, InProcess
<1>2. QueuedEntries' = QueuedEntries
  BY DEF PendingSub, QueuedEntries
<1>3. IsFiniteSet(Processing') /\ Cardinality(Processing') = Cardinality(Processing) - 1
  BY <1>1, FS_RemoveElement DEF PendingInv
<1>4. Cardinality(QueuedEntries) \in Nat /\ Cardinality(Processing) \in Nat
  BY FS_CardinalityType DEF PendingInv
<1> QED
  BY <1>2, <1>3, <1>4 DEF PendingSub, PendingInv, PendingAccounting

LEMMA SameBatches ==
  ASSUME NEW t \in Threads, Moves(t),
         t \in Workers => (th'[t].pc \in InProcess <=> th[t].pc \in InProcess)
  PROVE  Processing' = Processing
  BY DEF Moves, Threads, Processing, InProcess

LEMMA PickPending ==
  ASSUME TypeOK, PendingInv, NEW w \in Workers, NEW a \in Actors, Pick(w, a)
  PROVE  PendingInv'
<1>w. th \in [Threads -> ThreadRecords] /\ th[w] \in ThreadRecords /\ w \in Threads
  BY DEF TypeOK, Threads
<1>1. Moves(w) /\ th'[w].pc = "claim" /\ th[w].pc = "idle"
  BY <1>w DEF Pick, Moves, ThreadRecords, At
<1>2. Processing' = Processing \cup {w} /\ w \notin Processing
  BY <1>1 DEF Moves, Threads, Processing
<1>3. IsFiniteSet(Processing') /\ Cardinality(Processing') = Cardinality(Processing) + 1
  BY <1>2, FS_AddElement DEF PendingInv
<1>4. IsFiniteSet(QueuedEntries') /\ Cardinality(QueuedEntries') = Cardinality(QueuedEntries) - 1
  BY QueuedLess DEF Pick, PendingInv
<1>5. Cardinality(QueuedEntries) \in Nat /\ Cardinality(Processing) \in Nat
  BY FS_CardinalityType DEF PendingInv
<1> QED
  BY <1>3, <1>4, <1>5 DEF Pick, PendingInv, PendingAccounting

LEMMA WorkerPending ==
  ASSUME TypeOK, PendingInv, NEW w \in Workers, WorkerStep(w)
  PROVE  PendingInv'
<1>w. th \in [Threads -> ThreadRecords] /\ th[w] \in ThreadRecords /\ w \in Threads
      /\ th[w].act \in Actors
  BY LocalsType DEF TypeOK, Threads
<1>1. CASE ClaimFails(w) \/ TakeStopping(w) \/ ReturnGone(w) \/ ReturnCrashed(w) \/ PutBack(w)
  <2>1. Moves(w) /\ th'[w].pc \in {"idle", "remove", "decide", "requeue"}
    <3>1. CASE ClaimFails(w) \/ ReturnGone(w)
      BY <1>w, <3>1, GotoFrame DEF ClaimFails, ReturnGone, Moves
    <3>2. CASE TakeStopping(w) \/ ReturnCrashed(w) \/ PutBack(w)
      BY <1>w, <3>2 DEF TakeStopping, ReturnCrashed, PutBack, Moves, ThreadRecords
    <3> QED
      BY <1>1, <3>1, <3>2
  <2>2. PendingSub /\ th[w].pc \in {"claim", "take", "return", "putback"}
    BY <1>1 DEF ClaimFails, TakeStopping, ReturnGone, ReturnCrashed, PutBack, At
  <2> QED
    BY <2>1, <2>2, BatchEnds DEF InProcess
<1>2. CASE Claim(w) \/ Take(w) \/ Pop(w) \/ HandlerContinues(w) \/ Settle(w)
           \/ \E tag \in {"stop", "crash"} : HandlerEnds(w, tag)
  <2>1. Moves(w) /\ th'[w].pc \in InProcess /\ th[w].pc \in InProcess
    BY <1>w, <1>2 DEF Claim, Take, Pop, HandlerContinues, Settle, HandlerEnds, Moves, ThreadRecords,
                      At, InProcess
  <2>2. Queues
    BY <1>2 DEF Claim, Take, Pop, HandlerContinues, Settle, HandlerEnds, scheduler, Queues, SameQueues
  <2> QED
    BY <1>w, <2>1, <2>2, SameBatches, QueuesPending
<1>3. CASE TakePanics(w) \/ PopNone(w) \/ Return(w) \/ Requeue(w) \/ Exit(w)
  <2>1. /\ Moves(w)
        /\ \/ th[w].pc \in InProcess /\ th'[w].pc \in {"panicked", "settle", "putback"}
           \/ th[w].pc \in {"requeue", "idle"} /\ th'[w].pc \in {"idle", "exited"}
    BY <1>w, <1>3, GotoFrame DEF TakePanics, PopNone, Return, Requeue, Exit, Moves, At, InProcess
  <2>2. Queues
    BY <1>3, <1>w DEF TakePanics, PopNone, Return, Requeue, Exit, scheduler, Queues, SameQueues
  <2> QED
    BY <1>w, <2>1, <2>2, SameBatches, QueuesPending DEF InProcess
<1> QED
  BY <1>1, <1>2, <1>3, PickPending DEF WorkerStep

LEMMA CrashPending ==
  ASSUME TypeOK, PendingInv, NEW t \in Threads, CrashStep(t)
  PROVE  PendingInv'
<1>t. th \in [Threads -> ThreadRecords] /\ th[t] \in ThreadRecords /\ th[t].act \in Actors
  BY LocalsType DEF TypeOK
<1>1. CASE \/ \E elapsed \in BOOLEAN : Decide(t, elapsed)
           \/ \E v \in Actors : \E starts \in BOOLEAN : Rebuild(t, v, starts)
           \/ Remove(t)
  <2>1. /\ Moves(t) /\ th[t].pc \in {"decide", "rebuild", "remove"}
        /\ th'[t].pc \in {"rebuild", "remove", "insert", "unregister", "dispose"}
    <3>1. ASSUME NEW elapsed \in BOOLEAN, Decide(t, elapsed)
          PROVE  Moves(t) /\ th[t].pc = "decide" /\ th'[t].pc \in {"rebuild", "remove"}
      BY <1>t, <3>1 DEF Decide, Moves, ThreadRecords, At
    <3>2. ASSUME NEW v \in Actors, NEW starts \in BOOLEAN, Rebuild(t, v, starts)
          PROVE  Moves(t) /\ th[t].pc = "rebuild" /\ th'[t].pc \in {"insert", "remove"}
      BY <1>t, <3>2 DEF Rebuild, Moves, ThreadRecords, At
    <3>3. CASE Remove(t)
      BY <1>t, <3>3 DEF Remove, Moves, ThreadRecords, At
    <3> QED
      BY <1>1, <3>1, <3>2, <3>3
  <2>2. Queues
    BY <1>1 DEF Decide, Rebuild, Remove, scheduler, Queues, SameQueues
  <2> QED
    BY <2>1, <2>2, SameBatches, QueuesPending DEF InProcess
<1>2. CASE Insert(t) \/ Dispose(t) \/ Unregister(t) \/ AfterCrash(t) \/ PoisonSpreads(t)
  <2>1. /\ Moves(t)
        /\ \/ th[t].pc \in {"insert", "dispose", "unregister", "after"}
              /\ th'[t].pc \in {"after", "rebuild", "unregister", "idle", "aborted"}
           \/ th[t].pc \in {"putback", "return"} /\ th'[t].pc = "panicked"
    BY <1>t, <1>2, GotoFrame
    DEF Insert, Dispose, Unregister, AfterCrash, PoisonSpreads, AfterVictim, Moves, At
  <2>2. Queues
    BY <1>2, <1>t
    DEF Insert, Dispose, Unregister, AfterCrash, PoisonSpreads, scheduler, Queues, SameQueues
  <2> QED
    BY <2>1, <2>2, SameBatches, QueuesPending DEF InProcess
<1> QED
  BY <1>1, <1>2 DEF CrashStep

LEMMA CallMoves ==
  ASSUME TypeOK, NEW c \in Clients, CallStep(c) \/ ClientChoice(c)
  PROVE  Moves(c)
<1>c. th \in [Threads -> ThreadRecords] /\ c \in Threads
  BY DEF TypeOK, Threads
<1>1. CASE Push(c) \/ Notify(c) \/ AskReturns(c) \/ Swap(c) \/ CheckEmpty(c) \/ GiveUp(c)
           \/ Fallback(c) \/ Finish(c)
  BY <1>c, <1>1, GotoFrame
  DEF Push, Notify, AskReturns, Swap, CheckEmpty, GiveUp, Fallback, Finish, Moves
<1>2. CASE TryLock(c) \/ FastReturns(c) \/ FastCrashes(c) \/ ClientChoice(c)
  BY ZenonT(40), <1>c, <1>2 DEF TryLock, FastReturns, FastCrashes, ClientChoice, Call, Resolve, RequestStop, Moves
<1> QED
  BY <1>1, <1>2 DEF CallStep

LEMMA CallPending ==
  ASSUME TypeOK, PendingInv, NEW c \in Clients, CallStep(c) \/ ClientChoice(c)
  PROVE  PendingInv'
<1>c. c \in Threads /\ c \notin Workers /\ th[c].act \in Actors
  BY LocalsType, ThreadAssumption DEF Threads
<1>1. Processing' = Processing
  BY <1>c, CallMoves, SameBatches
<1>2. CASE CallStep(c)
  <2>1. Queues
    BY <1>c, <1>2
    DEF CallStep, Push, Notify, AskReturns, Swap, CheckEmpty, TryLock, GiveUp, Fallback, FastReturns,
        FastCrashes, Finish, scheduler, Queues, SameQueues
  <2> QED
    BY <1>1, <2>1, QueuesPending
<1>3. CASE ClientChoice(c)
  <2>1. Queues
    BY ZenonT(40), <1>3 DEF ClientChoice, Call, Resolve, RequestStop, scheduler, Queues, SameQueues
  <2> QED
    BY <1>1, <2>1, QueuesPending
<1> QED
  BY <1>2, <1>3

LEMMA OtherPending ==
  ASSUME TypeOK, PendingInv,
         (\E t \in Threads : HandlerChoice(t)) \/ StopAll \/ ShutdownStep \/ Rest \/ UNCHANGED vars
  PROVE  PendingInv'
<1>1. th' = th
  BY DEF HandlerChoice, Forward, RequestStop, StopAll, ShutdownStep, JoinWorkers, StopActor,
         ClearRegistry, Rest, vars
<1>2. Processing' = Processing
  BY <1>1 DEF Processing
<1>3. Queues
  BY DEF HandlerChoice, Forward, RequestStop, StopAll, ShutdownStep, JoinWorkers, StopActor,
         ClearRegistry, Rest, vars, scheduler, Queues, SameQueues
<1> QED
  BY <1>2, <1>3, QueuesPending

LEMMA PendingStep == TypeOK /\ PendingInv /\ [Next]_vars => PendingInv'
  BY WorkerPending, CrashPending, CallPending, OtherPending DEF Next

LEMMA InitPending == Init => PendingInv
<1> SUFFICES ASSUME Init PROVE PendingInv
  OBVIOUS
<1>1. QueuedEntries = {}
  BY DEF QueuedEntries, Init
<1>2. Processing = {}
  BY DEF Processing, Init, IdleThread, Threads
<1> QED
  BY <1>1, <1>2, FS_EmptySet DEF PendingInv, PendingAccounting, Init

LEMMA PendingInvariant == Spec => []PendingInv
  BY InitPending, PendingStep, TypeCorrect, PTL DEF Spec

(* pending counts the queued entries and the batches in progress exactly,   *)
(* under every strategy and through every way out of process_actor.         *)
THEOREM PendingAccountingHolds == Spec => []PendingAccounting
<1>1. PendingInv => PendingAccounting
  BY DEF PendingInv
<1> QED
  BY <1>1, PendingInvariant, PTL

(* Only the end of worker_loop lets a worker go. *)
LEMMA OnlyExit ==
  ASSUME TypeOK, [Next]_vars, NEW w \in Workers, ~At(w, "exited"), th'[w].pc = "exited"
  PROVE  Exit(w)
<1>w. w \in Threads /\ th \in [Threads -> ThreadRecords] /\ \A t \in Threads : th[t] \in ThreadRecords
  BY DEF TypeOK, Threads
<1>m. \A t \in Threads : Moves(t) /\ th'[t].pc # "exited" => FALSE
  BY <1>w DEF Moves, At
<1>g. \A t \in Threads, label \in Labels \ {"exited"} : ~Goto(t, label)
  BY <1>m, <1>w, GotoFrame DEF Moves
<1>u. \A t \in Threads : t # w => ~Moves(t)
  BY <1>w DEF Moves, At
<1>1. ASSUME NEW v \in Workers, WorkerStep(v), ~Exit(v) PROVE FALSE
  <2>v. v \in Threads
    BY DEF Threads
  <2>1. CASE ClaimFails(v) \/ ReturnGone(v) \/ TakePanics(v) \/ PopNone(v) \/ Return(v) \/ Requeue(v)
    BY <1>g, <2>v, <2>1, LabelType DEF ClaimFails, ReturnGone, TakePanics, PopNone, Return, Requeue
  <2>2. CASE TakeStopping(v) \/ ReturnCrashed(v) \/ PutBack(v) \/ Claim(v) \/ Take(v) \/ Pop(v)
             \/ HandlerContinues(v) \/ Settle(v)
    <3>1. Moves(v) /\ th'[v].pc # "exited"
      BY SMTT(30), <1>w, <2>v, <2>2
      DEF TakeStopping, ReturnCrashed, PutBack, Claim, Take, Pop, HandlerContinues, Settle,
          Moves, ThreadRecords
    <3> QED
      BY <1>m, <2>v, <3>1
  <2>3. CASE (\E a \in Actors : Pick(v, a)) \/ \E tag \in {"stop", "crash"} : HandlerEnds(v, tag)
    <3>1. Moves(v) /\ th'[v].pc # "exited"
      BY <1>w, <2>v, <2>3 DEF Pick, HandlerEnds, Moves, ThreadRecords
    <3> QED
      BY <1>m, <2>v, <3>1
  <2> QED
    BY <1>1, <2>1, <2>2, <2>3 DEF WorkerStep
<1>2. ASSUME NEW t \in Threads, CrashStep(t) PROVE FALSE
  <2>1. CASE Insert(t) \/ Dispose(t) \/ Unregister(t) \/ AfterCrash(t) \/ PoisonSpreads(t)
    BY <1>g, <2>1, LabelType DEF Insert, Dispose, Unregister, AfterCrash, PoisonSpreads, AfterVictim
  <2>2. CASE (\E elapsed \in BOOLEAN : Decide(t, elapsed)) \/ Remove(t)
    <3>1. Moves(t) /\ th'[t].pc # "exited"
      BY <1>w, <2>2 DEF Decide, Remove, Moves, ThreadRecords
    <3> QED
      BY <1>m, <3>1
  <2>3. ASSUME NEW v \in Actors, NEW starts \in BOOLEAN, Rebuild(t, v, starts) PROVE FALSE
    <3>1. Moves(t) /\ th'[t].pc # "exited"
      BY <1>w, <2>3 DEF Rebuild, Moves, ThreadRecords
    <3> QED
      BY <1>m, <3>1
  <2> QED
    BY <1>2, <2>1, <2>2, <2>3 DEF CrashStep
<1>3. ASSUME NEW c \in Clients, CallStep(c) \/ ClientChoice(c) PROVE FALSE
  <2>1. c # w /\ c \in Threads
    BY ThreadAssumption DEF Threads
  <2> QED
    BY <1>3, <1>u, <2>1, CallMoves
<1>4. CASE (\E t \in Threads : HandlerChoice(t)) \/ StopAll \/ ShutdownStep \/ Rest \/ UNCHANGED vars
  BY <1>4 DEF HandlerChoice, Forward, RequestStop, StopAll, ShutdownStep, JoinWorkers, StopActor,
              ClearRegistry, Rest, vars, At
<1>5. ASSUME NEW v \in Workers, Exit(v) PROVE v = w
  <2>1. v \in Threads /\ Moves(v)
    BY <1>w, <1>5, GotoFrame DEF Exit, Moves, Threads
  <2> QED
    BY <1>u, <2>1
<1> QED
  BY <1>1, <1>2, <1>3, <1>4, <1>5 DEF Next

(* An entry is counted in pending. *)
LEMMA NothingQueued ==
  ASSUME TypeOK, PendingInv, pending = 0
  PROVE  \A a \in Actors : ready[a] = 0
<1>1. Cardinality(QueuedEntries) \in Nat /\ Cardinality(Processing) \in Nat
  BY FS_CardinalityType DEF PendingInv
<1>2. QueuedEntries = {}
  BY <1>1, FS_EmptySet DEF PendingInv, PendingAccounting
<1> SUFFICES ASSUME NEW a \in Actors, ready[a] # 0 PROVE FALSE
  OBVIOUS
<1>3. ready[a] \in Nat /\ 1 \in 1..ready[a]
  BY DEF TypeOK
<1> QED
  BY <1>2, <1>3, InQueue

(* A worker that exits leaves no entry in any queue: it has read pending as *)
(* 0, and pending misses no entry.                                          *)
THEOREM ExitsDrainedHolds == Spec => ExitsDrained
<1> DEFINE Drained == \A w \in Workers :
             ~At(w, "exited") /\ th'[w].pc = "exited" => \A a \in Actors : ready[a] = 0
<1>1. TypeOK /\ PendingInv /\ [Next]_vars => Drained
  <2> SUFFICES ASSUME TypeOK, PendingInv, [Next]_vars, NEW w \in Workers,
                      ~At(w, "exited"), th'[w].pc = "exited"
               PROVE  \A a \in Actors : ready[a] = 0
    OBVIOUS
  <2>1. Exit(w)
    BY OnlyExit
  <2> QED
    BY <2>1, NothingQueued DEF Exit
<1>2. Drained => [Drained]_vars
  OBVIOUS
<1> QED
  BY <1>1, PendingInvariant, TypeCorrect, PTL DEF Spec, ExitsDrained

-----------------------------------------------------------------------------
(* Wakeups.  Mail of a registered actor is awaited: there is an entry, or a *)
(* thread that queues one or looks into this very mailbox again before it   *)
(* is done; or its sender is about to queue an entry for it.                *)
SameBox(t, a) == Mailbox(Own(t)) = Mailbox(Cur(a))

Removes(t, a) == At(t, "remove") /\ th[t].tgt = a

Looks(t, a) ==
  /\ th[t].act = a
  /\ \/ Inside(t) \/ Removes(t, a) \/ At(t, "fallback")
     \/ th[t].pc \in {"putback", "requeue", "finish", "after"} /\ SameBox(t, a)

Claims(w, a) == At(w, "claim") /\ th[w].act = a /\ ~handle[Cur(a)].running

Awaited(a) ==
  \/ ready[a] > 0
  \/ \E t \in Threads : Looks(t, a)
  \/ \E w \in Workers : Claims(w, a)

Announced(a, m) == \E c \in Clients : At(c, "notify") /\ th[c].act = a /\ th[c].msg = m

MailAwaited(a) ==
  reg[a] # 0 =>
    \A i \in 1..Len(mail[Mailbox(Cur(a))]) : Awaited(a) \/ Announced(a, mail[Mailbox(Cur(a))][i])

(* running is set by somebody who is inside, or on the way to remove the actor. *)
RunningHeld(a) ==
  reg[a] # 0 /\ handle[Cur(a)].running =>
    \E t \in Threads : th[t].act = a /\ (Inside(t) \/ Removes(t, a))

(* A restart hands on the mailbox of the handle it replaces, or makes one   *)
(* nobody has written to.                                                   *)
BoxesOk ==
  /\ \A h \in Handles : handle[h].box <= h[2]
  /\ \A h \in Handles : h[2] > top[h[1]] => mail[h] = <<>>
  /\ \A t \in Threads : At(t, "insert") => th[t].aux \in {0, handle[Own(t)].box}
  /\ \A c \in Clients : th[c].pc \in {"push", "fallback"} => th[c].gen <= top[th[c].act]

MailInv == BoxesOk /\ \A a \in Actors : RunningHeld(a) /\ MailAwaited(a)

-----------------------------------------------------------------------------
SameBoxes == \A h \in Handles : handle'[h].box = handle[h].box

Deregisters == \A a \in Actors : reg'[a] \in {0, reg[a]}

(* t has a part in why mail of its actor is awaited, or running held. *)
Watches(t) == Looks(t, th[t].act) \/ th[t].pc \in {"claim", "notify"}
Holds(t) == Inside(t) \/ Removes(t, th[t].act)

(* Nobody moves a thread of another, or adds mail that is not awaited. *)
Quiet ==
  /\ SameBoxes /\ Deregisters /\ top' = top
  /\ \A h \in Handles : mail'[h] = mail[h] \/ (mail[h] # <<>> /\ mail'[h] = Tail(mail[h]))
  /\ \A b \in Actors : reg'[b] # 0 => ready'[b] >= ready[b] \/ Awaited(b)'

(* t goes on, and whatever it was watching stays awaited. *)
Hands(t) ==
  /\ Moves(t)
  /\ \A b \in Actors : reg[b] # 0 /\ handle'[Cur(b)].running =>
       handle[Cur(b)].running \/ (th'[t].act = b /\ Inside(t)')
  /\ \/ th'[t].act = th[t].act /\ Holds(t)'
     \/ reg'[th[t].act] = 0
     \/ ~Holds(t) \/ ~handle'[Cur(th[t].act)].running
  /\ Watches(t) =>
       \A b \in {th[t].act} : reg'[b] = 0 \/ mail'[Mailbox(Cur(b))] = <<>> \/ Awaited(b)'
  /\ At(t, "insert")' => th'[t].aux \in {0, handle[Own(t)'].box}
  /\ t \in Clients /\ th'[t].pc \in {"push", "fallback"} => th'[t].gen <= top[th'[t].act]

LEMMA SameMailbox ==
  ASSUME TypeOK, SameBoxes, Deregisters, NEW a \in Actors, reg'[a] # 0
  PROVE  /\ reg[a] # 0 /\ Cur(a)' = Cur(a) /\ Cur(a) \in Handles
         /\ Mailbox(Cur(a))' = Mailbox(Cur(a)) /\ Mailbox(Cur(a)) \in Handles
<1>1. reg'[a] = reg[a] /\ reg[a] # 0
  BY DEF Deregisters
<1>2. Cur(a)' = Cur(a) /\ Cur(a) \in Handles
  BY <1>1, CurType DEF Cur
<1>3. Mailbox(Cur(a)) \in Handles
  BY <1>2, HandleType
<1> QED
  BY <1>1, <1>2, <1>3 DEF Mailbox, SameBoxes

LEMMA HandsMail ==
  ASSUME TypeOK, TypeOK', MailInv, NEW t \in Threads, Quiet, Hands(t)
  PROVE  MailInv'
<1>o. \A u \in Threads : Own(u) \in Handles /\ th[u].act \in Actors
  BY LocalsType
<1>m. \A u \in Threads \ {t} : th'[u] = th[u] /\ Own(u)' = Own(u)
  BY DEF Hands, Moves, Own
<1>q. SameBoxes /\ Deregisters /\ top' = top
  BY DEF Quiet
<1>1. BoxesOk'
  <2>1. (\A h \in Handles : handle[h].box <= h[2])'
    BY <1>q DEF MailInv, BoxesOk, SameBoxes
  <2>2. (\A h \in Handles : h[2] > top[h[1]] => mail[h] = <<>>)'
    BY <1>q DEF MailInv, BoxesOk, Quiet
  <2>3. (\A u \in Threads : At(u, "insert") => th[u].aux \in {0, handle[Own(u)].box})'
    <3>1. ASSUME NEW u \in Threads \ {t}, At(u, "insert")'
          PROVE  th'[u].aux \in {0, handle'[Own(u)'].box}
      BY <1>o, <1>m, <1>q, <3>1 DEF MailInv, BoxesOk, SameBoxes, At
    <3>2. Own(t)' \in Handles
      <4>1. th'[t] \in ThreadRecords
        BY DEF TypeOK
      <4> QED
        BY <4>1 DEF Own, ThreadRecords, Handles
    <3>3. At(t, "insert")' => th'[t].aux \in {0, handle'[Own(t)'].box}
      BY <1>q, <3>2 DEF Hands, SameBoxes
    <3> QED
      BY <3>1, <3>3
  <2>4. (\A c \in Clients : th[c].pc \in {"push", "fallback"} => th[c].gen <= top[th[c].act])'
    BY <1>m, <1>q DEF MailInv, BoxesOk, Hands, Threads
  <2> QED
    BY <2>1, <2>2, <2>3, <2>4 DEF BoxesOk
<1>2. ASSUME NEW a \in Actors PROVE RunningHeld(a)'
  <2> SUFFICES ASSUME reg'[a] # 0, handle'[Cur(a)'].running
               PROVE  \E u \in Threads : th'[u].act = a /\ (Inside(u) \/ Removes(u, a))'
    BY DEF RunningHeld
  <2>1. reg[a] # 0 /\ Cur(a)' = Cur(a)
    BY <1>q, SameMailbox
  <2>2. CASE th'[t].act = a /\ Inside(t)'
    BY <2>2
  <2>3. CASE ~(th'[t].act = a /\ Inside(t)')
    <3>1. handle[Cur(a)].running
      BY <2>1, <2>3 DEF Hands
    <3>2. PICK u \in Threads : th[u].act = a /\ (Inside(u) \/ Removes(u, a))
      BY <2>1, <3>1 DEF MailInv, RunningHeld
    <3>3. CASE u # t
      <4>1. th'[u].act = a /\ (Inside(u) \/ Removes(u, a))'
        BY <1>m, <3>2, <3>3 DEF Inside, Removes, At
      <4> QED
        BY <4>1
    <3>4. CASE u = t
      <4>1. th'[t].act = a /\ Holds(t)'
        BY <2>1, <3>2, <3>4 DEF Hands, Holds
      <4> QED
        BY <4>1 DEF Holds
    <3> QED
      BY <3>3, <3>4
  <2> QED
    BY <2>2, <2>3
<1>3. ASSUME NEW a \in Actors PROVE MailAwaited(a)'
  <2> SUFFICES ASSUME reg'[a] # 0, ~Awaited(a)'
               PROVE  \A i \in 1..Len(mail'[Mailbox(Cur(a))']) :
                        \E c \in Clients : /\ th'[c].pc = "notify" /\ th'[c].act = a
                                          /\ th'[c].msg = mail'[Mailbox(Cur(a))'][i]
    BY DEF MailAwaited, Announced, At
  <2>0. PICK box \in Handles : box = Mailbox(Cur(a))
    BY <1>q, SameMailbox
  <2>1. /\ reg[a] # 0 /\ Cur(a)' = Cur(a) /\ Cur(a) \in Handles
        /\ Mailbox(Cur(a))' = box
    BY <1>q, <2>0, SameMailbox
  <2> SUFFICES ASSUME NEW i \in 1..Len(mail'[box])
               PROVE  \E c \in Clients : /\ th'[c].pc = "notify" /\ th'[c].act = a
                                         /\ th'[c].msg = mail'[box][i]
    BY <2>1
  <2>2. mail[box] \in Seq(Messages) /\ mail'[box] # <<>>
    <3>1. mail'[box] \in Seq(Messages) /\ mail[box] \in Seq(Messages)
      BY <2>1 DEF TypeOK
    <3> QED
      BY <2>1, <3>1
  <2>3. PICK j \in 1..Len(mail[box]) : mail'[box][i] = mail[box][j]
    <3>1. mail'[box] = mail[box] \/ (mail[box] # <<>> /\ mail'[box] = Tail(mail[box]))
      BY <2>1 DEF Quiet
    <3>2. CASE mail'[box] = mail[box]
      BY <2>1, <3>2
    <3>3. CASE mail[box] # <<>> /\ mail'[box] = Tail(mail[box])
      <4>1. i + 1 \in 1..Len(mail[box]) /\ mail'[box][i] = mail[box][i + 1]
        BY <2>1, <2>2, <3>3
      <4> QED
        BY <4>1
    <3> QED
      BY <3>1, <3>2, <3>3
  <2>4. Awaited(a) \/ Announced(a, mail[box][j])
    BY <2>0, <2>1, <2>3 DEF MailInv, MailAwaited
  <2>5. ~(Watches(t) /\ th[t].act = a)
    BY <2>0, <2>1, <2>2 DEF Hands
  <2>6. ~Awaited(a)
    <3>1. ~(ready[a] > 0)
      <4>1. ready'[a] >= ready[a] /\ ~(ready'[a] > 0)
        BY DEF Quiet, Awaited
      <4> QED
        BY <4>1 DEF TypeOK
    <3>2. ASSUME NEW u \in Threads, Looks(u, a) PROVE FALSE
      <4>1. u # t
        BY <2>5, <3>2 DEF Watches, Looks
      <4>2. SameBox(u, a) => SameBox(u, a)'
        BY <1>o, <1>m, <1>q, <2>1, <4>1 DEF SameBox, Mailbox, SameBoxes
      <4>3. Looks(u, a)'
        BY <1>m, <3>2, <4>1, <4>2 DEF Looks, Inside, Removes, At
      <4> QED
        BY <4>3 DEF Awaited
    <3>3. ASSUME NEW w \in Workers, Claims(w, a) PROVE FALSE
      <4>1. w # t /\ w \in Threads
        BY <2>5, <3>3 DEF Watches, Claims, At, Threads
      <4>2. At(w, "claim")' /\ th'[w].act = a
        BY <1>m, <3>3, <4>1 DEF Claims, At
      <4>3. handle'[Cur(a)].running => th'[t].act = a /\ Inside(t)'
        BY <2>1, <3>3 DEF Hands, Claims
      <4>4. th'[t].act = a /\ Inside(t)' => Looks(t, a)'
        BY DEF Looks
      <4> QED
        BY <2>1, <4>2, <4>3, <4>4 DEF Awaited, Claims
    <3> QED
      BY <3>1, <3>2, <3>3 DEF Awaited
  <2>7. PICK c \in Clients : At(c, "notify") /\ th[c].act = a /\ th[c].msg = mail[box][j]
    BY <2>4, <2>6 DEF Announced
  <2>8. c # t /\ c \in Threads
    BY <2>5, <2>7 DEF Watches, At, Threads
  <2> QED
    BY <1>m, <2>3, <2>7, <2>8 DEF At
<1> QED
  BY <1>1, <1>2, <1>3 DEF MailInv

(* Steps in which no thread moves; mail that comes brings an entry. *)
LEMMA UnmovedMail ==
  ASSUME TypeOK, TypeOK', MailInv, th' = th, SameBoxes, SameRunning, Deregisters, top' = top,
         \A b \in Actors : ready'[b] >= ready[b],
         \A h \in Handles : mail'[h] = mail[h] \/ (h[2] <= top[h[1]] /\ ready'[h[1]] > 0)
  PROVE  MailInv'
<1>o. \A u \in Threads : Own(u) \in Handles /\ Own(u)' = Own(u)
  BY LocalsType DEF Own
<1>1. BoxesOk'
  <2>1. (\A h \in Handles : h[2] > top[h[1]] => mail[h] = <<>>)'
    <3> SUFFICES ASSUME NEW h \in Handles, h[2] > top[h[1]] PROVE mail'[h] = <<>>
      OBVIOUS
    <3>1. ~(h[2] <= top[h[1]])
      BY DEF TypeOK, Handles, Gens
    <3> QED
      BY <3>1 DEF MailInv, BoxesOk
  <2> QED
    BY <1>o, <2>1 DEF MailInv, BoxesOk, SameBoxes, At, Threads
<1>2. ASSUME NEW a \in Actors PROVE RunningHeld(a)'
  <2> SUFFICES ASSUME reg'[a] # 0, handle'[Cur(a)'].running
               PROVE  \E u \in Threads : th[u].act = a /\ (Inside(u) \/ Removes(u, a))
    BY DEF RunningHeld, Inside, Removes, At
  <2>1. reg[a] # 0 /\ Cur(a)' = Cur(a) /\ Cur(a) \in Handles
    BY SameMailbox
  <2> QED
    BY <2>1 DEF MailInv, RunningHeld, SameRunning
<1>3. ASSUME NEW a \in Actors PROVE MailAwaited(a)'
  <2> SUFFICES ASSUME reg'[a] # 0, ~Awaited(a)'
               PROVE  \A i \in 1..Len(mail'[Mailbox(Cur(a))']) :
                        \E c \in Clients : /\ th'[c].pc = "notify" /\ th'[c].act = a
                                          /\ th'[c].msg = mail'[Mailbox(Cur(a))'][i]
    BY DEF MailAwaited, Announced, At
  <2>0. PICK box \in Handles : box = Mailbox(Cur(a))
    BY SameMailbox
  <2>1. /\ reg[a] # 0 /\ Cur(a)' = Cur(a) /\ Cur(a) \in Handles
        /\ Mailbox(Cur(a))' = box /\ box[1] = a
    BY <2>0, SameMailbox DEF Mailbox, Cur
  <2> SUFFICES ASSUME NEW i \in 1..Len(mail'[box])
               PROVE  \E c \in Clients : /\ th'[c].pc = "notify" /\ th'[c].act = a
                                         /\ th'[c].msg = mail'[box][i]
    BY <2>1
  <2>2. ~(ready'[a] > 0) /\ ~(ready[a] > 0)
    BY DEF Awaited, TypeOK
  <2>3. mail'[box] = mail[box]
    BY <2>1, <2>2
  <2>4. ~Awaited(a)
    <3>1. \A u \in Threads : SameBox(u, a) => SameBox(u, a)'
      BY <1>o, <2>1 DEF SameBox, Mailbox, SameBoxes
    <3>2. \A u \in Threads : Looks(u, a) => Looks(u, a)'
      BY <3>1 DEF Looks, Inside, Removes, At
    <3>3. \A w \in Workers : Claims(w, a) => Claims(w, a)'
      BY <2>1 DEF Claims, At, SameRunning
    <3> QED
      BY <2>2, <3>2, <3>3 DEF Awaited
  <2>5. Announced(a, mail[box][i])
    BY <2>0, <2>1, <2>3, <2>4 DEF MailInv, MailAwaited
  <2> QED
    BY <2>3, <2>5 DEF Announced, At
<1> QED
  BY <1>1, <1>2, <1>3 DEF MailInv

-----------------------------------------------------------------------------
LEMMA QueuesMore ==
  ASSUME TypeOK, Queues, NEW b \in Actors
  PROVE  ready'[b] >= ready[b] /\ (Enqueue(b) => ready'[b] > 0)
<1>t. ready \in [Actors -> Nat] /\ ready[b] \in Nat
  BY DEF TypeOK
<1>1. CASE SameQueues
  BY <1>t, <1>1 DEF SameQueues, Enqueue
<1>2. ASSUME NEW a \in Actors, Enqueue(a) PROVE ready'[b] >= ready[b]
  BY <1>t, <1>2 DEF Enqueue
<1>3. Enqueue(b) => ready'[b] > 0
  BY <1>t DEF Enqueue
<1> QED
  BY <1>1, <1>2, <1>3 DEF Queues

LEMMA Calm ==
  ASSUME TypeOK, SameBoxes, Deregisters, top' = top, mail' = mail, Queues \/ PendingSub
  PROVE  Quiet
<1>1. \A b \in Actors : ready'[b] >= ready[b]
  BY SMTT(20), QueuesMore DEF PendingSub, TypeOK
<1> QED
  BY <1>1 DEF Quiet

(* t stays in its actor, or leaves it to remove it. *)
LEMMA GoesOn ==
  ASSUME TypeOK, NEW t \in Threads, Moves(t), th'[t].act = th[t].act, Holds(t)',
         \A h \in Handles : handle'[h].running => handle[h].running,
         At(t, "insert")' => th'[t].aux \in {0, handle[Own(t)'].box}
  PROVE  Hands(t)
<1>1. \A b \in Actors : reg[b] # 0 => Cur(b) \in Handles
  BY CurType
<1>2. th'[t].pc \notin {"push", "fallback"}
  BY DEF Holds, Inside, InsidePCs, Removes, At
<1>3. \A b \in {th[t].act} : Awaited(b)'
  BY DEF Holds, Awaited, Looks, Removes, Inside, At
<1> QED
  BY <1>1, <1>2, <1>3 DEF Hands

(* t, which nobody counts on, goes where nobody has to count on it. *)
LEMMA PassesBy ==
  ASSUME TypeOK, NEW t \in Threads, Moves(t), ~Watches(t), ~Holds(t),
         \A h \in Handles : handle'[h].running => handle[h].running,
         th'[t].pc \notin {"insert", "push", "fallback"}
  PROVE  Hands(t)
<1>1. \A b \in Actors : reg[b] # 0 => Cur(b) \in Handles
  BY CurType
<1> QED
  BY <1>1 DEF Hands, At

(* An actor that is taken is looked at by whoever took it. *)
LEMMA HeldLooks ==
  ASSUME MailInv, NEW a \in Actors, reg[a] # 0, handle[Cur(a)].running,
         NEW t \in Threads, Moves(t), ~Holds(t)
  PROVE  Awaited(a)'
<1>1. PICK u \in Threads : th[u].act = a /\ (Inside(u) \/ Removes(u, a))
  BY DEF MailInv, RunningHeld
<1>2. u # t
  BY <1>1 DEF Holds
<1>3. Looks(u, a)'
  BY <1>1, <1>2 DEF Moves, Looks, Inside, Removes, At
<1> QED
  BY <1>3 DEF Awaited

LEMMA PickMail ==
  ASSUME TypeOK, TypeOK', MailInv, NEW w \in Workers, NEW a \in Actors, Pick(w, a)
  PROVE  MailInv'
<1>w. w \in Threads /\ th \in [Threads -> ThreadRecords] /\ th[w] \in ThreadRecords
  BY DEF TypeOK, Threads
<1>1. Moves(w) /\ th'[w].pc = "claim" /\ th'[w].act = a /\ At(w, "idle")
  BY <1>w DEF Pick, Moves, ThreadRecords
<1>2. ~Watches(w) /\ ~Holds(w)
  BY <1>1 DEF Watches, Holds, Looks, Removes, Inside, InsidePCs, At
<1>3. UNCHANGED <<handle, reg, top, mail>>
  BY DEF Pick, registry
<1>4. Hands(w)
  BY <1>w, <1>1, <1>2, <1>3, PassesBy
<1>5. ASSUME reg[a] # 0 PROVE Awaited(a)'
  <2>1. CASE handle[Cur(a)].running
    BY <1>w, <1>1, <1>2, <1>5, <2>1, HeldLooks
  <2>2. CASE ~handle[Cur(a)].running
    BY <1>1, <1>3, <2>2 DEF Awaited, Claims, Cur, At
  <2> QED
    BY <2>1, <2>2
<1>6. \A b \in Actors \ {a} : ready'[b] = ready[b] /\ ready[b] >= ready[b]
  BY DEF Pick, TypeOK
<1>7. Quiet
  BY <1>3, <1>5, <1>6 DEF Quiet, SameBoxes, Deregisters
<1> QED
  BY <1>w, <1>4, <1>7, HandsMail

LEMMA ReturnMail ==
  ASSUME TypeOK, AccessInv, NEW w \in Workers, Return(w)
  PROVE  Hands(w) /\ SameBoxes
<1>0. PICK h \in Handles : h = Own(w)
  BY LocalsType DEF Threads
<1>a. PICK a \in Actors : a = th[w].act
  BY LocalsType DEF Threads
<1>w. /\ w \in Threads /\ th[w] \in ThreadRecords /\ th \in [Threads -> ThreadRecords]
      /\ Inside(w) /\ reg[a] # 0 /\ reg' = reg
  BY <1>a DEF Threads, TypeOK, Return, registry, Inside, InsidePCs, At
<1>o. h = <<a, th[w].gen>> /\ Cur(a) = h /\ Cur(a)' = h
  BY <1>0, <1>a, <1>w, Occupied DEF Cur
<1>h. handle \in [Handles -> HandleRecords] /\ \A k \in Handles : handle[k] \in HandleRecords
  BY DEF TypeOK
<1>1. Moves(w) /\ th'[w] = [th[w] EXCEPT !.pc = "putback"]
  BY <1>w, GotoFrame DEF Return, Moves
<1>2. th'[w].pc = "putback" /\ th'[w].act = a /\ Own(w)' = h
  BY <1>a, <1>w, <1>o, <1>1 DEF ThreadRecords, Own
<1>3. /\ \A k \in Handles : handle'[k].box = handle[k].box
      /\ \A k \in Handles \ {h} : handle'[k] = handle[k]
      /\ ~handle'[h].running
  BY <1>a, <1>h, <1>o DEF Return, HandleRecords
<1>4. \A b \in Actors : reg[b] # 0 => Cur(b) \in Handles
  BY CurType
<1>5. Awaited(a)'
  BY <1>w, <1>o, <1>2 DEF Awaited, Looks, SameBox
<1>6. \A b \in Actors : reg[b] # 0 /\ handle'[Cur(b)].running => handle[Cur(b)].running
  BY <1>3, <1>4
<1> QED
  BY <1>a, <1>o, <1>1, <1>2, <1>3, <1>5, <1>6 DEF Hands, SameBoxes, At

(* Who looks into the mailbox a last time queues an entry unless it is empty. *)
LEMMA LooksAgain ==
  ASSUME TypeOK, NEW t \in Threads, Moves(t), th[t].pc \in {"requeue", "finish", "after"},
         th'[t].pc = "idle", mail' = mail, reg' = reg, SameBoxes, Queues,
         \A h \in Handles : handle'[h].running => handle[h].running,
         reg[th[t].act] # 0 /\ mail[Mailbox(Own(t))] # <<>> => Enqueue(th[t].act)
  PROVE  Hands(t)
<1>a. PICK a \in Actors : a = th[t].act
  BY LocalsType
<1>1. ~Holds(t)
  BY DEF Holds, Inside, InsidePCs, Removes, At
<1>2. \A b \in Actors : reg[b] # 0 => Cur(b) \in Handles
  BY CurType
<1>3. ASSUME Watches(t), reg[a] # 0, mail'[Mailbox(Cur(a))] # <<>> PROVE Awaited(a)'
  <2>1. Mailbox(Own(t)) = Mailbox(Cur(a))
    BY <1>a, <1>1, <1>3 DEF Watches, Looks, SameBox, Holds, At
  <2>2. Enqueue(a)
    BY <1>a, <1>3, <2>1
  <2> QED
    BY <2>2, QueuesMore DEF Awaited
<1>4. Watches(t) => \A b \in {th[t].act} : reg'[b] = 0 \/ mail'[Mailbox(Cur(b))] = <<>> \/ Awaited(b)'
  BY <1>a, <1>3
<1>5. \A b \in Actors : reg[b] # 0 /\ handle'[Cur(b)].running => handle[Cur(b)].running
  BY <1>2
<1> QED
  BY <1>1, <1>4, <1>5 DEF Hands, At

LEMMA WorkerMail ==
  ASSUME TypeOK, TypeOK', AccessInv, StateInv, MailInv, NEW w \in Workers, WorkerStep(w)
  PROVE  MailInv'
<1>w. w \in Threads /\ th[w] \in ThreadRecords /\ th \in [Threads -> ThreadRecords]
  BY DEF TypeOK, Threads
<1>a. PICK a \in Actors : a = th[w].act
  BY <1>w, LocalsType
<1>h. handle \in [Handles -> HandleRecords] /\ \A k \in Handles : handle[k] \in HandleRecords
      /\ Own(w) \in Handles /\ (reg[a] # 0 => Cur(a) \in Handles)
  BY <1>w, LocalsType, CurType DEF TypeOK
<1>1. CASE ClaimFails(w)
  <2>1. Moves(w) /\ th'[w].pc = "idle" /\ At(w, "claim")
    BY <1>w, <1>1, GotoFrame DEF ClaimFails, Moves
  <2>2. ~Holds(w)
    BY <2>1 DEF Holds, Inside, InsidePCs, Removes, At
  <2>3. reg[a] # 0 => Awaited(a)'
    BY <1>w, <1>a, <1>1, <2>1, <2>2, HeldLooks DEF ClaimFails
  <2>4. handle' = handle /\ reg' = reg /\ top' = top /\ mail' = mail /\ PendingSub
    BY <1>1 DEF ClaimFails, registry
  <2>5. Hands(w)
    BY <1>a, <2>1, <2>2, <2>3, <2>4 DEF Hands, At
  <2> QED
    BY <1>w, <2>4, <2>5, Calm, HandsMail DEF SameBoxes, Deregisters
<1>2. CASE Claim(w)
  <2>1. Moves(w) /\ th'[w].pc = "take" /\ th'[w].act = a /\ At(w, "claim")
    BY <1>w, <1>a, <1>2 DEF Claim, Moves, ThreadRecords
  <2>2. ~Holds(w) /\ Inside(w)'
    BY <2>1 DEF Holds, Inside, InsidePCs, Removes, At
  <2>3. /\ reg' = reg /\ top' = top /\ mail' = mail /\ SameQueues /\ SameBoxes
        /\ \A k \in Handles \ {Cur(a)} : handle'[k] = handle[k]
    BY <1>a, <1>h, <1>2 DEF Claim, registry, scheduler, SameQueues, SameBoxes, HandleRecords
  <2>4. \A b \in Actors : reg[b] # 0 => Cur(b) \in Handles /\ (b # a => Cur(b) # Cur(a))
    BY CurType DEF Cur
  <2>5. Awaited(a)'
    BY <1>w, <2>1, <2>2 DEF Awaited, Looks
  <2>6. Hands(w)
    BY <1>a, <2>1, <2>2, <2>3, <2>4, <2>5 DEF Hands, At
  <2> QED
    BY <1>w, <2>3, <2>6, Calm, HandsMail DEF Deregisters, Queues
<1>3. CASE TakeStopping(w) \/ Take(w) \/ PopNone(w) \/ HandlerContinues(w) \/ Settle(w)
           \/ ReturnCrashed(w) \/ \E tag \in {"stop", "crash"} : HandlerEnds(w, tag)
  <2>1. Moves(w) /\ th'[w].act = a /\ Holds(w)' /\ ~At(w, "insert")'
    <3>1. CASE TakeStopping(w) \/ Take(w) \/ HandlerContinues(w) \/ Settle(w) \/ ReturnCrashed(w)
      BY <1>w, <1>a, <3>1
      DEF TakeStopping, Take, HandlerContinues, Settle, ReturnCrashed, Moves, ThreadRecords, Holds,
          Inside, InsidePCs, Removes, At
    <3>2. CASE PopNone(w) \/ \E tag \in {"stop", "crash"} : HandlerEnds(w, tag)
      BY SMTT(20), <1>w, <1>a, <3>2, GotoFrame
      DEF PopNone, HandlerEnds, Moves, ThreadRecords, Holds, Inside, InsidePCs, At
    <3> QED
      BY <1>3, <3>1, <3>2
  <2>2. /\ \A k \in Handles : handle'[k].running => handle[k].running
        /\ SameBoxes
    <3>1. CASE TakeStopping(w) \/ Take(w)
      BY SMTT(20), <1>h, <3>1 DEF TakeStopping, Take, SameBoxes, HandleRecords
    <3>2. CASE ReturnCrashed(w)
      BY <1>h, <1>a, <3>2 DEF ReturnCrashed, SameBoxes, HandleRecords
    <3>3. CASE handle' = handle
      BY <3>3 DEF SameBoxes
    <3> QED
      BY <1>3, <3>1, <3>2, <3>3 DEF PopNone, HandlerContinues, Settle, HandlerEnds
  <2>3. /\ reg' = reg /\ top' = top /\ mail' = mail
        /\ SameQueues \/ PendingSub
    BY <1>3 DEF TakeStopping, Take, PopNone, HandlerContinues, Settle, ReturnCrashed, HandlerEnds,
                registry, scheduler, SameQueues
  <2>4. Hands(w)
    BY <1>w, <1>a, <2>1, <2>2, GoesOn
  <2> QED
    BY <1>w, <2>2, <2>3, <2>4, Calm, HandsMail DEF Deregisters, Queues
<1>4. CASE Pop(w)
  <2>1. Moves(w) /\ th'[w].act = a /\ Holds(w)' /\ ~At(w, "insert")'
    BY <1>w, <1>a, <1>4 DEF Pop, Moves, ThreadRecords, Holds, Inside, InsidePCs, At
  <2>2. handle' = handle /\ reg' = reg /\ top' = top /\ SameQueues
    BY <1>4 DEF Pop, registry, scheduler, SameQueues
  <2>3. \A h \in Handles : mail'[h] = mail[h] \/ (mail[h] # <<>> /\ mail'[h] = Tail(mail[h]))
    BY <1>4 DEF Pop, TypeOK
  <2>4. \A b \in Actors : ready'[b] >= ready[b]
    BY <2>2, QueuesMore DEF Queues
  <2>5. Quiet
    BY <2>2, <2>3, <2>4 DEF Quiet, SameBoxes, Deregisters
  <2>6. Hands(w)
    BY <1>w, <1>a, <2>1, <2>2, GoesOn
  <2> QED
    BY <1>w, <2>5, <2>6, HandsMail
<1>5. CASE ReturnGone(w)
  <2>1. Moves(w) /\ th'[w].pc = "idle"
    BY <1>w, <1>5, GotoFrame DEF ReturnGone, Moves
  <2>2. handle' = handle /\ reg' = reg /\ top' = top /\ mail' = mail /\ PendingSub /\ reg[a] = 0
    BY <1>a, <1>5 DEF ReturnGone, registry
  <2>3. Hands(w)
    BY <1>a, <2>1, <2>2 DEF Hands, At
  <2> QED
    BY <1>w, <2>2, <2>3, Calm, HandsMail DEF SameBoxes, Deregisters
<1>6. CASE Return(w)
  <2>1. reg' = reg /\ top' = top /\ mail' = mail /\ SameQueues
    BY <1>6 DEF Return, registry, scheduler, SameQueues
  <2> QED
    BY <1>w, <1>6, <2>1, ReturnMail, Calm, HandsMail DEF Deregisters, Queues
<1>7. CASE PutBack(w)
  <2>1. Cur(a) = Own(w)
    BY <1>w, <1>a, <1>7 DEF StateInv, WorkerOk, PutBack, Cur, Own
  <2>2. Moves(w) /\ th'[w].act = a /\ th'[w].tgt = a /\ th'[w].pc \in {"remove", "requeue"}
        /\ Own(w)' = Own(w) /\ At(w, "putback")
    BY <1>w, <1>a, <1>7 DEF PutBack, Moves, ThreadRecords, Own
  <2>3. /\ reg' = reg /\ top' = top /\ mail' = mail /\ PendingSub /\ SameBoxes
        /\ \A k \in Handles : handle'[k].running => handle[k].running
    BY <1>h, <1>a, <1>7, <2>1 DEF PutBack, registry, SameBoxes, HandleRecords
  <2>4. Awaited(a)'
    BY <1>w, <2>1, <2>2, <2>3 DEF Awaited, Looks, Removes, SameBox, At, Cur
  <2>5. ~Holds(w)
    BY <2>2 DEF Holds, Inside, InsidePCs, Removes, At
  <2>6. \A b \in Actors : reg[b] # 0 => Cur(b) \in Handles
    BY CurType
  <2>7. Hands(w)
    BY <1>a, <2>2, <2>3, <2>4, <2>5, <2>6 DEF Hands, At
  <2> QED
    BY <1>w, <2>3, <2>7, Calm, HandsMail DEF Deregisters
<1>8. CASE Requeue(w)
  <2>1. Moves(w) /\ th'[w].pc = "idle" /\ th[w].pc = "requeue"
    BY <1>w, <1>8, GotoFrame DEF Requeue, Moves, At
  <2>2. /\ handle' = handle /\ reg' = reg /\ top' = top /\ mail' = mail /\ Queues
        /\ mail[Mailbox(Own(w))] # <<>> => Enqueue(th[w].act)
    BY <1>a, <1>8 DEF Requeue, registry, scheduler, Queues, SameQueues
  <2>3. Hands(w)
    BY <1>w, <2>1, <2>2, LooksAgain DEF SameBoxes
  <2> QED
    BY <1>w, <2>2, <2>3, Calm, HandsMail DEF SameBoxes, Deregisters
<1>9. CASE Exit(w)
  <2>1. Moves(w) /\ th'[w].pc = "exited" /\ th[w].pc = "idle"
    BY <1>w, <1>9, GotoFrame DEF Exit, Moves, At
  <2>2. ~Watches(w) /\ ~Holds(w)
    BY <2>1 DEF Watches, Looks, Holds, Removes, Inside, InsidePCs, At
  <2>3. handle' = handle /\ reg' = reg /\ top' = top /\ mail' = mail /\ SameQueues
    BY <1>9 DEF Exit, registry, scheduler, SameQueues
  <2>4. Hands(w)
    BY <1>w, <2>1, <2>2, <2>3, PassesBy
  <2> QED
    BY <1>w, <2>3, <2>4, Calm, HandsMail DEF SameBoxes, Deregisters, Queues
<1> QED
  BY <1>1, <1>2, <1>3, <1>4, <1>5, <1>6, <1>7, <1>8, <1>9, PickMail, NeverTakePanics DEF WorkerStep

(* The restarted actor's mail is looked at by the one who restarts it. *)
LEMMA InsertMail ==
  ASSUME TypeOK, TypeOK', AccessInv, MailInv, NEW t \in Threads, Insert(t)
  PROVE  MailInv'
<1>r. RestartsItself(t) /\ At(t, "insert") /\ Inside(t)
  BY DEF AccessInv, Insert, Inside, InsidePCs, At
<1>0. PICK v \in Actors : v = th[t].act /\ v = th[t].tgt
  BY <1>r, LocalsType DEF RestartsItself
<1>1. PICK g \in Gens : g = top[v] + 1
  <2>1. top[v] \in 1..MaxGen /\ top[v] < MaxGen
    BY <1>0 DEF TypeOK, Gens, Insert
  <2> QED
    BY <2>1, BoundAssumption DEF Gens
<1>n. /\ top \in [Actors -> Gens] /\ reg \in [Actors -> 0..MaxGen] /\ <<v, g>> \in Handles
      /\ handle \in [Handles -> HandleRecords] /\ g \in Int /\ top[v] \in Int
      /\ th \in [Threads -> ThreadRecords] /\ th[t] \in ThreadRecords
  BY DEF TypeOK, Handles, Gens
<1>o. PICK h \in Handles : h = Own(t) /\ h = <<v, top[v]>> /\ h # <<v, g>>
  <2>1. Own(t) \in Handles /\ Own(t) = <<v, top[v]>>
    BY <1>0, <1>r, Occupied
  <2>2. top[v] # g
    BY <1>1, <1>n
  <2> QED
    BY <2>1, <2>2
<1>2. /\ Moves(t) /\ th'[t] = [th[t] EXCEPT !.pc = "after"]
  <2>1. Goto(t, "after")
    BY <1>r DEF Insert, RestartsItself, AfterVictim, At
  <2> QED
    BY <2>1, <1>n, GotoFrame DEF Moves
<1>3. th'[t].pc = "after" /\ th'[t].act = v /\ Own(t)' = h
  BY <1>0, <1>n, <1>o, <1>2 DEF Own, ThreadRecords
<1>4. /\ reg'[v] = g /\ top'[v] = g /\ mail' = mail /\ ready' = ready
      /\ \A a \in Actors \ {v} : reg'[a] = reg[a] /\ top'[a] = top[a]
      /\ \A k \in Handles \ {<<v, g>>} : handle'[k] = handle[k]
      /\ handle'[<<v, g>>] = NewHandle(g, IF th[t].aux = 0 THEN g ELSE th[t].aux)
  BY <1>0, <1>1, <1>n DEF Insert, scheduler
<1>5. /\ ~handle'[<<v, g>>].running
      /\ handle'[<<v, g>>].box = IF th[t].aux = 0 THEN g ELSE th[t].aux
  BY <1>4 DEF NewHandle
<1>6. th[t].aux \in {0, handle[h].box} /\ handle[h].box <= h[2] /\ handle[h].box \in Int
  <2>1. handle[h].box \in Gens
    BY HandleType
  <2>2. th[t].aux \in {0, handle[Own(t)].box} /\ handle[h].box <= h[2]
    BY <1>r DEF MailInv, BoxesOk
  <2> QED
    BY <1>o, <2>1, <2>2 DEF Gens
<1>7. \A u \in Threads \ {t} : th'[u] = th[u] /\ Own(u)' = Own(u) /\ Own(u) \in Handles
  BY <1>2, LocalsType DEF Moves, Own
<1>8. \A a \in Actors : top'[a] \in Int /\ top[a] \in Int /\ top'[a] >= top[a]
  BY <1>1, <1>4, <1>n DEF Gens
<1>b. BoxesOk'
  <2>1. (\A k \in Handles : handle[k].box <= k[2])'
    <3>1. handle'[<<v, g>>].box <= g
      BY <1>1, <1>n, <1>o, <1>5, <1>6
    <3> QED
      BY <1>4, <3>1 DEF MailInv, BoxesOk
  <2>2. (\A k \in Handles : k[2] > top[k[1]] => mail[k] = <<>>)'
    <3> SUFFICES ASSUME NEW k \in Handles, k[2] > top'[k[1]] PROVE mail[k] = <<>>
      BY <1>4
    <3>1. k[2] > top[k[1]]
      BY <1>8 DEF Handles, Gens
    <3> QED
      BY <3>1 DEF MailInv, BoxesOk
  <2>3. (\A u \in Threads : At(u, "insert") => th[u].aux \in {0, handle[Own(u)].box})'
    <3> SUFFICES ASSUME NEW u \in Threads \ {t}, At(u, "insert")
                 PROVE  th[u].aux \in {0, handle'[Own(u)].box}
      BY <1>3, <1>7 DEF At
    <3>1. Inside(u)
      BY DEF Inside, InsidePCs, At
    <3>2. Own(u) # <<v, g>> /\ Own(u) \in Handles
      BY <1>1, <1>n, <3>1, Occupied
    <3>3. th[u].aux \in {0, handle[Own(u)].box}
      BY DEF MailInv, BoxesOk
    <3> QED
      BY <1>4, <3>2, <3>3
  <2>4. (\A c \in Clients : th[c].pc \in {"push", "fallback"} => th[c].gen <= top[th[c].act])'
    <3> SUFFICES ASSUME NEW c \in Clients \ {t}, th[c].pc \in {"push", "fallback"}
                 PROVE  th[c].gen <= top'[th[c].act]
      BY <1>3, <1>7 DEF Threads
    <3>1. th[c].gen \in Int /\ th[c].act \in Actors
      BY LocalsType DEF Gens, Threads
    <3>2. th[c].gen <= top[th[c].act]
      BY DEF MailInv, BoxesOk
    <3> QED
      BY <1>8, <3>1, <3>2
  <2> QED
    BY <2>1, <2>2, <2>3, <2>4 DEF BoxesOk
<1>c. \A a \in Actors \ {v} : Cur(a)' = Cur(a)
  BY <1>4 DEF Cur
<1>d. \A a \in Actors \ {v} : reg[a] # 0 => Cur(a) \in Handles /\ handle'[Cur(a)] = handle[Cur(a)]
  BY <1>4, CurType DEF Cur
<1>e. ASSUME NEW a \in Actors PROVE RunningHeld(a)'
  <2>1. CASE a = v
    BY <1>4, <1>5, <2>1 DEF RunningHeld, Cur
  <2>2. CASE a # v
    <3> SUFFICES ASSUME reg[a] # 0, handle[Cur(a)].running
                 PROVE  \E u \in Threads : th'[u].act = a /\ (Inside(u) \/ Removes(u, a))'
      BY <1>4, <1>c, <1>d, <2>2 DEF RunningHeld
    <3>1. PICK u \in Threads : th[u].act = a /\ (Inside(u) \/ Removes(u, a))
      BY DEF MailInv, RunningHeld
    <3> QED
      BY <1>0, <1>7, <2>2, <3>1 DEF Inside, Removes, At
  <2> QED
    BY <2>1, <2>2
<1>f. MailAwaited(v)'
  <2>1. Cur(v)' = <<v, g>>
    BY <1>4 DEF Cur
  <2>2. CASE th[t].aux = 0
    <3>1. Mailbox(Cur(v))' = <<v, g>>
      BY <1>5, <2>1, <2>2 DEF Mailbox
    <3>2. mail'[<<v, g>>] = <<>>
      <4>1. g > top[v]
        BY <1>1, <1>n
      <4> QED
        BY <1>4, <1>n, <4>1 DEF MailInv, BoxesOk
    <3> QED
      BY <3>1, <3>2 DEF MailAwaited
  <2>3. CASE th[t].aux # 0
    <3>1. Mailbox(Cur(v))' = Mailbox(h)'
      BY <1>4, <1>5, <1>6, <1>o, <2>1, <2>3 DEF Mailbox
    <3>2. Looks(t, v)'
      BY <1>3, <3>1 DEF Looks, SameBox
    <3> QED
      BY <3>2 DEF MailAwaited, Awaited
  <2> QED
    BY <2>2, <2>3
<1>g. ASSUME NEW a \in Actors \ {v} PROVE MailAwaited(a)'
  <2> SUFFICES ASSUME reg[a] # 0, ~Awaited(a)'
               PROVE  \A i \in 1..Len(mail'[Mailbox(Cur(a))']) :
                        \E c \in Clients : /\ th'[c].pc = "notify" /\ th'[c].act = a
                                          /\ th'[c].msg = mail'[Mailbox(Cur(a))'][i]
    BY <1>4 DEF MailAwaited, Announced, At
  <2>1. Mailbox(Cur(a))' = Mailbox(Cur(a))
    BY <1>c, <1>d DEF Mailbox
  <2>2. \A u \in Threads : th[u].act = a => u # t /\ Own(u) # <<v, g>> /\ th'[u] = th[u]
    BY <1>0, <1>7 DEF Own
  <2>3. \A u \in Threads : th[u].act = a => (SameBox(u, a) => SameBox(u, a)')
    BY <1>4, <1>7, <2>1, <2>2 DEF SameBox, Mailbox
  <2>4. \A u \in Threads : Looks(u, a) => Looks(u, a)'
    BY <2>2, <2>3 DEF Looks, Inside, Removes, At
  <2>5. \A w \in Workers : Claims(w, a) => Claims(w, a)'
    BY <1>c, <1>d, <2>2 DEF Claims, At, Threads
  <2>6. ~Awaited(a)
    BY <1>4, <2>4, <2>5 DEF Awaited
  <2>7. \A i \in 1..Len(mail[Mailbox(Cur(a))]) : Announced(a, mail[Mailbox(Cur(a))][i])
    BY <2>6 DEF MailInv, MailAwaited
  <2> QED
    BY <1>4, <2>1, <2>2, <2>7 DEF Announced, At, Threads
<1> QED
  BY <1>b, <1>e, <1>f, <1>g DEF MailInv

LEMMA CrashMail ==
  ASSUME TypeOK, TypeOK', AccessInv, StateInv, MailInv, NEW t \in Threads, CrashStep(t)
  PROVE  MailInv'
<1>t. th[t] \in ThreadRecords /\ th \in [Threads -> ThreadRecords]
  BY DEF TypeOK
<1>a. PICK a \in Actors : a = th[t].act
  BY LocalsType
<1>r. RestartsItself(t)
  BY DEF AccessInv
<1>1. ASSUME NEW elapsed \in BOOLEAN, Decide(t, elapsed) PROVE MailInv'
  <2>1. Moves(t) /\ th'[t].act = a /\ Holds(t)' /\ ~At(t, "insert")'
    BY <1>t, <1>a, <1>1 DEF Decide, Moves, ThreadRecords, Holds, Inside, InsidePCs, Removes, At
  <2>2. handle' = handle /\ reg' = reg /\ top' = top /\ mail' = mail /\ SameQueues
    BY <1>1 DEF Decide, registry, scheduler, SameQueues
  <2>3. Hands(t)
    BY <1>a, <2>1, <2>2, GoesOn
  <2> QED
    BY <2>2, <2>3, Calm, HandsMail DEF SameBoxes, Deregisters, Queues
<1>2. ASSUME NEW v \in Actors, NEW starts \in BOOLEAN, Rebuild(t, v, starts) PROVE MailInv'
  <2>1. At(t, "rebuild") /\ Inside(t) /\ v = a
    BY <1>a, <1>r, <1>2 DEF Rebuild, RestartsItself, IsNext, Inside, InsidePCs, At
  <2>2. /\ Moves(t) /\ th'[t].act = a /\ th'[t].gen = th[t].gen /\ th'[t].tgt = a
        /\ th'[t].pc \in {"insert", "remove"}
        /\ th'[t].aux = IF reg[v] = 0 THEN 0 ELSE handle[Cur(v)].box
    BY <1>t, <1>a, <1>2, <2>1 DEF Rebuild, Moves, ThreadRecords
  <2>3. handle' = handle /\ reg' = reg /\ top' = top /\ mail' = mail /\ SameQueues
    BY <1>2 DEF Rebuild, registry, scheduler, SameQueues
  <2>4. Own(t)' = Own(t) /\ Holds(t)'
    BY <1>a, <2>2 DEF Own, Holds, Inside, InsidePCs, Removes, At
  <2>5. th'[t].aux \in {0, handle[Own(t)'].box}
    BY <1>a, <2>1, <2>2, <2>4, Occupied
  <2>6. Hands(t)
    BY <1>a, <2>2, <2>3, <2>4, <2>5, GoesOn
  <2> QED
    BY <2>3, <2>6, Calm, HandsMail DEF SameBoxes, Deregisters, Queues
<1>3. CASE Remove(t)
  <2>0. PICK v \in Actors : v = th[t].tgt
    BY LocalsType
  <2>1. Moves(t) /\ th'[t].pc \in {"unregister", "dispose"} /\ At(t, "remove")
    BY <1>t, <1>3 DEF Remove, Moves, ThreadRecords
  <2>2. /\ reg' = [reg EXCEPT ![v] = 0] /\ top' = top /\ mail' = mail /\ SameQueues
        /\ \A h \in Handles : handle'[h].box = handle[h].box /\ handle'[h].running = handle[h].running
    BY <1>3, <2>0 DEF Remove, scheduler, SameQueues, TypeOK, HandleRecords
  <2>3. reg'[v] = 0 /\ \A b \in Actors : reg'[b] \in {0, reg[b]}
    BY <2>2 DEF TypeOK
  <2>4. a # v => ~Watches(t) /\ ~Holds(t)
    BY <1>a, <2>0, <2>1 DEF Watches, Looks, Holds, Removes, Inside, InsidePCs, At
  <2>5. Hands(t)
    <3>1. CASE a = v
      <4>1. \A b \in Actors : reg[b] # 0 => Cur(b) \in Handles
        BY CurType
      <4> QED
        BY <1>a, <2>1, <2>2, <2>3, <3>1, <4>1 DEF Hands, At
    <3>2. CASE a # v
      BY <2>1, <2>2, <2>4, <3>2, PassesBy
    <3> QED
      BY <3>1, <3>2
  <2> QED
    BY <2>2, <2>3, <2>5, Calm, HandsMail DEF SameBoxes, Deregisters, Queues
<1>4. CASE Dispose(t) \/ Unregister(t)
  <2>1. Moves(t) /\ th'[t].pc \in {"unregister", "idle", "after", "rebuild"} /\ th[t].pc \in {"dispose", "unregister"}
    BY <1>t, <1>4, GotoFrame DEF Dispose, Unregister, AfterVictim, Moves, At
  <2>2. ~Watches(t) /\ ~Holds(t)
    BY <2>1 DEF Watches, Looks, Holds, Removes, Inside, InsidePCs, At
  <2>3. /\ reg' = reg /\ top' = top /\ mail' = mail /\ SameQueues
        /\ \A h \in Handles : handle'[h].box = handle[h].box /\ handle'[h].running = handle[h].running
    <3>1. handle \in [Handles -> HandleRecords] /\ \A h \in Handles : handle[h] \in HandleRecords
      BY DEF TypeOK
    <3>2. CASE Dispose(t)
      <4>1. handle' = [handle EXCEPT ![<<th[t].tgt, th[t].aux>>].slot = 0]
        BY <3>2 DEF Dispose, OnStop
      <4> QED
        BY <3>1, <3>2, <4>1 DEF Dispose, registry, scheduler, SameQueues, HandleRecords
    <3>3. CASE Unregister(t)
      BY <3>3 DEF Unregister, registry, scheduler, SameQueues
    <3> QED
      BY <1>4, <3>2, <3>3
  <2>4. Hands(t)
    BY <2>1, <2>2, <2>3, PassesBy
  <2> QED
    BY <2>3, <2>4, Calm, HandsMail DEF SameBoxes, Deregisters, Queues
<1>5. CASE AfterCrash(t)
  <2>1. Moves(t) /\ th'[t].pc = "idle" /\ th[t].pc = "after"
    BY <1>t, <1>5, GotoFrame DEF AfterCrash, Moves, At
  <2>2. /\ handle' = handle /\ reg' = reg /\ top' = top /\ mail' = mail /\ Queues
        /\ reg[th[t].act] # 0 /\ mail[Mailbox(Own(t))] # <<>> => Enqueue(th[t].act)
    BY <1>a, <1>5 DEF AfterCrash, registry, scheduler, Queues, SameQueues
  <2>3. Hands(t)
    BY <2>1, <2>2, LooksAgain DEF SameBoxes
  <2> QED
    BY <2>2, <2>3, Calm, HandsMail DEF SameBoxes, Deregisters
<1> QED
  BY <1>1, <1>2, <1>3, <1>4, <1>5, InsertMail, NeverPoisoned DEF CrashStep

-----------------------------------------------------------------------------
(* A push is announced until its notify. *)
LEMMA PushMail ==
  ASSUME TypeOK, TypeOK', MailInv, NEW c \in Clients, At(c, "push"), Goto(c, "notify"),
         mail' = [mail EXCEPT ![Mailbox(Own(c))] = Append(@, th[c].msg)],
         UNCHANGED <<reg, top, handle, ready>>
  PROVE  MailInv'
<1>c. c \in Threads /\ th[c] \in ThreadRecords /\ th \in [Threads -> ThreadRecords]
  BY DEF TypeOK, Threads
<1>a. PICK a \in Actors : a = th[c].act
  BY <1>c, LocalsType
<1>0. PICK box \in Handles : box = Mailbox(Own(c))
  BY <1>c, LocalsType, HandleType
<1>b. box[1] = a /\ box[2] <= top[a]
  <2>1. Own(c) \in Handles /\ Own(c)[2] = th[c].gen /\ th[c].gen \in Int /\ top[a] \in Int
    <3>1. Own(c) \in Handles /\ th[c].gen \in Gens /\ top[a] \in Gens
      BY <1>c, LocalsType DEF TypeOK
    <3> QED
      BY <3>1 DEF Own, Gens
  <2>2. handle[Own(c)].box \in Int
    BY <2>1, HandleType DEF Gens
  <2>3. handle[Own(c)].box <= th[c].gen /\ th[c].gen <= top[a]
    BY <1>a, <2>1 DEF MailInv, BoxesOk, At
  <2> QED
    BY SMTT(60), <1>0, <1>a, <2>1, <2>2, <2>3 DEF Mailbox, Own
<1>m. /\ mail \in [Handles -> Seq(Messages)] /\ mail' \in [Handles -> Seq(Messages)]
      /\ \A h \in Handles \ {box} : mail'[h] = mail[h]
      /\ mail'[box] = Append(mail[box], th[c].msg)
  BY <1>0 DEF TypeOK
<1>1. Moves(c) /\ th'[c] = [th[c] EXCEPT !.pc = "notify"]
  BY <1>c, GotoFrame DEF Moves
<1>2. th'[c].pc = "notify" /\ th'[c].act = a /\ th'[c].msg = th[c].msg
  BY <1>a, <1>c, <1>1 DEF ThreadRecords
<1>3. \A u \in Threads \ {c} : th'[u] = th[u] /\ Own(u)' = Own(u)
  BY <1>1 DEF Moves, Own
<1>4. BoxesOk'
  <2>1. (\A h \in Handles : h[2] > top[h[1]] => mail[h] = <<>>)'
    <3>1. ~(box[2] > top[box[1]])
      <4>1. box[2] \in Int /\ top[a] \in Int
        BY DEF TypeOK, Handles, Gens
      <4> QED
        BY <1>b, <4>1
    <3> QED
      BY <1>m, <3>1 DEF MailInv, BoxesOk
  <2> QED
    BY <1>2, <1>3, <2>1 DEF MailInv, BoxesOk, At, Threads
<1>5. ASSUME NEW b \in Actors PROVE RunningHeld(b)'
  <2> SUFFICES ASSUME reg[b] # 0, handle[Cur(b)].running
               PROVE  \E u \in Threads : th'[u].act = b /\ (Inside(u) \/ Removes(u, b))'
    BY DEF RunningHeld, Cur
  <2>1. PICK u \in Threads : th[u].act = b /\ (Inside(u) \/ Removes(u, b))
    BY DEF MailInv, RunningHeld
  <2>2. u # c
    BY <2>1 DEF Inside, InsidePCs, Removes, At
  <2> QED
    BY <1>3, <2>1, <2>2 DEF Inside, Removes, At
<1>6. ASSUME NEW b \in Actors PROVE MailAwaited(b)'
  <2>s. Mailbox(Cur(b))' = Mailbox(Cur(b))
    BY DEF Mailbox, Cur
  <2> SUFFICES ASSUME reg[b] # 0, ~Awaited(b)'
               PROVE  \A i \in 1..Len(mail'[Mailbox(Cur(b))']) :
                        \E d \in Clients : /\ th'[d].pc = "notify" /\ th'[d].act = b
                                          /\ th'[d].msg = mail'[Mailbox(Cur(b))'][i]
    BY DEF MailAwaited, Announced, At
  <2>0. PICK k \in Handles : k = Mailbox(Cur(b)) /\ k[1] = b
    BY CurType, HandleType DEF Mailbox, Cur
  <2> SUFFICES \A i \in 1..Len(mail'[k]) :
                 \E d \in Clients : th'[d].pc = "notify" /\ th'[d].act = b /\ th'[d].msg = mail'[k][i]
    BY <2>s, <2>0
  <2>1. ~Awaited(b)
    <3>1. \A u \in Threads : Looks(u, b) => Looks(u, b)'
      <4> SUFFICES ASSUME NEW u \in Threads, Looks(u, b) PROVE Looks(u, b)'
        OBVIOUS
      <4>1. u # c
        BY DEF Looks, Inside, InsidePCs, Removes, At
      <4>2. SameBox(u, b) => SameBox(u, b)'
        BY <1>3, <4>1 DEF SameBox, Mailbox, Cur
      <4> QED
        BY <1>3, <4>1, <4>2 DEF Looks, Inside, Removes, At
    <3>2. \A w \in Workers : Claims(w, b) => Claims(w, b)'
      BY <1>3 DEF Claims, Cur, At, Threads
    <3> QED
      BY <3>1, <3>2 DEF Awaited
  <2>2. \A i \in 1..Len(mail[k]) :
          \E d \in Clients : At(d, "notify") /\ th[d].act = b /\ th[d].msg = mail[k][i]
    BY <2>0, <2>1 DEF MailInv, MailAwaited, Announced
  <2>3. \A i \in 1..Len(mail[k]) :
          \E d \in Clients : th'[d].pc = "notify" /\ th'[d].act = b /\ th'[d].msg = mail[k][i]
    BY <1>3, <2>2 DEF At, Threads
  <2>4. CASE k # box
    <3>1. mail'[k] = mail[k]
      BY <1>m, <2>4
    <3> QED
      BY <2>3, <3>1
  <2>5. CASE k = box
    <3> SUFFICES ASSUME NEW i \in 1..Len(mail'[box])
                 PROVE  \E d \in Clients : /\ th'[d].pc = "notify" /\ th'[d].act = b
                                           /\ th'[d].msg = mail'[box][i]
      BY <2>5
    <3>1. mail[box] \in Seq(Messages) /\ b = a
      BY <1>b, <1>m, <2>0, <2>5
    <3>2. CASE i = Len(mail[box]) + 1
      BY <1>2, <1>m, <3>1, <3>2
    <3>3. CASE i # Len(mail[box]) + 1
      <4>1. i \in 1..Len(mail[box]) /\ mail'[box][i] = mail[box][i]
        BY <1>m, <3>1, <3>3
      <4> QED
        BY <2>3, <2>5, <4>1
    <3> QED
      BY <3>2, <3>3
  <2> QED
    BY <2>4, <2>5
<1> QED
  BY <1>4, <1>5, <1>6 DEF MailInv

LEMMA CallMail ==
  ASSUME TypeOK, TypeOK', AccessInv, StateInv, MailInv, NEW c \in Clients, CallStep(c)
  PROVE  MailInv'
<1>c. c \in Threads /\ th[c] \in ThreadRecords /\ th \in [Threads -> ThreadRecords]
  BY DEF TypeOK, Threads
<1>a. PICK a \in Actors : a = th[c].act
  BY <1>c, LocalsType
<1>h. handle \in [Handles -> HandleRecords] /\ (\A k \in Handles : handle[k] \in HandleRecords)
      /\ Own(c) \in Handles /\ Own(c) = <<a, th[c].gen>>
  BY <1>a, <1>c, LocalsType DEF TypeOK, Own
<1>k. \A b \in Actors : reg[b] # 0 => Cur(b) \in Handles
  BY CurType
<1>1. CASE Push(c)
  <2>1. UNCHANGED <<reg, top, handle, ready>> /\ At(c, "push") /\ SameQueues
    BY <1>1 DEF Push, registry, scheduler, SameQueues
  <2>2. CASE Len(mail[Mailbox(Own(c))]) < Capacity
    BY <1>1, <2>1, <2>2, PushMail DEF Push
  <2>3. CASE ~(Len(mail[Mailbox(Own(c))]) < Capacity)
    <3>1. mail' = mail /\ Goto(c, "idle")
      BY <1>1, <2>3 DEF Push
    <3>2. Moves(c) /\ th'[c].pc = "idle"
      BY <1>c, <3>1, GotoFrame DEF Moves
    <3>3. ~Watches(c) /\ ~Holds(c)
      BY <2>1 DEF Watches, Looks, Holds, Removes, Inside, InsidePCs, At
    <3>4. Hands(c)
      BY <1>c, <2>1, <3>2, <3>3, PassesBy
    <3> QED
      BY <1>c, <2>1, <3>1, <3>4, Calm, HandsMail DEF SameBoxes, Deregisters, Queues
  <2> QED
    BY <2>2, <2>3
<1>2. CASE Notify(c)
  <2>1. Moves(c) /\ th'[c].pc \in {"idle", "await"} /\ At(c, "notify")
    BY <1>c, <1>2, GotoFrame DEF Notify, Moves
  <2>2. handle' = handle /\ reg' = reg /\ top' = top /\ mail' = mail /\ Enqueue(a)
    BY <1>a, <1>2 DEF Notify, registry
  <2>3. Awaited(a)' /\ Queues
    BY <2>2, QueuesMore DEF Awaited, Queues
  <2>4. ~Holds(c)
    BY <2>1 DEF Holds, Removes, Inside, InsidePCs, At
  <2>5. Hands(c)
    BY <1>a, <2>1, <2>2, <2>3, <2>4 DEF Hands, At
  <2> QED
    BY <1>c, <2>2, <2>3, <2>5, Calm, HandsMail DEF SameBoxes, Deregisters
<1>3. CASE AskReturns(c)
  <2>1. Moves(c) /\ th'[c].pc = "idle" /\ At(c, "await")
    BY <1>c, <1>3, GotoFrame DEF AskReturns, Moves
  <2>2. ~Watches(c) /\ ~Holds(c)
    BY <2>1 DEF Watches, Looks, Holds, Removes, Inside, InsidePCs, At
  <2>3. handle' = handle /\ reg' = reg /\ top' = top /\ mail' = mail /\ SameQueues
    BY <1>3 DEF AskReturns, registry, scheduler, SameQueues
  <2>4. Hands(c)
    BY <1>c, <2>1, <2>2, <2>3, PassesBy
  <2> QED
    BY <1>c, <2>3, <2>4, Calm, HandsMail DEF SameBoxes, Deregisters, Queues
<1>4. CASE Swap(c)
  <2>0. PICK h \in Handles : h = Own(c)
    BY <1>h
  <2>1. /\ At(c, "swap") /\ Moves(c)
        /\ th'[c] = [th[c] EXCEPT !.pc = IF handle[h].running THEN "push" ELSE "check"]
    BY <1>c, <1>4, <2>0, GotoFrame DEF Swap, Moves
  <2>2. th'[c].act = a /\ th'[c].gen = th[c].gen /\ th[c].gen <= top[a]
        /\ th'[c].pc = IF handle[h].running THEN "push" ELSE "check"
    BY <1>a, <1>c, <2>1 DEF AccessInv, ThreadRecords
  <2>3. ~Watches(c) /\ ~Holds(c)
    BY <2>1 DEF Watches, Looks, Holds, Removes, Inside, InsidePCs, At
  <2>4. /\ reg' = reg /\ top' = top /\ mail' = mail /\ SameQueues /\ SameBoxes
        /\ \A k \in Handles \ {h} : handle'[k] = handle[k]
    BY <1>h, <1>4, <2>0 DEF Swap, registry, scheduler, SameQueues, SameBoxes, HandleRecords
  <2>5. \A b \in Actors : reg[b] # 0 /\ handle'[Cur(b)].running =>
          handle[Cur(b)].running \/ (th'[c].act = b /\ Inside(c)')
    <3> SUFFICES ASSUME NEW b \in Actors, reg[b] # 0, handle'[Cur(b)].running, ~handle[Cur(b)].running
                 PROVE  th'[c].act = b /\ Inside(c)'
      OBVIOUS
    <3>1. Cur(b) = h
      BY <1>k, <2>4
    <3> QED
      BY <1>h, <2>0, <2>2, <3>1 DEF Cur, Inside, InsidePCs
  <2>6. Hands(c)
    BY <2>1, <2>2, <2>3, <2>4, <2>5 DEF Hands, At
  <2> QED
    BY <1>c, <2>4, <2>6, Calm, HandsMail DEF Deregisters, Queues
<1>5. CASE CheckEmpty(c) \/ TryLock(c) \/ FastCrashes(c)
  <2>1. Moves(c) /\ th'[c].act = a /\ Holds(c)' /\ ~At(c, "insert")'
    <3>1. CASE CheckEmpty(c)
      <4>1. Moves(c) /\ \E label \in {"trylock", "giveup"} : th'[c] = [th[c] EXCEPT !.pc = label]
        <5>1. Goto(c, "trylock") \/ Goto(c, "giveup")
          BY <3>1 DEF CheckEmpty
        <5> QED
          BY <1>c, <5>1, GotoFrame DEF Moves
      <4>2. th'[c].pc \in {"trylock", "giveup"} /\ th'[c].act = a
        BY <1>a, <1>c, <4>1 DEF ThreadRecords
      <4> QED
        BY <4>1, <4>2 DEF Holds, Inside, InsidePCs, At
    <3>2. CASE TryLock(c) \/ FastCrashes(c)
      BY <1>a, <1>c, <3>2
      DEF TryLock, FastCrashes, Moves, ThreadRecords, Holds, Inside, InsidePCs, At
    <3> QED
      BY <1>5, <3>1, <3>2
  <2>2. \A k \in Handles : handle'[k].running = handle[k].running /\ handle'[k].box = handle[k].box
    <3>1. \/ handle' = handle \/ handle' = [handle EXCEPT ![Own(c)].lock = c]
          \/ handle' = [handle EXCEPT ![Own(c)].slot = 0, ![Own(c)].lock = NoThread]
      BY <1>5 DEF CheckEmpty, TryLock, FastCrashes
    <3> QED
      BY SMTT(20), <1>h, <3>1 DEF HandleRecords
  <2>3. reg' = reg /\ top' = top /\ mail' = mail /\ SameQueues
    BY <1>5 DEF CheckEmpty, TryLock, FastCrashes, registry, scheduler, SameQueues
  <2>4. Hands(c)
    BY <1>a, <1>c, <2>1, <2>2, GoesOn
  <2> QED
    BY <1>c, <2>2, <2>3, <2>4, Calm, HandsMail DEF SameBoxes, Deregisters, Queues
<1>6. CASE GiveUp(c) \/ FastReturns(c)
  <2>0. PICK h \in Handles : h = Own(c)
    BY <1>h
  <2>1. Inside(c)
    BY <1>6 DEF GiveUp, FastReturns, Inside, InsidePCs, At
  <2>2. /\ Moves(c) /\ th'[c].act = a /\ th'[c].gen = th[c].gen /\ Own(c)' = h
        /\ th'[c].pc \in {"fallback", "finish"}
    <3>1. CASE GiveUp(c)
      <4>1. Moves(c) /\ th'[c] = [th[c] EXCEPT !.pc = "fallback"]
        BY <1>c, <3>1, GotoFrame DEF GiveUp, Moves
      <4> QED
        BY <1>a, <1>c, <2>0, <4>1 DEF ThreadRecords, Own
    <3>2. CASE FastReturns(c)
      BY <1>a, <1>c, <2>0, <3>2 DEF FastReturns, Moves, ThreadRecords, Own
    <3> QED
      BY <1>6, <3>1, <3>2
  <2>3. /\ reg' = reg /\ top' = top /\ mail' = mail /\ SameQueues /\ SameBoxes
        /\ \A k \in Handles \ {h} : handle'[k] = handle[k]
        /\ ~handle'[h].running
    BY SMTT(20), <1>h, <1>6, <2>0
    DEF GiveUp, FastReturns, registry, scheduler, SameQueues, SameBoxes, HandleRecords
  <2>4. (reg[a] # 0 => Cur(a) = h) /\ th[c].gen = top[a]
    BY <1>a, <1>c, <2>0, <2>1, Occupied
  <2>5. reg[a] # 0 => Awaited(a)'
    BY <1>c, <2>2, <2>3, <2>4 DEF Awaited, Looks, SameBox, Cur, At
  <2>6. \A b \in Actors : reg[b] # 0 /\ handle'[Cur(b)].running => handle[Cur(b)].running
    BY <1>k, <2>3
  <2>7. th'[c].gen <= top[a]
    <3>1. top[a] \in Int
      BY DEF TypeOK, Gens
    <3> QED
      BY <2>2, <2>4, <3>1
  <2>8. Hands(c)
    BY <1>a, <2>2, <2>3, <2>4, <2>5, <2>6, <2>7 DEF Hands, At
  <2> QED
    BY <1>c, <2>3, <2>8, Calm, HandsMail DEF Deregisters, Queues
<1>7. CASE Fallback(c)
  <2>1. Moves(c) /\ th'[c] = [th[c] EXCEPT !.pc = "push"] /\ At(c, "fallback")
    BY <1>c, <1>7, GotoFrame DEF Fallback, Moves
  <2>2. th'[c].pc = "push" /\ th'[c].act = a /\ th'[c].gen = th[c].gen /\ th[c].gen <= top[a]
    BY <1>a, <1>c, <2>1 DEF ThreadRecords, MailInv, BoxesOk, At
  <2>3. reg' = reg /\ top' = top /\ mail' = mail /\ Enqueue(a)
    BY <1>a, <1>7 DEF Fallback, registry
  <2>4. \A k \in Handles : handle'[k].running = handle[k].running /\ handle'[k].box = handle[k].box
    BY <1>h, <1>7 DEF Fallback, Unlock, HandleRecords
  <2>5. Awaited(a)' /\ Queues
    BY <2>3, QueuesMore DEF Awaited, Queues
  <2>6. ~Holds(c)
    BY <2>1 DEF Holds, Removes, Inside, InsidePCs, At
  <2>7. Hands(c)
    BY <1>a, <1>k, <2>1, <2>2, <2>4, <2>5, <2>6 DEF Hands, At
  <2> QED
    BY <1>c, <2>3, <2>4, <2>5, <2>7, Calm, HandsMail DEF SameBoxes, Deregisters
<1>8. CASE Finish(c)
  <2>1. Moves(c) /\ th'[c].pc = "idle" /\ th[c].pc = "finish"
    BY <1>c, <1>8, GotoFrame DEF Finish, Moves, At
  <2>2. /\ reg' = reg /\ top' = top /\ mail' = mail /\ Queues
        /\ mail[Mailbox(Own(c))] # <<>> => Enqueue(th[c].act)
    BY <1>a, <1>8 DEF Finish, registry, scheduler, Queues, SameQueues
  <2>3. \A k \in Handles : handle'[k].running = handle[k].running /\ handle'[k].box = handle[k].box
    BY <1>h, <1>8 DEF Finish, Unlock, HandleRecords
  <2>4. Hands(c)
    BY <1>c, <2>1, <2>2, <2>3, LooksAgain DEF SameBoxes
  <2> QED
    BY <1>c, <2>2, <2>3, <2>4, Calm, HandsMail DEF SameBoxes, Deregisters
<1> QED
  BY <1>1, <1>2, <1>3, <1>4, <1>5, <1>6, <1>7, <1>8 DEF CallStep

LEMMA ChoiceMail ==
  ASSUME TypeOK, TypeOK', AccessInv, MailInv,
         \/ \E c \in Clients : ClientChoice(c)
         \/ \E t \in Threads : HandlerChoice(t)
  PROVE  MailInv'
<1>1. ASSUME NEW c \in Clients, NEW a \in Actors, NEW tag \in {"send", "ask"}, Call(c, a, tag)
      PROVE  MailInv'
  <2>c. c \in Threads /\ th[c] \in ThreadRecords /\ th \in [Threads -> ThreadRecords]
    BY DEF TypeOK, Threads
  <2>1. Moves(c) /\ th'[c].pc \in {"swap", "push"} /\ th'[c].act = a /\ th'[c].gen = ref[c][a]
        /\ At(c, "idle")
    BY <1>1, <2>c DEF Call, Moves, ThreadRecords
  <2>2. ~Watches(c) /\ ~Holds(c)
    BY <2>1 DEF Watches, Looks, Holds, Removes, Inside, InsidePCs, At
  <2>3. handle' = handle /\ reg' = reg /\ top' = top /\ mail' = mail /\ SameQueues
    BY <1>1 DEF Call, registry, scheduler, SameQueues
  <2>4. ref[c][a] <= top[a]
    BY DEF AccessInv
  <2>5. Hands(c)
    BY <2>1, <2>2, <2>3, <2>4 DEF Hands, At
  <2> QED
    BY <2>c, <2>3, <2>5, Calm, HandsMail DEF SameBoxes, Deregisters, Queues
<1>2. ASSUME NEW c \in Clients, NEW a \in Actors, Resolve(c, a) PROVE MailInv'
  <2>1. UNCHANGED <<th, handle, reg, top, mail, ready>>
    BY <1>2 DEF Resolve, registry, scheduler
  <2>2. \A b \in Actors : ready'[b] >= ready[b]
    BY <2>1 DEF TypeOK
  <2> QED
    BY <2>1, <2>2, UnmovedMail DEF SameBoxes, SameRunning, Deregisters
<1>3. ASSUME NEW a \in Actors, RequestStop(a) PROVE MailInv'
  <2>1. UNCHANGED <<th, reg, top, mail, ready>>
    BY <1>3 DEF RequestStop, registry, scheduler
  <2>2. \A b \in Actors : ready'[b] >= ready[b]
    BY <2>1 DEF TypeOK
  <2>3. SameBoxes /\ SameRunning
    BY SMTT(20), <1>3 DEF RequestStop, SameBoxes, SameRunning, TypeOK, HandleRecords
  <2> QED
    BY <2>1, <2>2, <2>3, UnmovedMail DEF Deregisters
<1>4. ASSUME NEW t \in Threads, NEW b \in Actors, Forward(t, b) PROVE MailInv'
  <2>0. PICK box \in Handles : box = Mailbox(Cur(b)) /\ box[1] = b /\ box[2] = handle[Cur(b)].box
    BY <1>4, CurType, HandleType DEF Forward, Mailbox, Cur
  <2>1. UNCHANGED <<th, reg, top, handle>> /\ Enqueue(b) /\ \A h \in Handles \ {box} : mail'[h] = mail[h]
    BY <1>4, <2>0 DEF Forward, registry, TypeOK
  <2>2. \A a \in Actors : ready'[a] >= ready[a]
    BY <2>1, QueuesMore DEF Queues
  <2>3. ready'[b] > 0
    BY <2>1, QueuesMore DEF Queues
  <2>4. box[2] <= top[b]
    <3>1. reg[b] = top[b] /\ reg[b] \in Int /\ Cur(b) \in Handles /\ Cur(b)[2] = reg[b]
      <4>1. reg[b] # 0 /\ reg[b] \in {0, top[b]} /\ reg[b] \in 0..MaxGen
        BY <1>4 DEF Forward, AccessInv, TypeOK
      <4> QED
        BY <4>1, CurType DEF Cur
    <3> QED
      BY <2>0, <3>1 DEF MailInv, BoxesOk
  <2>5. \A h \in Handles : mail'[h] = mail[h] \/ (h[2] <= top[h[1]] /\ ready'[h[1]] > 0)
    BY <2>0, <2>1, <2>3, <2>4
  <2>6. SameBoxes /\ SameRunning /\ Deregisters
    BY <2>1 DEF SameBoxes, SameRunning, Deregisters
  <2> QED
    BY <2>1, <2>2, <2>5, <2>6, UnmovedMail
<1> QED
  BY <1>1, <1>2, <1>3, <1>4, LocalsType DEF ClientChoice, HandlerChoice

LEMMA ShutdownMail ==
  ASSUME TypeOK, TypeOK', MailInv, StopAll \/ ShutdownStep \/ Rest \/ UNCHANGED vars
  PROVE  MailInv'
<1>1. /\ th' = th /\ top' = top /\ mail' = mail /\ ready' = ready
      /\ \A a \in Actors : reg'[a] \in {0, reg[a]}
  BY DEF StopAll, ShutdownStep, JoinWorkers, StopActor, ClearRegistry, Rest, vars, registry, scheduler
<1>2. \A h \in Handles : handle'[h].box = handle[h].box /\ handle'[h].running = handle[h].running
  <2>h. handle \in [Handles -> HandleRecords] /\ \A h \in Handles : handle[h] \in HandleRecords
    BY DEF TypeOK
  <2>1. ASSUME NEW a \in Actors, StopActor(a)
        PROVE  \A h \in Handles : handle'[h].box = handle[h].box /\ handle'[h].running = handle[h].running
    <3>1. handle' = [handle EXCEPT ![Cur(a)].slot = 0]
      BY <2>1 DEF StopActor, OnStop
    <3> QED
      BY <2>h, <3>1 DEF HandleRecords
  <2>2. CASE ClearRegistry
    BY <2>h, <2>2 DEF ClearRegistry, HandleRecords
  <2>3. CASE StopAll \/ JoinWorkers \/ Rest \/ UNCHANGED vars
    BY <2>3 DEF StopAll, JoinWorkers, Rest, vars
  <2> QED
    BY <2>1, <2>2, <2>3 DEF ShutdownStep
<1>3. \A b \in Actors : ready'[b] >= ready[b]
  BY <1>1 DEF TypeOK
<1> QED
  BY <1>1, <1>2, <1>3, UnmovedMail DEF SameBoxes, SameRunning, Deregisters

LEMMA MailStep ==
  Strategy = "OneForOne" /\ TypeOK /\ TypeOK' /\ AccessInv /\ StateInv /\ MailInv /\ [Next]_vars
    => MailInv'
  BY WorkerMail, CrashMail, CallMail, ChoiceMail, ShutdownMail DEF Next

LEMMA InitMail == Init => MailInv
<1> SUFFICES ASSUME Init PROVE MailInv
  OBVIOUS
<1>1. \A t \in Threads : th[t].pc = "idle"
  BY DEF Init, IdleThread
<1>2. \A h \in Handles : handle[h].box = h[2] /\ ~handle[h].running /\ mail[h] = <<>>
  BY DEF Init, NewHandle
<1>3. \A a \in Actors : Cur(a) \in Handles /\ Mailbox(Cur(a)) \in Handles
  BY <1>2, BoundAssumption DEF Init, Cur, Mailbox, Handles, Gens
<1>4. BoxesOk
  BY <1>1, <1>2 DEF BoxesOk, At, Threads, Handles, Gens
<1> QED
  BY <1>2, <1>3, <1>4 DEF MailInv, RunningHeld, MailAwaited

(* With actors restarted one by one, mail of a registered actor is awaited, *)
(* and who has running is inside or about to remove the actor ...           *)
THEOREM MailInvariant == Strategy = "OneForOne" => (Spec => []MailInv)
<1> SUFFICES ASSUME Strategy = "OneForOne" PROVE Spec => []MailInv
  OBVIOUS
<1>1. TypeOK /\ TypeOK' /\ AccessInv /\ StateInv /\ MailInv /\ [Next]_vars => MailInv'
  BY MailStep
<1> QED
  BY <1>1, InitMail, TypeCorrect, AccessInvariant, StateInvariant, PTL DEF Spec

(* ... hence no wakeup is lost.                                             *)
THEOREM NoLostWakeupHolds == Strategy = "OneForOne" => (Spec => []NoLostWakeup)
<1>1. TypeOK /\ MailInv => NoLostWakeup
  <2> SUFFICES ASSUME TypeOK, MailInv, NEW a \in Actors, reg[a] # 0, mail[Mailbox(Cur(a))] # <<>>,
                      ~(ready[a] > 0)
               PROVE  \E t \in Threads :
                        /\ th[t].act = a
                        /\ WillLook(t) \/ (At(t, "claim") /\ ~handle[Cur(a)].running)
    BY DEF NoLostWakeup
  <2>1. 1 \in 1..Len(mail[Mailbox(Cur(a))])
    <3>1. mail[Mailbox(Cur(a))] \in Seq(Messages)
      BY CurType, HandleType
    <3> QED
      BY <3>1
  <2>2. Awaited(a) \/ Announced(a, mail[Mailbox(Cur(a))][1])
    BY <2>1 DEF MailInv, MailAwaited
  <2> QED
    BY <2>2 DEF Awaited, Announced, Looks, Claims, Removes, Inside, InsidePCs, WillLook, At, Threads
<1> QED
  BY <1>1, MailInvariant, TypeCorrect, PTL

-----------------------------------------------------------------------------
(* Order.  A mailbox holds a sender's messages in the order of their        *)
(* numbers, and the newest handle's none that is not newer than what was    *)
(* handled; the message of a caller that may still push or handle it is the *)
(* newest of its sender; and one about to handle it has none in the mailbox. *)
Sorted(q) ==
  \A i, j \in 1..Len(q) : i < j /\ q[i].from = q[j].from => q[i].no < q[j].no

Newest(a) == Mailbox(<<a, top[a]>>)

Unsent(c) ==
  th[c].pc \in Carrying =>
    /\ th[c].msg.from = c /\ th[c].msg.no = no[c]
    /\ \A h \in Handles : \A m \in Range(mail[h]) : m.from = c => m.no < no[c]
    /\ \A a \in Actors : last[a][c] < no[c]
    /\ At(c, "trylock") => \A m \in Range(mail[Mailbox(Own(c))]) : m.from # c

OrderInv ==
  /\ \A h \in Handles : Sorted(mail[h]) /\ \A m \in Range(mail[h]) : m.no <= no[m.from]
  /\ \A a \in Actors : \A s \in Senders : last[a][s] <= no[s]
  /\ \A a \in Actors : \A m \in Range(mail[Newest(a)]) : m.no > last[a][m.from]
  /\ \A c \in Clients : Unsent(c)

LEMMA AppendSorted ==
  ASSUME NEW q \in Seq(Messages), NEW m \in Messages, Sorted(q),
         \A x \in Range(q) : x.from = m.from => x.no < m.no
  PROVE  Sorted(Append(q, m)) /\ Range(Append(q, m)) = Range(q) \cup {m}
<1>1. /\ Len(Append(q, m)) = Len(q) + 1 /\ Append(q, m)[Len(q) + 1] = m /\ Len(q) \in Nat
      /\ \A i \in 1..Len(q) : Append(q, m)[i] = q[i]
      /\ DOMAIN Append(q, m) = 1..Len(q) + 1 /\ DOMAIN q = 1..Len(q)
  OBVIOUS
<1>2. Range(Append(q, m)) = Range(q) \cup {m}
  BY <1>1 DEF Range
<1>3. \A i \in 1..Len(q) : q[i] \in Range(q)
  BY <1>1 DEF Range
<1>4. Sorted(Append(q, m))
  <2> SUFFICES ASSUME NEW i \in 1..Len(q) + 1, NEW j \in 1..Len(q) + 1, i < j,
                      Append(q, m)[i].from = Append(q, m)[j].from
               PROVE  Append(q, m)[i].no < Append(q, m)[j].no
    BY <1>1 DEF Sorted
  <2>1. CASE j = Len(q) + 1
    BY <1>1, <1>3, <2>1
  <2>2. CASE j # Len(q) + 1
    BY <1>1, <2>2 DEF Sorted
  <2> QED
    BY <2>1, <2>2
<1> QED
  BY <1>2, <1>4

LEMMA TailSorted ==
  ASSUME NEW q \in Seq(Messages), q # <<>>, Sorted(q)
  PROVE  /\ Sorted(Tail(q)) /\ Range(Tail(q)) \subseteq Range(q)
         /\ Head(q) \in Range(q) /\ Head(q) \in Messages
         /\ \A m \in Range(Tail(q)) : m.from = Head(q).from => m.no > Head(q).no
<1>1. /\ Len(Tail(q)) = Len(q) - 1 /\ Head(q) = q[1] /\ Len(q) \in Nat /\ Len(q) > 0
      /\ \A i \in 1..Len(q) - 1 : Tail(q)[i] = q[i + 1]
      /\ DOMAIN Tail(q) = 1..Len(q) - 1 /\ DOMAIN q = 1..Len(q)
  OBVIOUS
<1>2. Range(Tail(q)) \subseteq Range(q) /\ Head(q) \in Range(q) /\ Head(q) \in Messages
  BY <1>1 DEF Range
<1>3. Sorted(Tail(q))
  <2> SUFFICES ASSUME NEW i \in 1..Len(q) - 1, NEW j \in 1..Len(q) - 1, i < j,
                      q[i + 1].from = q[j + 1].from
               PROVE  q[i + 1].no < q[j + 1].no
    BY <1>1 DEF Sorted
  <2>1. i + 1 \in 1..Len(q) /\ j + 1 \in 1..Len(q) /\ i + 1 < j + 1
    BY <1>1
  <2> QED
    BY <2>1 DEF Sorted
<1>4. ASSUME NEW m \in Range(Tail(q)), m.from = Head(q).from PROVE m.no > Head(q).no
  <2>1. PICK i \in 1..Len(q) - 1 : m = q[i + 1]
    BY <1>1 DEF Range
  <2>2. 1 \in 1..Len(q) /\ i + 1 \in 1..Len(q) /\ 1 < i + 1
    BY <1>1
  <2>3. q[1].no < q[i + 1].no
    BY <1>1, <1>4, <2>1, <2>2 DEF Sorted
  <2>4. q[1] \in Messages /\ q[i + 1] \in Messages
    BY <2>2
  <2> QED
    BY <1>1, <2>1, <2>3, <2>4 DEF Messages
<1> QED
  BY <1>2, <1>3, <1>4

(* What mail is made of. *)
LEMMA MailType ==
  ASSUME TypeOK, NEW h \in Handles
  PROVE  mail[h] \in Seq(Messages) /\ \A m \in Range(mail[h]) : m \in Messages /\ m.no \in Int /\ m.from \in Senders
<1>1. mail[h] \in Seq(Messages)
  BY DEF TypeOK
<1>2. \A m \in Range(mail[h]) : m \in Messages
  BY <1>1 DEF Range
<1> QED
  BY <1>1, <1>2 DEF Messages

(* c goes on with the message it had, or has none that it may still send. *)
Follows(c) ==
  th'[c].pc \in Carrying =>
    /\ th[c].pc \in Carrying /\ th'[c].msg = th[c].msg /\ Own(c)' = Own(c)
    /\ th'[c].pc = "trylock" => th[c].pc = "trylock" \/ mail[Mailbox(Own(c))] = <<>>

LEMMA StillUnsent ==
  ASSUME TypeOK, OrderInv, NEW c \in Clients, Follows(c), no'[c] = no[c],
         \A h \in Handles : handle'[h].box = handle[h].box \/ h # Own(c),
         \A h \in Handles : \A m \in Range(mail'[h]) : m.from = c => m \in Range(mail[h]),
         \A a \in Actors : \/ last'[a][c] = last[a][c]
                           \/ \E h \in Handles : \E m \in Range(mail[h]) : m.from = c /\ last'[a][c] = m.no
  PROVE  Unsent(c)'
<1> SUFFICES ASSUME th'[c].pc \in Carrying PROVE Unsent(c)'
  BY DEF Unsent
<1>1. /\ th[c].pc \in Carrying /\ th'[c].msg = th[c].msg /\ Own(c)' = Own(c)
      /\ th'[c].pc = "trylock" => th[c].pc = "trylock" \/ mail[Mailbox(Own(c))] = <<>>
  BY DEF Follows
<1>2. Unsent(c)
  BY DEF OrderInv
<1>3. \A h \in Handles : \A m \in Range(mail[h]) : m.from = c => m.no < no[c]
  BY <1>1, <1>2 DEF Unsent
<1>4. \A a \in Actors : last'[a][c] < no'[c]
  BY <1>1, <1>2, <1>3 DEF Unsent
<1>5. Own(c) \in Handles /\ Mailbox(Own(c)) \in Handles /\ Mailbox(Own(c))' = Mailbox(Own(c))
  BY <1>1, LocalsType, HandleType DEF Threads, Mailbox
<1>6. At(c, "trylock")' => \A m \in Range(mail'[Mailbox(Own(c))]) : m.from # c
  <2> SUFFICES ASSUME th'[c].pc = "trylock", NEW m \in Range(mail'[Mailbox(Own(c))]), m.from = c
               PROVE  FALSE
    BY DEF At
  <2>1. m \in Range(mail[Mailbox(Own(c))])
    BY <1>5
  <2>2. mail[Mailbox(Own(c))] # <<>>
    BY <2>1 DEF Range
  <2> QED
    BY <1>1, <1>2, <2>1, <2>2 DEF Unsent, At
<1> QED
  BY <1>1, <1>2, <1>3, <1>4, <1>5, <1>6 DEF Unsent

LEMMA SameOrder ==
  ASSUME TypeOK, OrderInv, UNCHANGED <<mail, no, last, top>>, SameBoxes, \A c \in Clients : Follows(c)
  PROVE  OrderInv'
<1>1. \A c \in Clients : Unsent(c)'
  BY StillUnsent DEF SameBoxes
<1>2. \A a \in Actors : Newest(a)' = Newest(a)
  <2>1. \A a \in Actors : <<a, top[a]>> \in Handles
    BY DEF TypeOK, Handles
  <2> QED
    BY <2>1 DEF Newest, Mailbox, SameBoxes
<1>3. \A a \in Actors : \A m \in Range(mail'[Newest(a)']) : m.no > last'[a][m.from]
  BY <1>2 DEF OrderInv
<1> QED
  BY <1>1, <1>3 DEF OrderInv

LEMMA AppendOrder ==
  ASSUME TypeOK, OrderInv, NEW box \in Handles, NEW m \in Messages,
         mail' = [mail EXCEPT ![box] = Append(@, m)], UNCHANGED <<last, top>>, SameBoxes,
         no' \in [Senders -> Nat], \A s \in Senders : no'[s] >= no[s],
         m.no = no'[m.from], \A a \in Actors : last[a][m.from] < m.no,
         \A h \in Handles : \A x \in Range(mail[h]) : x.from = m.from => x.no < m.no,
         \A c \in Clients : Follows(c) /\ (c # m.from => no'[c] = no[c]),
         \A c \in Clients : th'[c].pc \in Carrying => c # m.from
  PROVE  OrderInv'
<1>1. /\ mail \in [Handles -> Seq(Messages)] /\ mail'[box] = Append(mail[box], m)
      /\ \A h \in Handles \ {box} : mail'[h] = mail[h]
  BY DEF TypeOK
<1>2. \A h \in Handles : Sorted(mail'[h]) /\ Range(mail'[h]) \subseteq Range(mail[h]) \cup {m}
  <2>1. Sorted(mail'[box]) /\ Range(mail'[box]) = Range(mail[box]) \cup {m}
    BY <1>1, AppendSorted DEF OrderInv
  <2> QED
    BY <1>1, <2>1 DEF OrderInv
<1>3. m.from \in Senders /\ m.no \in Int
  BY DEF Messages
<1>4. \A h \in Handles : \A x \in Range(mail'[h]) : x.no <= no'[x.from]
  <2>0. m.no <= no'[m.from]
    BY <1>3
  <2> SUFFICES ASSUME NEW h \in Handles, NEW x \in Range(mail[h]) PROVE x.no <= no'[x.from]
    BY <1>2, <2>0
  <2>1. x.no <= no[x.from] /\ x.from \in Senders /\ x.no \in Int
    BY MailType DEF OrderInv
  <2> QED
    BY <2>1 DEF TypeOK
<1>5. \A a \in Actors : \A s \in Senders : last'[a][s] <= no'[s]
  <2> SUFFICES ASSUME NEW a \in Actors, NEW s \in Senders PROVE last[a][s] <= no'[s]
    OBVIOUS
  <2>1. last[a][s] <= no[s] /\ last[a][s] \in Nat
    BY DEF OrderInv, TypeOK
  <2> QED
    BY <2>1 DEF TypeOK
<1>6. \A a \in Actors : Newest(a) \in Handles /\ Newest(a)' = Newest(a)
  <2>1. \A a \in Actors : <<a, top[a]>> \in Handles
    BY DEF TypeOK, Handles
  <2> QED
    BY <2>1, HandleType DEF Newest, Mailbox, SameBoxes
<1>7. \A a \in Actors : \A x \in Range(mail'[Newest(a)']) : x.no > last'[a][x.from]
  <2> SUFFICES ASSUME NEW a \in Actors, NEW x \in Range(mail[Newest(a)]) \cup {m}
               PROVE  x.no > last[a][x.from]
    BY <1>2, <1>6
  <2>1. CASE x = m
    BY <1>3, <2>1 DEF TypeOK
  <2>2. CASE x # m
    BY <2>2 DEF OrderInv
  <2> QED
    BY <2>1, <2>2
<1>8. ASSUME NEW c \in Clients PROVE Unsent(c)'
  <2>1. CASE c = m.from
    BY <2>1 DEF Unsent
  <2>2. CASE c # m.from
    <3>1. \A h \in Handles : \A x \in Range(mail'[h]) : x.from = c => x \in Range(mail[h])
      BY <1>2, <2>2
    <3> QED
      BY <2>2, <3>1, StillUnsent DEF SameBoxes
  <2> QED
    BY <2>1, <2>2
<1> QED
  BY <1>2, <1>4, <1>5, <1>7, <1>8 DEF OrderInv

(* A worker handles the oldest message of its mailbox, which is the newest  *)
(* handle's.                                                                *)
LEMMA PopOrder ==
  ASSUME TypeOK, AccessInv, OrderInv, NEW w \in Workers, Pop(w)
  PROVE  OrderInv' /\ th'[w].msg.no > last[th[w].act][th'[w].msg.from]
<1>0. PICK a \in Actors : a = th[w].act
  BY LocalsType DEF Threads
<1>w. w \in Threads /\ w \notin Clients /\ th[w] \in ThreadRecords /\ th \in [Threads -> ThreadRecords]
      /\ Inside(w)
  BY ThreadAssumption DEF TypeOK, Threads, Pop, Inside, InsidePCs, At
<1>1. PICK box \in Handles : box = Newest(a) /\ box = Mailbox(Own(w))
  <2>1. Own(w) \in Handles /\ Own(w) = <<a, top[a]>>
    BY <1>0, <1>w, Occupied
  <2> QED
    BY <2>1, HandleType DEF Newest
<1>b. PICK m \in Messages : m = Head(mail[box])
  BY <1>1, TailSorted, MailType DEF Pop, OrderInv
<1>2. /\ m \in Range(mail[box]) /\ Sorted(Tail(mail[box])) /\ Range(Tail(mail[box])) \subseteq Range(mail[box])
      /\ \A x \in Range(Tail(mail[box])) : x.from = m.from => x.no > m.no
  BY <1>1, <1>b, TailSorted, MailType DEF Pop, OrderInv
<1>3. /\ mail'[box] = Tail(mail[box]) /\ \A h \in Handles \ {box} : mail'[h] = mail[h]
      /\ last' = [last EXCEPT ![a][m.from] = m.no]
      /\ handle' = handle /\ no' = no /\ top' = top
      /\ th'[w].msg = m /\ \A u \in Threads \ {w} : th'[u] = th[u]
  BY <1>0, <1>1, <1>b, <1>w DEF Pop, Begin, registry, outside, TypeOK, ThreadRecords
<1>4. /\ last \in [Actors -> [Senders -> Nat]] /\ no \in [Senders -> Nat] /\ m.from \in Senders /\ m.no \in Nat
  BY DEF TypeOK, Messages
<1>5. /\ last'[a][m.from] = m.no
      /\ \A b \in Actors : \A s \in Senders : b # a \/ s # m.from => last'[b][s] = last[b][s]
  BY <1>3, <1>4
<1>6. \A h \in Handles : Sorted(mail'[h]) /\ Range(mail'[h]) \subseteq Range(mail[h])
  BY <1>2, <1>3 DEF OrderInv
<1>7. \A h \in Handles : \A x \in Range(mail'[h]) : x.no <= no'[x.from]
  BY <1>3, <1>6 DEF OrderInv
<1>8. \A b \in Actors : \A s \in Senders : last'[b][s] <= no'[s]
  <2>1. m.no <= no[m.from]
    BY <1>2 DEF OrderInv
  <2> QED
    BY <1>3, <1>5, <2>1 DEF OrderInv
<1>9. \A b \in Actors : Newest(b) \in Handles /\ Newest(b)' = Newest(b) /\ (b # a => Newest(b) # box)
  <2>1. \A b \in Actors : <<b, top[b]>> \in Handles /\ Newest(b)[1] = b
    BY DEF TypeOK, Handles, Newest, Mailbox
  <2> QED
    BY <1>1, <1>3, <2>1, HandleType DEF Newest, Mailbox
<1>10. ASSUME NEW b \in Actors, NEW x \in Range(mail'[Newest(b)]) PROVE x.no > last'[b][x.from]
  <2>1. x \in Range(mail[Newest(b)]) /\ x.from \in Senders
    BY <1>6, <1>9, MailType
  <2>2. x.no > last[b][x.from]
    BY <2>1 DEF OrderInv
  <2>3. CASE b = a /\ x.from = m.from
    BY <1>1, <1>2, <1>3, <1>5, <2>3
  <2>4. CASE ~(b = a /\ x.from = m.from)
    BY <1>5, <2>1, <2>2, <2>4
  <2> QED
    BY <2>3, <2>4
<1>11. ASSUME NEW c \in Clients PROVE Unsent(c)'
  <2>1. c \in Threads /\ c # w /\ c \in Senders
    BY <1>w DEF Threads, Senders
  <2>2. Follows(c)
    BY <1>3, <2>1 DEF Follows, Own
  <2>3. \A b \in Actors : \/ last'[b][c] = last[b][c]
                          \/ \E h \in Handles : \E x \in Range(mail[h]) : x.from = c /\ last'[b][c] = x.no
    BY <1>2, <1>5, <2>1
  <2> QED
    BY <1>3, <1>6, <2>2, <2>3, StillUnsent
<1>12. OrderInv'
  BY <1>6, <1>7, <1>8, <1>9, <1>10, <1>11 DEF OrderInv
<1> QED
  BY <1>0, <1>1, <1>2, <1>3, <1>12 DEF OrderInv

(* A caller handles its own message, of which there is no older one left.   *)
LEMMA TryLockOrder ==
  ASSUME TypeOK, AccessInv, OrderInv, NEW c \in Clients, TryLock(c)
  PROVE  /\ OrderInv'
         /\ th'[c].pc = "handling" => th'[c].msg.no > last[th[c].act][th'[c].msg.from]
<1>0. PICK a \in Actors : a = th[c].act
  BY LocalsType DEF Threads
<1>w. c \in Threads /\ th[c] \in ThreadRecords /\ th \in [Threads -> ThreadRecords]
      /\ Inside(c) /\ At(c, "trylock") /\ c \in Senders
  BY DEF TypeOK, Threads, Senders, TryLock, Inside, InsidePCs, At
<1>1. PICK box \in Handles : box = Newest(a) /\ box = Mailbox(Own(c))
  <2>1. Own(c) \in Handles /\ Own(c) = <<a, top[a]>>
    BY <1>0, <1>w, Occupied
  <2> QED
    BY <2>1, HandleType DEF Newest
<1>h. Own(c)[1] = a
  BY <1>0 DEF Own
<1>2. /\ th[c].msg.from = c /\ th[c].msg.no = no[c] /\ last[a][c] < no[c]
      /\ \A m \in Range(mail[box]) : m.from # c
  BY <1>1, <1>w DEF OrderInv, Unsent, Carrying, At
<1>3. /\ UNCHANGED <<mail, no, top>> /\ SameBoxes /\ \A u \in Threads \ {c} : th'[u] = th[u]
      /\ th'[c].pc \in {"handling", "giveup"} /\ th'[c].msg = th[c].msg /\ Own(c)' = Own(c)
  <2>1. handle' = handle \/ handle' = [handle EXCEPT ![Own(c)].lock = c]
    BY DEF TryLock
  <2>2. SameBoxes
    <3>1. handle \in [Handles -> HandleRecords] /\ \A h \in Handles : handle[h] \in HandleRecords
      BY DEF TypeOK
    <3> QED
      BY <2>1, <3>1 DEF SameBoxes, HandleRecords
  <2> QED
    BY <1>w, <2>2 DEF TryLock, registry, outside, ThreadRecords, Own
<1>f. \A d \in Clients : Follows(d)
  BY <1>3, <1>w DEF Follows, Own, Threads, Carrying, At
<1>4. CASE last' = last /\ th'[c].pc # "handling"
  BY <1>3, <1>4, <1>f, SameOrder
<1>5. CASE last' = [last EXCEPT ![a][c] = no[c]] /\ th'[c].pc = "handling"
  <2>1. last \in [Actors -> [Senders -> Nat]] /\ no \in [Senders -> Nat]
    BY DEF TypeOK
  <2>2. /\ last'[a][c] = no[c]
        /\ \A b \in Actors : \A s \in Senders : b # a \/ s # c => last'[b][s] = last[b][s]
    BY <1>5, <1>w, <2>1
  <2>3. \A b \in Actors : \A s \in Senders : last'[b][s] <= no'[s]
    BY <1>3, <2>1, <2>2 DEF OrderInv
  <2>4. \A b \in Actors : Newest(b) \in Handles /\ Newest(b)' = Newest(b)
    <3>1. \A b \in Actors : <<b, top[b]>> \in Handles
      BY DEF TypeOK, Handles
    <3> QED
      BY <1>3, <3>1, HandleType DEF Newest, Mailbox, SameBoxes
  <2>5. ASSUME NEW b \in Actors, NEW m \in Range(mail[Newest(b)]) PROVE m.no > last'[b][m.from]
    <3>1. m.from \in Senders /\ m.no > last[b][m.from]
      BY <2>4, MailType DEF OrderInv
    <3>2. b = a => m.from # c
      BY <1>1, <1>2
    <3> QED
      BY <2>2, <3>1, <3>2
  <2>6. ASSUME NEW d \in Clients PROVE Unsent(d)'
    <3>1. CASE d = c
      BY <1>5, <3>1 DEF Unsent, Carrying
    <3>2. CASE d # c
      <4>1. \A b \in Actors : last'[b][d] = last[b][d]
        BY <2>2, <3>2 DEF Senders
      <4>2. no'[d] = no[d] /\ Follows(d)
            /\ \A h \in Handles : \A m \in Range(mail'[h]) : m.from = d => m \in Range(mail[h])
        BY <1>3, <1>f
      <4> QED
        BY <1>3, <4>1, <4>2, StillUnsent DEF SameBoxes
    <3> QED
      BY <3>1, <3>2
  <2>7. OrderInv'
    BY <1>3, <2>3, <2>4, <2>5, <2>6 DEF OrderInv
  <2> QED
    BY <1>0, <1>2, <1>3, <2>7 DEF OrderInv
<1> QED
  <2>1. \/ last' = last /\ th'[c].pc # "handling"
        \/ last' = [last EXCEPT ![a][c] = no[c]] /\ th'[c].pc = "handling"
    BY <1>h, <1>w, <1>2 DEF TryLock, Begin, ThreadRecords
  <2> QED
    BY <1>4, <1>5, <2>1

(* A restart keeps the mailbox, or starts an empty one. *)
LEMMA InsertOrder ==
  ASSUME TypeOK, AccessInv, MailInv, OrderInv, NEW t \in Threads, Insert(t)
  PROVE  OrderInv'
<1>r. RestartsItself(t) /\ At(t, "insert") /\ Inside(t)
  BY DEF AccessInv, Insert, Inside, InsidePCs, At
<1>0. PICK v \in Actors : v = th[t].act /\ v = th[t].tgt
  BY <1>r, LocalsType DEF RestartsItself
<1>1. PICK g \in Gens : g = top[v] + 1
  <2>1. top[v] \in 1..MaxGen /\ top[v] < MaxGen
    BY <1>0 DEF TypeOK, Gens, Insert
  <2> QED
    BY <2>1, BoundAssumption DEF Gens
<1>n. /\ top \in [Actors -> Gens] /\ <<v, g>> \in Handles /\ handle \in [Handles -> HandleRecords]
      /\ g \in Int /\ top[v] \in Int /\ th \in [Threads -> ThreadRecords] /\ th[t] \in ThreadRecords
  BY DEF TypeOK, Handles, Gens
<1>g. th[t].gen = top[v]
  BY <1>0, <1>r, Occupied
<1>2. /\ Moves(t) /\ th'[t] = [th[t] EXCEPT !.pc = "after"]
  <2>1. Goto(t, "after")
    BY <1>r DEF Insert, RestartsItself, AfterVictim, At
  <2> QED
    BY <2>1, <1>n, GotoFrame DEF Moves
<1>3. /\ UNCHANGED <<mail, no, last>> /\ top'[v] = g
      /\ \A a \in Actors \ {v} : top'[a] = top[a]
      /\ \A k \in Handles \ {<<v, g>>} : handle'[k] = handle[k]
      /\ handle'[<<v, g>>].box = IF th[t].aux = 0 THEN g ELSE th[t].aux
  BY <1>0, <1>1, <1>n DEF Insert, outside, history, NewHandle
<1>4. th[t].aux \in {0, handle[<<v, top[v]>>].box}
  BY <1>0, <1>g, <1>r DEF MailInv, BoxesOk, Own
<1>5. \A a \in Actors \ {v} : Newest(a)' = Newest(a)
  <2>1. \A a \in Actors \ {v} : <<a, top[a]>> \in Handles \ {<<v, g>>}
    BY <1>n DEF Handles
  <2> QED
    BY <1>3, <2>1 DEF Newest, Mailbox
<1>6. ASSUME NEW a \in Actors, NEW m \in Range(mail'[Newest(a)']) PROVE m.no > last'[a][m.from]
  <2>1. CASE a # v
    BY <1>3, <1>5, <1>6, <2>1 DEF OrderInv
  <2>2. CASE a = v /\ th[t].aux = 0
    <3>1. Newest(v)' = <<v, g>>
      BY <1>3, <2>2 DEF Newest, Mailbox
    <3>2. mail[<<v, g>>] = <<>>
      <4>1. g > top[v]
        BY <1>1, <1>n
      <4> QED
        BY <1>n, <4>1 DEF MailInv, BoxesOk
    <3> QED
      BY <1>3, <1>6, <2>2, <3>1, <3>2 DEF Range
  <2>3. CASE a = v /\ th[t].aux # 0
    <3>1. Newest(v)' = Newest(v)
      BY <1>3, <1>4, <2>3 DEF Newest, Mailbox
    <3> QED
      BY <1>3, <1>6, <2>3, <3>1 DEF OrderInv
  <2> QED
    BY <2>1, <2>2, <2>3
<1>7. ASSUME NEW c \in Clients PROVE Unsent(c)'
  <2>1. CASE c = t
    <3>1. th'[c].pc \notin Carrying
      BY <1>2, <1>n, <2>1 DEF Carrying, ThreadRecords
    <3> QED
      BY <3>1 DEF Unsent
  <2>2. CASE c # t
    <3>1. c \in Threads /\ th'[c] = th[c] /\ Follows(c)
      BY <1>2, <2>2 DEF Moves, Threads, Follows, Own
    <3>2. CASE th[c].pc \notin Carrying
      BY <3>1, <3>2 DEF Unsent
    <3>3. CASE th[c].pc \in Carrying
      <4>1. Own(c) # <<v, g>>
        <5>1. th[c].gen <= top[th[c].act]
          <6>1. th[c].gen \in Int /\ top[th[c].act] \in Int
            <7>1. th[c].gen \in Gens /\ th[c].act \in Actors
              BY <3>1, LocalsType
            <7> QED
              BY <1>n, <7>1 DEF Gens
          <6>2. CASE th[c].pc = "swap"
            BY <3>1, <6>2 DEF AccessInv, At
          <6>3. CASE th[c].pc \in {"push", "fallback"}
            BY <6>3 DEF MailInv, BoxesOk
          <6>4. CASE th[c].pc \in {"check", "trylock", "giveup"}
            BY <3>1, <6>1, <6>4, Occupied DEF Inside, InsidePCs
          <6> QED
            BY <3>3, <6>2, <6>3, <6>4 DEF Carrying
        <5> QED
          BY <1>1, <1>n, <5>1 DEF Own
      <4>2. Own(c) \in Handles
        BY <3>1, LocalsType
      <4> QED
        BY <1>3, <3>1, <4>1, <4>2, StillUnsent
    <3> QED
      BY <3>2, <3>3
  <2> QED
    BY <2>1, <2>2
<1> QED
  BY <1>3, <1>6, <1>7 DEF OrderInv

LEMMA CallOrder ==
  ASSUME TypeOK, OrderInv, NEW c \in Clients, NEW a \in Actors, NEW tag \in {"send", "ask"},
         Call(c, a, tag)
  PROVE  OrderInv'
<1>w. c \in Threads /\ th[c] \in ThreadRecords /\ th \in [Threads -> ThreadRecords] /\ c \in Senders
      /\ no \in [Senders -> Nat]
  BY DEF TypeOK, Threads, Senders
<1>1. /\ UNCHANGED <<mail, last, top, handle>> /\ no' = [no EXCEPT ![c] = @ + 1]
      /\ th'[c].pc \in {"swap", "push"} /\ th'[c].msg = Message(c)
      /\ \A u \in Threads \ {c} : th'[u] = th[u]
  BY <1>w DEF Call, registry, history, ThreadRecords
<1>2. no'[c] = no[c] + 1 /\ (\A s \in Senders \ {c} : no'[s] = no[s]) /\ \A s \in Senders : no'[s] >= no[s]
  BY <1>w, <1>1
<1>3. \A h \in Handles : \A m \in Range(mail[h]) :
        m.no <= no'[m.from] /\ (m.from = c => m.no < no'[c])
  <2> SUFFICES ASSUME NEW h \in Handles, NEW m \in Range(mail[h])
               PROVE  m.no <= no'[m.from] /\ (m.from = c => m.no < no'[c])
    OBVIOUS
  <2>1. m.no \in Int /\ m.from \in Senders /\ m.no <= no[m.from]
    BY MailType DEF OrderInv
  <2> QED
    BY <1>w, <1>2, <2>1
<1>4. \A b \in Actors : last[b][c] < no'[c] /\ \A s \in Senders : last[b][s] <= no'[s]
  <2> SUFFICES ASSUME NEW b \in Actors, NEW s \in Senders
               PROVE  last[b][s] <= no'[s] /\ (s = c => last[b][s] < no'[s])
    BY <1>w
  <2>1. last[b][s] \in Nat /\ last[b][s] <= no[s]
    BY DEF TypeOK, OrderInv
  <2> QED
    BY <1>w, <1>2, <2>1
<1>5. Unsent(c)'
  <2>1. Message(c).from = c /\ Message(c).no = no'[c]
    BY <1>2 DEF Message
  <2> QED
    BY <1>1, <1>3, <1>4, <2>1 DEF Unsent, At
<1>6. ASSUME NEW d \in Clients \ {c} PROVE Unsent(d)'
  <2>1. Follows(d) /\ no'[d] = no[d]
    BY <1>1, <1>2 DEF Follows, Own, Threads, Senders
  <2> QED
    BY <1>1, <2>1, StillUnsent
<1>7. \A b \in Actors : Newest(b)' = Newest(b)
  BY <1>1 DEF Newest, Mailbox
<1>8. \A b \in Actors : \A m \in Range(mail'[Newest(b)']) : m.no > last'[b][m.from]
  BY <1>1, <1>7 DEF OrderInv
<1>9. \A h \in Handles : Sorted(mail'[h]) /\ \A m \in Range(mail'[h]) : m.no <= no'[m.from]
  BY <1>1, <1>3 DEF OrderInv
<1> QED
  BY <1>1, <1>4, <1>5, <1>6, <1>8, <1>9 DEF OrderInv

LEMMA ForwardOrder ==
  ASSUME TypeOK, OrderInv, NEW t \in Threads, NEW b \in Actors, Forward(t, b)
  PROVE  OrderInv'
<1>0. PICK a \in Actors : a = th[t].act
  BY LocalsType
<1>1. PICK box \in Handles : box = Mailbox(Cur(b))
  BY CurType, HandleType DEF Forward
<1>2. PICK m \in Messages : m = Message(a) /\ m.from = a /\ m.no = no[a] + 1
  <2>1. Message(a) \in Messages
    BY MessageType DEF Senders
  <2> QED
    BY <2>1 DEF Message
<1>3. a \in Senders /\ a \notin Clients /\ no \in [Senders -> Nat]
  BY ThreadAssumption DEF Senders, TypeOK
<1>4. /\ mail' = [mail EXCEPT ![box] = Append(@, m)] /\ UNCHANGED <<last, top, handle, th>>
      /\ no' = [no EXCEPT ![a] = @ + 1]
  BY <1>0, <1>1, <1>2 DEF Forward, registry, history
<1>5. /\ no' \in [Senders -> Nat] /\ no'[a] = m.no /\ \A s \in Senders : no'[s] >= no[s]
      /\ \A c \in Clients : no'[c] = no[c]
  BY <1>2, <1>3, <1>4 DEF Senders
<1>6. \A d \in Actors : last[d][a] < m.no
  <2> SUFFICES ASSUME NEW d \in Actors PROVE last[d][a] < m.no
    OBVIOUS
  <2>1. last[d][a] \in Nat /\ last[d][a] <= no[a]
    BY <1>3 DEF TypeOK, OrderInv
  <2> QED
    BY <1>2, <1>3, <2>1
<1>7. \A h \in Handles : \A x \in Range(mail[h]) : x.from = a => x.no < m.no
  <2> SUFFICES ASSUME NEW h \in Handles, NEW x \in Range(mail[h]), x.from = a PROVE x.no < m.no
    OBVIOUS
  <2>1. x.no \in Int /\ x.no <= no[a]
    BY MailType DEF OrderInv
  <2> QED
    BY <1>2, <1>3, <2>1
<1>8. \A c \in Clients : Follows(c) /\ c # m.from
  BY <1>2, <1>3, <1>4 DEF Follows, Own
<1> QED
  BY <1>2, <1>4, <1>5, <1>6, <1>7, <1>8, AppendOrder DEF SameBoxes

LEMMA PushOrder ==
  ASSUME TypeOK, OrderInv, NEW c \in Clients, Push(c)
  PROVE  OrderInv'
<1>w. c \in Threads /\ th[c] \in ThreadRecords /\ th \in [Threads -> ThreadRecords] /\ At(c, "push")
  BY DEF TypeOK, Threads, Push
<1>1. PICK box \in Handles : box = Mailbox(Own(c))
  BY <1>w, LocalsType, HandleType
<1>2. /\ th[c].msg.from = c /\ th[c].msg.no = no[c] /\ \A a \in Actors : last[a][c] < no[c]
      /\ \A h \in Handles : \A x \in Range(mail[h]) : x.from = c => x.no < no[c]
  BY <1>w DEF OrderInv, Unsent, Carrying, At
<1>3. UNCHANGED <<last, top, handle, no>>
  BY DEF Push, registry, outside, history
<1>4. /\ th'[c].pc \notin Carrying /\ \A u \in Threads \ {c} : th'[u] = th[u]
  <2>1. Goto(c, "notify") \/ Goto(c, "idle")
    BY DEF Push
  <2> QED
    BY <1>w, <2>1, GotoFrame DEF Carrying
<1>5. \A d \in Clients : Follows(d)
  BY <1>4 DEF Follows, Own, Threads
<1>6. CASE mail' = mail
  BY <1>3, <1>5, <1>6, SameOrder DEF SameBoxes
<1>7. CASE mail' = [mail EXCEPT ![Mailbox(Own(c))] = Append(@, th[c].msg)]
  <2>1. PICK m : m = th[c].msg
    OBVIOUS
  <2>2. m \in Messages /\ no \in [Senders -> Nat]
    <3>1. m \in Messages \cup {NoMessage}
      BY <1>w, <2>1, LocalsType
    <3>2. m # NoMessage
      BY <1>2, <2>1, ThreadAssumption DEF NoMessage
    <3> QED
      BY <3>1, <3>2 DEF TypeOK
  <2>3. \A s \in Senders : no'[s] >= no[s]
    BY <1>3, <2>2
  <2>4. \A d \in Clients : th'[d].pc \in Carrying => d # m.from
    BY <1>2, <1>4, <2>1
  <2>5. mail' = [mail EXCEPT ![box] = Append(@, m)]
    BY <1>1, <1>7, <2>1
  <2>6. m.from = c /\ m.no = no[c]
    BY <1>2, <2>1
  <2>7. UNCHANGED <<last, top>> /\ SameBoxes /\ no' \in [Senders -> Nat] /\ m.no = no'[m.from]
    BY <1>3, <2>2, <2>6 DEF SameBoxes
  <2>8. /\ \A a \in Actors : last[a][m.from] < m.no
        /\ \A h \in Handles : \A x \in Range(mail[h]) : x.from = m.from => x.no < m.no
    BY <1>2, <2>6
  <2>9. \A d \in Clients : Follows(d) /\ (d # m.from => no'[d] = no[d])
    BY <1>3, <1>5
  <2> QED
    BY <2>2, <2>3, <2>4, <2>5, <2>7, <2>8, <2>9, AppendOrder
<1> QED
  BY <1>6, <1>7 DEF Push

(* The other steps of a thread begin no handling and touch no mailbox. *)
Idles(t) ==
  /\ UNCHANGED <<mail, no, last, top>> /\ SameBoxes /\ Moves(t)
  /\ At(t, "handling")' => At(t, "handling")
  /\ t \in Clients => Follows(t)

InHandling(t) == ~At(t, "handling") /\ th'[t].pc = "handling"

LEMMA IdlesOrder ==
  ASSUME TypeOK, OrderInv, NEW t \in Threads, Idles(t)
  PROVE  OrderInv' /\ \A u \in Threads : ~InHandling(u)
<1>1. \A c \in Clients : Follows(c)
  BY DEF Idles, Moves, Follows, Own, Threads
<1> QED
  BY <1>1, SameOrder DEF Idles, Moves, InHandling, At

(* A handling that begins is one of a newer message. *)
InOrder ==
  \A t \in Threads : InHandling(t) => th'[t].msg.no > last[th[t].act][th'[t].msg.from]

LEMMA WorkerOrder ==
  ASSUME TypeOK, AccessInv, StateInv, OrderInv, NEW w \in Workers, WorkerStep(w)
  PROVE  OrderInv' /\ InOrder
<1>w. w \in Threads /\ w \notin Clients /\ th[w] \in ThreadRecords /\ th \in [Threads -> ThreadRecords]
  BY ThreadAssumption DEF TypeOK, Threads
<1>h. handle \in [Handles -> HandleRecords] /\ \A k \in Handles : handle[k] \in HandleRecords
  BY DEF TypeOK
<1>1. CASE Pop(w)
  BY <1>w, <1>1, PopOrder DEF Pop, InOrder, InHandling, At
<1>2. CASE ClaimFails(w) \/ PopNone(w) \/ ReturnGone(w) \/ Requeue(w) \/ Exit(w)
  <2>1. Moves(w) /\ th'[w].pc \in {"idle", "settle", "exited"}
    BY <1>w, <1>2, GotoFrame DEF ClaimFails, PopNone, ReturnGone, Requeue, Exit, Moves
  <2>2. UNCHANGED <<mail, no, last, top, handle>>
    BY <1>2 DEF ClaimFails, PopNone, ReturnGone, Requeue, Exit, registry, outside, history
  <2> QED
    BY <1>w, <2>1, <2>2, IdlesOrder DEF Idles, InOrder, SameBoxes, At
<1>3. CASE Return(w)
  <2>1. Moves(w) /\ th'[w].pc = "putback"
    BY <1>w, <1>3, GotoFrame DEF Return, Moves
  <2>2. UNCHANGED <<mail, no, last, top>>
    BY <1>3 DEF Return, registry, outside, history
  <2>3. SameBoxes
    BY <1>h, <1>3 DEF Return, SameBoxes, HandleRecords
  <2> QED
    BY <1>w, <2>1, <2>2, <2>3, IdlesOrder DEF Idles, InOrder, At
<1>4. CASE \/ Claim(w) \/ TakeStopping(w) \/ Take(w) \/ ReturnCrashed(w) \/ PutBack(w)
  <2>1. Moves(w) /\ th'[w].pc # "handling"
    BY <1>w, <1>4 DEF Claim, TakeStopping, Take, ReturnCrashed, PutBack, Moves, ThreadRecords
  <2>2. UNCHANGED <<mail, no, last, top>>
    BY <1>4 DEF Claim, TakeStopping, Take, ReturnCrashed, PutBack, registry, outside, history
  <2>3. SameBoxes
    <3>1. CASE Claim(w) \/ PutBack(w)
      BY <1>h, <3>1 DEF Claim, PutBack, SameBoxes, HandleRecords
    <3>2. CASE TakeStopping(w) \/ Take(w) \/ ReturnCrashed(w)
      BY <1>h, <3>2 DEF TakeStopping, Take, ReturnCrashed, SameBoxes, HandleRecords
    <3> QED
      BY <1>4, <3>1, <3>2
  <2> QED
    BY <1>w, <2>1, <2>2, <2>3, IdlesOrder DEF Idles, InOrder, At
<1>5. CASE \/ \E a \in Actors : Pick(w, a)
           \/ HandlerContinues(w) \/ (\E tag \in {"stop", "crash"} : HandlerEnds(w, tag)) \/ Settle(w)
  <2>1. Moves(w) /\ th'[w].pc # "handling"
    BY <1>w, <1>5 DEF Pick, HandlerContinues, HandlerEnds, Settle, Moves, ThreadRecords
  <2>2. UNCHANGED <<mail, no, last, top, handle>>
    BY <1>5 DEF Pick, HandlerContinues, HandlerEnds, Settle, registry, outside, history
  <2> QED
    BY <1>w, <2>1, <2>2, IdlesOrder DEF Idles, InOrder, SameBoxes, At
<1> QED
  BY <1>1, <1>2, <1>3, <1>4, <1>5, NeverTakePanics DEF WorkerStep

LEMMA CrashOrder ==
  ASSUME TypeOK, AccessInv, StateInv, MailInv, OrderInv, NEW t \in Threads, CrashStep(t)
  PROVE  OrderInv' /\ InOrder
<1>t. th[t] \in ThreadRecords /\ th \in [Threads -> ThreadRecords]
  BY DEF TypeOK
<1>h. handle \in [Handles -> HandleRecords] /\ \A k \in Handles : handle[k] \in HandleRecords
  BY DEF TypeOK
<1>m. \A label : label \notin {"handling"} \cup Carrying /\ Moves(t) /\ th'[t].pc = label
        => (At(t, "handling")' => At(t, "handling")) /\ (t \in Clients => Follows(t))
  BY DEF Follows, At
<1>1. CASE Insert(t)
  <2>1. Moves(t) /\ th'[t].pc # "handling"
    BY ZenonT(40), <1>t, <1>1, GotoFrame DEF Insert, AfterVictim, Moves
  <2> QED
    BY <1>1, <2>1, InsertOrder DEF InOrder, InHandling, Moves, At
<1>2. ASSUME NEW elapsed \in BOOLEAN, Decide(t, elapsed) PROVE OrderInv' /\ InOrder
  <2>1. Moves(t) /\ th'[t].pc \in {"rebuild", "remove"}
    BY <1>t, <1>2 DEF Decide, Moves, ThreadRecords
  <2>2. UNCHANGED <<mail, no, last, top, handle>>
    BY <1>2 DEF Decide, registry, outside, history
  <2> QED
    BY <1>m, <2>1, <2>2, IdlesOrder DEF Idles, InOrder, SameBoxes, Carrying
<1>3. ASSUME NEW v \in Actors, NEW starts \in BOOLEAN, Rebuild(t, v, starts) PROVE OrderInv' /\ InOrder
  <2>1. Moves(t) /\ th'[t].pc \in {"insert", "remove"}
    BY <1>t, <1>3 DEF Rebuild, Moves, ThreadRecords
  <2>2. UNCHANGED <<mail, no, last, top, handle>>
    BY <1>3 DEF Rebuild, registry, outside, history
  <2> QED
    BY <1>m, <2>1, <2>2, IdlesOrder DEF Idles, InOrder, SameBoxes, Carrying
<1>4. CASE Remove(t)
  <2>1. Moves(t) /\ th'[t].pc \in {"dispose", "unregister"}
    BY <1>t, <1>4 DEF Remove, Moves, ThreadRecords
  <2>2. UNCHANGED <<mail, no, last, top>> /\ SameBoxes
    BY <1>h, <1>4 DEF Remove, outside, history, SameBoxes, HandleRecords
  <2> QED
    BY <1>m, <2>1, <2>2, IdlesOrder DEF Idles, InOrder, Carrying
<1>5. CASE Dispose(t)
  <2>1. Moves(t) /\ th'[t].pc = "unregister"
    BY <1>t, <1>5, GotoFrame DEF Dispose, Moves
  <2>2. UNCHANGED <<mail, no, last, top>>
    BY <1>5 DEF Dispose, registry, outside
  <2>3. handle' = [handle EXCEPT ![<<th[t].tgt, th[t].aux>>].slot = 0]
    BY <1>5 DEF Dispose, OnStop
  <2>4. SameBoxes
    BY <1>h, <2>3 DEF SameBoxes, HandleRecords
  <2> QED
    BY <1>m, <2>1, <2>2, <2>4, IdlesOrder DEF Idles, InOrder, Carrying
<1>6. CASE Unregister(t) \/ AfterCrash(t)
  <2>1. Moves(t) /\ th'[t].pc \in {"after", "rebuild", "idle"}
    BY <1>t, <1>6, GotoFrame DEF Unregister, AfterCrash, AfterVictim, Moves
  <2>2. UNCHANGED <<mail, no, last, top, handle>>
    BY <1>6 DEF Unregister, AfterCrash, registry, outside, history
  <2> QED
    BY <1>m, <2>1, <2>2, IdlesOrder DEF Idles, InOrder, SameBoxes, Carrying
<1> QED
  BY <1>1, <1>2, <1>3, <1>4, <1>5, <1>6, NeverPoisoned DEF CrashStep

LEMMA ClientOrder ==
  ASSUME TypeOK, AccessInv, OrderInv, NEW c \in Clients, CallStep(c)
  PROVE  OrderInv' /\ InOrder
<1>c. c \in Threads /\ th[c] \in ThreadRecords /\ th \in [Threads -> ThreadRecords] /\ Moves(c)
  BY CallMoves DEF TypeOK, Threads
<1>h. handle \in [Handles -> HandleRecords] /\ \A k \in Handles : handle[k] \in HandleRecords
  BY DEF TypeOK
<1>g. ASSUME NEW label \in Labels \ {"idle", "handling"}, Goto(c, label)
      PROVE  th'[c].pc = label /\ th'[c].msg = th[c].msg /\ Own(c)' = Own(c)
  <2>1. th'[c] = [th[c] EXCEPT !.pc = label]
    BY <1>c, <1>g, GotoFrame
  <2> QED
    BY <1>c, <2>1 DEF ThreadRecords, Own
<1>i. Goto(c, "idle") => th'[c].pc = "idle"
  BY <1>c, GotoFrame
<1>1. CASE Push(c)
  <2>1. th'[c].pc \in {"idle", "notify"}
    BY <1>c, <1>1, GotoFrame DEF Push
  <2> QED
    BY <1>c, <1>1, <2>1, PushOrder DEF InOrder, InHandling, Moves, At
<1>2. CASE TryLock(c)
  BY <1>c, <1>2, TryLockOrder DEF InOrder, InHandling, Moves, At
<1>3. CASE Notify(c) \/ AskReturns(c) \/ Finish(c)
  <2>1. th'[c].pc \in {"idle", "await"}
    BY <1>i, <1>g, <1>3, LabelType DEF Notify, AskReturns, Finish
  <2>2. UNCHANGED <<mail, no, last, top>> /\ SameBoxes
    BY <1>h, <1>3 DEF Notify, AskReturns, Finish, Unlock, registry, outside, history, SameBoxes, HandleRecords
  <2> QED
    BY <1>c, <2>1, <2>2, IdlesOrder DEF Idles, InOrder, Follows, Carrying, At
<1>4. CASE Swap(c)
  <2>1. /\ th'[c].pc \in {"push", "check"} /\ th'[c].msg = th[c].msg /\ Own(c)' = Own(c)
        /\ th[c].pc = "swap"
    BY <1>g, <1>4, LabelType DEF Swap, At
  <2>2. UNCHANGED <<mail, no, last, top>> /\ SameBoxes
    BY <1>h, <1>4 DEF Swap, registry, outside, history, SameBoxes, HandleRecords
  <2> QED
    BY <1>c, <2>1, <2>2, IdlesOrder DEF Idles, InOrder, Follows, Carrying, At
<1>5. CASE CheckEmpty(c)
  <2>1. /\ th'[c].pc \in {"trylock", "giveup"} /\ th'[c].msg = th[c].msg /\ Own(c)' = Own(c)
        /\ th[c].pc = "check" /\ (th'[c].pc = "trylock" => mail[Mailbox(Own(c))] = <<>>)
    BY <1>g, <1>5, LabelType DEF CheckEmpty, At
  <2>2. UNCHANGED <<mail, no, last, top>> /\ SameBoxes
    BY <1>5 DEF CheckEmpty, registry, outside, history, SameBoxes
  <2> QED
    BY <1>c, <2>1, <2>2, IdlesOrder DEF Idles, InOrder, Follows, Carrying, At
<1>6. CASE GiveUp(c) \/ Fallback(c)
  <2>1. /\ th'[c].pc \in {"fallback", "push"} /\ th'[c].msg = th[c].msg /\ Own(c)' = Own(c)
        /\ th[c].pc \in {"giveup", "fallback"}
    BY <1>g, <1>6, LabelType DEF GiveUp, Fallback, At
  <2>2. UNCHANGED <<mail, no, last, top>> /\ SameBoxes
    BY <1>h, <1>6 DEF GiveUp, Fallback, Unlock, registry, outside, history, SameBoxes, HandleRecords
  <2> QED
    BY <1>c, <2>1, <2>2, IdlesOrder DEF Idles, InOrder, Follows, Carrying, At
<1>7. CASE FastReturns(c) \/ FastCrashes(c)
  <2>1. th'[c].pc \in {"finish", "decide"}
    BY <1>c, <1>7 DEF FastReturns, FastCrashes, ThreadRecords
  <2>2. UNCHANGED <<mail, no, last, top>> /\ SameBoxes
    BY <1>h, <1>7 DEF FastReturns, FastCrashes, registry, outside, history, SameBoxes, HandleRecords
  <2> QED
    BY <1>c, <2>1, <2>2, IdlesOrder DEF Idles, InOrder, Follows, Carrying, At
<1> QED
  BY <1>1, <1>2, <1>3, <1>4, <1>5, <1>6, <1>7 DEF CallStep

LEMMA UnmovedOrder ==
  ASSUME TypeOK, OrderInv, UNCHANGED <<th, mail, no, last, top>>, SameBoxes
  PROVE  OrderInv' /\ InOrder
<1>1. \A c \in Clients : Follows(c)
  BY DEF Follows, Own
<1> QED
  BY <1>1, SameOrder DEF InOrder, InHandling, At

LEMMA OtherOrder ==
  ASSUME TypeOK, OrderInv,
         \/ \E c \in Clients : ClientChoice(c)
         \/ \E t \in Threads : HandlerChoice(t)
         \/ StopAll \/ ShutdownStep \/ Rest \/ UNCHANGED vars
  PROVE  OrderInv' /\ InOrder
<1>h. handle \in [Handles -> HandleRecords] /\ \A k \in Handles : handle[k] \in HandleRecords
  BY DEF TypeOK
<1>1. ASSUME NEW c \in Clients, NEW a \in Actors, NEW tag \in {"send", "ask"}, Call(c, a, tag)
      PROVE  OrderInv' /\ InOrder
  <2>1. Moves(c) /\ th'[c].pc # "handling"
    <3>1. th \in [Threads -> ThreadRecords] /\ c \in Threads /\ th[c] \in ThreadRecords
      BY DEF TypeOK, Threads
    <3> QED
      BY <1>1, <3>1 DEF Call, Moves, ThreadRecords
  <2> QED
    BY <1>1, <2>1, CallOrder DEF InOrder, InHandling, Moves, At
<1>2. ASSUME NEW t \in Threads, NEW b \in Actors, Forward(t, b) PROVE OrderInv' /\ InOrder
  <2>1. th' = th
    BY <1>2 DEF Forward
  <2> QED
    BY <1>2, <2>1, ForwardOrder DEF InOrder, InHandling, At
<1>3. ASSUME NEW a \in Actors, RequestStop(a) \/ StopActor(a) PROVE OrderInv' /\ InOrder
  <2>1. UNCHANGED <<th, mail, no, last, top>>
    BY <1>3 DEF RequestStop, StopActor, registry, outside, history
  <2>2. SameBoxes
    <3>1. CASE RequestStop(a)
      BY <1>h, <3>1 DEF RequestStop, SameBoxes, HandleRecords
    <3>2. CASE StopActor(a)
      <4>1. handle' = [handle EXCEPT ![Cur(a)].slot = 0]
        BY <3>2 DEF StopActor, OnStop
      <4> QED
        BY <1>h, <4>1 DEF SameBoxes, HandleRecords
    <3> QED
      BY <1>3, <3>1, <3>2
  <2> QED
    BY <2>1, <2>2, UnmovedOrder
<1>4. CASE ClearRegistry
  <2>1. UNCHANGED <<th, mail, no, last, top>>
    BY <1>4 DEF ClearRegistry, history
  <2>2. SameBoxes
    BY <1>h, <1>4 DEF ClearRegistry, SameBoxes, HandleRecords
  <2> QED
    BY <2>1, <2>2, UnmovedOrder
<1>5. CASE StopAll \/ JoinWorkers \/ Rest \/ UNCHANGED vars
           \/ \E c \in Clients : \E a \in Actors : Resolve(c, a)
  <2>1. UNCHANGED <<th, mail, no, last, top, handle>>
    BY <1>5 DEF StopAll, JoinWorkers, Rest, vars, Resolve, registry, outside, history
  <2> QED
    BY <2>1, UnmovedOrder DEF SameBoxes
<1> QED
  BY <1>1, <1>2, <1>3, <1>4, <1>5, LocalsType DEF ClientChoice, HandlerChoice, ShutdownStep

LEMMA OrderStep ==
  Strategy = "OneForOne" /\ TypeOK /\ AccessInv /\ StateInv /\ MailInv /\ OrderInv /\ [Next]_vars
    => OrderInv' /\ InOrder
  BY WorkerOrder, CrashOrder, ClientOrder, OtherOrder DEF Next

LEMMA InitOrder == Init => OrderInv
<1> SUFFICES ASSUME Init PROVE OrderInv
  OBVIOUS
<1>1. \A t \in Threads : th[t].pc = "idle"
  BY DEF Init, IdleThread
<1>2. \A h \in Handles : mail[h] = <<>> /\ handle[h].box = h[2]
  BY DEF Init, NewHandle
<1>3. \A a \in Actors : <<a, top[a]>> \in Handles /\ Newest(a) \in Handles
  BY <1>2, BoundAssumption DEF Init, Newest, Mailbox, Handles, Gens
<1>4. \A h \in Handles : Sorted(mail[h]) /\ Range(mail[h]) = {}
  BY <1>2 DEF Sorted, Range
<1>5. \A a \in Actors : \A s \in Senders : last[a][s] <= no[s]
  BY DEF Init
<1>6. \A c \in Clients : Unsent(c)
  BY <1>1 DEF Unsent, Carrying, Threads
<1> QED
  BY <1>3, <1>4, <1>5, <1>6 DEF OrderInv

LEMMA OrderInvariant == Strategy = "OneForOne" => (Spec => []OrderInv)
<1> SUFFICES ASSUME Strategy = "OneForOne" PROVE Spec => []OrderInv
  OBVIOUS
<1>1. TypeOK /\ AccessInv /\ StateInv /\ MailInv /\ OrderInv /\ [Next]_vars => OrderInv'
  BY OrderStep
<1> QED
  BY <1>1, InitOrder, TypeCorrect, AccessInvariant, StateInvariant, MailInvariant, PTL DEF Spec

(* The messages of one sender to one actor are handled in the order they    *)
(* were sent and at most once, by workers and callers alike and across      *)
(* restarts.                                                                *)
THEOREM SenderOrderHolds == Strategy = "OneForOne" => (Spec => SenderOrder)
<1> SUFFICES ASSUME Strategy = "OneForOne" PROVE Spec => SenderOrder
  OBVIOUS
<1> DEFINE Ordered == \A t \in Threads :
             ~At(t, "handling") /\ th'[t].pc = "handling" =>
               th'[t].msg.no > last[th[t].act][th'[t].msg.from]
<1>1. TypeOK /\ AccessInv /\ StateInv /\ MailInv /\ OrderInv /\ [Next]_vars => Ordered
  BY OrderStep DEF InOrder, InHandling
<1>2. Ordered => [Ordered]_vars
  OBVIOUS
<1> QED
  BY <1>1, <1>2, TypeCorrect, AccessInvariant, StateInvariant, MailInvariant, OrderInvariant, PTL
  DEF Spec, SenderOrder

-----------------------------------------------------------------------------
(* Shutdown, with callers that only send.  A message they have numbered and *)
(* not yet announced is one of the sends the shutdown found under way.      *)
SendsOnly(c) ==
  /\ th[c].pc \in {"idle", "push", "notify"}
  /\ ~At(c, "idle") => th[c].tag = "send" /\ th[c].msg.from = c /\ th[c].msg.no = no[c]
  /\ ~At(c, "idle") /\ phase # "up" => no[c] > mark[c]

DrainInv ==
  /\ \A c \in Clients : SendsOnly(c)
  /\ phase = "up" => \A w \in Workers : ~At(w, "exited")
  /\ ShutdownDrains

LEMMA WorkerMoves ==
  ASSUME TypeOK, NEW w \in Workers, WorkerStep(w)
  PROVE  Moves(w) /\ UNCHANGED <<no, mark, phase>> /\ ~At(w, "exited")
<1>w. w \in Threads /\ th \in [Threads -> ThreadRecords] /\ th[w] \in ThreadRecords
  BY DEF TypeOK, Threads
<1>1. CASE ClaimFails(w) \/ ReturnGone(w) \/ TakePanics(w) \/ PopNone(w) \/ Return(w) \/ Requeue(w) \/ Exit(w)
  BY <1>w, <1>1, GotoFrame
  DEF ClaimFails, ReturnGone, TakePanics, PopNone, Return, Requeue, Exit, Moves, outside, history, At
<1>2. CASE TakeStopping(w) \/ ReturnCrashed(w) \/ PutBack(w) \/ Claim(w) \/ Take(w) \/ Pop(w)
           \/ HandlerContinues(w) \/ Settle(w)
  BY <1>w, <1>2
  DEF TakeStopping, ReturnCrashed, PutBack, Claim, Take, Pop, HandlerContinues, Settle, Moves,
      outside, history, At
<1>3. CASE (\E a \in Actors : Pick(w, a)) \/ \E tag \in {"stop", "crash"} : HandlerEnds(w, tag)
  BY <1>w, <1>3 DEF Pick, HandlerEnds, Moves, outside, history, At
<1> QED
  BY <1>1, <1>2, <1>3 DEF WorkerStep

LEMMA CrashMoves ==
  ASSUME TypeOK, NEW t \in Threads, CrashStep(t)
  PROVE  Moves(t) /\ UNCHANGED <<no, mark, phase>> /\ th[t].pc \notin {"idle", "push", "notify", "exited"}
<1>t. th \in [Threads -> ThreadRecords] /\ th[t] \in ThreadRecords
  BY DEF TypeOK
<1>1. CASE Insert(t) \/ Dispose(t) \/ Unregister(t) \/ AfterCrash(t) \/ PoisonSpreads(t)
  BY <1>t, <1>1, GotoFrame
  DEF Insert, Dispose, Unregister, AfterCrash, PoisonSpreads, Moves, outside, history, At
<1>2. CASE (\E elapsed \in BOOLEAN : Decide(t, elapsed)) \/ Remove(t)
           \/ \E v \in Actors : \E starts \in BOOLEAN : Rebuild(t, v, starts)
  BY <1>t, <1>2 DEF Decide, Remove, Rebuild, Moves, outside, history, At
<1> QED
  BY <1>1, <1>2 DEF CrashStep

(* What becomes of a caller that only sends. *)
LEMMA SenderStep ==
  ASSUME TypeOK, "ask" \notin Uses, NEW c \in Clients, SendsOnly(c), [Next]_vars
  PROVE  SendsOnly(c)'
<1>c. c \in Threads /\ c \notin Workers /\ c \notin Actors /\ th \in [Threads -> ThreadRecords]
      /\ th[c] \in ThreadRecords /\ c \in Senders /\ no \in [Senders -> Nat] /\ mark \in [Clients -> Nat]
  BY ThreadAssumption DEF TypeOK, Threads, Senders
<1>k. ASSUME th'[c] = th[c], no'[c] = no[c], mark' = mark, phase # "up" \/ phase' = "up"
      PROVE  SendsOnly(c)'
  BY <1>k DEF SendsOnly, At
<1>1. ASSUME NEW w \in Workers, WorkerStep(w) PROVE SendsOnly(c)'
  <2>1. Moves(w) /\ UNCHANGED <<no, mark, phase>>
    BY <1>1, WorkerMoves
  <2> QED
    BY <1>c, <1>k, <2>1 DEF Moves
<1>2. ASSUME NEW t \in Threads, CrashStep(t) PROVE SendsOnly(c)'
  <2>1. Moves(t) /\ UNCHANGED <<no, mark, phase>> /\ t # c
    BY <1>2, CrashMoves DEF SendsOnly
  <2> QED
    BY <1>c, <1>k, <2>1 DEF Moves
<1>3. ASSUME NEW d \in Clients, d # c, CallStep(d) \/ ClientChoice(d) PROVE SendsOnly(c)'
  <2>1. Moves(d) /\ mark' = mark /\ phase' = phase /\ no'[c] = no[c]
    BY <1>c, <1>3, CallMoves
    DEF CallStep, Push, Notify, AskReturns, Swap, CheckEmpty, TryLock, GiveUp, Fallback, FastReturns,
        FastCrashes, Finish, ClientChoice, Call, Resolve, RequestStop, Begin, outside, history
  <2> QED
    BY <1>c, <1>3, <1>k, <2>1 DEF Moves
<1>4. CASE CallStep(c)
  <2>1. Push(c) \/ Notify(c)
    BY <1>4 DEF CallStep, AskReturns, Swap, CheckEmpty, TryLock, GiveUp, Fallback, FastReturns,
                FastCrashes, Finish, SendsOnly, At
  <2>2. UNCHANGED <<no, mark, phase>>
    BY <2>1 DEF Push, Notify, outside, history
  <2>3. Goto(c, "idle") \/ Goto(c, "notify")
    BY <2>1 DEF Push, Notify, SendsOnly, At
  <2>4. CASE Goto(c, "idle")
    BY <1>c, <2>4, GotoFrame DEF SendsOnly, At
  <2>5. CASE Goto(c, "notify")
    <3>1. th'[c] = [th[c] EXCEPT !.pc = "notify"] /\ th[c].pc \in {"push", "notify"}
      BY <1>c, <2>1, <2>5, GotoFrame DEF Push, Notify, At
    <3>2. th'[c].pc = "notify" /\ th'[c].tag = th[c].tag /\ th'[c].msg = th[c].msg
      BY <1>c, <3>1 DEF ThreadRecords
    <3> QED
      BY <2>2, <3>1, <3>2 DEF SendsOnly, At
  <2> QED
    BY <2>3, <2>4, <2>5
<1>5. ASSUME NEW a \in Actors, NEW tag \in {"send", "ask"}, Call(c, a, tag) PROVE SendsOnly(c)'
  <2>1. tag = "send" /\ phase = "up" /\ phase' = "up"
    BY <1>5 DEF Call
  <2>2. th'[c].pc = "push" /\ th'[c].tag = "send" /\ th'[c].msg = Message(c) /\ no'[c] = no[c] + 1
    BY <1>5, <1>c, <2>1 DEF Call, ThreadRecords
  <2> QED
    BY <2>1, <2>2 DEF SendsOnly, Message, At
<1>6. ASSUME NEW a \in Actors, Resolve(c, a) \/ RequestStop(a) PROVE SendsOnly(c)'
  BY <1>k, <1>6 DEF Resolve, RequestStop, outside, history
<1>7. ASSUME NEW t \in Threads, NEW b \in Actors, Forward(t, b) PROVE SendsOnly(c)'
  <2>1. no' = [no EXCEPT ![th[t].act] = @ + 1] /\ th[t].act \in Actors
        /\ th' = th /\ phase' = phase /\ mark' = mark
    BY <1>7, LocalsType DEF Forward, history
  <2>2. no'[c] = no[c]
    BY <1>c, <2>1
  <2> QED
    BY <1>k, <2>1, <2>2
<1>8. CASE StopAll
  <2>1. th' = th /\ no' = no /\ mark'[c] = IF th[c].pc \in {"idle", "await"} THEN no[c] ELSE no[c] - 1
    BY <1>8 DEF StopAll
  <2>2. no[c] > no[c] - 1
    BY <1>c
  <2> QED
    BY <2>1, <2>2 DEF SendsOnly, At
<1>9. CASE ShutdownStep \/ Rest \/ UNCHANGED vars
  <2>1. th' = th /\ no' = no /\ mark' = mark /\ (phase # "up" \/ phase' = "up")
    BY <1>9 DEF ShutdownStep, JoinWorkers, StopActor, ClearRegistry, Rest, vars, outside, history
  <2> QED
    BY <1>k, <2>1
<1> QED
  BY <1>1, <1>2, <1>3, <1>4, <1>5, <1>6, <1>7, <1>8, <1>9, LocalsType
  DEF Next, ClientChoice, HandlerChoice

(* When the last worker leaves, mail is only what is still to be announced. *)
LEMMA LastExit ==
  ASSUME TypeOK', PendingInv, TypeOK, MailInv', NEW w \in Workers, Exit(w),
         \A v \in Workers : At(v, "exited")', \A c \in Clients : SendsOnly(c)'
  PROVE  ShutdownDrains'
<1>1. \A a \in Actors : ~(ready'[a] > 0)
  BY NothingQueued DEF Exit, scheduler
<1>2. \A t \in Threads : th'[t].pc \in {"exited", "idle", "push", "notify"}
  BY DEF Threads, SendsOnly, At
<1>3. \A a \in Actors : ~Awaited(a)'
  BY <1>1, <1>2 DEF Awaited, Looks, Claims, Removes, Inside, InsidePCs, At, Threads
<1>4. phase' # "up"
  BY DEF Exit, outside
<1>5. \A c \in Clients : At(c, "notify")' => th'[c].msg.from = c /\ th'[c].msg.no > mark'[c]
  BY <1>4 DEF SendsOnly, At
<1> SUFFICES ASSUME NEW a \in Actors, reg'[a] # 0
             PROVE  \A i \in 1..Len(mail'[Mailbox(Cur(a))']) :
                      LET m == mail'[Mailbox(Cur(a))'][i] IN m.from \in Clients /\ m.no > mark'[m.from]
  BY DEF ShutdownDrains
<1>6. \A i \in 1..Len(mail'[Mailbox(Cur(a))']) :
        \E c \in Clients : th'[c].pc = "notify" /\ th'[c].msg = mail'[Mailbox(Cur(a))'][i]
  BY <1>3 DEF MailInv, MailAwaited, Announced, At
<1> QED
  BY <1>5, <1>6 DEF At

(* After that only a send that was under way adds mail. *)
LEMMA AfterExit ==
  ASSUME TypeOK, TypeOK', AccessInv, DrainInv, [Next]_vars, \A w \in Workers : At(w, "exited")
  PROVE  ShutdownDrains'
<1>p. \A t \in Threads : th[t].pc \in {"exited", "idle", "push", "notify"}
  BY DEF DrainInv, SendsOnly, Threads, At
<1>u. phase # "up"
  BY ThreadAssumption DEF DrainInv
<1>c. \A c \in Clients : At(c, "push") => th[c].msg.from = c /\ th[c].msg.no > mark[c]
  BY <1>u DEF DrainInv, SendsOnly, At
<1>h. handle \in [Handles -> HandleRecords] /\ (\A k \in Handles : handle[k] \in HandleRecords)
      /\ mail \in [Handles -> Seq(Messages)]
  BY DEF TypeOK
<1>1. /\ mark' = mark /\ SameBoxes /\ Deregisters
      /\ \/ mail' = mail
         \/ \E c \in Clients : /\ At(c, "push")
                               /\ mail' = [mail EXCEPT ![Mailbox(Own(c))] = Append(@, th[c].msg)]
  <2>1. ASSUME NEW w \in Workers, WorkerStep(w) PROVE FALSE
    BY <2>1, WorkerMoves
  <2>2. ASSUME NEW t \in Threads, CrashStep(t) PROVE FALSE
    BY <1>p, <2>2, CrashMoves
  <2>3. ASSUME NEW c \in Clients, CallStep(c)
        PROVE  /\ mark' = mark /\ handle' = handle /\ reg' = reg
               /\ \/ mail' = mail
                  \/ At(c, "push") /\ mail' = [mail EXCEPT ![Mailbox(Own(c))] = Append(@, th[c].msg)]
    <3>1. Push(c) \/ Notify(c)
      BY <1>p, <2>3 DEF CallStep, AskReturns, Swap, CheckEmpty, TryLock, GiveUp, Fallback, FastReturns,
                        FastCrashes, Finish, Threads, At
    <3>2. CASE Push(c)
      BY <3>2 DEF Push, registry, history
    <3>3. CASE Notify(c)
      BY <3>3 DEF Notify, registry, history
    <3> QED
      BY <3>1, <3>2, <3>3
  <2>4. ASSUME NEW c \in Clients, NEW a \in Actors, Resolve(c, a) \/ RequestStop(a)
        PROVE  mark' = mark /\ SameBoxes /\ reg' = reg /\ mail' = mail
    BY SMTT(20), <1>h, <2>4 DEF Resolve, RequestStop, registry, history, SameBoxes, HandleRecords
  <2>5. ASSUME NEW t \in Threads, At(t, "handling") PROVE FALSE
    BY <1>p, <2>5 DEF At
  <2>6. ASSUME NEW a \in Actors, StopActor(a)
        PROVE  mark' = mark /\ SameBoxes /\ reg' = reg /\ mail' = mail
    <3>1. handle' = [handle EXCEPT ![Cur(a)].slot = 0]
      BY <2>6 DEF StopActor, OnStop
    <3> QED
      BY <1>h, <2>6, <3>1 DEF StopActor, registry, SameBoxes, HandleRecords
  <2>7. ClearRegistry => mark' = mark /\ SameBoxes /\ Deregisters /\ mail' = mail
    BY <1>h DEF ClearRegistry, history, SameBoxes, Deregisters, HandleRecords
  <2>8. JoinWorkers \/ Rest \/ UNCHANGED vars => mark' = mark /\ SameBoxes /\ Deregisters /\ mail' = mail
    BY DEF JoinWorkers, Rest, vars, registry, history, SameBoxes, Deregisters
  <2>9. ~StopAll
    BY <1>u DEF StopAll
  <2>10. ASSUME NEW c \in Clients, NEW a \in Actors, NEW tag \in {"send", "ask"}, Call(c, a, tag) PROVE FALSE
    BY <1>u, <2>10 DEF Call
  <2> DEFINE Goal ==
        /\ mark' = mark /\ SameBoxes /\ Deregisters
        /\ \/ mail' = mail
           \/ \E c \in Clients : /\ At(c, "push")
                                 /\ mail' = [mail EXCEPT ![Mailbox(Own(c))] = Append(@, th[c].msg)]
  <2>11. ASSUME NEW c \in Clients, CallStep(c) PROVE Goal
    BY <2>3, <2>11 DEF SameBoxes, Deregisters
  <2>12. ASSUME mark' = mark, SameBoxes, reg' = reg, mail' = mail PROVE Goal
    BY <2>12 DEF Deregisters
  <2> HIDE DEF Goal
  <2>13. ASSUME NEW c \in Clients, ClientChoice(c) PROVE Goal
    BY <2>4, <2>10, <2>12, <2>13 DEF ClientChoice
  <2>14. ASSUME NEW t \in Threads, HandlerChoice(t) PROVE Goal
    BY <2>5, <2>14 DEF HandlerChoice, Forward
  <2>15. ASSUME ClearRegistry PROVE Goal
    BY <2>7, <2>15 DEF Goal
  <2>16. ASSUME JoinWorkers \/ Rest \/ UNCHANGED vars PROVE Goal
    BY <2>8, <2>16 DEF Goal
  <2>17. ASSUME ShutdownStep PROVE Goal
    <3>1. ASSUME NEW a \in Actors, StopActor(a) PROVE Goal
      BY <2>6, <2>12, <3>1
    <3> QED
      BY <2>15, <2>16, <2>17, <3>1 DEF ShutdownStep
  <2>18. Goal
    <3>1. ASSUME Next PROVE Goal
      BY <2>1, <2>2, <2>9, <2>11, <2>13, <2>14, <2>16, <2>17, <3>1 DEF Next
    <3> QED
      BY <2>16, <3>1
  <2> QED
    BY <2>18 DEF Goal
<1> SUFFICES ASSUME NEW a \in Actors, reg'[a] # 0
             PROVE  \A i \in 1..Len(mail'[Mailbox(Cur(a))']) :
                      LET m == mail'[Mailbox(Cur(a))'][i] IN m.from \in Clients /\ m.no > mark'[m.from]
  BY DEF ShutdownDrains
<1>2. PICK box \in Handles : box = Mailbox(Cur(a)) /\ box = Mailbox(Cur(a))' /\ reg[a] # 0
  BY <1>1, SameMailbox
<1>3. \A i \in 1..Len(mail[box]) : mail[box][i].from \in Clients /\ mail[box][i].no > mark[mail[box][i].from]
  BY <1>2 DEF DrainInv, ShutdownDrains
<1> SUFFICES ASSUME NEW i \in 1..Len(mail'[box])
             PROVE  mail'[box][i].from \in Clients /\ mail'[box][i].no > mark[mail'[box][i].from]
  BY <1>1, <1>2
<1>4. CASE mail'[box] = mail[box]
  BY <1>3, <1>4
<1>5. ASSUME NEW c \in Clients, At(c, "push"), mail'[box] = Append(mail[box], th[c].msg)
      PROVE  mail'[box][i].from \in Clients /\ mail'[box][i].no > mark[mail'[box][i].from]
  <2>1. mail[box] \in Seq(Messages)
    BY <1>h
  <2>2. CASE i = Len(mail[box]) + 1
    BY <1>c, <1>5, <2>1, <2>2
  <2>3. CASE i # Len(mail[box]) + 1
    <3>1. i \in 1..Len(mail[box]) /\ mail'[box][i] = mail[box][i]
      BY <1>5, <2>1, <2>3
    <3> QED
      BY <1>3, <3>1
  <2> QED
    BY <2>2, <2>3
<1> QED
  <2>1. \/ mail'[box] = mail[box]
        \/ \E c \in Clients : At(c, "push") /\ mail'[box] = Append(mail[box], th[c].msg)
    BY <1>1, <1>h
  <2> QED
    BY <1>4, <1>5, <2>1

LEMMA DrainStep ==
  ASSUME "ask" \notin Uses, TypeOK, TypeOK', AccessInv, PendingInv, MailInv', DrainInv, [Next]_vars
  PROVE  DrainInv'
<1>1. \A c \in Clients : SendsOnly(c)'
  BY SenderStep DEF DrainInv
<1>2. ASSUME phase' = "up", NEW w \in Workers, At(w, "exited")' PROVE FALSE
  <2>1. phase' # "stopping" /\ (Exit(w) => phase' = phase /\ phase = "stopping")
    BY <1>2 DEF Exit, outside
  <2>2. At(w, "exited")
    BY <1>2, <2>1, OnlyExit DEF At
  <2>3. phase # "up"
    BY <2>2 DEF DrainInv
  <2>4. phase' # "up"
    <3>1. \A v \in Workers : WorkerStep(v) => phase' = phase
      BY WorkerMoves
    <3>2. \A t \in Threads : CrashStep(t) => phase' = phase
      BY CrashMoves
    <3>3. \A c \in Clients : CallStep(c) => phase' = phase
      BY DEF CallStep, Push, Notify, AskReturns, Swap, CheckEmpty, TryLock, GiveUp, Fallback,
             FastReturns, FastCrashes, Finish, outside
    <3>4. \A c \in Clients : ClientChoice(c) => phase' = phase
      BY DEF ClientChoice, Call, Resolve, RequestStop, outside
    <3>6. \A t \in Threads : HandlerChoice(t) => phase' = phase
      BY DEF HandlerChoice, Forward, RequestStop, outside
    <3>7. Rest \/ UNCHANGED vars => phase' = phase
      BY DEF Rest, vars, outside
    <3>5. StopAll \/ ShutdownStep => phase' # "up"
      BY <2>3 DEF StopAll, ShutdownStep, JoinWorkers, StopActor, ClearRegistry, outside
    <3> QED
      BY <2>3, <3>1, <3>2, <3>3, <3>4, <3>5, <3>6, <3>7 DEF Next
  <2> QED
    BY <1>2, <2>4
<1>3. ShutdownDrains'
  <2>1. CASE \A w \in Workers : At(w, "exited")
    BY <2>1, AfterExit
  <2>2. ASSUME NEW w \in Workers, ~At(w, "exited"), \A v \in Workers : At(v, "exited")'
        PROVE  ShutdownDrains'
    <3>1. Exit(w)
      BY <2>2, OnlyExit DEF At
    <3> QED
      BY <1>1, <2>2, <3>1, LastExit
  <2>3. CASE ~\A v \in Workers : At(v, "exited")'
    BY <2>3 DEF ShutdownDrains
  <2> QED
    BY <2>1, <2>2, <2>3
<1> QED
  BY <1>1, <1>2, <1>3 DEF DrainInv

LEMMA InitDrain == Init => DrainInv
<1> SUFFICES ASSUME Init PROVE DrainInv
  OBVIOUS
<1>1. \A t \in Threads : th[t].pc = "idle"
  BY DEF Init, IdleThread
<1>2. \A c \in Clients : SendsOnly(c)
  BY <1>1 DEF SendsOnly, Threads, At
<1>3. \A w \in Workers : ~At(w, "exited")
  BY <1>1 DEF Threads, At
<1> QED
  BY <1>2, <1>3, ThreadAssumption DEF DrainInv, ShutdownDrains

(* Shutdown drains when callers only send: what is left for a live actor    *)
(* was still under way when shutdown began.  With an ask under way it may   *)
(* not, as the run ask_during_shutdown shows.                               *)
THEOREM ShutdownDrainsHolds ==
  Strategy = "OneForOne" /\ "ask" \notin Uses => (Spec => []ShutdownDrains)
<1> SUFFICES ASSUME Strategy = "OneForOne", "ask" \notin Uses PROVE Spec => []ShutdownDrains
  OBVIOUS
<1>1. TypeOK /\ TypeOK' /\ AccessInv /\ PendingInv /\ MailInv' /\ DrainInv /\ [Next]_vars => DrainInv'
  BY DrainStep
<1>2. DrainInv => ShutdownDrains
  BY DEF DrainInv
<1> QED
  BY <1>1, <1>2, InitDrain, TypeCorrect, AccessInvariant, PendingInvariant, MailInvariant, PTL DEF Spec
=============================================================================
