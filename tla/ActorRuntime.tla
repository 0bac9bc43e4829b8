---------------------------- MODULE ActorRuntime ----------------------------
(***************************************************************************)
(* The actor runtime of crates/rlyeh-actor-runtime: the registry of actor  *)
(* handles, the workers' process_actor, the synchronous ask fast path run  *)
(* by the caller's own thread, crash handling and restart, stop requests   *)
(* and shutdown.                                                           *)
(*                                                                         *)
(* A handle <<a, g>> is the g-th ActorHandle made for actor a: a restart   *)
(* inserts a new handle under the old id, while an ActorRef keeps the      *)
(* handle it was created with.  A state object is named by the generation  *)
(* it was built for (0: None), a mailbox by the generation that allocated  *)
(* it, since restart_actor hands the old mailbox to the new handle.        *)
(*                                                                         *)
(* The ready queues are abstracted to the number of entries per actor      *)
(* (ready); which entry a worker finds first is left open.                 *)
(***************************************************************************)
EXTENDS Integers, Sequences, FiniteSets, Functions

CONSTANTS
  Actors,       (* actor ids, all spawned before the clients get going      *)
  Workers,      (* worker threads of the scheduler                          *)
  Clients,      (* other threads that hold ActorRefs                        *)
  NoThread,     (* "the state mutex is free"                                *)
  Strategy,     (* restart strategy of the supervised actors                *)
  Rank,         (* position of an actor in its group's children list        *)
  MaxRestarts,  (* SupervisorStrategy::max_restarts                         *)
  Capacity,     (* MAILBOX_CAPACITY                                         *)
  Uses,         (* which operations the clients and handlers perform        *)
  MaxGen,       (* bound: handles ever made for one actor                   *)
  MaxOps,       (* bound: messages the clients send or ask                  *)
  MaxSends      (* bound: messages one actor's handlers send                *)

Strategies == {"OneForOne", "AllForOne", "RestartForOne"}
Operations ==
  {"send", "ask", "stop", "resolve", "finish", "crash", "initfails", "forward",
   "shutdown"}

(* Scheduler::new makes at least one worker. *)
ASSUME ThreadAssumption ==
  /\ Actors # {} /\ Workers # {}
  /\ Workers \cap Clients = {}
  /\ NoThread \notin Workers \cup Clients
  /\ Actors \cap Clients = {}

ASSUME BoundAssumption ==
  /\ MaxGen \in Nat \ {0}
  /\ {MaxOps, MaxSends, MaxRestarts, Capacity} \subseteq Nat

ASSUME GroupAssumption ==
  /\ Strategy \in Strategies
  /\ Rank \in [Actors -> Nat]
  /\ Uses \subseteq Operations

VARIABLES
  reg,      (* DashMap actors: generation registered for an id, 0 if none   *)
  top,      (* newest generation made for an id                             *)
  handle,   (* ActorHandle fields                                           *)
  mail,     (* ArrayQueue mailboxes, named <<a, allocating generation>>     *)
  callback, (* the actors whose state is a CallbackActor                    *)
  sup,      (* Supervisor::strategies: the ids with a strategy              *)
  crashes,  (* Supervisor::restart_counts                                   *)
  ready,    (* entries of an actor in the ready queues                      *)
  pending,  (* Scheduler::pending                                           *)
  th,       (* each thread's program counter and locals                     *)
  ref,      (* the generation held by a client's ActorRef                   *)
  no,       (* messages numbered so far by each sender                      *)
  phase,    (* progress of Runtime::shutdown                                *)
  last,     (* history: newest number of a sender whose handling began      *)
  dead,     (* history: states that crashed or were stopped                 *)
  mark      (* history: a client's completed sends when shutdown began      *)

registry == <<reg, top>>
supervisor == <<sup, crashes>>
scheduler == <<ready, pending>>
outside == <<callback, ref, no, phase>>
history == <<last, dead, mark>>
vars == <<registry, handle, mail, supervisor, scheduler, th, outside, history>>

Threads == Workers \cup Clients
Senders == Clients \cup Actors
Gens == 1..MaxGen
Handles == Actors \X Gens
Messages == [from : Senders, no : Nat]
NoMessage == [from |-> NoThread, no |-> 0]

WorkerPCs == {"idle", "claim", "take", "pop", "handling", "settle", "return",
              "putback", "requeue", "exited", "panicked"}
ClientPCs == {"idle", "swap", "check", "trylock", "handling", "giveup",
              "fallback", "finish", "push", "notify", "await"}
CrashPCs == {"decide", "rebuild", "insert", "remove", "dispose", "unregister",
             "after", "aborted"}
Tags == {"none", "stop", "stopReq", "crash", "send", "ask"}

Labels == WorkerPCs \cup ClientPCs \cup CrashPCs

ThreadRecords ==
  [pc   : Labels,
   act  : Actors,                (* actor being processed                   *)
   gen  : Gens,                  (* generation of the handle in hand        *)
   inc  : 0..MaxGen,             (* state object in use, 0 for none         *)
   msg  : Messages \cup {NoMessage},
   tag  : Tags,                  (* verdict of a batch, or a client's call  *)
   tgt  : Actors,                (* actor being removed or rebuilt          *)
   aux  : 0..MaxGen,             (* handle removed, or mailbox to reuse     *)
   todo : SUBSET Actors]         (* victims still to restart                *)

HandleRecords ==
  [running : BOOLEAN, status : {"Idle", "Processing", "Stopping", "Stopped"},
   stopReq : BOOLEAN, slot : 0..MaxGen, box : Gens,
   lock : Threads \cup {NoThread}]

TypeOK ==
  /\ reg \in [Actors -> 0..MaxGen]
  /\ top \in [Actors -> Gens]
  /\ handle \in [Handles -> HandleRecords]
  /\ mail \in [Handles -> Seq(Messages)]
  /\ \A h \in Handles : Len(mail[h]) <= Capacity
  /\ callback \in SUBSET Actors
  /\ sup \in SUBSET Actors
  /\ crashes \in [Actors -> Nat]
  /\ ready \in [Actors -> Nat]
  /\ pending \in Int
  /\ th \in [Threads -> ThreadRecords]
  /\ ref \in [Clients -> [Actors -> Gens]]
  /\ no \in [Senders -> Nat]
  /\ phase \in {"up", "stopping", "cleanup", "down"}
  /\ last \in [Actors -> [Senders -> Nat]]
  /\ dead \in SUBSET (Actors \X (0..MaxGen))
  /\ mark \in [Clients -> Nat]

-----------------------------------------------------------------------------
(* ActorHandle::new; the generation-g state object is named g. *)
NewHandle(g, b) ==
  [running |-> FALSE, status |-> "Idle", stopReq |-> FALSE, slot |-> g,
   box |-> b, lock |-> NoThread]

(* a thread outside the runtime, its locals out of scope *)
IdleThread ==
  LET a == CHOOSE a \in Actors : TRUE
  IN [pc |-> "idle", act |-> a, gen |-> 1, inc |-> 0, msg |-> NoMessage,
      tag |-> "none", tgt |-> a, aux |-> 0, todo |-> {}]

(* A group is made by Runtime::spawn_group of the crate's users, who cannot *)
(* make a CallbackActor.                                                    *)
Init ==
  /\ reg = [a \in Actors |-> 1]
  /\ top = [a \in Actors |-> 1]
  /\ handle = [h \in Handles |-> NewHandle(h[2], h[2])]
  /\ mail = [h \in Handles |-> <<>>]
  /\ callback \in IF Strategy = "OneForOne" THEN SUBSET Actors ELSE {{}}
  /\ sup \in IF Strategy = "OneForOne" THEN SUBSET Actors ELSE {Actors}
  /\ crashes = [a \in Actors |-> 0]
  /\ ready = [a \in Actors |-> 0]
  /\ pending = 0
  /\ th = [t \in Threads |-> IdleThread]
  /\ ref = [c \in Clients |-> [a \in Actors |-> 1]]
  /\ no = [s \in Senders |-> 0]
  /\ phase = "up"
  /\ last = [a \in Actors |-> [s \in Senders |-> 0]]
  /\ dead = {}
  /\ mark = [c \in Clients |-> 0]

Cur(a) == <<a, reg[a]>>
Own(t) == <<th[t].act, th[t].gen>>
Mailbox(h) == <<h[1], handle[h].box>>
At(t, label) == th[t].pc = label
Goto(t, label) ==
  th' = [th EXCEPT ![t] = IF label = "idle" THEN IdleThread
                          ELSE [@ EXCEPT !.pc = label]]
StopRequested(a) == reg[a] # 0 /\ handle[Cur(a)].stopReq

(* process_actor holds the write guard of the id's DashMap shard from its   *)
(* get_mut to the end of phase 1, and again while it puts the state back:   *)
(* no registry access for the id falls in between.                          *)
GuardFree(a) ==
  \A w \in Workers : th[w].act = a => th[w].pc \notin {"take", "putback"}

(* Scheduler::notify_ready, or pending_add with push_local *)
Enqueue(a) ==
  /\ pending' = pending + 1
  /\ ready' = [ready EXCEPT ![a] = @ + 1]

PendingSub ==
  /\ pending' = pending - 1
  /\ UNCHANGED ready

-----------------------------------------------------------------------------
(* RuntimeHandle::process_actor, run by worker w for one entry of actor a *)

(* Scheduler::worker_loop: an entry from the local queue, the global queue *)
(* or another worker's queue.                                              *)
Pick(w, a) ==
  /\ At(w, "idle") /\ ready[a] > 0
  /\ ready' = [ready EXCEPT ![a] = @ - 1]
  /\ th' = [th EXCEPT ![w].pc = "claim", ![w].act = a]
  /\ UNCHANGED <<registry, handle, mail, supervisor, pending, outside, history>>

(* mutant: an entry dropped without being counted out *)
ClaimFailsUncounted(w) ==
  LET a == th[w].act
  IN /\ At(w, "claim") /\ GuardFree(a)
     /\ reg[a] # 0 => handle[Cur(a)].running
     /\ Goto(w, "idle")
     /\ UNCHANGED <<registry, handle, mail, supervisor, scheduler, outside, history>>

(* mutant: the result of running.swap(true) is not looked at *)
ClaimUnchecked(w) ==
  LET a == th[w].act
  IN /\ At(w, "claim") /\ GuardFree(a) /\ reg[a] # 0
     /\ handle' = [handle EXCEPT ![Cur(a)].running = TRUE]
     /\ th' = [th EXCEPT ![w].pc = "take", ![w].gen = reg[a]]
     /\ UNCHANGED <<registry, mail, supervisor, scheduler, outside, history>>

(* The actor is gone, or another thread is inside it: the entry is dropped. *)
ClaimFails(w) ==
  LET a == th[w].act
  IN /\ At(w, "claim") /\ GuardFree(a)
     /\ reg[a] # 0 => handle[Cur(a)].running
     /\ PendingSub
     /\ Goto(w, "idle")
     /\ UNCHANGED <<registry, handle, mail, supervisor, outside, history>>

(* mutant: the stopping actor is left in the registry *)
TakeStoppingKeeps(w) ==
  /\ At(w, "take") /\ handle[Own(w)].stopReq
  /\ handle' = [handle EXCEPT ![Own(w)].running = FALSE]
  /\ PendingSub
  /\ Goto(w, "idle")
  /\ UNCHANGED <<registry, mail, supervisor, outside, history>>

Claim(w) ==
  LET a == th[w].act
  IN /\ At(w, "claim") /\ GuardFree(a)
     /\ reg[a] # 0 /\ ~handle[Cur(a)].running
     /\ handle' = [handle EXCEPT ![Cur(a)].running = TRUE]
     /\ th' = [th EXCEPT ![w].pc = "take", ![w].gen = reg[a]]
     /\ UNCHANGED <<registry, mail, supervisor, scheduler, outside, history>>

TakeStopping(w) ==
  /\ At(w, "take") /\ handle[Own(w)].stopReq
  /\ handle' = [handle EXCEPT ![Own(w)].running = FALSE]
  /\ PendingSub
  /\ th' = [th EXCEPT ![w].pc = "remove", ![w].tgt = th[w].act]
  /\ UNCHANGED <<registry, mail, supervisor, outside, history>>

(* The state moves from the handle into the worker's hands; the write guard *)
(* is released with this step.                                              *)
Take(w) ==
  LET h == Own(w)
  IN /\ At(w, "take") /\ ~handle[h].stopReq
     /\ handle[h].lock = NoThread /\ handle[h].slot # 0
     /\ handle' = [handle EXCEPT ![h].status = "Processing", ![h].slot = 0]
     /\ th' = [th EXCEPT ![w].pc = "pop", ![w].inc = handle[h].slot]
     /\ UNCHANGED <<registry, mail, supervisor, scheduler, outside, history>>

(* a worker that panicked with the guard in hand left the mutex poisoned *)
Poisoned(h) == handle[h].lock \in Workers

(* lock().unwrap() or expect("actor state present") fails: the worker thread *)
(* dies with running still set, its batch still counted, the mutex poisoned. *)
TakePanics(w) ==
  LET h == Own(w)
  IN /\ At(w, "take") /\ ~handle[h].stopReq
     /\ Poisoned(h) \/ (handle[h].lock = NoThread /\ handle[h].slot = 0)
     /\ handle' = [handle EXCEPT ![h].status = "Processing", ![h].lock = w]
     /\ Goto(w, "panicked")
     /\ UNCHANGED <<registry, mail, supervisor, scheduler, outside, history>>

Begin(a, m) == last' = [last EXCEPT ![a][m.from] = m.no]

Pop(w) ==
  LET box == Mailbox(Own(w))
  IN /\ At(w, "pop") /\ mail[box] # <<>>
     /\ mail' = [mail EXCEPT ![box] = Tail(@)]
     /\ th' = [th EXCEPT ![w].pc = "handling", ![w].msg = Head(mail[box])]
     /\ Begin(th[w].act, Head(mail[box]))
     /\ UNCHANGED <<registry, handle, supervisor, scheduler, outside, dead,
                    mark>>

PopNone(w) ==
  /\ At(w, "pop") /\ mail[Mailbox(Own(w))] = <<>>
  /\ Goto(w, "settle")
  /\ UNCHANGED <<registry, handle, mail, supervisor, scheduler, outside,
                 history>>

(* Ok(false), then stop_requested_now on the handle registered by now *)
HandlerContinues(w) ==
  LET a == th[w].act
  IN /\ w \in Workers /\ At(w, "handling") /\ GuardFree(a)
     /\ th' = IF StopRequested(a)
              THEN [th EXCEPT ![w].pc = "settle", ![w].tag = "stop"]
              ELSE [th EXCEPT ![w].pc = "pop", ![w].msg = NoMessage]
     /\ UNCHANGED <<registry, handle, mail, supervisor, scheduler, outside,
                    history>>

(* The bound on generations: with every crash being handled, one more would *)
(* still find room for its restart; or it is sure not to be restarted.      *)
Room(more) ==
  \A b \in Actors :
    top[b] + Cardinality({t \in Threads : th[t].tag = "crash"}) + more <= MaxGen

MayCrash(a) ==
  /\ "crash" \in Uses
  /\ a \notin sup \/ crashes[a] >= MaxRestarts \/ Room(1)

(* Ok(true), which a CallbackActor never returns, or Err *)
HandlerEnds(w, tag) ==
  /\ w \in Workers /\ At(w, "handling")
  /\ \/ tag = "stop" /\ "finish" \in Uses /\ th[w].act \notin callback
     \/ tag = "crash" /\ MayCrash(th[w].act)
  /\ th' = [th EXCEPT ![w].pc = "settle", ![w].tag = tag]
  /\ UNCHANGED <<registry, handle, mail, supervisor, scheduler, outside,
                 history>>

(* the second read of stop_requested, after the batch *)
Settle(w) ==
  /\ At(w, "settle") /\ GuardFree(th[w].act)
  /\ th' = [th EXCEPT ![w].pc = "return",
                      ![w].msg = NoMessage,
                      ![w].tag = IF @ = "none" /\ StopRequested(th[w].act)
                                 THEN "stopReq" ELSE @]
  /\ UNCHANGED <<registry, handle, mail, supervisor, scheduler, outside,
                 history>>

Retired(t) == <<th[t].act, th[t].inc>>

(* phase 3, the actor was removed meanwhile: on_stop on the state in hand *)
ReturnGone(w) ==
  /\ At(w, "return") /\ GuardFree(th[w].act) /\ reg[th[w].act] = 0
  /\ PendingSub
  /\ dead' = dead \cup {Retired(w)}
  /\ Goto(w, "idle")
  /\ UNCHANGED <<registry, handle, mail, supervisor, outside, last, mark>>

(* mutant: the crashed actor is released with its state before the restart *)
ReturnCrashedReleases(w) ==
  LET a == th[w].act
  IN /\ At(w, "return") /\ GuardFree(a) /\ reg[a] # 0 /\ th[w].tag = "crash"
     /\ handle[Cur(a)].lock = NoThread
     /\ handle' = [handle EXCEPT ![Cur(a)].slot = th[w].inc,
                                 ![Cur(a)].running = FALSE]
     /\ PendingSub
     /\ dead' = dead \cup {Retired(w)}
     /\ th' = [th EXCEPT ![w].pc = "decide", ![w].inc = 0]
     /\ UNCHANGED <<registry, mail, supervisor, outside, last, mark>>

(* mutant: the crashed actor is released, without a state, before the restart *)
ReturnCrashedEmpty(w) ==
  LET a == th[w].act
  IN /\ At(w, "return") /\ GuardFree(a) /\ reg[a] # 0 /\ th[w].tag = "crash"
     /\ handle[Cur(a)].lock = NoThread
     /\ handle' = [handle EXCEPT ![Cur(a)].slot = 0, ![Cur(a)].running = FALSE]
     /\ PendingSub
     /\ dead' = dead \cup {Retired(w)}
     /\ th' = [th EXCEPT ![w].pc = "decide", ![w].inc = 0]
     /\ UNCHANGED <<registry, mail, supervisor, outside, last, mark>>

(* phase 3 after a crash: the state is dropped and running stays set *)
ReturnCrashed(w) ==
  LET a == th[w].act
  IN /\ At(w, "return") /\ GuardFree(a) /\ reg[a] # 0 /\ th[w].tag = "crash"
     /\ handle[Cur(a)].lock = NoThread
     /\ handle' = [handle EXCEPT ![Cur(a)].slot = 0]
     /\ PendingSub
     /\ dead' = dead \cup {Retired(w)}
     /\ th' = [th EXCEPT ![w].pc = "decide", ![w].inc = 0]
     /\ UNCHANGED <<registry, mail, supervisor, outside, last, mark>>

(* phase 3: running is cleared first, under the write guard ... *)
Return(w) ==
  LET a == th[w].act
  IN /\ At(w, "return") /\ GuardFree(a) /\ reg[a] # 0 /\ th[w].tag # "crash"
     /\ handle' = [handle EXCEPT ![Cur(a)].running = FALSE]
     /\ Goto(w, "putback")
     /\ UNCHANGED <<registry, mail, supervisor, scheduler, outside, history>>

(* ... then the state goes back, to the handle registered by now. *)
PutBack(w) ==
  LET h == Cur(th[w].act)
      stops == th[w].tag \in {"stop", "stopReq"}
  IN /\ At(w, "putback") /\ handle[h].lock = NoThread
     /\ handle' = [handle EXCEPT ![h].slot = th[w].inc,
                     ![h].status = IF th[w].tag = "stop" THEN "Stopping" ELSE @]
     /\ PendingSub
     /\ th' = [th EXCEPT ![w].inc = 0, ![w].tgt = th[w].act,
                         ![w].pc = IF stops THEN "remove" ELSE "requeue"]
     /\ UNCHANGED <<registry, mail, supervisor, outside, history>>

Requeue(w) ==
  /\ At(w, "requeue")
  /\ IF mail[Mailbox(Own(w))] # <<>>
     THEN Enqueue(th[w].act) ELSE UNCHANGED scheduler
  /\ Goto(w, "idle")
  /\ UNCHANGED <<registry, handle, mail, supervisor, outside, history>>

(* mutant: a worker leaves as soon as stop is set *)
ExitUncounted(w) ==
  /\ At(w, "idle") /\ w \in Workers
  /\ phase = "stopping"
  /\ Goto(w, "exited")
  /\ UNCHANGED <<registry, handle, mail, supervisor, scheduler, outside, history>>

(* Scheduler::worker_loop: nothing found, stop set and pending read as 0 *)
Exit(w) ==
  /\ At(w, "idle") /\ w \in Workers
  /\ phase = "stopping" /\ pending = 0
  /\ Goto(w, "exited")
  /\ UNCHANGED <<registry, handle, mail, supervisor, scheduler, outside,
                 history>>

-----------------------------------------------------------------------------
(* handle_crash and restart_actor, run by a worker or a fast-path caller t *)

(* Supervisor::handle_crash: the group members a restart replaces *)
Victims(a) ==
  CASE Strategy = "OneForOne"     -> {a}
    [] Strategy = "AllForOne"     -> Actors
    [] Strategy = "RestartForOne" -> {b \in Actors : Rank[b] >= Rank[a]}

(* Supervisor::handle_crash: no strategy, or the limit passed: Escalate, and *)
(* the actor is removed.  The counter goes up, or starts again at 1 when the *)
(* window has elapsed.                                                       *)
Decide(t, elapsed) ==
  LET a == th[t].act
      count == IF elapsed THEN 1 ELSE crashes[a] + 1
  IN /\ At(t, "decide") /\ (elapsed => Room(0))
     /\ IF a \in sup
        THEN crashes' = [crashes EXCEPT ![a] = count]
        ELSE UNCHANGED crashes
     /\ th' = IF a \in sup /\ count <= MaxRestarts
              THEN [th EXCEPT ![t].pc = "rebuild", ![t].todo = Victims(a)]
              ELSE [th EXCEPT ![t].pc = "remove", ![t].tgt = a, ![t].todo = {}]
     /\ UNCHANGED <<registry, handle, mail, sup, scheduler, outside, history>>

(* the victims are restarted in the order of the children list *)
IsNext(v, todo) == v \in todo /\ \A u \in todo : Rank[v] <= Rank[u]

AfterVictim(todo) == IF todo = {} THEN "after" ELSE "rebuild"

(* factory_for, the mailbox to reuse, factory() and init(), which may fail  *)
(* but for a CallbackActor                                                  *)
Rebuild(t, v, starts) ==
  /\ At(t, "rebuild") /\ IsNext(v, th[t].todo) /\ GuardFree(v)
  /\ starts \/ ("initfails" \in Uses /\ v \notin callback)
  /\ th' = [th EXCEPT ![t].tgt = v, ![t].todo = @ \ {v},
              ![t].pc = IF v \in sup /\ starts THEN "insert" ELSE "remove",
              ![t].aux = IF reg[v] = 0 THEN 0 ELSE handle[Cur(v)].box]
  /\ UNCHANGED <<registry, handle, mail, supervisor, scheduler, outside,
                 history>>

(* The new handle replaces whatever is registered by now. *)
Insert(t) ==
  LET v == th[t].tgt
      g == top[v] + 1
  IN /\ At(t, "insert") /\ GuardFree(v) /\ top[v] < MaxGen
     /\ reg' = [reg EXCEPT ![v] = g]
     /\ top' = [top EXCEPT ![v] = g]
     /\ handle' = [handle EXCEPT ![<<v, g>>] =
                     NewHandle(g, IF th[t].aux = 0 THEN g ELSE th[t].aux)]
     /\ Goto(t, AfterVictim(th[t].todo))
     /\ UNCHANGED <<mail, supervisor, scheduler, outside, history>>

(* mutant: on_stop runs on the state in place instead of taking it *)
OnStopInPlace(h) ==
  /\ dead' = dead \cup ({<<h[1], handle[h].slot>>} \cap (Actors \X Gens))
  /\ UNCHANGED handle

(* remove_actor: out of the registry ... *)
Remove(t) ==
  LET v == th[t].tgt
  IN /\ At(t, "remove") /\ GuardFree(v)
     /\ reg' = [reg EXCEPT ![v] = 0]
     /\ handle' = IF reg[v] = 0 THEN handle
                  ELSE [handle EXCEPT ![Cur(v)].status = "Stopped"]
     /\ th' = [th EXCEPT ![t].aux = reg[v],
                 ![t].pc = IF reg[v] = 0 THEN "unregister" ELSE "dispose"]
     /\ UNCHANGED <<top, mail, supervisor, scheduler, outside, history>>

OnStop(h) ==
  /\ handle' = [handle EXCEPT ![h].slot = 0]
  /\ dead' = dead \cup ({<<h[1], handle[h].slot>>} \cap (Actors \X Gens))

(* ... then on_stop on the state it still holds ... *)
Dispose(t) ==
  LET h == <<th[t].tgt, th[t].aux>>
  IN /\ At(t, "dispose") /\ handle[h].lock = NoThread
     /\ OnStop(h)
     /\ Goto(t, "unregister")
     /\ UNCHANGED <<registry, mail, supervisor, scheduler, outside, last, mark>>

(* lock().unwrap() on a poisoned mutex in phase 3 or in remove_actor *)
PoisonSpreads(t) ==
  LET a == th[t].act
  IN /\ \/ At(t, "putback") /\ Poisoned(Cur(a)) /\ Goto(t, "panicked")
        \/ /\ At(t, "return") /\ th[t].tag = "crash" /\ GuardFree(a)
           /\ reg[a] # 0 /\ Poisoned(Cur(a)) /\ Goto(t, "panicked")
        \/ /\ At(t, "dispose") /\ Poisoned(<<th[t].tgt, th[t].aux>>)
           /\ Goto(t, "aborted")
     /\ UNCHANGED <<registry, handle, mail, supervisor, scheduler, outside,
                    history>>

(* ... then out of the supervisor. *)
Unregister(t) ==
  /\ At(t, "unregister")
  /\ sup' = sup \ {th[t].tgt}
  /\ crashes' = [crashes EXCEPT ![th[t].tgt] = 0]
  /\ Goto(t, IF th[t].tag = "crash" THEN AfterVictim(th[t].todo) ELSE "idle")
  /\ UNCHANGED <<registry, handle, mail, scheduler, outside, history>>

(* mutant: the mailbox is not looked at again after a restart *)
AfterCrashQuiet(t) ==
  /\ At(t, "after") /\ GuardFree(th[t].act)
  /\ Goto(t, "idle")
  /\ UNCHANGED <<registry, handle, mail, supervisor, scheduler, outside, history>>

(* messages left in the mailbox are scheduled again after the restart *)
AfterCrash(t) ==
  LET a == th[t].act
  IN /\ At(t, "after") /\ GuardFree(a)
     /\ IF reg[a] # 0 /\ mail[Mailbox(Own(t))] # <<>>
        THEN Enqueue(a) ELSE UNCHANGED scheduler
     /\ Goto(t, "idle")
     /\ UNCHANGED <<registry, handle, mail, supervisor, outside, history>>

-----------------------------------------------------------------------------
(* ActorRef, used by client c *)

Message(s) == [from |-> s, no |-> no[s] + 1]

(* send and ask_blocking: both flags are read, then the ref's own handle is *)
(* used.  A call refused here changes nothing.                              *)
Call(c, a, tag) ==
  /\ At(c, "idle") /\ c \in Clients /\ tag \in Uses
  /\ SumFunctionOnSet(no, Clients) < MaxOps
  /\ phase = "up" /\ GuardFree(a) /\ reg[a] # 0
  /\ no' = [no EXCEPT ![c] = @ + 1]
  /\ th' = [th EXCEPT ![c].pc = IF tag = "ask" THEN "swap" ELSE "push",
              ![c].act = a, ![c].gen = ref[c][a], ![c].msg = Message(c),
              ![c].tag = tag]
  /\ UNCHANGED <<registry, handle, mail, callback, supervisor, scheduler, ref,
                 phase, history>>

(* Runtime::resolve *)
Resolve(c, a) ==
  /\ At(c, "idle") /\ "resolve" \in Uses /\ GuardFree(a) /\ reg[a] # 0
  /\ ref' = [ref EXCEPT ![c][a] = reg[a]]
  /\ UNCHANGED <<registry, handle, mail, callback, supervisor, scheduler, th,
                 no, phase, history>>

(* mutant: a push that takes no notice of the capacity *)
PushUnbounded(c) ==
  /\ At(c, "push")
  /\ mail' = [mail EXCEPT ![Mailbox(Own(c))] = Append(@, th[c].msg)]
  /\ Goto(c, "notify")
  /\ UNCHANGED <<registry, handle, supervisor, scheduler, outside, history>>

(* request_stop: flag and status of the registered handle; nobody is told *)
RequestStop(a) ==
  /\ "stop" \in Uses /\ GuardFree(a) /\ reg[a] # 0
  /\ handle' = [handle EXCEPT ![Cur(a)].stopReq = TRUE,
                              ![Cur(a)].status = "Stopping"]
  /\ UNCHANGED <<registry, mail, supervisor, scheduler, th, outside, history>>

Push(c) ==
  LET box == Mailbox(Own(c))
  IN /\ At(c, "push")
     /\ IF Len(mail[box]) < Capacity
        THEN mail' = [mail EXCEPT ![box] = Append(@, th[c].msg)] /\ Goto(c, "notify")
        ELSE UNCHANGED mail /\ Goto(c, "idle")
     /\ UNCHANGED <<registry, handle, supervisor, scheduler, outside, history>>

Notify(c) ==
  /\ At(c, "notify")
  /\ Enqueue(th[c].act)
  /\ Goto(c, IF th[c].tag = "ask" THEN "await" ELSE "idle")
  /\ UNCHANGED <<registry, handle, mail, supervisor, outside, history>>

(* recv_timeout: a reply, a dropped envelope or the 10 seconds end the wait. *)
AskReturns(c) ==
  /\ At(c, "await")
  /\ Goto(c, "idle")
  /\ UNCHANGED <<registry, handle, mail, supervisor, scheduler, outside,
                 history>>

(* mutant: the fast path overtakes the mail that is waiting *)
CheckNothing(c) ==
  /\ At(c, "check")
  /\ Goto(c, "trylock")
  /\ UNCHANGED <<registry, handle, mail, supervisor, scheduler, outside, history>>

(* try_fast_ask: take running, or go the slow way *)
Swap(c) ==
  LET h == Own(c)
  IN /\ At(c, "swap")
     /\ handle' = [handle EXCEPT ![h].running = TRUE]
     /\ Goto(c, IF handle[h].running THEN "push" ELSE "check")
     /\ UNCHANGED <<registry, mail, supervisor, scheduler, outside, history>>

CheckEmpty(c) ==
  /\ At(c, "check")
  /\ Goto(c, IF mail[Mailbox(Own(c))] = <<>> THEN "trylock" ELSE "giveup")
  /\ UNCHANGED <<registry, handle, mail, supervisor, scheduler, outside,
                 history>>

(* the guard of a successful try_lock lives to the end of the call *)
TryLock(c) ==
  LET h == Own(c)
      locks == handle[h].lock = NoThread
      runs == locks /\ handle[h].slot # 0 /\ h[1] \in callback
  IN /\ At(c, "trylock")
     /\ handle' = IF locks THEN [handle EXCEPT ![h].lock = c] ELSE handle
     /\ th' = [th EXCEPT ![c].pc = IF runs THEN "handling" ELSE "giveup",
                         ![c].inc = IF runs THEN handle[h].slot ELSE 0]
     /\ IF runs THEN Begin(h[1], th[c].msg) ELSE UNCHANGED last
     /\ UNCHANGED <<registry, mail, supervisor, scheduler, outside, dead, mark>>

Unlock(h, c, handles) ==
  IF handles[h].lock = c THEN [handles EXCEPT ![h].lock = NoThread] ELSE handles

(* every fallback: running is cleared, then the actor is notified *)
GiveUp(c) ==
  /\ At(c, "giveup")
  /\ handle' = [handle EXCEPT ![Own(c)].running = FALSE]
  /\ Goto(c, "fallback")
  /\ UNCHANGED <<registry, mail, supervisor, scheduler, outside, history>>

Fallback(c) ==
  /\ At(c, "fallback")
  /\ Enqueue(th[c].act)
  /\ handle' = Unlock(Own(c), c, handle)
  /\ Goto(c, "push")
  /\ UNCHANGED <<registry, mail, supervisor, outside, history>>

FastReturns(c) ==
  /\ At(c, "handling") /\ c \in Clients
  /\ handle' = [handle EXCEPT ![Own(c)].running = FALSE]
  /\ th' = [th EXCEPT ![c].pc = "finish", ![c].inc = 0]
  /\ UNCHANGED <<registry, mail, supervisor, scheduler, outside, history>>

(* the handler returned -1: state dropped, lock released, running stays set *)
FastCrashes(c) ==
  LET h == Own(c)
  IN /\ At(c, "handling") /\ c \in Clients
     /\ MayCrash(h[1])
     /\ handle' = [handle EXCEPT ![h].slot = 0, ![h].lock = NoThread]
     /\ th' = [th EXCEPT ![c].pc = "decide", ![c].inc = 0, ![c].tag = "crash"]
     /\ dead' = dead \cup {Retired(c)}
     /\ UNCHANGED <<registry, mail, supervisor, scheduler, outside, last, mark>>

(* mutant: the fast path does not look for mail that came meanwhile *)
FinishQuiet(c) ==
  /\ At(c, "finish")
  /\ handle' = Unlock(Own(c), c, handle)
  /\ Goto(c, "idle")
  /\ UNCHANGED <<registry, mail, supervisor, scheduler, outside, history>>

(* messages that arrived while the caller was inside are scheduled *)
Finish(c) ==
  /\ At(c, "finish")
  /\ IF mail[Mailbox(Own(c))] # <<>>
     THEN Enqueue(th[c].act) ELSE UNCHANGED scheduler
  /\ handle' = Unlock(Own(c), c, handle)
  /\ Goto(c, "idle")
  /\ UNCHANGED <<registry, mail, supervisor, outside, history>>

(* ActorContext::send from inside a handler, through the registry *)
Forward(t, b) ==
  LET a == th[t].act
  IN /\ At(t, "handling") /\ "forward" \in Uses /\ no[a] < MaxSends
     /\ phase = "up" /\ GuardFree(b) /\ reg[b] # 0
     /\ Len(mail[Mailbox(Cur(b))]) < Capacity
     /\ no' = [no EXCEPT ![a] = @ + 1]
     /\ mail' = [mail EXCEPT ![Mailbox(Cur(b))] = Append(@, Message(a))]
     /\ Enqueue(b)
     /\ UNCHANGED <<registry, handle, callback, supervisor, th, ref, phase,
                    history>>

-----------------------------------------------------------------------------
(* Runtime::shutdown *)

StopAll ==
  /\ "shutdown" \in Uses /\ phase = "up"
  /\ phase' = "stopping"
  /\ mark' = [c \in Clients |-> IF th[c].pc \in {"idle", "await"}
                              THEN no[c] ELSE no[c] - 1]
  /\ UNCHANGED <<registry, handle, mail, callback, supervisor, scheduler, th,
                 ref, no, last, dead>>

Gone == {"exited", "panicked", "aborted"}

WorkersGone == \A w \in Workers : th[w].pc \in Gone

JoinWorkers ==
  /\ phase = "stopping" /\ WorkersGone
  /\ phase' = "cleanup"
  /\ UNCHANGED <<registry, handle, mail, callback, supervisor, scheduler, th,
                 ref, no, history>>

StopActor(a) ==
  /\ phase = "cleanup" /\ reg[a] # 0
  /\ handle[Cur(a)].slot # 0 /\ handle[Cur(a)].lock = NoThread
  /\ OnStop(Cur(a))
  /\ UNCHANGED <<registry, mail, supervisor, scheduler, th, outside, last,
                 mark>>

ClearRegistry ==
  /\ phase = "cleanup"
  /\ \A a \in Actors : reg[a] # 0 => handle[Cur(a)].slot = 0
  /\ phase' = "down"
  /\ reg' = [a \in Actors |-> 0]
  /\ sup' = {}
  /\ crashes' = [a \in Actors |-> 0]
  /\ handle' = [h \in Handles |->
                  IF reg[h[1]] = h[2] THEN [handle[h] EXCEPT !.status = "Stopped"]
                                      ELSE handle[h]]
  /\ UNCHANGED <<top, mail, callback, scheduler, th, ref, no, history>>

(* Nothing is left to do: idle workers sleep, the callers are done. *)
Rest ==
  /\ \A t \in Threads : th[t].pc \in {"idle"} \cup Gone
  /\ \A a \in Actors : ready[a] = 0 \/ WorkersGone
  /\ UNCHANGED vars

WorkerStep(w) ==
  \/ \E a \in Actors : Pick(w, a)
  \/ ClaimFails(w) \/ Claim(w)
  \/ TakeStopping(w) \/ Take(w) \/ TakePanics(w)
  \/ Pop(w) \/ PopNone(w)
  \/ HandlerContinues(w) \/ (\E tag \in {"stop", "crash"} : HandlerEnds(w, tag))
  \/ Settle(w)
  \/ ReturnGone(w) \/ ReturnCrashed(w) \/ Return(w) \/ PutBack(w)
  \/ Requeue(w) \/ Exit(w)

CrashStep(t) ==
  \/ \E elapsed \in BOOLEAN : Decide(t, elapsed)
  \/ (\E v \in Actors : \E starts \in BOOLEAN : Rebuild(t, v, starts)) \/ Insert(t)
  \/ Remove(t) \/ Dispose(t) \/ Unregister(t) \/ PoisonSpreads(t)
  \/ AfterCrash(t)

CallStep(c) ==
  \/ Push(c) \/ Notify(c) \/ AskReturns(c)
  \/ Swap(c) \/ CheckEmpty(c) \/ TryLock(c)
  \/ GiveUp(c) \/ Fallback(c)
  \/ FastReturns(c) \/ FastCrashes(c) \/ Finish(c)

ClientChoice(c) ==
  \E a \in Actors :
    \/ \E tag \in {"send", "ask"} : Call(c, a, tag)
    \/ Resolve(c, a)
    \/ At(c, "idle") /\ RequestStop(a)

HandlerChoice(t) ==
  \/ \E b \in Actors : Forward(t, b)
  \/ At(t, "handling") /\ RequestStop(th[t].act)

ShutdownStep ==
  \/ JoinWorkers \/ (\E a \in Actors : StopActor(a)) \/ ClearRegistry

Next ==
  \/ \E w \in Workers : WorkerStep(w)
  \/ \E t \in Threads : CrashStep(t) \/ HandlerChoice(t)
  \/ \E c \in Clients : CallStep(c) \/ ClientChoice(c)
  \/ StopAll \/ ShutdownStep
  \/ Rest

Spec == Init /\ [][Next]_vars

(* Threads are scheduled and handlers return; callers owe no further call,  *)
(* and nobody has to stop an actor or shut the runtime down.                *)
Fairness ==
  /\ \A w \in Workers : WF_vars(WorkerStep(w) \/ CrashStep(w))
  /\ \A c \in Clients : WF_vars(CallStep(c) \/ CrashStep(c))
  /\ WF_vars(ShutdownStep)

FairSpec == Spec /\ Fairness

=============================================================================
