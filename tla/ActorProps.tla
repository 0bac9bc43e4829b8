----------------------------- MODULE ActorProps -----------------------------
(***************************************************************************)
(* What the actor runtime promises: properties of ActorRuntime.  Those of  *)
(* one actor's handler (SingleAccess to NoPanic) are meant for actors       *)
(* that are restarted one by one; the group strategies break them.         *)
(***************************************************************************)
EXTENDS ActorRuntime
-----------------------------------------------------------------------------

(* t is inside its actor: it won the swap of running and has not let go *)
InsidePCs == {"take", "pop", "handling", "settle", "return",
              "decide", "rebuild", "insert", "check", "trylock", "giveup"}

Inside(t) == th[t].pc \in InsidePCs

(* running admits one thread at a time, the workers' process_actor and the  *)
(* callers' try_fast_ask together, even when a caller holds the handle of   *)
(* an incarnation that was replaced since.                                  *)
SingleAccess ==
  \A s, t \in Threads :
    Inside(s) /\ Inside(t) /\ th[s].act = th[t].act => s = t

(* Why running admits one thread at a time, when each actor is restarted on *)
(* its own: who is inside holds the newest handle and running with it, a    *)
(* replaced handle is never let go, and a restart replaces only the actor   *)
(* whose crash is being handled.                                            *)
HoldsNewest(t) == th[t].gen = top[th[t].act] /\ handle[Own(t)].running

RestartsItself(t) ==
  /\ th[t].todo = IF At(t, "rebuild") THEN {th[t].act} ELSE {}
  /\ At(t, "insert") => th[t].tgt = th[t].act

AccessInv ==
  /\ SingleAccess
  /\ \A t \in Threads : Inside(t) => HoldsNewest(t)
  /\ \A t \in Threads : At(t, "swap") => th[t].gen <= top[th[t].act]
  /\ \A t \in Threads : RestartsItself(t)
  /\ \A h \in Handles : h[2] < top[h[1]] => handle[h].running
  /\ \A a \in Actors : reg[a] \in {0, top[a]}
  /\ \A c \in Clients : \A a \in Actors : ref[c][a] <= top[a]

(* An actor's handler is never run by two threads at once. *)
MutualExclusion ==
  \A s, t \in Threads :
    At(s, "handling") /\ At(t, "handling") /\ th[s].act = th[t].act => s = t

(* A handler only ever runs on the state of the newest incarnation: once a  *)
(* restart has built a new state, no caller with an old ActorRef and no     *)
(* worker late in putting a state back revives the crashed one.             *)
FreshState ==
  \A t \in Threads : At(t, "handling") => th[t].inc = top[th[t].act]

(* Whoever takes running finds the state in the handle: the expect of       *)
(* process_actor never fails, however returns, fast asks, restarts and      *)
(* removals interleave.                                                     *)
NoPanic == \A t \in Threads : th[t].pc \notin {"panicked", "aborted"}

(* A state that crashed or whose on_stop ran is not handed to a handler     *)
(* again, nor left where one could find it.                                 *)
NoReuse ==
  /\ \A t \in Threads : At(t, "handling") => Retired(t) \notin dead
  /\ \A h \in Handles : reg[h[1]] = h[2] => <<h[1], handle[h].slot>> \notin dead

(* t will look at the mailbox of its actor again before it is done *)
WillLook(t) ==
  th[t].pc \in {"take", "pop", "handling", "settle", "return", "putback",
                "requeue", "check", "trylock", "giveup", "fallback", "finish",
                "notify", "decide", "rebuild", "insert", "remove", "dispose",
                "unregister", "after"}

(* No wakeup is lost: mail of a registered actor is always matched by a     *)
(* queued entry, by an entry a worker has just popped, or by a thread that  *)
(* looks at the mailbox again after it has let the actor go.                *)
NoLostWakeup ==
  \A a \in Actors :
    reg[a] # 0 /\ mail[Mailbox(Cur(a))] # <<>> =>
      \/ ready[a] > 0
      \/ \E t \in Threads :
           /\ th[t].act = a
           /\ WillLook(t) \/ (At(t, "claim") /\ ~handle[Cur(a)].running)

(* docs/actor-model.md 3.3: the messages of one sender to one actor are     *)
(* handled in the order they were sent and at most once, whether by a       *)
(* worker or by the caller's fast path.                                     *)
SenderOrder ==
  [][\A t \in Threads :
       ~At(t, "handling") /\ th'[t].pc = "handling" =>
         th'[t].msg.no > last[th[t].act][th'[t].msg.from]]_vars

(* scheduler.rs: pending counts the queued entries and the batches being    *)
(* processed, through every early return of process_actor.                  *)
Processing ==
  {w \in Workers : th[w].pc \in {"claim", "take", "pop", "handling", "settle",
                                 "return", "putback", "panicked"}}

QueuedEntries == UNION {{a} \X (1..ready[a]) : a \in Actors}

PendingAccounting == pending = Cardinality(QueuedEntries) + Cardinality(Processing)

(* A worker that exits leaves no entry behind in any queue. *)
ExitsDrained ==
  [][\A w \in Workers :
       ~At(w, "exited") /\ th'[w].pc = "exited" => \A a \in Actors : ready[a] = 0]_vars

(* Runtime::shutdown drains: once every worker has exited, a message left   *)
(* for a live actor is one whose send was still under way when the shutdown *)
(* began; nothing a handler sent is left.                                   *)
ShutdownDrains ==
  (\A w \in Workers : At(w, "exited")) =>
    \A a \in Actors : reg[a] # 0 =>
      \A i \in 1..Len(mail[Mailbox(Cur(a))]) :
        LET m == mail[Mailbox(Cur(a))][i]
        IN m.from \in Clients /\ m.no > mark[m.from]

(* The mailbox of a live actor is eventually emptied, or the actor removed, *)
(* or the runtime shut down: no notify is lost to an entry dropped while    *)
(* the fast path, a crash or a restart held the actor.                      *)
MailHandled ==
  \A a \in Actors :
    (reg[a] # 0 /\ mail[Mailbox(Cur(a))] # <<>>)
      ~> (phase # "up" \/ (reg[a] # 0 => mail[Mailbox(Cur(a))] = <<>>))

(* A stop request is served when there is mail: the actor leaves, unless a  *)
(* crash replaces the handle that carries the request.                      *)
StopServed ==
  \A a \in Actors :
    (StopRequested(a) /\ mail[Mailbox(Cur(a))] # <<>>) ~> ~StopRequested(a)

(* docs/actor-model.md 2.3: an actor that is told to stop is cleaned up and *)
(* destroyed.                                                               *)
StopTakesEffect == \A a \in Actors : StopRequested(a) ~> reg[a] = 0

(* Shutdown ends, whoever is still inside a call. *)
ShutdownEnds == (phase = "stopping") ~> (phase = "down")
=============================================================================
