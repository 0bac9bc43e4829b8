------------------------ MODULE ActorRuntime_proofs ------------------------
(***************************************************************************)
(* Proofs about ActorRuntime, for any sets of actors, workers and clients  *)
(* and any values of the bounds: types, who is inside an actor, and where  *)
(* the state objects are.                                                  *)
(***************************************************************************)
EXTENDS ActorProps, TLAPS

(* Every record a thread can be given by Goto is a thread record. *)
LEMMA IdleThreadType == IdleThread \in ThreadRecords
  BY ThreadAssumption, BoundAssumption
     DEF IdleThread, ThreadRecords, Labels, WorkerPCs, Tags, Gens

LEMMA GotoType ==
  ASSUME NEW t, NEW label \in Labels, Goto(t, label),
         th \in [Threads -> ThreadRecords]
  PROVE  th' \in [Threads -> ThreadRecords]
<1>1. CASE label = "idle"
  BY <1>1, IdleThreadType DEF Goto
<1>2. CASE label # "idle"
  BY ZenonT(40), <1>2 DEF Goto, ThreadRecords
<1> QED
  BY <1>1, <1>2

(* Goto moves one thread; the locals survive unless it becomes idle. *)
LEMMA GotoFrame ==
  ASSUME NEW t \in Threads, NEW label, Goto(t, label),
         th \in [Threads -> ThreadRecords]
  PROVE  /\ \A u \in Threads \ {t} : th'[u] = th[u]
         /\ th'[t].pc = label
         /\ label = "idle" => th'[t] = IdleThread
         /\ label # "idle" => th'[t] = [th[t] EXCEPT !.pc = label]
<1>1. IdleThread.pc = "idle"
  BY DEF IdleThread
<1>2. th[t] \in ThreadRecords
  OBVIOUS
<1>3. [th[t] EXCEPT !.pc = label].pc = label
  BY <1>2 DEF ThreadRecords
<1> QED
  BY <1>1, <1>3 DEF Goto

LEMMA AfterVictimType == \A todo : AfterVictim(todo) \in Labels
  BY DEF AfterVictim, Labels, CrashPCs

(* What a mailbox holds was numbered by its sender: a call that may still   *)
(* push carries a message.                                                  *)
Carrying == {"swap", "check", "trylock", "giveup", "fallback", "push"}

CarriesMessage ==
  \A t \in Threads : th[t].pc \in Carrying => th[t].msg \in Messages

(* A client that is in a call has numbered a message. *)
HasNumbered == \A c \in Clients : ~At(c, "idle") => no[c] # 0

TypeInv == TypeOK /\ CarriesMessage /\ HasNumbered

(* Init puts every variable in its type. *)
LEMMA InitType == Init => TypeOK
<1> SUFFICES ASSUME Init PROVE TypeOK
  OBVIOUS
<1>1. handle \in [Handles -> HandleRecords]
  BY DEF Init, Handles, Gens, NewHandle, HandleRecords
<1>2. mail \in [Handles -> Seq(Messages)] /\ \A h \in Handles : Len(mail[h]) <= Capacity
  BY BoundAssumption DEF Init
<1>3. th \in [Threads -> ThreadRecords]
  BY IdleThreadType DEF Init
<1>4. sup \in SUBSET Actors
  BY DEF Init
<1> QED
  BY <1>1, <1>2, <1>3, <1>4, BoundAssumption DEF Init, TypeOK, Gens

(* The locals of a thread, and the handles and mailboxes it gets at by them. *)
LEMMA LocalsType ==
  ASSUME TypeOK, NEW t \in Threads
  PROVE  /\ th \in [Threads -> ThreadRecords]
         /\ th[t].act \in Actors /\ th[t].gen \in Gens
         /\ th[t].inc \in 0..MaxGen /\ th[t].msg \in Messages \cup {NoMessage}
         /\ th[t].tag \in Tags /\ th[t].tgt \in Actors
         /\ th[t].aux \in 0..MaxGen /\ th[t].todo \in SUBSET Actors
         /\ Own(t) \in Handles
<1>1. th \in [Threads -> ThreadRecords]
  BY DEF TypeOK
<1> QED
  BY <1>1 DEF ThreadRecords, Own, Handles

LEMMA HandleType ==
  ASSUME TypeOK, NEW h \in Handles
  PROVE  /\ handle[h].slot \in 0..MaxGen /\ handle[h].box \in Gens
         /\ Mailbox(h) \in Handles
         /\ mail[Mailbox(h)] \in Seq(Messages) /\ Len(mail[Mailbox(h)]) <= Capacity
<1>1. handle[h] \in HandleRecords
  BY DEF TypeOK
<1>2. handle[h].slot \in 0..MaxGen /\ handle[h].box \in Gens
  BY <1>1 DEF HandleRecords
<1>3. Mailbox(h) \in Handles
  BY <1>2 DEF Mailbox, Handles
<1> QED
  BY <1>2, <1>3 DEF TypeOK

LEMMA CurType ==
  ASSUME TypeOK, NEW a \in Actors, reg[a] # 0
  PROVE  reg[a] \in Gens /\ Cur(a) \in Handles
  BY BoundAssumption DEF TypeOK, Gens, Cur, Handles

LEMMA LabelType ==
  /\ "idle" \in Labels /\ "claim" \in Labels /\ "take" \in Labels
  /\ "pop" \in Labels /\ "handling" \in Labels /\ "settle" \in Labels
  /\ "return" \in Labels /\ "putback" \in Labels /\ "requeue" \in Labels
  /\ "exited" \in Labels /\ "panicked" \in Labels /\ "aborted" \in Labels
  /\ "swap" \in Labels /\ "check" \in Labels /\ "trylock" \in Labels
  /\ "giveup" \in Labels /\ "fallback" \in Labels /\ "finish" \in Labels
  /\ "push" \in Labels /\ "notify" \in Labels /\ "await" \in Labels
  /\ "decide" \in Labels /\ "rebuild" \in Labels /\ "insert" \in Labels
  /\ "remove" \in Labels /\ "dispose" \in Labels /\ "unregister" \in Labels
  /\ "after" \in Labels
  BY DEF Labels, WorkerPCs, ClientPCs, CrashPCs

LEMMA TagType ==
  /\ "none" \in Tags /\ "stop" \in Tags /\ "stopReq" \in Tags
  /\ "crash" \in Tags /\ "send" \in Tags /\ "ask" \in Tags
  BY DEF Tags

LEMMA ZeroType == 0 \in 0..MaxGen
  BY BoundAssumption

LEMMA EnqueueType ==
  ASSUME TypeOK, NEW a \in Actors, Enqueue(a)
  PROVE  ready' \in [Actors -> Nat] /\ pending' \in Int
  BY DEF TypeOK, Enqueue

(* on_stop empties a state slot and touches nothing else. *)
LEMMA OnStopType ==
  ASSUME TypeOK, NEW a \in Actors, NEW g \in 0..MaxGen, OnStop(<<a, g>>)
  PROVE  /\ handle' \in [Handles -> HandleRecords]
         /\ dead' \in SUBSET (Actors \X (0..MaxGen))
<1>t. handle \in [Handles -> HandleRecords]
  BY DEF TypeOK
<1>d. dead \in SUBSET (Actors \X (0..MaxGen))
  BY DEF TypeOK
<1>1. dead' \in SUBSET (Actors \X (0..MaxGen))
  BY <1>d DEF OnStop, Gens
<1>2. handle' \in [Handles -> HandleRecords]
  BY <1>t, ZeroType DEF OnStop, HandleRecords
<1> QED
  BY <1>1, <1>2

LEMMA BeginType ==
  ASSUME TypeOK, NEW a \in Actors, NEW m \in Messages \cup {NoMessage}, Begin(a, m)
  PROVE  last' \in [Actors -> [Senders -> Nat]]
<1>1. m.no \in Nat
  BY DEF Messages, NoMessage
<1> QED
  BY <1>1 DEF TypeOK, Begin

LEMMA MessageType ==
  ASSUME TypeOK, NEW s \in Senders
  PROVE  Message(s) \in Messages
  BY DEF TypeOK, Message, Messages

(* Each step of a worker in process_actor preserves the types. *)
LEMMA WorkerType ==
  ASSUME TypeOK, NEW w \in Workers, WorkerStep(w)
  PROVE  TypeOK'
<1>w. w \in Threads
  BY DEF Threads
<1>t. th \in [Threads -> ThreadRecords] /\ handle \in [Handles -> HandleRecords]
  BY DEF TypeOK
<1>a. th[w].act \in Actors /\ Own(w) \in Handles /\ th[w].inc \in 0..MaxGen
  BY <1>w, LocalsType
<1>1. ASSUME NEW a \in Actors, Pick(w, a) PROVE TypeOK'
  <2>1. th' \in [Threads -> ThreadRecords]
    BY ZenonT(40), <1>w, <1>1, <1>t, LabelType DEF Pick, ThreadRecords
  <2>2. ready' \in [Actors -> Nat]
    BY <1>1 DEF TypeOK, Pick
  <2> QED
    BY <1>1, <2>1, <2>2 DEF TypeOK, Pick, registry, supervisor, outside, history
<1>2. CASE ClaimFails(w)
  <2>1. th' \in [Threads -> ThreadRecords]
    BY <1>w, <1>2, <1>t, LabelType, GotoType DEF ClaimFails
  <2> QED
    BY <1>2, <2>1
    DEF TypeOK, ClaimFails, PendingSub, registry, supervisor, outside, history
<1>3. CASE Claim(w)
  <2>1. reg[th[w].act] \in Gens /\ Cur(th[w].act) \in Handles
    BY <1>a, <1>3, CurType DEF Claim
  <2>2. th' \in [Threads -> ThreadRecords]
    BY ZenonT(40), <1>w, <1>3, <1>t, LabelType, <2>1 DEF Claim, ThreadRecords
  <2>3. handle' \in [Handles -> HandleRecords]
    BY <1>3, <1>t, <2>1 DEF Claim, HandleRecords
  <2> QED
    BY <1>3, <2>2, <2>3
    DEF TypeOK, Claim, registry, supervisor, scheduler, outside, history
<1>4. CASE TakeStopping(w)
  <2>1. th' \in [Threads -> ThreadRecords]
    BY ZenonT(40), <1>w, <1>4, <1>t, <1>a, LabelType DEF TakeStopping, ThreadRecords
  <2>2. handle' \in [Handles -> HandleRecords]
    BY <1>4, <1>t, <1>a DEF TakeStopping, HandleRecords
  <2> QED
    BY <1>4, <2>1, <2>2
    DEF TypeOK, TakeStopping, PendingSub, registry, supervisor, outside, history
<1>5. CASE Take(w)
  <2>1. handle[Own(w)].slot \in 0..MaxGen
    BY <1>a, HandleType
  <2>2. th' \in [Threads -> ThreadRecords]
    BY ZenonT(40), <1>w, <1>5, <1>t, <2>1, LabelType DEF Take, ThreadRecords
  <2>3. handle' \in [Handles -> HandleRecords]
    BY <1>5, <1>t, <1>a, BoundAssumption DEF Take, HandleRecords
  <2> QED
    BY <1>5, <2>2, <2>3
    DEF TypeOK, Take, registry, supervisor, scheduler, outside, history
<1>6. CASE TakePanics(w)
  <2>1. th' \in [Threads -> ThreadRecords]
    BY <1>w, <1>6, <1>t, LabelType, GotoType DEF TakePanics
  <2>2. handle' \in [Handles -> HandleRecords]
    BY ZenonT(40), <1>6, <1>w, <1>t, <1>a DEF TakePanics, HandleRecords
  <2> QED
    BY <1>6, <2>1, <2>2
    DEF TypeOK, TakePanics, registry, supervisor, scheduler, outside, history
<1>7. CASE Pop(w)
  <2> DEFINE box == Mailbox(Own(w))
             m == Head(mail[box])
  <2>1. box \in Handles /\ mail[box] \in Seq(Messages) /\ Len(mail[box]) <= Capacity
    BY <1>a, HandleType
  <2>2. m \in Messages /\ Tail(mail[box]) \in Seq(Messages)
        /\ Len(Tail(mail[box])) <= Capacity
    BY <2>1, <1>7, BoundAssumption DEF Pop
  <2>4. th' \in [Threads -> ThreadRecords]
    BY ZenonT(40), <1>w, <1>7, <1>t, <2>2, LabelType DEF Pop, ThreadRecords
  <2>5. mail' = [mail EXCEPT ![box] = Tail(mail[box])]
    BY <1>7 DEF Pop
  <2>6. mail' \in [Handles -> Seq(Messages)] /\ \A h \in Handles : Len(mail'[h]) <= Capacity
    BY <2>5, <2>1, <2>2 DEF TypeOK
  <2>7. last' \in [Actors -> [Senders -> Nat]]
    BY <1>7, <2>2, <1>a, BeginType DEF Pop
  <2> QED
    BY <1>7, <2>4, <2>6, <2>7
    DEF TypeOK, Pop, registry, supervisor, scheduler, outside
<1>8. CASE PopNone(w)
  <2>1. th' \in [Threads -> ThreadRecords]
    BY <1>w, <1>8, <1>t, LabelType, GotoType DEF PopNone
  <2> QED
    BY <1>8, <2>1
    DEF TypeOK, PopNone, registry, supervisor, scheduler, outside, history
<1>9. CASE HandlerContinues(w)
  <2> DEFINE stopped == [th[w] EXCEPT !.pc = "settle", !.tag = "stop"]
             going   == [th[w] EXCEPT !.pc = "pop", !.msg = NoMessage]
  <2>2. th' = [th EXCEPT ![w] = stopped] \/ th' = [th EXCEPT ![w] = going]
    BY <1>9 DEF HandlerContinues
  <2>3. th[w] \in ThreadRecords
    BY <1>w, <1>t
  <2>4. stopped \in ThreadRecords
    BY <2>3, LabelType, TagType DEF ThreadRecords
  <2>5. going \in ThreadRecords
    BY <2>3, LabelType DEF ThreadRecords
  <2>1. th' \in [Threads -> ThreadRecords]
    <3> HIDE DEF stopped, going
    <3> QED BY <2>2, <2>4, <2>5, <1>t
  <2> QED
    BY <1>9, <2>1
    DEF TypeOK, HandlerContinues, registry, supervisor, scheduler, outside, history
<1>10. ASSUME NEW tag \in {"stop", "crash"}, HandlerEnds(w, tag) PROVE TypeOK'
  <2> DEFINE done == [th[w] EXCEPT !.pc = "settle", !.tag = tag]
  <2>2. th' = [th EXCEPT ![w] = done]
    BY <1>10 DEF HandlerEnds
  <2>3. th[w] \in ThreadRecords /\ tag \in Tags
    BY <1>w, <1>t, <1>10, TagType
  <2>4. done \in ThreadRecords
    BY <2>3, LabelType DEF ThreadRecords
  <2>1. th' \in [Threads -> ThreadRecords]
    <3> HIDE DEF done
    <3> QED BY <2>2, <2>4, <1>t
  <2> QED
    BY <1>10, <2>1
    DEF TypeOK, HandlerEnds, registry, supervisor, scheduler, outside, history
<1>11. CASE Settle(w)
  <2> DEFINE tag == IF th[w].tag = "none" /\ StopRequested(th[w].act)
                    THEN "stopReq" ELSE th[w].tag
  <2>1. tag \in Tags
    BY <1>w, LocalsType, TagType
  <2> DEFINE r == [th[w] EXCEPT !.pc = "return", !.msg = NoMessage, !.tag = tag]
  <2>2. th' = [th EXCEPT ![w] = r]
    BY <1>11, <1>t, <1>w DEF Settle
  <2> HIDE DEF tag
  <2>3. th[w] \in ThreadRecords
    BY <1>t, <1>w
  <2>4. r \in ThreadRecords
    BY <2>1, <2>3, LabelType DEF ThreadRecords
  <2> HIDE DEF r
  <2>5. th' \in [Threads -> ThreadRecords]
    BY <1>w, <2>2, <2>4, <1>t
  <2> QED
    BY <1>11, <2>5
    DEF TypeOK, Settle, registry, supervisor, scheduler, outside, history
<1>12. CASE ReturnGone(w)
  <2>1. th' \in [Threads -> ThreadRecords]
    BY <1>w, <1>12, <1>t, LabelType, GotoType DEF ReturnGone
  <2>2. dead' \in SUBSET (Actors \X (0..MaxGen))
    BY <1>12, <1>a DEF TypeOK, ReturnGone, Retired
  <2> QED
    BY <1>12, <2>1, <2>2
    DEF TypeOK, ReturnGone, PendingSub, registry, supervisor, outside
<1>13. CASE ReturnCrashed(w)
  <2>1. th' \in [Threads -> ThreadRecords]
    BY ZenonT(40), <1>w, <1>13, <1>t, LabelType, ZeroType DEF ReturnCrashed, ThreadRecords
  <2>2. handle' \in [Handles -> HandleRecords]
    <3>1. Cur(th[w].act) \in Handles
      BY <1>13, <1>a, CurType DEF ReturnCrashed
    <3> QED
      BY <1>13, <3>1, <1>t, ZeroType DEF ReturnCrashed, HandleRecords
  <2>3. dead' \in SUBSET (Actors \X (0..MaxGen))
    BY <1>13, <1>a DEF TypeOK, ReturnCrashed, Retired
  <2> QED
    BY <1>13, <2>1, <2>2, <2>3
    DEF TypeOK, ReturnCrashed, PendingSub, registry, supervisor, outside
<1>14. CASE Return(w)
  <2>1. th' \in [Threads -> ThreadRecords]
    BY <1>w, <1>14, <1>t, LabelType, GotoType DEF Return
  <2>2. handle' \in [Handles -> HandleRecords]
    BY <1>14, <1>t DEF Return, HandleRecords
  <2> QED
    BY <1>14, <2>1, <2>2
    DEF TypeOK, Return, registry, supervisor, scheduler, outside, history
<1>15. CASE PutBack(w)
  <2> DEFINE h == Cur(th[w].act)
             status == IF th[w].tag = "stop" THEN "Stopping" ELSE handle[h].status
             pc == IF th[w].tag \in {"stop", "stopReq"} THEN "remove" ELSE "requeue"
             r == [th[w] EXCEPT !.inc = 0, !.tgt = th[w].act, !.pc = pc]
             q == [handle[h] EXCEPT !.slot = th[w].inc, !.status = status]
  <2>1. th' = [th EXCEPT ![w] = r] /\ handle' = [handle EXCEPT ![h] = q]
    BY <1>15, <1>t, <1>w DEF PutBack
  <2>2. r \in ThreadRecords
    <3>1. pc \in Labels
      BY LabelType
    <3> HIDE DEF pc
    <3>2. th[w] \in ThreadRecords
      BY <1>t, <1>w
    <3> QED
      BY <3>1, <3>2, <1>a, ZeroType DEF ThreadRecords
  <2>3. h \in Handles => q \in HandleRecords
    BY <1>t, <1>a DEF HandleRecords
  <2> HIDE DEF h, q, r
  <2>4. th' \in [Threads -> ThreadRecords]
    BY <1>w, <2>1, <2>2, <1>t
  <2>5. handle' \in [Handles -> HandleRecords]
    BY <2>1, <2>3, <1>t
  <2> QED
    BY SMTT(20), <1>15, <2>4, <2>5
    DEF TypeOK, PutBack, PendingSub, registry, supervisor, outside, history
<1>16. CASE Requeue(w)
  <2>1. th' \in [Threads -> ThreadRecords]
    BY <1>w, <1>16, <1>t, LabelType, GotoType DEF Requeue
  <2>2. ready' \in [Actors -> Nat] /\ pending' \in Int
    BY <1>16, EnqueueType, <1>a DEF TypeOK, Requeue, scheduler
  <2> QED
    BY <1>16, <2>1, <2>2
    DEF TypeOK, Requeue, registry, supervisor, outside, history
<1>17. CASE Exit(w)
  <2>1. th' \in [Threads -> ThreadRecords]
    BY <1>w, <1>17, <1>t, LabelType, GotoType DEF Exit
  <2> QED
    BY <1>17, <2>1
    DEF TypeOK, Exit, registry, supervisor, scheduler, outside, history
<1> QED
  BY <1>1, <1>2, <1>3, <1>4, <1>5, <1>6, <1>7, <1>8, <1>9, <1>10, <1>11, <1>12,
     <1>13, <1>14, <1>15, <1>16, <1>17 DEF WorkerStep

(* Each step of a thread that handles a crash preserves the types. *)
LEMMA CrashType ==
  ASSUME TypeOK, NEW t \in Threads, CrashStep(t)
  PROVE  TypeOK'
<1>t. th \in [Threads -> ThreadRecords] /\ handle \in [Handles -> HandleRecords]
  BY DEF TypeOK
<1>a. /\ th[t].act \in Actors /\ th[t].tgt \in Actors /\ Own(t) \in Handles
      /\ th[t].todo \in SUBSET Actors /\ th[t].aux \in 0..MaxGen
  BY LocalsType
<1>1. ASSUME NEW elapsed \in BOOLEAN, Decide(t, elapsed) PROVE TypeOK'
  <2> DEFINE a == th[t].act
             count == IF elapsed THEN 1 ELSE crashes[a] + 1
  <2>1. count \in Nat
    BY <1>a DEF TypeOK
  <2>2. crashes' \in [Actors -> Nat]
    BY <1>1, <2>1 DEF TypeOK, Decide
  <2>3. Victims(a) \in SUBSET Actors
    BY <1>a, GroupAssumption DEF Victims, Strategies
  <2>4. CASE th' = [th EXCEPT ![t].pc = "rebuild", ![t].todo = Victims(a)]
    <3>1. th' \in [Threads -> ThreadRecords]
      BY ZenonT(40), <2>3, <2>4, <1>t, LabelType DEF ThreadRecords
    <3> QED
      BY <1>1, <2>2, <3>1
      DEF TypeOK, Decide, registry, scheduler, outside, history
  <2>5. CASE th' = [th EXCEPT ![t].pc = "remove", ![t].tgt = a, ![t].todo = {}]
    <3> DEFINE r == [th[t] EXCEPT !.pc = "remove", !.tgt = a, !.todo = {}]
    <3>1. th[t] \in ThreadRecords /\ th' = [th EXCEPT ![t] = r]
      BY <1>t, <2>5
    <3>2. r \in ThreadRecords
      BY <3>1, <1>a, LabelType DEF ThreadRecords
    <3> HIDE DEF r
    <3>3. th' \in [Threads -> ThreadRecords]
      BY <3>1, <3>2, <1>t
    <3> QED
      BY <1>1, <2>2, <3>3
      DEF TypeOK, Decide, registry, scheduler, outside, history
  <2> QED
    BY <1>1, <2>4, <2>5 DEF Decide
<1>2. ASSUME NEW v \in Actors, NEW starts \in BOOLEAN, Rebuild(t, v, starts) PROVE TypeOK'
  <2> DEFINE pc == IF v \in sup /\ starts THEN "insert" ELSE "remove"
             aux == IF reg[v] = 0 THEN 0 ELSE handle[Cur(v)].box
             r == [th[t] EXCEPT !.tgt = v, !.todo = @ \ {v}, !.pc = pc, !.aux = aux]
  <2>1. aux \in 0..MaxGen
    BY CurType, HandleType, ZeroType DEF Gens
  <2>2. pc \in Labels
    BY LabelType
  <2>3. th[t] \in ThreadRecords /\ th' = [th EXCEPT ![t] = r]
    BY <1>2, <1>t DEF Rebuild
  <2> HIDE DEF pc, aux
  <2>4. r \in ThreadRecords
    BY <2>1, <2>2, <2>3, <1>a DEF ThreadRecords
  <2> HIDE DEF r
  <2>5. th' \in [Threads -> ThreadRecords]
    BY <2>3, <2>4, <1>t
  <2> QED
    BY <1>2, <2>5
    DEF TypeOK, Rebuild, registry, supervisor, scheduler, outside, history
<1>3. CASE Insert(t)
  <2> DEFINE v == th[t].tgt
             g == top[v] + 1
             q == NewHandle(g, IF th[t].aux = 0 THEN g ELSE th[t].aux)
  <2>1. g \in Gens /\ g \in 0..MaxGen
    <3>1. top[v] \in 1..MaxGen
      BY <1>a DEF TypeOK, Gens
    <3>2. top[v] < MaxGen
      BY <1>3 DEF Insert
    <3> QED
      BY <3>1, <3>2, BoundAssumption DEF Gens
  <2>2. q \in HandleRecords
    BY <2>1, <1>a DEF NewHandle, HandleRecords, Gens
  <2>3. handle' = [handle EXCEPT ![<<v, g>>] = q]
    BY <1>3 DEF Insert
  <2>4. handle' \in [Handles -> HandleRecords]
    BY <2>2, <2>3, <1>t
  <2>5. reg' \in [Actors -> 0..MaxGen] /\ top' \in [Actors -> Gens]
    BY <1>3, <2>1 DEF TypeOK, Insert
  <2>6. th' \in [Threads -> ThreadRecords]
    BY <1>3, <1>t, AfterVictimType, GotoType DEF Insert
  <2> QED
    BY <1>3, <2>4, <2>5, <2>6
    DEF TypeOK, Insert, supervisor, scheduler, outside, history
<1>4. CASE Remove(t)
  <2> DEFINE v == th[t].tgt
             pc == IF reg[v] = 0 THEN "unregister" ELSE "dispose"
             r == [th[t] EXCEPT !.aux = reg[v], !.pc = pc]
  <2>1. reg[v] \in 0..MaxGen /\ pc \in Labels
    BY <1>a, LabelType DEF TypeOK
  <2>2. th' = [th EXCEPT ![t] = r]
    BY <1>4, <1>t DEF Remove
  <2>3. th[t] \in ThreadRecords
    BY <1>t
  <2> HIDE DEF pc
  <2>4. r \in ThreadRecords
    BY <2>1, <2>3 DEF ThreadRecords
  <2> HIDE DEF r
  <2>5. th' \in [Threads -> ThreadRecords]
    BY <2>2, <2>4, <1>t
  <2>6. handle' \in [Handles -> HandleRecords]
    <3>1. CASE reg[v] = 0
      BY <3>1, <1>4, <1>t DEF Remove
    <3>2. CASE reg[v] # 0
      <4>1. Cur(v) \in Handles
        BY <3>2, <1>a, CurType
      <4>2. handle' = [handle EXCEPT ![Cur(v)].status = "Stopped"]
        BY <3>2, <1>4 DEF Remove
      <4> QED
        BY <4>1, <4>2, <1>t DEF HandleRecords
    <3> QED
      BY <3>1, <3>2
  <2>7. reg' \in [Actors -> 0..MaxGen]
    BY <1>4, ZeroType DEF TypeOK, Remove
  <2> QED
    BY <1>4, <2>5, <2>6, <2>7
    DEF TypeOK, Remove, supervisor, scheduler, outside, history
<1>5. CASE Dispose(t)
  <2>1. th' \in [Threads -> ThreadRecords]
    BY <1>5, <1>t, LabelType, GotoType DEF Dispose
  <2>2. OnStop(<<th[t].tgt, th[t].aux>>)
    BY <1>5 DEF Dispose
  <2>3. /\ handle' \in [Handles -> HandleRecords]
        /\ dead' \in SUBSET (Actors \X (0..MaxGen))
    BY <1>a, <2>2, OnStopType
  <2> QED
    BY <1>5, <2>1, <2>3
    DEF TypeOK, Dispose, registry, supervisor, scheduler, outside
<1>6. CASE Unregister(t)
  <2>1. th' \in [Threads -> ThreadRecords]
    BY <1>6, <1>t, LabelType, AfterVictimType, GotoType DEF Unregister
  <2>2. crashes' \in [Actors -> Nat] /\ sup' \in SUBSET Actors
    BY <1>6 DEF TypeOK, Unregister
  <2> QED
    BY <1>6, <2>1, <2>2
    DEF TypeOK, Unregister, registry, scheduler, outside, history
<1>7. CASE PoisonSpreads(t)
  <2>1. th' \in [Threads -> ThreadRecords]
    BY <1>7, <1>t, LabelType, GotoType DEF PoisonSpreads
  <2> QED
    BY <1>7, <2>1
    DEF TypeOK, PoisonSpreads, registry, supervisor, scheduler, outside, history
<1>8. CASE AfterCrash(t)
  <2>1. th' \in [Threads -> ThreadRecords]
    BY <1>8, <1>t, LabelType, GotoType DEF AfterCrash
  <2>2. ready' \in [Actors -> Nat] /\ pending' \in Int
    BY <1>8, <1>a, EnqueueType DEF TypeOK, AfterCrash, scheduler
  <2> QED
    BY <1>8, <2>1, <2>2
    DEF TypeOK, AfterCrash, registry, supervisor, outside, history
<1> QED
  BY <1>1, <1>2, <1>3, <1>4, <1>5, <1>6, <1>7, <1>8 DEF CrashStep

(* Each step of an ActorRef call preserves the types. *)
LEMMA CallType ==
  ASSUME TypeOK, CarriesMessage, NEW c \in Clients, CallStep(c)
  PROVE  TypeOK'
<1>c. c \in Threads
  BY DEF Threads
<1>t. th \in [Threads -> ThreadRecords] /\ handle \in [Handles -> HandleRecords]
  BY DEF TypeOK
<1>a. th[c].act \in Actors /\ Own(c) \in Handles /\ th[c].inc \in 0..MaxGen
  BY <1>c, LocalsType
<1>1. CASE Push(c)
  <2> DEFINE box == Mailbox(Own(c))
  <2>1. CASE /\ Len(mail[box]) < Capacity
             /\ mail' = [mail EXCEPT ![box] = Append(@, th[c].msg)]
             /\ Goto(c, "notify")
    <3>1. th' \in [Threads -> ThreadRecords]
      BY <1>c, <2>1, <1>t, LabelType, GotoType
    <3>2. th[c].msg \in Messages
      BY <1>c, <1>1 DEF CarriesMessage, Carrying, Push, At
    <3>3. box \in Handles /\ mail[box] \in Seq(Messages)
      BY <1>a, <1>c, HandleType
    <3> DEFINE s == Append(mail[box], th[c].msg)
    <3>4. s \in Seq(Messages) /\ Len(s) <= Capacity
      BY <3>2, <3>3, <2>1, BoundAssumption
    <3>5. mail' = [mail EXCEPT ![box] = s]
      BY <2>1
    <3> HIDE DEF s, box
    <3>6. mail' \in [Handles -> Seq(Messages)] /\ \A h \in Handles : Len(mail'[h]) <= Capacity
      BY <3>4, <3>5 DEF TypeOK
    <3> QED
      BY <1>1, <3>1, <3>6
      DEF TypeOK, Push, registry, supervisor, scheduler, outside, history
  <2>2. CASE UNCHANGED mail /\ Goto(c, "idle")
    <3>1. th' \in [Threads -> ThreadRecords]
      BY <1>c, <2>2, <1>t, LabelType, GotoType
    <3> QED
      BY <1>1, <2>2, <3>1
      DEF TypeOK, Push, registry, supervisor, scheduler, outside, history
  <2> QED
    BY <1>1, <2>1, <2>2 DEF Push
<1>2. CASE Notify(c)
  <2> DEFINE pc == IF th[c].tag = "ask" THEN "await" ELSE "idle"
  <2>1. pc \in Labels /\ Goto(c, pc)
    BY <1>2, LabelType DEF Notify
  <2> HIDE DEF pc
  <2>2. th' \in [Threads -> ThreadRecords]
    BY <1>c, <2>1, <1>t, GotoType
  <2>3. ready' \in [Actors -> Nat] /\ pending' \in Int
    BY <1>2, <1>a, EnqueueType DEF Notify
  <2> QED
    BY <1>2, <2>2, <2>3
    DEF TypeOK, Notify, registry, supervisor, outside, history
<1>3. CASE AskReturns(c)
  <2>1. th' \in [Threads -> ThreadRecords]
    BY <1>c, <1>3, <1>t, LabelType, GotoType DEF AskReturns
  <2> QED
    BY <1>3, <2>1
    DEF TypeOK, AskReturns, registry, supervisor, scheduler, outside, history
<1>4. CASE Swap(c)
  <2>1. th' \in [Threads -> ThreadRecords]
    BY <1>c, <1>4, <1>t, LabelType, GotoType DEF Swap
  <2>2. handle' \in [Handles -> HandleRecords]
    BY <1>4, <1>t, <1>a DEF Swap, HandleRecords
  <2> QED
    BY <1>4, <2>1, <2>2
    DEF TypeOK, Swap, registry, supervisor, scheduler, outside, history
<1>5. CASE CheckEmpty(c)
  <2>1. th' \in [Threads -> ThreadRecords]
    BY <1>c, <1>5, <1>t, LabelType, GotoType DEF CheckEmpty
  <2> QED
    BY <1>5, <2>1
    DEF TypeOK, CheckEmpty, registry, supervisor, scheduler, outside, history
<1>6. CASE TryLock(c)
  <2> DEFINE h == Own(c)
             locks == handle[h].lock = NoThread
             runs == locks /\ handle[h].slot # 0 /\ h[1] \in callback
             pc == IF runs THEN "handling" ELSE "giveup"
             inc == IF runs THEN handle[h].slot ELSE 0
  <2>1. pc \in Labels /\ inc \in 0..MaxGen
    BY <1>a, LabelType, HandleType, ZeroType
  <2>2. th' = [th EXCEPT ![c].pc = pc, ![c].inc = inc]
    BY <1>6 DEF TryLock
  <2>3. handle' = IF locks THEN [handle EXCEPT ![h].lock = c] ELSE handle
    BY <1>6 DEF TryLock
  <2>4. IF runs THEN Begin(h[1], th[c].msg) ELSE UNCHANGED last
    BY <1>6 DEF TryLock
  <2>5. last' \in [Actors -> [Senders -> Nat]]
    BY <1>c, <2>4, BeginType, LocalsType DEF TypeOK, Own
  <2> HIDE DEF pc, inc, locks
  <2>6. th' \in [Threads -> ThreadRecords]
    BY ZenonT(40), <1>c, <2>1, <2>2, <1>t DEF ThreadRecords
  <2>7. handle' \in [Handles -> HandleRecords]
    BY <2>3, <1>c, <1>t, <1>a DEF HandleRecords
  <2> QED
    BY <1>6, <2>5, <2>6, <2>7
    DEF TypeOK, TryLock, registry, supervisor, scheduler, outside
<1>7. CASE GiveUp(c)
  <2>1. th' \in [Threads -> ThreadRecords]
    BY <1>c, <1>7, <1>t, LabelType, GotoType DEF GiveUp
  <2>2. handle' \in [Handles -> HandleRecords]
    BY <1>7, <1>t, <1>a DEF GiveUp, HandleRecords
  <2> QED
    BY <1>7, <2>1, <2>2
    DEF TypeOK, GiveUp, registry, supervisor, scheduler, outside, history
<1>8. CASE Fallback(c)
  <2>1. th' \in [Threads -> ThreadRecords]
    BY <1>c, <1>8, <1>t, LabelType, GotoType DEF Fallback
  <2>2. handle' \in [Handles -> HandleRecords]
    BY <1>8, <1>t, <1>a DEF Fallback, Unlock, HandleRecords
  <2>3. ready' \in [Actors -> Nat] /\ pending' \in Int
    BY <1>8, <1>a, EnqueueType DEF Fallback
  <2> QED
    BY <1>8, <2>1, <2>2, <2>3
    DEF TypeOK, Fallback, registry, supervisor, outside, history
<1>9. CASE FastReturns(c)
  <2>1. th' \in [Threads -> ThreadRecords]
    BY ZenonT(40), <1>c, <1>9, <1>t, LabelType, ZeroType DEF FastReturns, ThreadRecords
  <2>2. handle' \in [Handles -> HandleRecords]
    BY ZenonT(40), <1>9, <1>t, <1>a DEF FastReturns, HandleRecords
  <2> QED
    BY <1>9, <2>1, <2>2
    DEF TypeOK, FastReturns, registry, supervisor, scheduler, outside, history
<1>10. CASE FastCrashes(c)
  <2> DEFINE r == [th[c] EXCEPT !.pc = "decide", !.inc = 0, !.tag = "crash"]
  <2>1. th[c] \in ThreadRecords /\ th' = [th EXCEPT ![c] = r]
    BY <1>c, <1>10, <1>t DEF FastCrashes
  <2>2. r \in ThreadRecords
    BY <2>1, LabelType, TagType, ZeroType DEF ThreadRecords
  <2> HIDE DEF r
  <2>3. th' \in [Threads -> ThreadRecords]
    BY <1>c, <2>1, <2>2, <1>t
  <2>4. handle' \in [Handles -> HandleRecords]
    BY ZenonT(40), <1>10, <1>t, <1>a, ZeroType DEF FastCrashes, HandleRecords
  <2>5. dead' \in SUBSET (Actors \X (0..MaxGen))
    BY <1>10, <1>a DEF TypeOK, FastCrashes, Retired
  <2> QED
    BY <1>10, <2>3, <2>4, <2>5
    DEF TypeOK, FastCrashes, registry, supervisor, scheduler, outside
<1>11. CASE Finish(c)
  <2>1. th' \in [Threads -> ThreadRecords]
    BY <1>c, <1>11, <1>t, LabelType, GotoType DEF Finish
  <2>2. handle' \in [Handles -> HandleRecords]
    BY ZenonT(40), <1>11, <1>t, <1>a DEF Finish, Unlock, HandleRecords
  <2>3. ready' \in [Actors -> Nat] /\ pending' \in Int
    BY <1>11, <1>a, EnqueueType DEF TypeOK, Finish, scheduler
  <2> QED
    BY <1>11, <2>1, <2>2, <2>3
    DEF TypeOK, Finish, registry, supervisor, outside, history
<1> QED
  BY <1>1, <1>2, <1>3, <1>4, <1>5, <1>6, <1>7, <1>8, <1>9, <1>10, <1>11
  DEF CallStep

(* New calls, stop requests and messages sent by a handler. *)
LEMMA ChoiceType ==
  ASSUME TypeOK, NEW t \in Threads,
         \/ t \in Clients /\ ClientChoice(t)
         \/ HandlerChoice(t)
  PROVE  TypeOK'
<1>t. th \in [Threads -> ThreadRecords] /\ handle \in [Handles -> HandleRecords]
  BY DEF TypeOK
<1>a. th[t].act \in Actors
  BY LocalsType
<1>1. ASSUME NEW a \in Actors, NEW tag \in {"send", "ask"}, t \in Clients, Call(t, a, tag)
      PROVE  TypeOK'
  <2> DEFINE pc == IF tag = "ask" THEN "swap" ELSE "push"
             r == [th[t] EXCEPT !.pc = pc, !.act = a, !.gen = ref[t][a],
                                !.msg = Message(t), !.tag = tag]
  <2>1. Message(t) \in Messages
    BY <1>1, MessageType DEF Senders
  <2>2. pc \in Labels /\ tag \in Tags /\ ref[t][a] \in Gens
    BY <1>1, LabelType, TagType DEF TypeOK
  <2>3. th[t] \in ThreadRecords /\ th' = [th EXCEPT ![t] = r]
    BY <1>1, <1>t DEF Call
  <2> HIDE DEF pc
  <2>4. r \in ThreadRecords
    BY <2>1, <2>2, <2>3 DEF ThreadRecords
  <2> HIDE DEF r
  <2>5. th' \in [Threads -> ThreadRecords]
    BY <2>3, <2>4, <1>t
  <2>6. no' \in [Senders -> Nat]
    BY <1>1 DEF TypeOK, Call, Senders
  <2> QED
    BY <1>1, <2>5, <2>6
    DEF TypeOK, Call, registry, supervisor, scheduler, history
<1>2. ASSUME NEW a \in Actors, t \in Clients, Resolve(t, a) PROVE TypeOK'
  <2>1. reg[a] \in Gens
    BY <1>2, CurType DEF Resolve
  <2>2. ref' \in [Clients -> [Actors -> Gens]]
    BY <1>2, <2>1 DEF TypeOK, Resolve
  <2> QED
    BY <1>2, <2>2
    DEF TypeOK, Resolve, registry, supervisor, scheduler, history
<1>3. ASSUME NEW a \in Actors, RequestStop(a) PROVE TypeOK'
  <2>1. Cur(a) \in Handles
    BY <1>3, CurType DEF RequestStop
  <2>2. handle' \in [Handles -> HandleRecords]
    BY ZenonT(40), <1>3, <1>t, <2>1 DEF RequestStop, HandleRecords
  <2> QED
    BY <1>3, <2>2
    DEF TypeOK, RequestStop, registry, supervisor, scheduler, outside, history
<1>4. ASSUME NEW b \in Actors, Forward(t, b) PROVE TypeOK'
  <2> DEFINE a == th[t].act
             box == Mailbox(Cur(b))
             s == Append(mail[box], Message(a))
  <2>1. box \in Handles /\ mail[box] \in Seq(Messages)
    BY <1>4, CurType, HandleType DEF Forward
  <2>2. Message(a) \in Messages
    BY <1>a, MessageType DEF Senders
  <2>3. s \in Seq(Messages) /\ Len(s) <= Capacity
    BY <1>4, <2>1, <2>2, BoundAssumption DEF Forward
  <2>4. mail' = [mail EXCEPT ![box] = s]
    BY <1>4 DEF Forward
  <2> HIDE DEF s, box
  <2>5. mail' \in [Handles -> Seq(Messages)] /\ \A h \in Handles : Len(mail'[h]) <= Capacity
    BY <2>3, <2>4 DEF TypeOK
  <2>6. no' \in [Senders -> Nat]
    BY SMTT(20), <1>4, <1>a DEF TypeOK, Forward, Senders
  <2>7. ready' \in [Actors -> Nat] /\ pending' \in Int
    BY <1>4, EnqueueType DEF Forward
  <2> QED
    BY <1>4, <2>5, <2>6, <2>7
    DEF TypeOK, Forward, registry, supervisor, history
<1> QED
  BY <1>a, <1>1, <1>2, <1>3, <1>4 DEF ClientChoice, HandlerChoice

(* The steps of Runtime::shutdown. *)
LEMMA ShutdownType ==
  ASSUME TypeOK, HasNumbered, StopAll \/ ShutdownStep
  PROVE  TypeOK'
<1>t. th \in [Threads -> ThreadRecords] /\ handle \in [Handles -> HandleRecords]
  BY DEF TypeOK
<1>1. CASE StopAll
  <2>1. mark' \in [Clients -> Nat]
    <3>1. \A c \in Clients : th[c].pc \notin {"idle", "await"} => no[c] - 1 \in Nat
      BY DEF TypeOK, Senders, HasNumbered, At
    <3>2. \A c \in Clients : no[c] \in Nat
      BY DEF TypeOK, Senders
    <3> QED
      BY <1>1, <3>1, <3>2 DEF StopAll
  <2> QED
    BY <1>1, <2>1
    DEF TypeOK, StopAll, registry, supervisor, scheduler
<1>2. CASE JoinWorkers
  BY <1>2 DEF TypeOK, JoinWorkers, registry, supervisor, scheduler, history
<1>3. ASSUME NEW a \in Actors, StopActor(a) PROVE TypeOK'
  <2>1. reg[a] \in 0..MaxGen
    BY DEF TypeOK
  <2>2. OnStop(<<a, reg[a]>>)
    BY <1>3 DEF StopActor, Cur
  <2>3. /\ handle' \in [Handles -> HandleRecords]
        /\ dead' \in SUBSET (Actors \X (0..MaxGen))
    BY <2>1, <2>2, OnStopType
  <2> QED
    BY <1>3, <2>3
    DEF TypeOK, StopActor, registry, supervisor, scheduler, outside
<1>4. CASE ClearRegistry
  <2>1. handle' \in [Handles -> HandleRecords]
    BY <1>4, <1>t DEF ClearRegistry, HandleRecords
  <2>2. reg' \in [Actors -> 0..MaxGen] /\ crashes' \in [Actors -> Nat]
    BY <1>4, ZeroType DEF ClearRegistry
  <2> QED
    BY <1>4, <2>1, <2>2 DEF TypeOK, ClearRegistry, scheduler, history
<1> QED
  BY <1>1, <1>2, <1>3, <1>4 DEF ShutdownStep

-----------------------------------------------------------------------------
(* What a step of one thread does to the threads: it moves that thread only. *)
Moves(t) == \A u \in Threads \ {t} : th'[u] = th[u]

LEMMA WorkerFrame ==
  ASSUME TypeOK, NEW w \in Workers, WorkerStep(w)
  PROVE  Moves(w) /\ th'[w].pc \notin Carrying /\ no' = no
<1>w. w \in Threads /\ th \in [Threads -> ThreadRecords] /\ th[w] \in ThreadRecords
  BY DEF Threads, TypeOK
<1>1. ASSUME NEW a \in Actors, Pick(w, a) PROVE Moves(w) /\ th'[w].pc = "claim"
  BY <1>w, <1>1 DEF Pick, Moves, ThreadRecords
<1>2. CASE ClaimFails(w) \/ PopNone(w) \/ ReturnGone(w) \/ Return(w) \/ TakePanics(w)
           \/ Requeue(w) \/ Exit(w)
  <2>1. ASSUME NEW label \in {"idle", "settle", "panicked", "putback", "exited"},
               Goto(w, label)
        PROVE  Moves(w) /\ th'[w].pc \notin Carrying
    BY <1>w, <2>1, GotoFrame DEF Moves, Carrying
  <2> QED
    BY <1>2, <2>1 DEF ClaimFails, PopNone, ReturnGone, Return, TakePanics, Requeue,
                      Exit, outside
<1>3. CASE Claim(w)
  BY <1>w, <1>3 DEF Claim, Moves, ThreadRecords, Carrying, outside
<1>4. CASE TakeStopping(w)
  BY <1>w, <1>4 DEF TakeStopping, Moves, ThreadRecords, Carrying, outside
<1>5. CASE Take(w)
  BY <1>w, <1>5 DEF Take, Moves, ThreadRecords, Carrying, outside
<1>7. CASE Pop(w)
  BY <1>w, <1>7 DEF Pop, Moves, ThreadRecords, Carrying, outside
<1>9. CASE HandlerContinues(w)
  BY <1>w, <1>9 DEF HandlerContinues, Moves, ThreadRecords, Carrying, outside
<1>10. ASSUME NEW tag \in {"stop", "crash"}, HandlerEnds(w, tag)
       PROVE  Moves(w) /\ th'[w].pc \notin Carrying /\ no' = no
  BY <1>w, <1>10 DEF HandlerEnds, Moves, ThreadRecords, Carrying, outside
<1>11. CASE Settle(w)
  BY <1>w, <1>11 DEF Settle, Moves, ThreadRecords, Carrying, outside
<1>13. CASE ReturnCrashed(w)
  BY <1>w, <1>13 DEF ReturnCrashed, Moves, ThreadRecords, Carrying, outside
<1>15. CASE PutBack(w)
  BY <1>w, <1>15 DEF PutBack, Moves, ThreadRecords, Carrying, outside
<1>16. ASSUME NEW a \in Actors, Pick(w, a) PROVE th'[w].pc \notin Carrying /\ no' = no
  BY <1>1, <1>16 DEF Pick, Carrying, outside
<1> QED
  BY <1>1, <1>2, <1>3, <1>4, <1>5, <1>7, <1>9, <1>10, <1>11, <1>13, <1>15, <1>16
  DEF WorkerStep

LEMMA CrashFrame ==
  ASSUME TypeOK, NEW t \in Threads, CrashStep(t)
  PROVE  Moves(t) /\ ~At(t, "idle") /\ th'[t].pc \notin Carrying /\ no' = no
<1>t. th \in [Threads -> ThreadRecords] /\ th[t] \in ThreadRecords
  BY DEF TypeOK
<1>1. ASSUME NEW elapsed \in BOOLEAN, Decide(t, elapsed)
      PROVE  Moves(t) /\ ~At(t, "idle") /\ th'[t].pc \notin Carrying /\ no' = no
  BY <1>t, <1>1 DEF Decide, At, Moves, ThreadRecords, Carrying, outside
<1>2. ASSUME NEW v \in Actors, NEW starts \in BOOLEAN, Rebuild(t, v, starts)
      PROVE  Moves(t) /\ ~At(t, "idle") /\ th'[t].pc \notin Carrying /\ no' = no
  BY <1>t, <1>2 DEF Rebuild, At, Moves, ThreadRecords, Carrying, outside
<1>3. CASE Remove(t)
  BY <1>t, <1>3 DEF Remove, At, Moves, ThreadRecords, Carrying, outside
<1>4. ASSUME NEW label \in {"idle", "unregister", "panicked", "aborted", "after", "rebuild"},
             Goto(t, label)
      PROVE  Moves(t) /\ th'[t].pc \notin Carrying
  BY <1>t, <1>4, GotoFrame DEF Moves, Carrying
<1>5. CASE Insert(t) \/ Dispose(t) \/ Unregister(t) \/ PoisonSpreads(t) \/ AfterCrash(t)
  BY <1>4, <1>5 DEF Insert, Dispose, Unregister, PoisonSpreads, AfterCrash, AfterVictim,
                    At, outside
<1> QED
  BY <1>1, <1>2, <1>3, <1>5 DEF CrashStep

LEMMA CallFrame ==
  ASSUME TypeOK, NEW c \in Clients, CallStep(c)
  PROVE  /\ Moves(c) /\ ~At(c, "idle") /\ no' = no
         /\ th'[c].pc \in Carrying => th[c].pc \in Carrying /\ th'[c].msg = th[c].msg
<1>c. c \in Threads /\ th \in [Threads -> ThreadRecords] /\ th[c] \in ThreadRecords
  BY DEF Threads, TypeOK
<1>1. ASSUME NEW label \in {"idle", "await", "notify"}, Goto(c, label)
      PROVE  Moves(c) /\ th'[c].pc \notin Carrying
  BY <1>c, <1>1, GotoFrame DEF Moves, Carrying
<1>2. ASSUME NEW label \in Carrying, Goto(c, label)
      PROVE  Moves(c) /\ th'[c].msg = th[c].msg
  BY ZenonT(40), <1>c, <1>2, GotoFrame DEF Moves, Carrying, ThreadRecords
<1>3. CASE Push(c) \/ Notify(c) \/ AskReturns(c) \/ Finish(c)
  BY <1>1, <1>3 DEF Push, Notify, AskReturns, Finish, At, outside
<1>4. CASE Swap(c) \/ CheckEmpty(c) \/ GiveUp(c) \/ Fallback(c)
  BY <1>2, <1>4 DEF Swap, CheckEmpty, GiveUp, Fallback, At, Carrying, outside
<1>5. CASE TryLock(c)
  BY <1>c, <1>5 DEF TryLock, At, Moves, ThreadRecords, Carrying, outside
<1>6. CASE FastReturns(c)
  BY <1>c, <1>6 DEF FastReturns, At, Moves, ThreadRecords, Carrying, outside
<1>7. CASE FastCrashes(c)
  BY <1>c, <1>7 DEF FastCrashes, At, Moves, ThreadRecords, Carrying, outside
<1> QED
  BY <1>3, <1>4, <1>5, <1>6, <1>7 DEF CallStep

(* The strengthening is kept by every step. *)
LEMMA CarryingStep ==
  ASSUME TypeInv, [Next]_vars
  PROVE  CarriesMessage' /\ HasNumbered'
<1> USE DEF TypeInv, CarriesMessage, HasNumbered, At
<1>0. Workers \cap Clients = {}
  BY ThreadAssumption
<1>1. ASSUME NEW w \in Workers, WorkerStep(w) PROVE CarriesMessage' /\ HasNumbered'
  BY <1>0, <1>1, WorkerFrame DEF Moves, Threads
<1>2. ASSUME NEW t \in Threads, CrashStep(t) PROVE CarriesMessage' /\ HasNumbered'
  BY <1>2, CrashFrame DEF Moves, Threads
<1>3. ASSUME NEW c \in Clients, CallStep(c) PROVE CarriesMessage' /\ HasNumbered'
  BY <1>3, CallFrame DEF Moves, Threads
<1>4. ASSUME NEW c \in Clients, NEW a \in Actors, NEW tag \in {"send", "ask"}, Call(c, a, tag)
      PROVE  CarriesMessage' /\ HasNumbered'
  <2>1. c \in Threads /\ th \in [Threads -> ThreadRecords] /\ th[c] \in ThreadRecords
    BY DEF Threads, TypeOK
  <2>2. Moves(c) /\ th'[c].msg = Message(c)
    BY <1>4, <2>1 DEF Call, Moves, ThreadRecords
  <2>3. Message(c) \in Messages
    BY MessageType DEF Senders
  <2>4. no \in [Senders -> Nat] /\ no' = [no EXCEPT ![c] = @ + 1]
    BY <1>4 DEF TypeOK, Call
  <2>5. CarriesMessage'
    BY <2>2, <2>3 DEF Moves
  <2>6. no'[c] # 0 /\ \A d \in Clients \ {c} : no'[d] = no[d]
    BY <2>4 DEF Senders
  <2> QED
    BY <2>2, <2>5, <2>6 DEF Moves, Threads
<1>5. ASSUME NEW t \in Threads, NEW b \in Actors, Forward(t, b)
      PROVE  CarriesMessage' /\ HasNumbered'
  <2>1. th' = th /\ no \in [Senders -> Nat] /\ th[t].act \in Actors
        /\ no' = [no EXCEPT ![th[t].act] = @ + 1]
    BY <1>5, LocalsType DEF TypeOK, Forward
  <2>2. \A c \in Clients : no'[c] = no[c]
    BY <2>1, ThreadAssumption DEF Senders
  <2> QED
    BY <2>1, <2>2
<1>6. CASE th' = th /\ no' = no
  BY <1>6
<1>7. ASSUME NEW c \in Clients, ClientChoice(c) PROVE CarriesMessage' /\ HasNumbered'
  BY <1>4, <1>6, <1>7 DEF ClientChoice, Resolve, RequestStop, outside
<1>8. ASSUME NEW t \in Threads, HandlerChoice(t) PROVE CarriesMessage' /\ HasNumbered'
  BY <1>5, <1>6, <1>8 DEF HandlerChoice, RequestStop, outside
<1>9. CASE StopAll \/ ShutdownStep \/ Rest \/ UNCHANGED vars
  BY <1>6, <1>9 DEF StopAll, ShutdownStep, JoinWorkers, StopActor, ClearRegistry, Rest,
                    outside, vars
<1> QED
  BY <1>1, <1>2, <1>3, <1>7, <1>8, <1>9 DEF Next

LEMMA TypeStep == TypeInv /\ [Next]_vars => TypeInv'
<1> SUFFICES ASSUME TypeInv, [Next]_vars PROVE TypeOK'
  BY CarryingStep DEF TypeInv
<1>1. TypeOK /\ CarriesMessage /\ HasNumbered
  BY DEF TypeInv
<1>2. CASE Rest \/ UNCHANGED vars
  BY <1>1, <1>2 DEF TypeOK, Rest, vars, registry, supervisor, scheduler, outside, history
<1> QED
  BY <1>1, <1>2, WorkerType, CrashType, CallType, ChoiceType, ShutdownType
  DEF Next, Threads

(* Every variable keeps its type: no mailbox grows past its capacity, no     *)
(* thread leaves its program, whatever the constants are.                    *)
THEOREM TypeCorrect == Spec => []TypeOK
<1>1. Init => TypeInv
  <2> SUFFICES ASSUME Init PROVE TypeInv
    OBVIOUS
  <2>1. \A t \in Threads : th[t].pc = "idle"
    BY DEF Init, IdleThread
  <2> QED
    BY <2>1, InitType DEF TypeInv, CarriesMessage, Carrying, HasNumbered, At, Threads
<1> QED
  BY <1>1, TypeStep, PTL DEF Spec, TypeInv

----------------------------------------------------------------------------
(* Single access: with actors restarted one by one, the swap of running    *)
(* admits one thread at a time into an actor, whatever the numbers of      *)
(* actors, workers, callers and restarts.                                  *)
(*                                                                         *)
(* A step keeps AccessInv in one of five ways: its thread stays where it   *)
(* was with respect to the actor (Keeps), enters it (Enters), lets it go   *)
(* (Leaves), replaces its handle (Insert), or no thread moves (Stays).     *)

SameRunning == \A h \in Handles : handle'[h].running = handle[h].running

RegistryKept ==
  /\ top' = top /\ ref' = ref
  /\ \A a \in Actors : reg'[a] \in {0, reg[a]}

Stays == th' = th /\ SameRunning /\ top' = top
         /\ (\A a \in Actors : reg'[a] \in {0, reg[a]})
         /\ (\A c \in Clients : \A a \in Actors : ref'[c][a] <= top[a])

Keeps(t) ==
  /\ Moves(t) /\ SameRunning /\ RegistryKept
  /\ Inside(t)' => /\ Inside(t)
                   /\ th'[t].act = th[t].act /\ th'[t].gen = th[t].gen
  /\ At(t, "swap")' => th'[t].gen <= top[th'[t].act]
  /\ RestartsItself(t)'

(* the handle t works on is the newest, and running goes from f to ~f *)
Flips(t, h, f) ==
  /\ h \in Handles /\ h[2] = top[h[1]]
  /\ handle[h].running = f /\ handle'[h].running = ~f
  /\ \A k \in Handles \ {h} : handle'[k].running = handle[k].running

Enters(t) ==
  /\ Moves(t) /\ RegistryKept
  /\ Flips(t, <<th'[t].act, th'[t].gen>>, FALSE)
  /\ th'[t].pc \in {"take", "check"} /\ RestartsItself(t)'

Leaves(t) ==
  /\ Moves(t) /\ RegistryKept /\ Inside(t) /\ ~Inside(t)'
  /\ Flips(t, Own(t), TRUE)
  /\ ~At(t, "swap")' /\ RestartsItself(t)'

LEMMA StaysAccess ==
  ASSUME TypeOK, AccessInv, Stays
  PROVE  AccessInv'
<1>o. \A t \in Threads : Own(t) \in Handles
  BY LocalsType
<1>1. SingleAccess'
  BY DEF AccessInv, SingleAccess, Stays, Inside
<1>2. (\A t \in Threads : Inside(t) => HoldsNewest(t))'
  BY <1>o DEF AccessInv, Stays, SameRunning, Inside, HoldsNewest, Own
<1>3. (\A t \in Threads : At(t, "swap") => th[t].gen <= top[th[t].act])'
  BY DEF AccessInv, Stays, At
<1>4. (\A t \in Threads : RestartsItself(t))'
  BY DEF AccessInv, Stays, RestartsItself, At
<1>5. (\A h \in Handles : h[2] < top[h[1]] => handle[h].running)'
  BY DEF AccessInv, Stays, SameRunning
<1>6. (\A a \in Actors : reg[a] \in {0, top[a]})'
  BY DEF AccessInv, Stays
<1>7. (\A c \in Clients : \A a \in Actors : ref[c][a] <= top[a])'
  BY DEF AccessInv, Stays
<1> QED
  BY <1>1, <1>2, <1>3, <1>4, <1>5, <1>6, <1>7 DEF AccessInv

LEMMA KeepsAccess ==
  ASSUME TypeOK, AccessInv, NEW t \in Threads, Keeps(t)
  PROVE  AccessInv'
<1>o. \A u \in Threads : Own(u) \in Handles
  BY LocalsType
<1>i. \A u \in Threads :
        Inside(u)' => /\ Inside(u) /\ th'[u].act = th[u].act /\ th'[u].gen = th[u].gen
                      /\ Own(u)' = Own(u)
  BY DEF Keeps, Moves, Inside, Own
<1>1. SingleAccess'
  BY <1>i DEF AccessInv, SingleAccess
<1>2. (\A u \in Threads : Inside(u) => HoldsNewest(u))'
  BY <1>o, <1>i DEF AccessInv, Keeps, RegistryKept, SameRunning, HoldsNewest
<1>3. (\A u \in Threads : At(u, "swap") => th[u].gen <= top[th[u].act])'
  BY DEF AccessInv, Keeps, RegistryKept, Moves, At
<1>4. (\A u \in Threads : RestartsItself(u))'
  BY DEF AccessInv, Keeps, Moves, RestartsItself, At
<1>5. (\A h \in Handles : h[2] < top[h[1]] => handle[h].running)'
  BY DEF AccessInv, Keeps, RegistryKept, SameRunning
<1>6. (\A a \in Actors : reg[a] \in {0, top[a]})'
  BY DEF AccessInv, Keeps, RegistryKept
<1>7. (\A c \in Clients : \A a \in Actors : ref[c][a] <= top[a])'
  BY DEF AccessInv, Keeps, RegistryKept
<1> QED
  BY <1>1, <1>2, <1>3, <1>4, <1>5, <1>6, <1>7 DEF AccessInv

LEMMA EntersAccess ==
  ASSUME TypeOK, AccessInv, NEW t \in Threads, Enters(t)
  PROVE  AccessInv'
<1> DEFINE h == <<th'[t].act, th'[t].gen>>
<1>o. \A u \in Threads : Own(u) \in Handles
  BY LocalsType
<1>h. h \in Handles /\ h[2] = top[h[1]] /\ ~handle[h].running /\ handle'[h].running
      /\ \A k \in Handles \ {h} : handle'[k].running = handle[k].running
  BY DEF Enters, Flips
<1>i. \A u \in Threads \ {t} :
        Inside(u)' => /\ Inside(u) /\ th'[u].act = th[u].act /\ th'[u].gen = th[u].gen
                      /\ Own(u)' = Own(u) /\ th[u].act # h[1]
  <2> SUFFICES ASSUME NEW u \in Threads \ {t}, Inside(u)'
               PROVE  Inside(u) /\ th'[u] = th[u] /\ th[u].act # h[1]
    BY DEF Own
  <2>1. th'[u] = th[u] /\ Inside(u)
    BY DEF Enters, Moves, Inside
  <2>2. th[u].gen = top[th[u].act] /\ handle[<<th[u].act, th[u].gen>>].running
    BY <2>1 DEF AccessInv, HoldsNewest, Own
  <2> QED
    BY <1>h, <2>1, <2>2
<1>1. SingleAccess'
  BY <1>i DEF AccessInv, SingleAccess
<1>2. (\A u \in Threads : Inside(u) => HoldsNewest(u))'
  BY <1>o, <1>i, <1>h DEF AccessInv, Enters, RegistryKept, HoldsNewest, Own
<1>3. (\A u \in Threads : At(u, "swap") => th[u].gen <= top[th[u].act])'
  BY DEF AccessInv, Enters, RegistryKept, Moves, At
<1>4. (\A u \in Threads : RestartsItself(u))'
  BY ZenonT(40) DEF AccessInv, Enters, Moves, RestartsItself, At
<1>5. (\A k \in Handles : k[2] < top[k[1]] => handle[k].running)'
  BY <1>h DEF AccessInv, Enters, RegistryKept
<1>6. (\A a \in Actors : reg[a] \in {0, top[a]})'
  BY DEF AccessInv, Enters, RegistryKept
<1>7. (\A c \in Clients : \A a \in Actors : ref[c][a] <= top[a])'
  BY DEF AccessInv, Enters, RegistryKept
<1> QED
  BY <1>1, <1>2, <1>3, <1>4, <1>5, <1>6, <1>7 DEF AccessInv

LEMMA LeavesAccess ==
  ASSUME TypeOK, AccessInv, NEW t \in Threads, Leaves(t)
  PROVE  AccessInv'
<1> DEFINE h == Own(t)
<1>o. \A u \in Threads : Own(u) \in Handles
  BY LocalsType
<1>h. h \in Handles /\ h[2] = top[h[1]] /\ h[1] = th[t].act
      /\ \A k \in Handles \ {h} : handle'[k].running = handle[k].running
  BY DEF Leaves, Flips, Own
<1>i. \A u \in Threads :
        Inside(u)' => /\ Inside(u) /\ th'[u].act = th[u].act /\ th'[u].gen = th[u].gen
                      /\ Own(u)' = Own(u) /\ Own(u) # h
  BY <1>h DEF Leaves, Moves, Inside, Own, AccessInv, SingleAccess
<1>1. SingleAccess'
  BY <1>i DEF AccessInv, SingleAccess
<1>2. (\A u \in Threads : Inside(u) => HoldsNewest(u))'
  BY <1>o, <1>i, <1>h DEF AccessInv, Leaves, RegistryKept, HoldsNewest
<1>3. (\A u \in Threads : At(u, "swap") => th[u].gen <= top[th[u].act])'
  BY DEF AccessInv, Leaves, RegistryKept, Moves, At
<1>4. (\A u \in Threads : RestartsItself(u))'
  <2>1. \A u \in Threads \ {t} : RestartsItself(u)'
    BY DEF AccessInv, Leaves, Moves, RestartsItself, At
  <2> QED
    BY <2>1 DEF Leaves
<1>5. (\A k \in Handles : k[2] < top[k[1]] => handle[k].running)'
  <2>1. \A k \in Handles : k[2] < top[k[1]] => k # h
    BY <1>h DEF TypeOK, Handles, Gens
  <2> QED
    BY <1>h, <2>1 DEF AccessInv, Leaves, RegistryKept
<1>6. (\A a \in Actors : reg[a] \in {0, top[a]})'
  BY DEF AccessInv, Leaves, RegistryKept
<1>7. (\A c \in Clients : \A a \in Actors : ref[c][a] <= top[a])'
  BY DEF AccessInv, Leaves, RegistryKept
<1> QED
  BY <1>1, <1>2, <1>3, <1>4, <1>5, <1>6, <1>7 DEF AccessInv

(* A restart: the thread inside the actor replaces the actor's handle. *)
LEMMA InsertAccess ==
  ASSUME TypeOK, AccessInv, NEW t \in Threads, Insert(t)
  PROVE  AccessInv'
<1> DEFINE v == th[t].act
             g == top[v] + 1
<1>o. \A u \in Threads : Own(u) \in Handles /\ th[u].act \in Actors
  BY LocalsType
<1>t. Inside(t) /\ th[t].gen = top[v] /\ handle[<<v, top[v]>>].running
      /\ th[t].tgt = v /\ th[t].todo = {}
  BY <1>o DEF AccessInv, RestartsItself, HoldsNewest, Inside, InsidePCs, Insert, At, Own
<1>n. /\ top \in [Actors -> Gens] /\ reg \in [Actors -> 0..MaxGen] /\ v \in Actors
      /\ g \in Gens /\ <<v, g>> \in Handles /\ handle \in [Handles -> HandleRecords]
      /\ th \in [Threads -> ThreadRecords]
  <2>1. v \in Actors /\ top[v] < MaxGen
    BY <1>o, <1>t DEF Insert
  <2>2. top[v] \in 1..MaxGen
    BY <2>1 DEF TypeOK, Gens
  <2>3. g \in Gens
    BY <2>1, <2>2, BoundAssumption DEF Gens
  <2> QED
    BY <2>1, <2>3 DEF TypeOK, Handles
<1>g. /\ Goto(t, "after") /\ ref' = ref
      /\ top' = [top EXCEPT ![v] = g] /\ reg' = [reg EXCEPT ![v] = g]
      /\ \A k \in Handles \ {<<v, g>>} : handle'[k] = handle[k]
  BY <1>t, <1>n DEF Insert, AfterVictim, outside
<1>m. Moves(t) /\ th'[t] = [th[t] EXCEPT !.pc = "after"] /\ th'[t].pc = "after"
  BY <1>g, <1>n, GotoFrame DEF Moves
<1>i. \A u \in Threads :
        Inside(u)' => /\ Inside(u) /\ th'[u] = th[u]
                      /\ Own(u)' = Own(u) /\ th[u].act # v
  BY <1>m, <1>t DEF Moves, Inside, InsidePCs, Own, AccessInv, SingleAccess
<1>1. SingleAccess'
  BY <1>i DEF AccessInv, SingleAccess
<1>2. (\A u \in Threads : Inside(u) => HoldsNewest(u))'
  <2> SUFFICES ASSUME NEW u \in Threads, Inside(u)' PROVE HoldsNewest(u)'
    OBVIOUS
  <2>1. Inside(u) /\ th'[u] = th[u] /\ Own(u)' = Own(u) /\ th[u].act # v
    BY <1>i
  <2>2. Own(u) \in Handles /\ Own(u) # <<v, g>>
    BY <1>o, <2>1 DEF Own
  <2> QED
    BY <1>g, <1>n, <1>o, <2>1, <2>2 DEF AccessInv, HoldsNewest
<1>3. (\A u \in Threads : At(u, "swap") => th[u].gen <= top[th[u].act])'
  <2> SUFFICES ASSUME NEW u \in Threads, th'[u].pc = "swap"
               PROVE  th'[u].gen <= top'[th'[u].act]
    BY DEF At
  <2>1. th'[u] = th[u] /\ th[u].gen <= top[th[u].act] /\ th[u].gen \in Gens
    BY <1>m, LocalsType DEF AccessInv, Moves, At
  <2> QED
    BY <1>g, <1>n, <1>o, <2>1 DEF Gens
<1>4. (\A u \in Threads : RestartsItself(u))'
  <2>1. th'[t].todo = {}
    BY <1>m, <1>t, <1>n DEF ThreadRecords
  <2> QED
    BY ZenonT(40), <1>m, <2>1 DEF AccessInv, Moves, RestartsItself, At
<1>5. (\A k \in Handles : k[2] < top[k[1]] => handle[k].running)'
  <2> SUFFICES ASSUME NEW k \in Handles, k[2] < top'[k[1]]
               PROVE  handle'[k].running
    OBVIOUS
  <2>1. k # <<v, g>>
    BY <1>g, <1>n DEF Gens
  <2>2. CASE k[2] < top[k[1]]
    BY <1>g, <2>1, <2>2 DEF AccessInv
  <2>3. CASE ~(k[2] < top[k[1]])
    <3>1. k = <<v, top[v]>>
      BY <2>3, <1>g, <1>n DEF Handles, Gens
    <3> QED
      BY <3>1, <1>t, <1>g, <2>1
  <2> QED
    BY <2>2, <2>3
<1>6. (\A a \in Actors : reg[a] \in {0, top[a]})'
  BY <1>g, <1>n DEF AccessInv
<1>7. (\A c \in Clients : \A a \in Actors : ref[c][a] <= top[a])'
  <2>1. \A a \in Actors : top[a] <= top'[a] /\ top[a] \in Int /\ top'[a] \in Int
    BY <1>g, <1>n DEF Gens
  <2>2. \A c \in Clients : \A a \in Actors : ref[c][a] \in Int
    BY DEF TypeOK, Gens
  <2> QED
    BY <1>g, <2>1, <2>2 DEF AccessInv
<1> QED
  BY <1>1, <1>2, <1>3, <1>4, <1>5, <1>6, <1>7 DEF AccessInv

-----------------------------------------------------------------------------
(* A thread that goes on without entering or leaving keeps AccessInv. *)
LEMMA GotoAccess ==
  ASSUME TypeOK, AccessInv, NEW t \in Threads, NEW label, Goto(t, label),
         SameRunning, RegistryKept, ~At(t, "rebuild"),
         label \notin {"rebuild", "insert", "swap"}, label \in InsidePCs => Inside(t)
  PROVE  AccessInv'
<1>t. th \in [Threads -> ThreadRecords] /\ th[t] \in ThreadRecords
  BY DEF TypeOK
<1>1. CASE label = "idle"
  <2>1. Moves(t) /\ th'[t] = IdleThread
    BY <1>t, <1>1, GotoFrame DEF Moves
  <2>2. IdleThread.pc = "idle" /\ IdleThread.todo = {}
    BY DEF IdleThread
  <2> QED
    BY <2>1, <2>2, KeepsAccess DEF Keeps, Inside, InsidePCs, RestartsItself, At
<1>2. CASE label # "idle"
  <2>1. Moves(t) /\ th'[t] = [th[t] EXCEPT !.pc = label]
    BY <1>t, <1>2, GotoFrame DEF Moves
  <2>2. /\ th'[t].pc = label /\ th'[t].todo = th[t].todo
        /\ th'[t].act = th[t].act /\ th'[t].gen = th[t].gen
    BY <1>t, <2>1 DEF ThreadRecords
  <2>3. th[t].todo = {}
    BY DEF AccessInv, RestartsItself
  <2> QED
    BY <2>1, <2>2, <2>3, KeepsAccess DEF Keeps, Inside, RestartsItself, At
<1> QED
  BY <1>1, <1>2

LEMMA WorkerAccess ==
  ASSUME TypeOK, AccessInv, NEW w \in Workers, WorkerStep(w)
  PROVE  AccessInv'
<1>w. w \in Threads /\ th \in [Threads -> ThreadRecords] /\ th[w] \in ThreadRecords
  BY DEF Threads, TypeOK
<1>h. /\ handle \in [Handles -> HandleRecords] /\ Own(w) \in Handles
      /\ \A h \in Handles : handle[h] \in HandleRecords
  BY <1>w, LocalsType DEF TypeOK
<1>a. th[w].act \in Actors
  BY <1>w, LocalsType
<1>e. ~At(w, "rebuild") => th[w].todo = {}
  BY <1>w DEF AccessInv, RestartsItself
<1>1. ASSUME NEW a \in Actors, Pick(w, a) PROVE AccessInv'
  <2>1. Moves(w) /\ th'[w].pc = "claim" /\ th'[w].todo = th[w].todo
    BY <1>w, <1>1 DEF Pick, Moves, ThreadRecords
  <2>2. Keeps(w)
    BY <1>1, <1>e, <2>1
    DEF Pick, Keeps, SameRunning, RegistryKept, registry, outside, Inside, InsidePCs,
        RestartsItself, At
  <2> QED
    BY <1>w, <2>2, KeepsAccess
<1>2. CASE ClaimFails(w) \/ PopNone(w) \/ ReturnGone(w) \/ Requeue(w) \/ Exit(w)
  <2>1. SameRunning /\ RegistryKept /\ ~At(w, "rebuild")
    BY <1>2 DEF ClaimFails, PopNone, ReturnGone, Requeue, Exit, SameRunning, RegistryKept,
                registry, outside, At
  <2>2. Goto(w, "idle") \/ Goto(w, "exited") \/ (Goto(w, "settle") /\ Inside(w))
    BY <1>2 DEF ClaimFails, PopNone, ReturnGone, Requeue, Exit, Inside, InsidePCs, At
  <2> QED
    BY <1>w, <2>1, <2>2, GotoAccess DEF InsidePCs
<1>3. CASE Claim(w)
  <2> DEFINE a == th[w].act
  <2>1. /\ Moves(w) /\ th'[w].pc = "take" /\ th'[w].todo = {}
        /\ th'[w].act = a /\ th'[w].gen = reg[a]
    BY <1>w, <1>3, <1>e DEF Claim, Moves, ThreadRecords, At
  <2>2. Cur(a) \in Handles /\ reg[a] = top[a]
    BY <1>3, <1>a, CurType DEF Claim, AccessInv
  <2>3. Flips(w, Cur(a), FALSE)
    BY <1>3, <1>h, <2>2 DEF Claim, Flips, HandleRecords, Cur
  <2>4. Enters(w)
    BY <1>3, <2>1, <2>3
    DEF Claim, Enters, RegistryKept, registry, outside, Cur, RestartsItself, At
  <2> QED
    BY <1>w, <2>4, EntersAccess
<1>4. CASE TakeStopping(w)
  <2>1. Moves(w) /\ th'[w].pc = "remove" /\ th'[w].todo = {}
    BY <1>w, <1>4, <1>e DEF TakeStopping, Moves, ThreadRecords, At
  <2>2. Inside(w) /\ th[w].gen = top[th[w].act] /\ handle[Own(w)].running
    BY <1>w, <1>4 DEF TakeStopping, Inside, InsidePCs, At, AccessInv, HoldsNewest
  <2>3. Flips(w, Own(w), TRUE)
    BY <1>4, <1>h, <2>2 DEF TakeStopping, Flips, HandleRecords, Own
  <2>4. Leaves(w)
    BY <1>4, <2>1, <2>2, <2>3
    DEF TakeStopping, Leaves, RegistryKept, registry, outside, Inside, InsidePCs,
        RestartsItself, At
  <2> QED
    BY <1>w, <2>4, LeavesAccess
<1>5. CASE Take(w)
  <2>1. /\ Moves(w) /\ th'[w].pc = "pop" /\ th'[w].todo = {}
        /\ th'[w].act = th[w].act /\ th'[w].gen = th[w].gen
    BY <1>w, <1>5, <1>e DEF Take, Moves, ThreadRecords, At
  <2>2. SameRunning
    BY <1>5, <1>h DEF Take, SameRunning, HandleRecords
  <2>3. Keeps(w)
    BY <1>5, <2>1, <2>2
    DEF Take, Keeps, RegistryKept, registry, outside, Inside, InsidePCs, RestartsItself, At
  <2> QED
    BY <1>w, <2>3, KeepsAccess
<1>6. CASE TakePanics(w)
  <2>1. SameRunning
    BY <1>6, <1>h DEF TakePanics, SameRunning, HandleRecords
  <2>2. RegistryKept /\ Goto(w, "panicked") /\ ~At(w, "rebuild")
    BY <1>6 DEF TakePanics, RegistryKept, registry, outside, At
  <2> QED
    BY <1>w, <2>1, <2>2, GotoAccess DEF InsidePCs
<1>7. CASE Pop(w) \/ HandlerContinues(w) \/ Settle(w)
  <2>1. /\ Moves(w) /\ th'[w].pc \in {"pop", "handling", "settle", "return"}
        /\ th'[w].todo = {}
        /\ th'[w].act = th[w].act /\ th'[w].gen = th[w].gen
    BY SMTT(30), <1>w, <1>7, <1>e DEF Pop, HandlerContinues, Settle, Moves, ThreadRecords, At
  <2>2. Keeps(w)
    BY <1>7, <2>1
    DEF Pop, HandlerContinues, Settle, Keeps, SameRunning, RegistryKept, registry, outside,
        Inside, InsidePCs, RestartsItself, At
  <2> QED
    BY <1>w, <2>2, KeepsAccess
<1>8. ASSUME NEW tag \in {"stop", "crash"}, HandlerEnds(w, tag) PROVE AccessInv'
  <2>1. /\ Moves(w) /\ th'[w].pc = "settle" /\ th'[w].todo = {}
        /\ th'[w].act = th[w].act /\ th'[w].gen = th[w].gen
    BY <1>w, <1>8, <1>e DEF HandlerEnds, Moves, ThreadRecords, At
  <2>2. Keeps(w)
    BY <1>8, <2>1
    DEF HandlerEnds, Keeps, SameRunning, RegistryKept, registry, outside,
        Inside, InsidePCs, RestartsItself, At
  <2> QED
    BY <1>w, <2>2, KeepsAccess
<1>9. CASE ReturnCrashed(w)
  <2>1. /\ Moves(w) /\ th'[w].pc = "decide" /\ th'[w].todo = {}
        /\ th'[w].act = th[w].act /\ th'[w].gen = th[w].gen
    BY <1>w, <1>9, <1>e DEF ReturnCrashed, Moves, ThreadRecords, At
  <2>2. SameRunning
    BY <1>9, <1>h DEF ReturnCrashed, SameRunning, HandleRecords
  <2>3. Keeps(w)
    BY <1>9, <2>1, <2>2
    DEF ReturnCrashed, Keeps, RegistryKept, registry, outside, Inside, InsidePCs,
        RestartsItself, At
  <2> QED
    BY <1>w, <2>3, KeepsAccess
<1>10. CASE Return(w)
  <2>1. Moves(w) /\ th'[w].pc = "putback" /\ th'[w].todo = {}
    <3>1. Moves(w) /\ th'[w] = [th[w] EXCEPT !.pc = "putback"]
      BY <1>w, <1>10, GotoFrame DEF Return, Moves
    <3> QED
      BY <1>w, <1>10, <1>e, <3>1 DEF Return, ThreadRecords, At
  <2>2. Inside(w) /\ th[w].gen = top[th[w].act] /\ handle[Own(w)].running
    BY <1>w, <1>10 DEF Return, Inside, InsidePCs, At, AccessInv, HoldsNewest
  <2>3. Cur(th[w].act) = Own(w)
    BY <1>10, <1>a, <2>2 DEF Return, Cur, Own, AccessInv
  <2>4. Flips(w, Own(w), TRUE)
    BY <1>10, <1>h, <2>2, <2>3 DEF Return, Flips, HandleRecords, Own
  <2>5. Leaves(w)
    BY <1>10, <2>1, <2>2, <2>4
    DEF Return, Leaves, RegistryKept, registry, outside, Inside, InsidePCs,
        RestartsItself, At
  <2> QED
    BY <1>w, <2>5, LeavesAccess
<1>11. CASE PutBack(w)
  <2>1. Moves(w) /\ th'[w].pc \in {"remove", "requeue"} /\ th'[w].todo = {}
    BY <1>w, <1>11, <1>e DEF PutBack, Moves, ThreadRecords, At
  <2>2. SameRunning
    BY <1>11, <1>h DEF PutBack, SameRunning, HandleRecords
  <2>3. Keeps(w)
    BY <1>11, <2>1, <2>2
    DEF PutBack, Keeps, RegistryKept, registry, outside, Inside, InsidePCs,
        RestartsItself, At
  <2> QED
    BY <1>w, <2>3, KeepsAccess
<1> QED
  BY <1>1, <1>2, <1>3, <1>4, <1>5, <1>6, <1>7, <1>8, <1>9, <1>10, <1>11 DEF WorkerStep

LEMMA CrashAccess ==
  ASSUME Strategy = "OneForOne", TypeOK, AccessInv, NEW t \in Threads, CrashStep(t)
  PROVE  AccessInv'
<1>t. th \in [Threads -> ThreadRecords] /\ th[t] \in ThreadRecords
  BY DEF TypeOK
<1>h. handle \in [Handles -> HandleRecords] /\ \A h \in Handles : handle[h] \in HandleRecords
  BY DEF TypeOK
<1>r. RestartsItself(t)
  BY DEF AccessInv
<1>1. ASSUME NEW elapsed \in BOOLEAN, Decide(t, elapsed) PROVE AccessInv'
  <2>1. /\ Moves(t) /\ th'[t].act = th[t].act /\ th'[t].gen = th[t].gen
        /\ \/ th'[t].pc = "rebuild" /\ th'[t].todo = Victims(th[t].act)
           \/ th'[t].pc = "remove" /\ th'[t].todo = {}
    BY <1>t, <1>1 DEF Decide, Moves, ThreadRecords
  <2>2. Victims(th[t].act) = {th[t].act}
    BY DEF Victims
  <2>3. Keeps(t)
    BY <1>1, <2>1, <2>2
    DEF Decide, Keeps, SameRunning, RegistryKept, registry, outside, Inside, InsidePCs,
        RestartsItself, At
  <2> QED
    BY <2>3, KeepsAccess
<1>2. ASSUME NEW v \in Actors, NEW starts \in BOOLEAN, Rebuild(t, v, starts) PROVE AccessInv'
  <2>1. v = th[t].act /\ th[t].todo \ {v} = {}
    BY <1>2, <1>r DEF Rebuild, IsNext, RestartsItself
  <2>2. /\ Moves(t) /\ th'[t].act = th[t].act /\ th'[t].gen = th[t].gen
        /\ th'[t].pc \in {"insert", "remove"} /\ th'[t].tgt = v
        /\ th'[t].todo = th[t].todo \ {v}
    BY <1>t, <1>2 DEF Rebuild, Moves, ThreadRecords
  <2>3. Keeps(t)
    BY <1>2, <2>1, <2>2
    DEF Rebuild, Keeps, SameRunning, RegistryKept, registry, outside, Inside, InsidePCs,
        RestartsItself, At
  <2> QED
    BY <2>3, KeepsAccess
<1>3. CASE Insert(t)
  BY <1>3, InsertAccess
<1>4. CASE Remove(t)
  <2>1. /\ Moves(t) /\ th'[t].pc \in {"unregister", "dispose"} /\ th'[t].todo = {}
    BY <1>t, <1>r, <1>4 DEF Remove, Moves, ThreadRecords, RestartsItself, At
  <2>2. SameRunning
    BY <1>4, <1>h DEF Remove, SameRunning, HandleRecords
  <2>3. RegistryKept
    BY <1>4 DEF Remove, RegistryKept, outside, TypeOK
  <2>4. Keeps(t)
    BY <2>1, <2>2, <2>3 DEF Keeps, Inside, InsidePCs, RestartsItself, At
  <2> QED
    BY <2>4, KeepsAccess
<1>5. CASE Dispose(t)
  <2>1. SameRunning
    BY <1>5, <1>h DEF Dispose, OnStop, SameRunning, HandleRecords
  <2>2. RegistryKept /\ Goto(t, "unregister") /\ ~At(t, "rebuild")
    BY <1>5 DEF Dispose, RegistryKept, registry, outside, At
  <2> QED
    BY <2>1, <2>2, GotoAccess DEF InsidePCs
<1>6. CASE Unregister(t)
  <2>1. th[t].todo = {}
    BY <1>6, <1>r DEF Unregister, RestartsItself, At
  <2>2. SameRunning /\ RegistryKept /\ ~At(t, "rebuild")
    BY <1>6 DEF Unregister, SameRunning, RegistryKept, registry, outside, At
  <2>3. Goto(t, "after") \/ Goto(t, "idle")
    BY <1>6, <2>1 DEF Unregister, AfterVictim
  <2> QED
    BY <2>2, <2>3, GotoAccess DEF InsidePCs
<1>7. CASE PoisonSpreads(t) \/ AfterCrash(t)
  <2>1. SameRunning /\ RegistryKept /\ ~At(t, "rebuild")
    BY <1>7 DEF PoisonSpreads, AfterCrash, SameRunning, RegistryKept, registry, outside, At
  <2>2. Goto(t, "panicked") \/ Goto(t, "aborted") \/ Goto(t, "idle")
    BY <1>7 DEF PoisonSpreads, AfterCrash
  <2> QED
    BY <2>1, <2>2, GotoAccess DEF InsidePCs
<1> QED
  BY <1>1, <1>2, <1>3, <1>4, <1>5, <1>6, <1>7 DEF CrashStep

LEMMA CallAccess ==
  ASSUME TypeOK, AccessInv, NEW c \in Clients, CallStep(c)
  PROVE  AccessInv'
<1>c. c \in Threads /\ th \in [Threads -> ThreadRecords] /\ th[c] \in ThreadRecords
  BY DEF Threads, TypeOK
<1>h. /\ handle \in [Handles -> HandleRecords] /\ Own(c) \in Handles
      /\ \A h \in Handles : handle[h] \in HandleRecords
  BY <1>c, LocalsType DEF TypeOK
<1>r. ~At(c, "rebuild") => th[c].todo = {}
  BY <1>c DEF AccessInv, RestartsItself
<1>1. CASE Push(c) \/ Notify(c) \/ AskReturns(c)
  <2>1. SameRunning /\ RegistryKept /\ ~At(c, "rebuild")
    BY <1>1 DEF Push, Notify, AskReturns, SameRunning, RegistryKept, registry, outside, At
  <2>2. Goto(c, "idle") \/ Goto(c, "notify") \/ Goto(c, "await")
    BY <1>1 DEF Push, Notify, AskReturns
  <2> QED
    BY <1>c, <2>1, <2>2, GotoAccess DEF InsidePCs
<1>2. CASE Swap(c) /\ handle[Own(c)].running
  <2>1. SameRunning
    BY <1>2, <1>h DEF Swap, SameRunning, HandleRecords
  <2>2. RegistryKept /\ Goto(c, "push") /\ ~At(c, "rebuild")
    BY <1>2 DEF Swap, RegistryKept, registry, outside, At
  <2> QED
    BY <1>c, <2>1, <2>2, GotoAccess DEF InsidePCs
<1>3. CASE Swap(c) /\ ~handle[Own(c)].running
  <2>1. Moves(c) /\ th'[c] = [th[c] EXCEPT !.pc = "check"]
    BY <1>c, <1>3, GotoFrame DEF Swap, Moves
  <2>2. /\ th'[c].pc = "check" /\ th'[c].todo = {}
        /\ th'[c].act = th[c].act /\ th'[c].gen = th[c].gen
    BY <1>c, <1>3, <1>r, <2>1 DEF Swap, ThreadRecords, At
  <2>3. th[c].gen = top[th[c].act]
    <3>1. th[c].gen <= top[th[c].act] /\ ~(th[c].gen < top[th[c].act])
      BY <1>c, <1>3, <1>h DEF Swap, AccessInv, Own
    <3>2. th[c].gen \in Int /\ top[th[c].act] \in Int
      BY SMTT(20), <1>c, LocalsType DEF TypeOK, Gens
    <3> QED
      BY <3>1, <3>2
  <2>4. Flips(c, Own(c), FALSE)
    BY <1>3, <1>h, <2>3 DEF Swap, Flips, HandleRecords, Own
  <2>5. Enters(c)
    BY <1>3, <2>1, <2>2, <2>4
    DEF Swap, Enters, RegistryKept, registry, outside, Own, RestartsItself, At
  <2> QED
    BY <1>c, <2>5, EntersAccess
<1>4. CASE CheckEmpty(c)
  <2>1. SameRunning /\ RegistryKept /\ ~At(c, "rebuild") /\ Inside(c)
    BY <1>4 DEF CheckEmpty, SameRunning, RegistryKept, registry, outside, At, Inside, InsidePCs
  <2>2. Goto(c, "trylock") \/ Goto(c, "giveup")
    BY <1>4 DEF CheckEmpty
  <2> QED
    BY <1>c, <2>1, <2>2, GotoAccess DEF InsidePCs
<1>5. CASE TryLock(c) \/ FastCrashes(c)
  <2>1. /\ Moves(c) /\ th'[c].pc \in {"handling", "giveup", "decide"} /\ th'[c].todo = {}
        /\ th'[c].act = th[c].act /\ th'[c].gen = th[c].gen
    BY <1>c, <1>5, <1>r DEF TryLock, FastCrashes, Moves, ThreadRecords, At
  <2>2. SameRunning
    BY <1>5, <1>h DEF TryLock, FastCrashes, SameRunning, HandleRecords
  <2>3. Keeps(c)
    BY <1>5, <2>1, <2>2
    DEF TryLock, FastCrashes, Keeps, RegistryKept, registry, outside, Inside, InsidePCs,
        RestartsItself, At
  <2> QED
    BY <1>c, <2>3, KeepsAccess
<1>6. CASE GiveUp(c) \/ FastReturns(c)
  <2>1. Moves(c) /\ th'[c].pc \in {"fallback", "finish"} /\ th'[c].todo = {}
    <3>1. CASE GiveUp(c)
      <4>1. Moves(c) /\ th'[c] = [th[c] EXCEPT !.pc = "fallback"]
        BY <1>c, <3>1, GotoFrame DEF GiveUp, Moves
      <4> QED
        BY <1>c, <3>1, <1>r, <4>1 DEF GiveUp, ThreadRecords, At
    <3>2. CASE FastReturns(c)
      BY <1>c, <3>2, <1>r DEF FastReturns, Moves, ThreadRecords, At
    <3> QED
      BY <1>6, <3>1, <3>2
  <2>2. Inside(c) /\ th[c].gen = top[th[c].act] /\ handle[Own(c)].running
    BY <1>c, <1>6 DEF GiveUp, FastReturns, Inside, InsidePCs, At, AccessInv, HoldsNewest
  <2>3. Flips(c, Own(c), TRUE)
    <3>1. handle' = [handle EXCEPT ![Own(c)].running = FALSE]
      BY <1>6 DEF GiveUp, FastReturns
    <3> QED
      BY <1>h, <2>2, <3>1 DEF Flips, HandleRecords, Own
  <2>4. Leaves(c)
    BY <1>6, <2>1, <2>2, <2>3
    DEF GiveUp, FastReturns, Leaves, RegistryKept, registry, outside, Inside, InsidePCs,
        RestartsItself, At
  <2> QED
    BY <1>c, <2>4, LeavesAccess
<1>7. CASE Fallback(c) \/ Finish(c)
  <2>1. SameRunning
    BY <1>7, <1>h DEF Fallback, Finish, Unlock, SameRunning, HandleRecords
  <2>2. RegistryKept /\ (Goto(c, "push") \/ Goto(c, "idle")) /\ ~At(c, "rebuild")
    BY <1>7 DEF Fallback, Finish, RegistryKept, registry, outside, At
  <2> QED
    BY <1>c, <2>1, <2>2, GotoAccess DEF InsidePCs
<1> QED
  BY <1>1, <1>2, <1>3, <1>4, <1>5, <1>6, <1>7 DEF CallStep

(* The other steps let no thread into an actor or out of it. *)
LEMMA OtherAccess ==
  ASSUME TypeOK, AccessInv,
         \/ \E c \in Clients : ClientChoice(c)
         \/ \E t \in Threads : HandlerChoice(t)
         \/ StopAll \/ ShutdownStep \/ Rest \/ UNCHANGED vars
  PROVE  AccessInv'
<1>h. /\ handle \in [Handles -> HandleRecords]
      /\ \A h \in Handles : handle[h] \in HandleRecords
  BY DEF TypeOK
<1>r. \A c \in Clients : \A a \in Actors : ref[c][a] <= top[a]
  BY DEF AccessInv
<1>1. ASSUME NEW c \in Clients, NEW a \in Actors, NEW tag \in {"send", "ask"}, Call(c, a, tag)
      PROVE  AccessInv'
  <2>1. c \in Threads /\ th \in [Threads -> ThreadRecords] /\ th[c] \in ThreadRecords
    BY DEF Threads, TypeOK
  <2>2. /\ Moves(c) /\ th'[c].pc \in {"swap", "push"} /\ th'[c].todo = {}
        /\ th'[c].act = a /\ th'[c].gen = ref[c][a]
    BY <1>1, <2>1 DEF Call, Moves, ThreadRecords, At, AccessInv, RestartsItself
  <2>3. Keeps(c)
    BY <1>1, <1>r, <2>2
    DEF Call, Keeps, SameRunning, RegistryKept, registry, Inside, InsidePCs,
        RestartsItself, At
  <2> QED
    BY <2>1, <2>3, KeepsAccess
<1>2. ASSUME NEW c \in Clients, NEW a \in Actors, Resolve(c, a) PROVE AccessInv'
  <2>1. reg[a] = top[a] /\ top[a] \in Int
    BY <1>2 DEF Resolve, AccessInv, TypeOK, Gens
  <2>2. \A d \in Clients : \A b \in Actors : ref'[d][b] <= top[b]
    BY <1>2, <1>r, <2>1 DEF Resolve, TypeOK
  <2> QED
    BY <1>2, <2>2, StaysAccess DEF Resolve, Stays, SameRunning, registry
<1>3. ASSUME NEW a \in Actors, RequestStop(a) PROVE AccessInv'
  <2>1. SameRunning
    BY <1>3, <1>h DEF RequestStop, SameRunning, HandleRecords
  <2> QED
    BY <1>3, <1>r, <2>1, StaysAccess DEF RequestStop, Stays, registry, outside
<1>4. ASSUME NEW t \in Threads, NEW b \in Actors, Forward(t, b) PROVE AccessInv'
  BY <1>4, <1>r, StaysAccess DEF Forward, Stays, SameRunning, registry
<1>5. CASE StopAll \/ JoinWorkers
  BY <1>5, <1>r, StaysAccess DEF StopAll, JoinWorkers, Stays, SameRunning, registry
<1>6. ASSUME NEW a \in Actors, StopActor(a) PROVE AccessInv'
  <2>1. SameRunning
    BY <1>6, <1>h DEF StopActor, OnStop, SameRunning, HandleRecords
  <2> QED
    BY <1>6, <1>r, <2>1, StaysAccess DEF StopActor, Stays, registry, outside
<1>7. CASE ClearRegistry
  <2>1. SameRunning
    BY <1>7, <1>h DEF ClearRegistry, SameRunning, HandleRecords
  <2> QED
    BY <1>7, <1>r, <2>1, StaysAccess DEF ClearRegistry, Stays
<1>8. CASE Rest \/ UNCHANGED vars
  BY <1>8, <1>r, StaysAccess DEF Rest, Stays, SameRunning, vars, registry, outside
<1>9. CASE \E c \in Clients : ClientChoice(c)
  BY <1>1, <1>2, <1>3, <1>9 DEF ClientChoice
<1>10. CASE \E t \in Threads : HandlerChoice(t)
  BY <1>3, <1>4, <1>10, LocalsType DEF HandlerChoice
<1> QED
  BY <1>5, <1>6, <1>7, <1>8, <1>9, <1>10 DEF ShutdownStep

LEMMA AccessStep ==
  ASSUME Strategy = "OneForOne", TypeOK, AccessInv, [Next]_vars
  PROVE  AccessInv'
  BY WorkerAccess, CrashAccess, CallAccess, OtherAccess DEF Next

LEMMA InitAccess == Init => AccessInv
<1> SUFFICES ASSUME Init PROVE AccessInv
  OBVIOUS
<1>1. IdleThread.pc = "idle" /\ IdleThread.todo = {}
  BY DEF IdleThread
<1>2. \A t \in Threads : th[t].pc = "idle" /\ th[t].todo = {}
  BY <1>1 DEF Init
<1>3. \A h \in Handles : ~(h[2] < 1)
  BY DEF Handles, Gens
<1>4. \A h \in Handles : h[1] \in Actors
  BY DEF Handles
<1>5. \A h \in Handles : ~(h[2] < top[h[1]])
  BY <1>3, <1>4 DEF Init
<1>6. \A t \in Threads : ~Inside(t) /\ ~At(t, "swap") /\ RestartsItself(t)
  BY <1>2 DEF Inside, InsidePCs, RestartsItself, At
<1>7. /\ \A a \in Actors : reg[a] \in {0, top[a]}
      /\ \A c \in Clients : \A a \in Actors : ref[c][a] <= top[a]
  BY DEF Init
<1> QED
  BY <1>5, <1>6, <1>7 DEF AccessInv, SingleAccess

(* With actors restarted one by one, AccessInv holds in every state ... *)
THEOREM AccessInvariant == Strategy = "OneForOne" => (Spec => []AccessInv)
<1> SUFFICES ASSUME Strategy = "OneForOne" PROVE Spec => []AccessInv
  OBVIOUS
<1>1. TypeOK /\ AccessInv /\ [Next]_vars => AccessInv'
  BY AccessStep
<1> QED
  BY <1>1, InitAccess, TypeCorrect, PTL DEF Spec

(* ... hence at most one thread is inside an actor ... *)
THEOREM SingleAccessHolds == Strategy = "OneForOne" => (Spec => []SingleAccess)
<1>1. AccessInv => SingleAccess
  BY DEF AccessInv
<1> QED
  BY <1>1, AccessInvariant, PTL

(* ... and its handler is run by one thread at a time. *)
THEOREM MutualExclusionHolds == Strategy = "OneForOne" => (Spec => []MutualExclusion)
<1>1. SingleAccess => MutualExclusion
  BY DEF SingleAccess, MutualExclusion, Inside, InsidePCs, At
<1> QED
  BY <1>1, SingleAccessHolds, PTL

-----------------------------------------------------------------------------
(***************************************************************************)
(* Where the state objects are.  With actors restarted one by one, the     *)
(* state of an incarnation is in the slot of its own handle, in the hands  *)
(* of the one worker that took it, or dead; StateInv says so, and says of  *)
(* whom a free handle is owed its state.  It rests on the single access    *)
(* proved above.  From it: process_actor's expect never fails, no          *)
(* mutex is poisoned, a handler runs on the newest state and never on one  *)
(* that crashed or was stopped.                                            *)
(*                                                                         *)
(* A step keeps StateInv in one of six ways: no thread moves               *)
(* (UnmovedState), its thread goes on without touching a state             *)
(* (QuietState, GotoState), it takes or lets go running (SlotsKept), it    *)
(* changes one slot (SlotChanged, OwnSlotChanged), or it changes what is   *)
(* registered (RegistryChanged).  Shutdown's steps come last.              *)
(***************************************************************************)

(* A worker has the state in hand; a client works on it where it is.       *)
InHand == {"pop", "handling", "settle", "return", "putback"}
(* A caller inside the actor, before the handler and in it.                *)
Calling == {"check", "trylock", "giveup", "handling"}

(* A worker at take is sure of the state; one that has it in hand left the  *)
(* slot empty; one about to put it back finds its own handle registered and *)
(* nobody else on the way in.                                               *)
WorkerOk(w) ==
  /\ At(w, "take") => handle[Own(w)].slot = th[w].gen /\ reg[th[w].act] = th[w].gen
  /\ th[w].pc \in InHand => handle[Own(w)].slot = 0 /\ th[w].inc = th[w].gen /\ Retired(w) \notin dead
  /\ At(w, "putback") =>
       /\ reg[th[w].act] = th[w].gen
       /\ \A v \in Workers \ {w} : th[v].act = th[w].act => th[v].pc \notin InHand \cup {"take"}
  /\ phase \in {"cleanup", "down"} => At(w, "exited")

(* A caller in the handler has the mutex, and the state stays in the slot.  *)
ClientOk(c) ==
  At(c, "handling") =>
    th[c].inc = th[c].gen /\ handle[Own(c)].slot = th[c].gen /\ handle[Own(c)].lock = c

(* A removed handle is not registered again. *)
ThreadOk(t) ==
  /\ th[t].pc \notin {"panicked", "aborted"}
  /\ At(t, "putback") => t \in Workers
  /\ At(t, "dispose") => th[t].aux \notin {0, reg[th[t].tgt]} /\ th[t].aux <= top[th[t].tgt]

(* A slot holds the handle's own state or none, and no dead one.            *)
HandleOk(h) ==
  /\ handle[h].slot \in {0, h[2]}
  /\ handle[h].lock \notin Workers
  /\ <<h[1], handle[h].slot>> \notin dead

(* The handle has its state, or a worker is about to put it back.          *)
HasState(a) ==
  handle[Cur(a)].slot = reg[a] \/ \E w \in Workers : At(w, "putback") /\ th[w].act = a

(* Whoever wins the swap of running, or has won it as a caller, finds it.   *)
StateFound(a) ==
  /\ phase \in {"up", "stopping"} /\ reg[a] # 0
  /\ ~handle[Cur(a)].running \/ \E c \in Clients : th[c].pc \in Calling /\ Own(c) = Cur(a)
  => HasState(a)

DeadOk == \A d \in dead : d[1] \in Actors /\ d[2] \in Gens /\ d[2] <= top[d[1]]

StateInv ==
  /\ \A t \in Threads : ThreadOk(t)
  /\ \A w \in Workers : WorkerOk(w)
  /\ \A c \in Clients : ClientOk(c)
  /\ \A h \in Handles : HandleOk(h)
  /\ \A a \in Actors : StateFound(a)
  /\ DeadOk

-----------------------------------------------------------------------------
(* What a step of t must leave alone for the other threads. *)
SparesOthers(t) ==
  /\ \A u \in Workers \ {t} : th[u].pc \in InHand \cup {"take"} => handle'[Own(u)].slot = handle[Own(u)].slot
  /\ \A u \in Clients \ {t} : At(u, "handling") =>
       handle'[Own(u)].slot = handle[Own(u)].slot /\ handle'[Own(u)].lock = handle[Own(u)].lock
  /\ \A u \in Workers \ {t} : At(u, "take") \/ At(u, "putback") => reg'[th[u].act] = reg[th[u].act]
  /\ \A u \in Threads \ {t} : At(u, "dispose") => reg'[th[u].tgt] # th[u].aux
  /\ \A u \in Threads \ {t} : At(u, "dispose") => top'[th[u].tgt] >= top[th[u].tgt]
  /\ \A u \in Workers \ {t} : th[u].pc \in InHand /\ Retired(u) \in dead' => Retired(u) \in dead

(* ... and then they are as they were. *)
LEMMA OthersState ==
  ASSUME TypeOK, TypeOK', StateInv, NEW t \in Threads, Moves(t), SparesOthers(t), phase' = phase,
         t \in Workers => \A u \in Workers \ {t} :
           At(u, "putback") /\ th[u].act = th'[t].act => th'[t].pc \notin InHand \cup {"take"}
  PROVE  /\ \A u \in Threads \ {t} : ThreadOk(u)'
         /\ \A u \in Workers \ {t} : WorkerOk(u)'
         /\ \A u \in Clients \ {t} : ClientOk(u)'
<1>m. \A u \in Threads \ {t} : th'[u] = th[u] /\ Own(u)' = Own(u) /\ Retired(u)' = Retired(u)
  BY DEF Moves, Own, Retired
<1>1. ASSUME NEW u \in Threads \ {t} PROVE ThreadOk(u)'
  <2>1. ThreadOk(u) /\ th'[u] = th[u] /\ th[u].tgt \in Actors /\ th[u].aux \in Int
    BY <1>m, LocalsType DEF StateInv
  <2>2. top[th[u].tgt] \in Int /\ top'[th[u].tgt] \in Int
    BY <2>1 DEF TypeOK, Gens
  <2> QED
    BY <2>1, <2>2 DEF ThreadOk, At, SparesOthers
<1>2. ASSUME NEW u \in Workers \ {t} PROVE WorkerOk(u)'
  <2>1. WorkerOk(u) /\ th'[u] = th[u] /\ Own(u)' = Own(u) /\ Retired(u)' = Retired(u)
    BY <1>m DEF StateInv, Threads
  <2>2. At(u, "take")' => handle'[Own(u)'].slot = th'[u].gen /\ reg'[th'[u].act] = th'[u].gen
    BY <2>1 DEF WorkerOk, SparesOthers, At
  <2>3. th'[u].pc \in InHand =>
          handle'[Own(u)'].slot = 0 /\ th'[u].inc = th'[u].gen /\ Retired(u)' \notin dead'
    BY <2>1 DEF WorkerOk, SparesOthers
  <2>4. At(u, "putback")' =>
          /\ reg'[th'[u].act] = th'[u].gen
          /\ \A v \in Workers \ {u} : th'[v].act = th'[u].act => th'[v].pc \notin InHand \cup {"take"}
    <3> SUFFICES ASSUME At(u, "putback")
                 PROVE  /\ reg'[th[u].act] = th[u].gen
                        /\ \A v \in Workers \ {u} : th'[v].act = th[u].act => th'[v].pc \notin InHand \cup {"take"}
      BY <2>1 DEF At
    <3>1. reg'[th[u].act] = th[u].gen
      BY <2>1 DEF WorkerOk, SparesOthers
    <3>2. ASSUME NEW v \in Workers \ {u}, th'[v].act = th[u].act PROVE th'[v].pc \notin InHand \cup {"take"}
      <4>1. CASE v = t
        BY <3>2, <4>1
      <4>2. CASE v # t
        BY <1>m, <2>1, <3>2, <4>2 DEF WorkerOk, Threads
      <4> QED
        BY <4>1, <4>2
    <3> QED
      BY <3>1, <3>2
  <2>5. phase' \in {"cleanup", "down"} => At(u, "exited")'
    BY <2>1 DEF WorkerOk, At
  <2> QED
    BY <2>2, <2>3, <2>4, <2>5 DEF WorkerOk
<1>3. ASSUME NEW u \in Clients \ {t} PROVE ClientOk(u)'
  <2>1. ClientOk(u) /\ th'[u] = th[u] /\ Own(u)' = Own(u)
    BY <1>m DEF StateInv, Threads
  <2> QED
    BY <2>1 DEF ClientOk, SparesOthers, At
<1> QED
  BY <1>1, <1>2, <1>3

(* t's own part, after its step. *)
OwnOk(t) == ThreadOk(t) /\ (t \in Workers => WorkerOk(t)) /\ (t \in Clients => ClientOk(t))

LEMMA FromParts ==
  ASSUME NEW t \in Threads, OwnOk(t)',
         \A u \in Threads \ {t} : ThreadOk(u)', \A u \in Workers \ {t} : WorkerOk(u)',
         \A u \in Clients \ {t} : ClientOk(u)',
         \A h \in Handles : HandleOk(h)', \A a \in Actors : StateFound(a)', DeadOk'
  PROVE  StateInv'
BY DEF StateInv, OwnOk

-----------------------------------------------------------------------------
(* Steps that move no state: every slot stays as it is. *)
SameSlots == \A h \in Handles : handle'[h].slot = handle[h].slot
(* t may take a free lock of a handle or release its own. *)
LocksBy(t) ==
  \A h \in Handles :
    \/ handle'[h].lock = handle[h].lock
    \/ handle[h].lock \in {NoThread, t} /\ handle'[h].lock \in {NoThread} \cup Clients

(* The handle registered for a is as free, and as much used by t, as before. *)
ReachedAsBefore(t, a) ==
  /\ handle'[Cur(a)].running = handle[Cur(a)].running
  /\ t \in Clients /\ th'[t].pc \in Calling /\ Own(t)' = Cur(a) => th[t].pc \in Calling /\ Own(t) = Cur(a)

LEMMA SlotsKept ==
  ASSUME TypeOK, TypeOK', StateInv, NEW t \in Threads, Moves(t), SameSlots, LocksBy(t),
         UNCHANGED <<reg, top, dead, phase>>, OwnOk(t)',
         t \in Workers => \A u \in Workers \ {t} :
           At(u, "putback") /\ th[u].act = th'[t].act => th'[t].pc \notin InHand \cup {"take"},
         At(t, "putback") => th'[t] = th[t],
         \A a \in Actors : reg[a] # 0 /\ phase \in {"up", "stopping"} =>
           HasState(a) \/ HasState(a)' \/ ReachedAsBefore(t, a)
  PROVE  StateInv'
<1>o. \A u \in Threads : Own(u) \in Handles
  BY LocalsType
<1>0. NoThread \notin Clients \cup Workers /\ Workers \cap Clients = {}
  BY ThreadAssumption
<1>1. SparesOthers(t)
  <2>1. \A u \in Clients \ {t} : At(u, "handling") => handle'[Own(u)].lock = handle[Own(u)].lock
    <3> SUFFICES ASSUME NEW u \in Clients \ {t}, At(u, "handling") PROVE handle'[Own(u)].lock = handle[Own(u)].lock
      OBVIOUS
    <3>1. handle[Own(u)].lock = u /\ Own(u) \in Handles
      BY <1>o DEF StateInv, ClientOk, Threads
    <3> QED
      BY <1>0, <3>1 DEF LocksBy
  <2>2. \A u \in Threads : At(u, "dispose") => reg[th[u].tgt] # th[u].aux
    BY DEF StateInv, ThreadOk
  <2>3. \A u \in Threads : top[th[u].tgt] \in Int
    <3>1. \A u \in Threads : th[u].tgt \in Actors
      BY LocalsType
    <3> QED
      BY <3>1 DEF TypeOK, Gens
  <2> QED
    BY <1>o, <2>1, <2>2, <2>3 DEF SparesOthers, SameSlots, Threads
<1>2. \A h \in Handles : HandleOk(h)'
  BY <1>0 DEF StateInv, HandleOk, SameSlots, LocksBy
<1>3. DeadOk'
  BY DEF StateInv, DeadOk
<1>4. ASSUME NEW a \in Actors PROVE StateFound(a)'
  <2>0. Cur(a)' = Cur(a)
    BY DEF Cur
  <2> SUFFICES ASSUME phase \in {"up", "stopping"}, reg[a] # 0, ~HasState(a)',
                      \/ ~handle'[Cur(a)].running
                      \/ \E c \in Clients : th'[c].pc \in Calling /\ Own(c)' = Cur(a)
               PROVE  FALSE
    BY <2>0 DEF StateFound
  <2>1. Cur(a) \in Handles
    BY CurType
  <2>2. ~HasState(a)
    <3>1. handle[Cur(a)].slot # reg[a]
      BY <2>0, <2>1 DEF HasState, SameSlots
    <3>2. ASSUME NEW w \in Workers, At(w, "putback"), th[w].act = a PROVE FALSE
      <4>1. CASE w # t
        BY <3>2, <4>1 DEF HasState, At, Moves, Threads
      <4>2. CASE w = t
        BY <3>2, <4>2 DEF HasState, At
      <4> QED
        BY <4>1, <4>2
    <3> QED
      BY <3>1, <3>2 DEF HasState
  <2>3. handle'[Cur(a)].running = handle[Cur(a)].running
        /\ (t \in Clients /\ th'[t].pc \in Calling /\ Own(t)' = Cur(a) => th[t].pc \in Calling /\ Own(t) = Cur(a))
    BY <2>2 DEF ReachedAsBefore
  <2>4. \A c \in Clients : th'[c].pc \in Calling /\ Own(c)' = Cur(a) => th[c].pc \in Calling /\ Own(c) = Cur(a)
    <3> SUFFICES ASSUME NEW c \in Clients, th'[c].pc \in Calling, Own(c)' = Cur(a)
                 PROVE  th[c].pc \in Calling /\ Own(c) = Cur(a)
      OBVIOUS
    <3>1. CASE c = t
      BY <2>3, <3>1
    <3>2. CASE c # t
      BY <3>2 DEF Moves, Threads, Own
    <3> QED
      BY <3>1, <3>2
  <2>5. ~handle[Cur(a)].running \/ \E c \in Clients : th[c].pc \in Calling /\ Own(c) = Cur(a)
    BY <2>3, <2>4
  <2>6. StateFound(a)
    BY DEF StateInv
  <2> QED
    BY <2>2, <2>5, <2>6 DEF StateFound
<1> QED
  BY <1>1, <1>2, <1>3, <1>4, OthersState, FromParts

(* ... by a thread that goes on without taking, returning or losing a state. *)
Quietly(t) ==
  /\ Moves(t) /\ SameSlots /\ LocksBy(t) /\ SameRunning /\ UNCHANGED <<reg, top, dead, phase>>
  /\ th[t].pc \notin {"putback", "exited"}
  /\ th'[t].pc \notin {"panicked", "aborted", "take", "putback", "dispose"}
  /\ t \in Workers /\ th'[t].pc \in InHand =>
       /\ th[t].pc \in InHand
       /\ th'[t].act = th[t].act /\ th'[t].gen = th[t].gen /\ th'[t].inc = th[t].inc
  /\ t \in Clients => /\ th'[t].pc # "handling"
                      /\ th'[t].pc \in Calling =>
                           th[t].pc \in Calling /\ th'[t].act = th[t].act /\ th'[t].gen = th[t].gen

LEMMA QuietState ==
  ASSUME TypeOK, TypeOK', StateInv, NEW t \in Threads, Quietly(t)
  PROVE  StateInv'
<1>o. Own(t) \in Handles /\ \A a \in Actors : reg[a] # 0 => Cur(a) \in Handles
  BY LocalsType, CurType
<1>1. ThreadOk(t)'
  BY DEF Quietly, ThreadOk, At
<1>2. ASSUME t \in Workers PROVE WorkerOk(t)'
  <2>1. WorkerOk(t)
    BY <1>2 DEF StateInv
  <2>2. phase' \notin {"cleanup", "down"}
    BY <2>1 DEF WorkerOk, Quietly, At
  <2>3. th'[t].pc \in InHand => Own(t)' = Own(t) /\ Retired(t)' = Retired(t) /\ th[t].pc \in InHand
    BY <1>2 DEF Quietly, Own, Retired
  <2>4. th'[t].pc \in InHand =>
          handle'[Own(t)'].slot = 0 /\ th'[t].inc = th'[t].gen /\ Retired(t)' \notin dead'
    BY <1>2, <1>o, <2>1, <2>3 DEF WorkerOk, Quietly, SameSlots
  <2> QED
    BY <2>2, <2>4 DEF WorkerOk, Quietly, At
<1>3. ASSUME t \in Clients PROVE ClientOk(t)'
  BY <1>3 DEF ClientOk, Quietly, At
<1>4. t \in Workers => \A u \in Workers \ {t} :
        At(u, "putback") /\ th[u].act = th'[t].act => th'[t].pc \notin InHand \cup {"take"}
  <2> SUFFICES ASSUME NEW u \in Workers \ {t}, At(u, "putback"), th[u].act = th'[t].act, th'[t].pc \in InHand,
                      t \in Workers
               PROVE  FALSE
    BY DEF Quietly
  <2>1. WorkerOk(u) /\ th[t].pc \in InHand /\ th[t].act = th[u].act
    BY DEF StateInv, Quietly
  <2> QED
    BY <2>1 DEF WorkerOk
<1>5. OwnOk(t)'
  BY <1>1, <1>2, <1>3 DEF OwnOk
<1>6. ASSUME NEW a \in Actors, reg[a] # 0 PROVE ReachedAsBefore(t, a)
  BY <1>o, <1>6 DEF Quietly, SameRunning, Own, ReachedAsBefore
<1> QED
  BY <1>4, <1>5, <1>6, SlotsKept DEF Quietly, At

(* Steps in which no thread moves. *)
LEMMA UnmovedState ==
  ASSUME TypeOK, TypeOK', StateInv, th' = th, SameSlots, SameRunning,
         \A h \in Handles : handle'[h].lock = handle[h].lock,
         UNCHANGED <<reg, top, dead>>,
         phase' \in {phase, "stopping", "cleanup"},
         phase' = "stopping" => phase = "up" \/ phase = "stopping",
         phase' = "cleanup" => phase = "cleanup" \/ \A w \in Workers : At(w, "exited")
  PROVE  StateInv'
<1>o. \A u \in Threads : Own(u) \in Handles /\ Own(u)' = Own(u) /\ Retired(u)' = Retired(u)
  BY LocalsType DEF Own, Retired
<1>c. \A a \in Actors : Cur(a)' = Cur(a) /\ (reg[a] # 0 => Cur(a) \in Handles)
  BY CurType DEF Cur
<1>1. \A u \in Threads : ThreadOk(u)'
  BY DEF StateInv, ThreadOk, At
<1>2. \A w \in Workers : WorkerOk(w)'
  BY <1>o DEF StateInv, WorkerOk, At, Threads, SameSlots
<1>3. \A c \in Clients : ClientOk(c)'
  BY <1>o DEF StateInv, ClientOk, At, Threads, SameSlots
<1>4. \A h \in Handles : HandleOk(h)'
  BY DEF StateInv, HandleOk, SameSlots
<1>5. \A a \in Actors : StateFound(a)'
  <2> SUFFICES ASSUME NEW a \in Actors, phase' \in {"up", "stopping"}, reg[a] # 0,
                      ~handle'[Cur(a)].running \/ \E c \in Clients : th'[c].pc \in Calling /\ Own(c)' = Cur(a)
               PROVE  HasState(a)'
    BY <1>c DEF StateFound
  <2>1. HasState(a)
    BY <1>o, <1>c DEF StateInv, StateFound, SameRunning, Threads
  <2> QED
    BY <1>c, <2>1 DEF HasState, SameSlots, At
<1>6. DeadOk'
  BY DEF StateInv, DeadOk
<1> QED
  BY <1>1, <1>2, <1>3, <1>4, <1>5, <1>6 DEF StateInv

(* A step that puts a state into handle h, takes it out, or ends it. *)
LEMMA SlotChanged ==
  ASSUME TypeOK, TypeOK', StateInv, NEW t \in Threads, Moves(t), NEW h \in Handles,
         \A k \in Handles \ {h} : handle'[k] = handle[k],
         UNCHANGED <<reg, top, phase>>,
         h[2] <= top[h[1]], dead \subseteq dead', dead' \subseteq dead \cup {h},
         HandleOk(h)', OwnOk(t)', t \in Workers => th'[t].pc \notin {"take", "putback"},
         t \in Workers /\ th'[t].pc \in InHand => Own(t)' = h,
         \A u \in Workers \ {t} : th[u].pc \in InHand \cup {"take"} => Own(u) # h,
         \A c \in Clients \ {t} : At(c, "handling") => Own(c) # h,
         \A u \in Workers \ {t} : At(u, "putback") /\ t \in Workers /\ th[u].act = th'[t].act =>
           th'[t].pc \notin InHand,
         t \in Workers /\ At(t, "putback") => Cur(th[t].act) = h,
         t \in Clients => th'[t].pc \notin Calling,
         \A b \in Actors : reg[b] # 0 /\ Cur(b) = h => StateFound(b)'
  PROVE  StateInv'
<1>o. \A u \in Threads : Own(u) \in Handles
  BY LocalsType
<1>h. h[1] \in Actors /\ h[2] \in Gens /\ h = <<h[1], h[2]>> /\ 0 \notin Gens
  BY DEF Handles, Gens
<1>1. SparesOthers(t)
  <2>1. \A u \in Workers \ {t} : th[u].pc \in InHand \cup {"take"} => handle'[Own(u)] = handle[Own(u)]
    BY <1>o DEF Threads
  <2>2. \A c \in Clients \ {t} : At(c, "handling") => handle'[Own(c)] = handle[Own(c)]
    BY <1>o DEF Threads
  <2>3. \A u \in Threads : At(u, "dispose") => reg[th[u].tgt] # th[u].aux
    BY DEF StateInv, ThreadOk
  <2>4. \A u \in Threads : top[th[u].tgt] \in Int
    <3>1. \A u \in Threads : th[u].tgt \in Actors
      BY LocalsType
    <3> QED
      BY <3>1 DEF TypeOK, Gens
  <2>5. \A u \in Workers \ {t} : th[u].pc \in InHand => Retired(u) = Own(u) /\ Own(u) # h
    BY DEF StateInv, WorkerOk, Retired, Own
  <2> QED
    BY <2>1, <2>2, <2>3, <2>4, <2>5 DEF SparesOthers
<1>2. \A k \in Handles : HandleOk(k)'
  <2> SUFFICES ASSUME NEW k \in Handles \ {h} PROVE HandleOk(k)'
    OBVIOUS
  <2>1. HandleOk(k) /\ handle'[k] = handle[k] /\ k = <<k[1], k[2]>>
    BY DEF StateInv, Handles
  <2>2. <<k[1], handle[k].slot>> # h
    BY <1>h, <2>1 DEF HandleOk
  <2> QED
    BY <2>1, <2>2 DEF HandleOk
<1>3. DeadOk'
  BY <1>h DEF StateInv, DeadOk
<1>4. ASSUME NEW b \in Actors PROVE StateFound(b)'
  <2>0. Cur(b)' = Cur(b)
    BY DEF Cur
  <2>1. CASE reg[b] = 0
    BY <2>1 DEF StateFound
  <2>2. CASE reg[b] # 0 /\ Cur(b) = h
    BY <2>2
  <2>3. CASE reg[b] # 0 /\ Cur(b) # h
    <3>1. handle'[Cur(b)] = handle[Cur(b)]
      BY <2>3, CurType
    <3>2. \A c \in Clients : th'[c].pc \in Calling /\ Own(c)' = Cur(b) => th[c].pc \in Calling /\ Own(c) = Cur(b)
      <4> SUFFICES ASSUME NEW c \in Clients, th'[c].pc \in Calling, Own(c)' = Cur(b)
                   PROVE  th[c].pc \in Calling /\ Own(c) = Cur(b)
        OBVIOUS
      <4>1. c # t
        OBVIOUS
      <4> QED
        BY <4>1 DEF Moves, Threads, Own
    <3>3. HasState(b) => HasState(b)'
      <4> SUFFICES ASSUME NEW w \in Workers, At(w, "putback"), th[w].act = b PROVE At(w, "putback")' /\ th'[w].act = b
        BY <2>0, <3>1 DEF HasState
      <4>1. w # t
        BY <2>3
      <4> QED
        BY <4>1 DEF Moves, Threads, At
    <3>4. StateFound(b)
      BY DEF StateInv
    <3> QED
      BY <2>0, <3>1, <3>2, <3>3, <3>4 DEF StateFound
  <2> QED
    BY <2>1, <2>2, <2>3
<1>5. t \in Workers => \A u \in Workers \ {t} :
        At(u, "putback") /\ th[u].act = th'[t].act => th'[t].pc \notin InHand \cup {"take"}
  OBVIOUS
<1> QED
  BY <1>1, <1>2, <1>3, <1>4, <1>5, OthersState, FromParts

(* Goto, for the labels that promise nothing about the state. *)
LEMMA GotoState ==
  ASSUME TypeOK, TypeOK', StateInv, NEW t \in Threads, NEW label, Goto(t, label),
         SameSlots, LocksBy(t), SameRunning, UNCHANGED <<reg, top, dead, phase>>,
         th[t].pc \notin {"putback", "exited"},
         label \notin {"panicked", "aborted", "take", "putback", "dispose"},
         t \in Workers /\ label \in InHand => th[t].pc \in InHand,
         t \in Clients => label # "handling" /\ (label \in Calling => th[t].pc \in Calling)
  PROVE  StateInv'
<1>1. Moves(t) /\ th'[t].pc = label
  BY GotoFrame DEF Moves, TypeOK
<1>2. CASE label = "idle"
  BY <1>1, <1>2, QuietState DEF Quietly, InHand, Calling
<1>3. CASE label # "idle"
  <2>1. th'[t] = [th[t] EXCEPT !.pc = label] /\ th[t] \in ThreadRecords
    BY <1>3, GotoFrame DEF TypeOK
  <2>2. th'[t].act = th[t].act /\ th'[t].gen = th[t].gen /\ th'[t].inc = th[t].inc
    BY <2>1 DEF ThreadRecords
  <2> QED
    BY <1>1, <2>2, QuietState DEF Quietly
<1> QED
  BY <1>2, <1>3

-----------------------------------------------------------------------------
(* Who is inside an actor has its running flag, and the actor to himself. *)
LEMMA Occupied ==
  ASSUME TypeOK, AccessInv, NEW t \in Threads, Inside(t)
  PROVE  /\ Own(t) \in Handles /\ Own(t) = <<th[t].act, th[t].gen>> /\ th[t].gen = top[th[t].act]
         /\ handle[Own(t)].running
         /\ reg[th[t].act] # 0 => Cur(th[t].act) = Own(t)
         /\ \A u \in Threads \ {t} : th[u].act = th[t].act => ~Inside(u)
<1>1. Own(t) \in Handles /\ th[t].act \in Actors
  BY LocalsType
<1>2. HoldsNewest(t) /\ reg[th[t].act] \in {0, top[th[t].act]}
  BY <1>1 DEF AccessInv
<1>3. \A u \in Threads \ {t} : th[u].act = th[t].act => ~Inside(u)
  BY DEF AccessInv, SingleAccess
<1> QED
  BY <1>1, <1>2, <1>3 DEF HoldsNewest, Own, Cur

(* The handle of an actor with somebody inside owes nobody a state. *)
LEMMA OccupiedOwesNone ==
  ASSUME TypeOK, AccessInv, NEW t \in Threads, Inside(t), Moves(t), reg' = reg,
         handle'[Own(t)].running = handle[Own(t)].running,
         t \in Clients => th'[t].pc \notin Calling,
         NEW b \in Actors, Cur(b) = Own(t)
  PROVE  StateFound(b)'
<1>1. handle'[Own(t)].running /\ \A u \in Threads \ {t} : th[u].act = th[t].act => ~Inside(u)
  BY Occupied
<1>2. Cur(b)' = Own(t)
  BY DEF Cur
<1>3. ASSUME NEW c \in Clients, th'[c].pc \in Calling, Own(c)' = Own(t) PROVE FALSE
  <2>1. c # t
    BY <1>3
  <2>2. th'[c] = th[c]
    BY <2>1 DEF Moves, Threads
  <2>3. th[c].act = th[t].act /\ Inside(c)
    BY <1>3, <2>2 DEF Own, Inside, InsidePCs, Calling
  <2> QED
    BY <1>1, <2>1, <2>3 DEF Threads
<1> QED
  BY <1>1, <1>2, <1>3 DEF StateFound

LEMMA UnmovedHandles ==
  ASSUME handle' = handle, NEW t
  PROVE  SameSlots /\ LocksBy(t) /\ SameRunning
  BY DEF SameSlots, LocksBy, SameRunning

(* Taking the state out, or losing it in a crash: the steps that leave the  *)
(* slot of t's own handle empty.                                            *)
LEMMA OwnSlotChanged ==
  ASSUME TypeOK, TypeOK', AccessInv, StateInv, NEW t \in Threads, Inside(t), Moves(t),
         \A k \in Handles \ {Own(t)} : handle'[k] = handle[k],
         handle'[Own(t)].running = handle[Own(t)].running,
         handle'[Own(t)].slot = 0, handle'[Own(t)].lock \notin Workers,
         UNCHANGED <<reg, top, phase>>, dead \subseteq dead', dead' \subseteq dead \cup {Own(t)},
         OwnOk(t)', Own(t)' = Own(t) \/ th'[t].pc = "idle",
         th'[t].pc \notin {"take", "putback"}, t \in Clients => th'[t].pc \notin Calling,
         \A u \in Workers \ {t} : At(u, "putback") => th[u].act # th[t].act
  PROVE  StateInv'
<1>0. PICK h \in Handles : h = Own(t)
  BY Occupied
<1>1. h = <<th[t].act, th[t].gen>> /\ h[2] <= top[h[1]]
      /\ \A u \in Threads \ {t} : th[u].act = th[t].act => ~Inside(u)
  <2>1. th[t].gen \in Int
    BY LocalsType DEF Gens
  <2> QED
    BY <1>0, <2>1, Occupied
<1>2. \A u \in Workers \ {t} : th[u].pc \in InHand \cup {"take"} => Own(u) # h
  BY <1>0, <1>1 DEF Own, Inside, InsidePCs, InHand, Threads, At
<1>3. \A c \in Clients \ {t} : At(c, "handling") => Own(c) # h
  BY <1>0, <1>1 DEF Own, Inside, InsidePCs, Threads, At
<1>4. \A b \in Actors : reg[b] # 0 /\ Cur(b) = h => StateFound(b)'
  BY <1>0, OccupiedOwesNone
<1>5. \A d \in dead : d[2] \in Gens
  BY DEF StateInv, DeadOk
<1>6. HandleOk(h)'
  <2>1. h[2] \in Gens /\ 0 \notin Gens
    BY <1>1 DEF Handles, Gens
  <2>2. <<h[1], 0>> \notin dead /\ <<h[1], 0>> # h
    BY <1>1, <1>5, <2>1
  <2> QED
    BY <1>0, <2>2 DEF HandleOk
<1>7. t \in Workers /\ th'[t].pc \in InHand => Own(t)' = h
  BY <1>0 DEF InHand
<1>8. \A u \in Workers \ {t} : At(u, "putback") /\ t \in Workers /\ th[u].act = th'[t].act =>
         th'[t].pc \notin InHand
  BY <1>0, <1>1 DEF Own, InHand
<1>9. ~At(t, "putback")
  BY DEF Inside, InsidePCs, At
<1> QED
  BY <1>0, <1>1, <1>2, <1>3, <1>4, <1>6, <1>7, <1>8, <1>9, SlotChanged

-----------------------------------------------------------------------------
(* Each step of a worker in process_actor keeps StateInv. *)
LEMMA ClaimState ==
  ASSUME TypeOK, TypeOK', AccessInv, StateInv, NEW w \in Workers, Claim(w)
  PROVE  StateInv'
<1> DEFINE a == th[w].act
<1>w. w \in Threads /\ th[w] \in ThreadRecords /\ w \notin Clients /\ a \in Actors
      /\ th \in [Threads -> ThreadRecords]
  BY ThreadAssumption, LocalsType DEF Threads, TypeOK
<1>h. handle \in [Handles -> HandleRecords] /\ Cur(a) \in Handles
      /\ \A h \in Handles : handle[h] \in HandleRecords
  BY <1>w, CurType DEF TypeOK, Claim
<1>1. /\ Moves(w) /\ th'[w].pc = "take" /\ th'[w].act = a /\ th'[w].gen = reg[a]
      /\ Own(w)' = Cur(a) /\ At(w, "claim")
  BY <1>w DEF Claim, Moves, ThreadRecords, Own, Cur
<1>2. SameSlots /\ (\A h \in Handles : handle'[h].lock = handle[h].lock)
      /\ \A h \in Handles \ {Cur(a)} : handle'[h] = handle[h]
  BY <1>h DEF Claim, SameSlots, HandleRecords
<1>3. UNCHANGED <<reg, top, dead, phase>>
  BY DEF Claim, registry, outside, history
<1>4. \A u \in Workers : At(u, "putback") => th[u].act # a
  BY DEF Claim, GuardFree, At
<1>5. phase \in {"up", "stopping"}
  BY <1>1 DEF TypeOK, StateInv, WorkerOk, At
<1>6. HasState(a) /\ handle[Cur(a)].slot = reg[a]
  <2>1. StateFound(a)
    BY <1>w DEF StateInv
  <2>2. HasState(a)
    BY <1>5, <2>1 DEF Claim, StateFound
  <2> QED
    BY <1>4, <2>2 DEF HasState
<1>7. OwnOk(w)'
  <2>1. ThreadOk(w)'
    BY <1>1 DEF ThreadOk, At
  <2>2. WorkerOk(w)'
    BY <1>1, <1>2, <1>3, <1>5, <1>6, <1>h DEF WorkerOk, At, SameSlots, InHand
  <2> QED
    BY <1>w, <2>1, <2>2 DEF OwnOk
<1>8. \A b \in Actors : reg[b] # 0 => HasState(b) \/ ReachedAsBefore(w, b)
  <2> SUFFICES ASSUME NEW b \in Actors, reg[b] # 0, b # a PROVE ReachedAsBefore(w, b)
    BY <1>6
  <2>1. Cur(b) \in Handles /\ Cur(b) # Cur(a)
    BY CurType DEF Cur
  <2> QED
    BY <1>w, <1>2, <2>1 DEF ReachedAsBefore
<1>9. LocksBy(w)
  BY <1>2 DEF LocksBy
<1> QED
  BY <1>w, <1>1, <1>2, <1>3, <1>4, <1>7, <1>8, <1>9, SlotsKept DEF At

LEMMA TakeStoppingState ==
  ASSUME TypeOK, TypeOK', AccessInv, StateInv, NEW w \in Workers, TakeStopping(w)
  PROVE  StateInv'
<1> DEFINE a == th[w].act
<1>w. w \in Threads /\ th[w] \in ThreadRecords /\ w \notin Clients /\ a \in Actors
      /\ th \in [Threads -> ThreadRecords]
  BY ThreadAssumption, LocalsType DEF Threads, TypeOK
<1>h. handle \in [Handles -> HandleRecords] /\ Own(w) \in Handles
      /\ \A h \in Handles : handle[h] \in HandleRecords
  BY <1>w, LocalsType DEF TypeOK
<1>1. Moves(w) /\ th'[w].pc = "remove" /\ At(w, "take")
  BY <1>w DEF TakeStopping, Moves, ThreadRecords
<1>2. SameSlots /\ (\A h \in Handles : handle'[h].lock = handle[h].lock)
      /\ \A h \in Handles \ {Own(w)} : handle'[h] = handle[h]
  BY <1>h DEF TakeStopping, SameSlots, HandleRecords
<1>3. UNCHANGED <<reg, top, dead, phase>>
  BY DEF TakeStopping, registry, outside, history
<1>4. WorkerOk(w)
  BY DEF StateInv
<1>5. HasState(a) /\ Own(w) = Cur(a)
  BY <1>1, <1>4 DEF WorkerOk, HasState, Own, Cur
<1>6. OwnOk(w)'
  BY <1>w, <1>1, <1>3, <1>4 DEF OwnOk, ThreadOk, WorkerOk, At, InHand
<1>7. \A b \in Actors : reg[b] # 0 => HasState(b) \/ ReachedAsBefore(w, b)
  <2> SUFFICES ASSUME NEW b \in Actors, reg[b] # 0, b # a PROVE ReachedAsBefore(w, b)
    BY <1>5
  <2>1. Cur(b) \in Handles /\ Cur(b) # Own(w)
    BY <1>5, CurType DEF Cur
  <2> QED
    BY <1>w, <1>2, <2>1 DEF ReachedAsBefore
<1>8. LocksBy(w)
  BY <1>2 DEF LocksBy
<1> QED
  BY <1>w, <1>1, <1>2, <1>3, <1>6, <1>7, <1>8, SlotsKept DEF At, InHand

LEMMA TakeState ==
  ASSUME TypeOK, TypeOK', AccessInv, StateInv, NEW w \in Workers, Take(w)
  PROVE  StateInv'
<1> DEFINE h == Own(w)
<1>w. w \in Threads /\ th[w] \in ThreadRecords /\ w \notin Clients
      /\ th \in [Threads -> ThreadRecords] /\ At(w, "take") /\ Inside(w)
  BY ThreadAssumption DEF Threads, TypeOK, Take, Inside, InsidePCs, At
<1>o. h \in Handles /\ h = <<th[w].act, th[w].gen>>
  BY <1>w, Occupied
<1>h. handle \in [Handles -> HandleRecords] /\ handle[h] \in HandleRecords
  BY <1>o DEF TypeOK
<1>1. /\ Moves(w) /\ th'[w].pc = "pop" /\ th'[w].inc = handle[h].slot
      /\ th'[w].act = th[w].act /\ th'[w].gen = th[w].gen /\ Own(w)' = h
  BY <1>w DEF Take, Moves, ThreadRecords, Own
<1>2. /\ \A k \in Handles \ {h} : handle'[k] = handle[k]
      /\ handle'[h].slot = 0 /\ handle'[h].running = handle[h].running
      /\ handle'[h].lock = handle[h].lock
  BY <1>o, <1>h DEF Take, HandleRecords
<1>3. UNCHANGED <<reg, top, dead, phase>>
  BY DEF Take, registry, outside, history
<1>4. WorkerOk(w) /\ HandleOk(h) /\ handle[h].slot = th[w].gen
  BY <1>o, <1>w DEF StateInv, WorkerOk
<1>5. OwnOk(w)'
  <2>1. Retired(w)' = <<h[1], handle[h].slot>>
    BY <1>1, <1>o DEF Retired
  <2>2. ThreadOk(w)'
    BY <1>1 DEF ThreadOk, At
  <2>3. WorkerOk(w)'
    BY <1>w, <1>1, <1>2, <1>3, <1>4, <2>1 DEF WorkerOk, HandleOk, At, InHand
  <2> QED
    BY <1>w, <2>2, <2>3 DEF OwnOk
<1>6. \A u \in Workers \ {w} : At(u, "putback") => th[u].act # th[w].act
  <2>1. \A u \in Workers : WorkerOk(u)
    BY DEF StateInv
  <2> QED
    BY <1>w, <2>1 DEF WorkerOk, At
<1>7. handle'[h].lock \notin Workers
  BY <1>2, <1>4 DEF HandleOk
<1> QED
  BY <1>w, <1>1, <1>2, <1>3, <1>5, <1>6, <1>7, OwnSlotChanged

(* The state is there and the mutex sound: lock().unwrap() and expect hold. *)
LEMMA NeverTakePanics ==
  ASSUME TypeOK, StateInv, NEW w \in Workers
  PROVE  ~TakePanics(w)
<1> SUFFICES ASSUME TakePanics(w) PROVE FALSE
  OBVIOUS
<1>1. Own(w) \in Handles /\ th[w].gen \in Gens /\ 0 \notin Gens
  BY LocalsType DEF Threads, Gens
<1>2. WorkerOk(w) /\ HandleOk(Own(w))
  BY <1>1 DEF StateInv
<1> QED
  BY <1>1, <1>2 DEF TakePanics, WorkerOk, HandleOk, Poisoned

LEMMA ReturnGoneState ==
  ASSUME TypeOK, TypeOK', AccessInv, StateInv, NEW w \in Workers, ReturnGone(w)
  PROVE  StateInv'
<1> DEFINE h == Own(w)
<1>w. w \in Threads /\ w \notin Clients /\ th \in [Threads -> ThreadRecords]
      /\ At(w, "return") /\ Inside(w)
  BY ThreadAssumption DEF Threads, TypeOK, ReturnGone, Inside, InsidePCs, At
<1>o. h \in Handles /\ h = <<th[w].act, th[w].gen>>
  BY <1>w, Occupied
<1>1. Moves(w) /\ th'[w].pc = "idle" /\ handle' = handle
  BY <1>w, GotoFrame DEF ReturnGone, Moves
<1>3. UNCHANGED <<reg, top, phase>>
  BY DEF ReturnGone, registry, outside
<1>4. WorkerOk(w) /\ HandleOk(h) /\ Retired(w) = h /\ handle[h].slot = 0
  BY <1>o, <1>w DEF StateInv, WorkerOk, InHand, At, Retired
<1>5. dead' = dead \cup {h}
  BY <1>4 DEF ReturnGone
<1>6. OwnOk(w)'
  BY <1>w, <1>1, <1>3, <1>4 DEF OwnOk, ThreadOk, WorkerOk, At, InHand
<1>7. \A u \in Workers \ {w} : At(u, "putback") => th[u].act # th[w].act
  BY DEF ReturnGone, GuardFree, At
<1> QED
  BY <1>w, <1>o, <1>1, <1>3, <1>4, <1>5, <1>6, <1>7, OwnSlotChanged DEF HandleOk

LEMMA ReturnCrashedState ==
  ASSUME TypeOK, TypeOK', AccessInv, StateInv, NEW w \in Workers, ReturnCrashed(w)
  PROVE  StateInv'
<1> DEFINE h == Own(w)
<1>w. w \in Threads /\ th[w] \in ThreadRecords /\ w \notin Clients
      /\ th \in [Threads -> ThreadRecords] /\ At(w, "return") /\ Inside(w)
  BY ThreadAssumption DEF Threads, TypeOK, ReturnCrashed, Inside, InsidePCs, At
<1>o. h \in Handles /\ h = <<th[w].act, th[w].gen>> /\ Cur(th[w].act) = h
  BY <1>w, Occupied DEF ReturnCrashed
<1>h. handle \in [Handles -> HandleRecords] /\ handle[h] \in HandleRecords
  BY <1>o DEF TypeOK
<1>1. /\ Moves(w) /\ th'[w].pc = "decide" /\ Own(w)' = h
  BY <1>w DEF ReturnCrashed, Moves, ThreadRecords, Own
<1>2. /\ \A k \in Handles \ {h} : handle'[k] = handle[k]
      /\ handle'[h].slot = 0 /\ handle'[h].running = handle[h].running
      /\ handle'[h].lock = handle[h].lock
  BY <1>o, <1>h DEF ReturnCrashed, HandleRecords
<1>3. UNCHANGED <<reg, top, phase>>
  BY DEF ReturnCrashed, registry, outside
<1>4. WorkerOk(w) /\ HandleOk(h) /\ Retired(w) = h
  BY <1>o, <1>w DEF StateInv, WorkerOk, InHand, At, Retired
<1>5. dead' = dead \cup {h}
  BY <1>4 DEF ReturnCrashed
<1>6. OwnOk(w)'
  BY <1>w, <1>1, <1>3, <1>4 DEF OwnOk, ThreadOk, WorkerOk, At, InHand
<1>7. \A u \in Workers \ {w} : At(u, "putback") => th[u].act # th[w].act
  BY DEF ReturnCrashed, GuardFree, At
<1>8. handle'[h].lock \notin Workers
  BY <1>2, <1>4 DEF HandleOk
<1> QED
  BY <1>w, <1>1, <1>2, <1>3, <1>5, <1>6, <1>7, <1>8, OwnSlotChanged

LEMMA ReturnState ==
  ASSUME TypeOK, TypeOK', AccessInv, StateInv, NEW w \in Workers, Return(w)
  PROVE  StateInv'
<1> DEFINE h == Own(w)
           a == th[w].act
<1>w. w \in Threads /\ th[w] \in ThreadRecords /\ w \notin Clients
      /\ th \in [Threads -> ThreadRecords] /\ At(w, "return") /\ Inside(w)
  BY ThreadAssumption DEF Threads, TypeOK, Return, Inside, InsidePCs, At
<1>o. /\ h \in Handles /\ h = <<a, th[w].gen>> /\ Cur(a) = h
      /\ \A u \in Threads \ {w} : th[u].act = a => ~Inside(u)
  BY <1>w, Occupied DEF Return
<1>h. handle \in [Handles -> HandleRecords] /\ \A k \in Handles : handle[k] \in HandleRecords
  BY DEF TypeOK
<1>1. /\ Moves(w) /\ th'[w].pc = "putback" /\ th'[w].act = a /\ th'[w].gen = th[w].gen
      /\ th'[w].inc = th[w].inc
  <2>1. Moves(w) /\ th'[w] = [th[w] EXCEPT !.pc = "putback"]
    BY <1>w, GotoFrame DEF Return, Moves
  <2> QED
    BY <1>w, <2>1 DEF ThreadRecords
<1>2. SameSlots /\ (\A k \in Handles : handle'[k].lock = handle[k].lock)
      /\ \A k \in Handles \ {h} : handle'[k] = handle[k]
  BY <1>o, <1>h DEF Return, SameSlots, HandleRecords
<1>3. UNCHANGED <<reg, top, dead, phase>>
  BY DEF Return, registry, outside, history
<1>4. WorkerOk(w)
  BY DEF StateInv
<1>5. \A u \in Workers \ {w} : th[u].act = a => th[u].pc \notin InHand \cup {"take"}
  BY <1>o DEF Return, GuardFree, Threads, Inside, InsidePCs, InHand
<1>6. OwnOk(w)'
  <2>1. ThreadOk(w)'
    BY <1>1 DEF ThreadOk, At
  <2>2. Own(w)' = h /\ Retired(w)' = Retired(w) /\ reg[a] = th[w].gen
    BY <1>o, <1>1 DEF Own, Retired, Cur
  <2>3. \A u \in Workers \ {w} : th'[u].act = th'[w].act => th'[u].pc \notin InHand \cup {"take"}
    BY <1>1, <1>5 DEF Moves, Threads
  <2>4. handle[h].slot = 0 /\ th[w].inc = th[w].gen /\ Retired(w) \notin dead
        /\ phase \notin {"cleanup", "down"}
    BY <1>w, <1>4 DEF WorkerOk, InHand, At
  <2>5. WorkerOk(w)'
    BY <1>o, <1>1, <1>2, <1>3, <2>2, <2>3, <2>4 DEF WorkerOk, At, InHand, SameSlots
  <2> QED
    BY <1>w, <2>1, <2>5 DEF OwnOk
<1>7. \A b \in Actors : reg[b] # 0 => HasState(b)' \/ ReachedAsBefore(w, b)
  <2> SUFFICES ASSUME NEW b \in Actors, reg[b] # 0 PROVE HasState(b)' \/ ReachedAsBefore(w, b)
    OBVIOUS
  <2>1. CASE b = a
    BY <1>1, <2>1 DEF HasState, At
  <2>2. CASE b # a
    <3>1. Cur(b) \in Handles /\ Cur(b) # h
      BY <1>o, <2>2, CurType DEF Cur
    <3> QED
      BY <1>w, <1>2, <3>1 DEF ReachedAsBefore
  <2> QED
    BY <2>1, <2>2
<1>8. LocksBy(w)
  BY <1>2 DEF LocksBy
<1>9. \A u \in Workers \ {w} : At(u, "putback") => th[u].act # a
  BY <1>5 DEF InHand, At
<1> QED
  BY <1>w, <1>1, <1>2, <1>3, <1>6, <1>7, <1>8, <1>9, SlotsKept DEF At

LEMMA PutBackState ==
  ASSUME TypeOK, TypeOK', AccessInv, StateInv, NEW w \in Workers, PutBack(w)
  PROVE  StateInv'
<1> DEFINE a == th[w].act
<1>0. PICK h \in Handles : h = Own(w)
  BY LocalsType DEF Threads
<1>w. w \in Threads /\ th[w] \in ThreadRecords /\ w \notin Clients
      /\ th \in [Threads -> ThreadRecords] /\ At(w, "putback") /\ a \in Actors
  BY ThreadAssumption, LocalsType DEF Threads, TypeOK, PutBack
<1>4. WorkerOk(w)
  BY DEF StateInv
<1>o. /\ h = <<a, th[w].gen>> /\ Cur(a) = h /\ h[2] \in Int /\ h[2] = reg[a]
      /\ th[w].inc = th[w].gen /\ Retired(w) = h /\ h \notin dead
  BY <1>0, <1>w, <1>4, LocalsType DEF WorkerOk, InHand, At, Own, Cur, Retired, Gens
<1>h. handle \in [Handles -> HandleRecords] /\ handle[h] \in HandleRecords
  BY <1>o DEF TypeOK
<1>1. Moves(w) /\ th'[w].pc \in {"remove", "requeue"}
  BY <1>w DEF PutBack, Moves, ThreadRecords
<1>2. /\ \A k \in Handles \ {h} : handle'[k] = handle[k]
      /\ handle'[h].slot = th[w].gen /\ handle'[h].lock = NoThread /\ handle[h].lock = NoThread
  BY <1>o, <1>h DEF PutBack, HandleRecords
<1>3. UNCHANGED <<reg, top, phase, dead>>
  BY DEF PutBack, registry, outside, history
<1>5. h[2] <= top[h[1]]
  <2>1. reg[a] \in {0, top[a]} /\ reg[a] # 0
    BY <1>w, <1>o DEF AccessInv, Handles, Gens
  <2> QED
    BY <1>o, <2>1
<1>6. HandleOk(h)'
  BY <1>o, <1>2, <1>3, ThreadAssumption DEF HandleOk
<1>7. OwnOk(w)'
  BY <1>w, <1>1, <1>3, <1>4 DEF OwnOk, ThreadOk, WorkerOk, At, InHand
<1>8. \A u \in Workers \ {w} : th[u].pc \in InHand \cup {"take"} => Own(u) # h
  BY <1>0, <1>w, <1>4, <1>o DEF WorkerOk, Own
<1>9. \A c \in Clients \ {w} : At(c, "handling") => Own(c) # h
  <2>1. \A c \in Clients : ClientOk(c)
    BY DEF StateInv
  <2> QED
    BY <1>2, <2>1, ThreadAssumption DEF ClientOk
<1>10. \A b \in Actors : reg[b] # 0 /\ Cur(b) = h => StateFound(b)'
  <2> SUFFICES ASSUME NEW b \in Actors, Cur(b) = h PROVE HasState(b)'
    BY DEF StateFound
  <2>1. Cur(b)' = h /\ reg[b] = th[w].gen
    BY <1>o, <1>3 DEF Cur
  <2> QED
    BY <1>2, <1>3, <2>1 DEF HasState
<1>11. th'[w].pc \notin InHand \cup {"take", "putback"} /\ ~(th'[w].pc \in InHand)
  BY <1>1 DEF InHand
<1> HIDE DEF a
<1>12. At(w, "putback") => Cur(th[w].act) = h
  BY <1>o DEF a
<1> QED
  BY <1>w, <1>o, <1>1, <1>2, <1>3, <1>5, <1>6, <1>7, <1>8, <1>9, <1>10, <1>11, <1>12, SlotChanged

LEMMA WorkerState ==
  ASSUME TypeOK, TypeOK', AccessInv, StateInv, NEW w \in Workers, WorkerStep(w)
  PROVE  StateInv'
<1>w. w \in Threads /\ th[w] \in ThreadRecords /\ w \notin Clients
      /\ th \in [Threads -> ThreadRecords]
  BY ThreadAssumption DEF Threads, TypeOK
<1>1. ASSUME NEW a \in Actors, Pick(w, a) PROVE StateInv'
  <2>1. Moves(w) /\ th'[w].pc = "claim" /\ At(w, "idle")
    BY <1>w, <1>1 DEF Pick, Moves, ThreadRecords
  <2>2. SameSlots /\ LocksBy(w) /\ SameRunning
    BY <1>1, UnmovedHandles DEF Pick
  <2>3. Quietly(w)
    BY <1>w, <1>1, <2>1, <2>2 DEF Quietly, Pick, registry, outside, history, InHand, At
  <2> QED
    BY <1>w, <2>3, QuietState
<1>2. CASE ClaimFails(w) \/ PopNone(w) \/ Requeue(w) \/ Exit(w)
  <2>1. SameSlots /\ LocksBy(w) /\ SameRunning
    BY <1>2, UnmovedHandles DEF ClaimFails, PopNone, Requeue, Exit
  <2>2. UNCHANGED <<reg, top, dead, phase>> /\ th[w].pc \in {"claim", "pop", "requeue", "idle"}
    BY <1>2 DEF ClaimFails, PopNone, Requeue, Exit, registry, outside, history, At
  <2>3. Goto(w, "idle") \/ Goto(w, "exited") \/ (Goto(w, "settle") /\ th[w].pc = "pop")
    BY <1>2 DEF ClaimFails, PopNone, Requeue, Exit, At
  <2> QED
    BY <1>w, <2>1, <2>2, <2>3, GotoState DEF InHand
<1>3. CASE Pop(w) \/ HandlerContinues(w) \/ Settle(w)
  <2>1. /\ Moves(w) /\ th'[w].pc \in {"pop", "handling", "settle", "return"}
        /\ th[w].pc \in {"pop", "handling", "settle"}
        /\ th'[w].act = th[w].act /\ th'[w].gen = th[w].gen /\ th'[w].inc = th[w].inc
    BY <1>w, <1>3 DEF Pop, HandlerContinues, Settle, Moves, ThreadRecords, At
  <2>2. SameSlots /\ LocksBy(w) /\ SameRunning
    BY <1>3, UnmovedHandles DEF Pop, HandlerContinues, Settle
  <2>3. UNCHANGED <<reg, top, dead, phase>>
    BY <1>3 DEF Pop, HandlerContinues, Settle, registry, outside, history
  <2>4. Quietly(w)
    BY <1>w, <2>1, <2>2, <2>3 DEF Quietly, InHand
  <2> QED
    BY <1>w, <2>4, QuietState
<1>4. ASSUME NEW tag \in {"stop", "crash"}, HandlerEnds(w, tag) PROVE StateInv'
  <2>1. /\ Moves(w) /\ th'[w].pc = "settle" /\ th[w].pc = "handling"
        /\ th'[w].act = th[w].act /\ th'[w].gen = th[w].gen /\ th'[w].inc = th[w].inc
    BY <1>w, <1>4 DEF HandlerEnds, Moves, ThreadRecords, At
  <2>2. SameSlots /\ LocksBy(w) /\ SameRunning
    BY <1>4, UnmovedHandles DEF HandlerEnds
  <2>3. Quietly(w)
    BY <1>w, <1>4, <2>1, <2>2 DEF HandlerEnds, Quietly, registry, outside, history, InHand
  <2> QED
    BY <1>w, <2>3, QuietState
<1> QED
  BY <1>1, <1>2, <1>3, <1>4, ClaimState, TakeStoppingState, TakeState, NeverTakePanics,
     ReturnGoneState, ReturnCrashedState, ReturnState, PutBackState DEF WorkerStep

-----------------------------------------------------------------------------
(* handle_crash, restart_actor and remove_actor. *)
(* Registering another generation, or none, for v leaves the others' states: *)
(* nobody is in the middle of taking or returning v's.                       *)
LEMMA RegistryChanged ==
  ASSUME TypeOK, TypeOK', StateInv, NEW t \in Threads, Moves(t), NEW v \in Actors, GuardFree(v),
         \A h \in Handles : (handle'[h].slot = handle[h].slot /\ handle'[h].lock = handle[h].lock)
                            \/ \A u \in Threads \ {t} : Inside(u) => Own(u) # h,
         \A a \in Actors \ {v} : reg'[a] = reg[a] /\ (reg[a] # 0 => handle'[Cur(a)] = handle[Cur(a)]),
         reg'[v] = 0 \/ (reg'[v] = top[v] + 1 /\ handle'[<<v, reg'[v]>>].slot = reg'[v]),
         \A a \in Actors : top'[a] >= top[a], dead' = dead, phase' = phase,
         OwnOk(t)', th'[t].pc \notin {"take"} \cup InHand \cup Calling, ~At(t, "putback"),
         \A h \in Handles : HandleOk(h)'
  PROVE  StateInv'
<1>o. \A u \in Threads : Own(u) \in Handles /\ th[u].act \in Actors /\ th[u].tgt \in Actors
                         /\ th[u].aux \in Int
  BY LocalsType
<1>t. \A a \in Actors : top[a] \in Int /\ top'[a] \in Int /\ reg[a] \in Int
  BY DEF TypeOK, Gens
<1>1. SparesOthers(t)
  <2>1. \A u \in Workers : At(u, "take") \/ At(u, "putback") => th[u].act # v
    BY DEF GuardFree, At
  <2>2. \A u \in Workers \ {t} : th[u].pc \in InHand \cup {"take"} => handle'[Own(u)].slot = handle[Own(u)].slot
    <3> SUFFICES ASSUME NEW u \in Workers \ {t}, th[u].pc \in InHand \cup {"take"}
                 PROVE  handle'[Own(u)].slot = handle[Own(u)].slot
      OBVIOUS
    <3>1. CASE At(u, "putback")
      <4>1. reg[th[u].act] = th[u].gen /\ th[u].act # v /\ th[u].gen # 0
        BY <2>1, <3>1, LocalsType DEF StateInv, WorkerOk, Threads, Gens
      <4>2. Own(u) = Cur(th[u].act)
        BY <4>1 DEF Own, Cur
      <4> QED
        BY <1>o, <4>1, <4>2 DEF Threads
    <3>2. CASE ~At(u, "putback")
      BY <1>o, <3>2 DEF Inside, InsidePCs, InHand, Threads, At
    <3> QED
      BY <3>1, <3>2
  <2>3. \A c \in Clients \ {t} : At(c, "handling") =>
           handle'[Own(c)].slot = handle[Own(c)].slot /\ handle'[Own(c)].lock = handle[Own(c)].lock
    BY <1>o DEF Inside, InsidePCs, Threads, At
  <2>4. \A u \in Workers \ {t} : At(u, "take") \/ At(u, "putback") => reg'[th[u].act] = reg[th[u].act]
    BY <1>o, <2>1 DEF Threads
  <2>5. \A u \in Threads \ {t} : At(u, "dispose") => reg'[th[u].tgt] # th[u].aux
    <3> SUFFICES ASSUME NEW u \in Threads \ {t}, At(u, "dispose") PROVE reg'[th[u].tgt] # th[u].aux
      OBVIOUS
    <3>1. th[u].aux \notin {0, reg[th[u].tgt]} /\ th[u].aux <= top[th[u].tgt]
      BY DEF StateInv, ThreadOk
    <3> QED
      BY <1>o, <1>t, <3>1
  <2>6. \A u \in Threads : top'[th[u].tgt] >= top[th[u].tgt]
    BY <1>o
  <2> QED
    BY <2>2, <2>3, <2>4, <2>5, <2>6 DEF SparesOthers
<1>2. DeadOk'
  <2> SUFFICES ASSUME NEW d \in dead PROVE d[1] \in Actors /\ d[2] \in Gens /\ d[2] <= top'[d[1]]
    BY DEF DeadOk
  <2>1. d[1] \in Actors /\ d[2] \in Gens /\ d[2] <= top[d[1]]
    BY DEF StateInv, DeadOk
  <2>2. d[2] \in Int /\ top'[d[1]] >= top[d[1]] /\ top[d[1]] \in Int /\ top'[d[1]] \in Int
    BY <1>t, <2>1 DEF Gens
  <2> QED
    BY <2>1, <2>2
<1>3. ASSUME NEW a \in Actors PROVE StateFound(a)'
  <2>1. CASE a = v
    BY <2>1 DEF StateFound, HasState, Cur
  <2>2. CASE a # v
    <3> SUFFICES ASSUME phase \in {"up", "stopping"}, reg[a] # 0,
                        \/ ~handle'[Cur(a)'].running
                        \/ \E c \in Clients : th'[c].pc \in Calling /\ Own(c)' = Cur(a)'
                 PROVE  HasState(a)'
      BY <2>2 DEF StateFound
    <3>1. Cur(a)' = Cur(a) /\ handle'[Cur(a)] = handle[Cur(a)]
      BY <2>2 DEF Cur
    <3>2. \A c \in Clients : th'[c].pc \in Calling /\ Own(c)' = Cur(a) => th[c].pc \in Calling /\ Own(c) = Cur(a)
      BY DEF Moves, Threads, Own
    <3>3. HasState(a)
      BY <3>1, <3>2 DEF StateInv, StateFound
    <3>4. \A w \in Workers : At(w, "putback") /\ th[w].act = a => At(w, "putback")' /\ th'[w].act = a
      BY DEF Moves, Threads, At
    <3> QED
      BY <2>2, <3>1, <3>3, <3>4 DEF HasState
  <2> QED
    BY <2>1, <2>2
<1> QED
  BY <1>1, <1>2, <1>3, OthersState, FromParts

LEMMA InsertState ==
  ASSUME TypeOK, TypeOK', AccessInv, StateInv, NEW t \in Threads, Insert(t)
  PROVE  StateInv'
<1>r. RestartsItself(t) /\ At(t, "insert") /\ Inside(t)
  BY DEF AccessInv, Insert, Inside, InsidePCs, At
<1>0. PICK v \in Actors : v = th[t].act /\ v = th[t].tgt
  BY <1>r, LocalsType DEF RestartsItself
<1>1. PICK g \in Gens : g = top[v] + 1
  <2>1. top[v] \in 1..MaxGen /\ top[v] < MaxGen
    BY <1>0 DEF TypeOK, Gens, Insert
  <2> QED
    BY <2>1, BoundAssumption DEF Gens
<1>n. /\ top \in [Actors -> Gens] /\ reg \in [Actors -> 0..MaxGen] /\ <<v, g>> \in Handles
      /\ handle \in [Handles -> HandleRecords] /\ th \in [Threads -> ThreadRecords]
      /\ top[v] \in Int /\ g \in Int /\ th[t] \in ThreadRecords
  BY DEF TypeOK, Handles, Gens
<1>2. Moves(t) /\ th'[t].pc = "after"
  <2>1. th[t].todo = {}
    BY <1>r DEF RestartsItself, At
  <2>2. Goto(t, "after")
    BY <2>1 DEF Insert, AfterVictim
  <2> QED
    BY <1>n, <2>2, GotoFrame DEF Moves
<1>3. /\ top' = [top EXCEPT ![v] = g] /\ reg' = [reg EXCEPT ![v] = g] /\ GuardFree(v)
      /\ \A k \in Handles \ {<<v, g>>} : handle'[k] = handle[k]
      /\ handle'[<<v, g>>].slot = g /\ handle'[<<v, g>>].lock = NoThread
      /\ dead' = dead /\ phase' = phase
  BY <1>0, <1>1, <1>n DEF Insert, outside, history, NewHandle
<1>4. \A u \in Threads \ {t} : Inside(u) => Own(u) # <<v, g>>
  BY <1>r, <1>0, Occupied DEF Own
<1>5. \A a \in Actors \ {v} : reg'[a] = reg[a] /\ (reg[a] # 0 => handle'[Cur(a)] = handle[Cur(a)])
  <2> SUFFICES ASSUME NEW a \in Actors \ {v}, reg[a] # 0 PROVE handle'[Cur(a)] = handle[Cur(a)]
    BY <1>3, <1>n
  <2>1. Cur(a) \in Handles /\ Cur(a) # <<v, g>>
    BY CurType DEF Cur
  <2> QED
    BY <1>3, <2>1
<1>6. reg'[v] = top[v] + 1 /\ handle'[<<v, reg'[v]>>].slot = reg'[v]
  BY <1>1, <1>3, <1>n
<1>7. \A a \in Actors : top'[a] >= top[a]
  BY <1>1, <1>3, <1>n DEF Gens
<1>8. OwnOk(t)'
  <2>1. t \in Workers => WorkerOk(t)
    BY DEF StateInv
  <2> QED
    BY <1>r, <1>2, <1>3, <2>1 DEF OwnOk, ThreadOk, WorkerOk, ClientOk, At, InHand
<1>9. \A h \in Handles : HandleOk(h)'
  <2>1. <<v, g>> \notin dead
    BY <1>1, <1>n DEF StateInv, DeadOk
  <2>2. HandleOk(<<v, g>>)'
    BY <1>3, <2>1, ThreadAssumption DEF HandleOk
  <2>3. \A h \in Handles \ {<<v, g>>} : HandleOk(h)'
    BY <1>3 DEF HandleOk, StateInv
  <2> QED
    BY <2>2, <2>3
<1> QED
  BY <1>r, <1>2, <1>3, <1>4, <1>5, <1>6, <1>7, <1>8, <1>9, RegistryChanged DEF InHand, Calling, At

LEMMA RemoveState ==
  ASSUME TypeOK, TypeOK', AccessInv, StateInv, NEW t \in Threads, Remove(t)
  PROVE  StateInv'
<1>0. PICK v \in Actors : v = th[t].tgt
  BY LocalsType
<1>n. /\ reg \in [Actors -> 0..MaxGen] /\ handle \in [Handles -> HandleRecords]
      /\ th \in [Threads -> ThreadRecords] /\ th[t] \in ThreadRecords
      /\ \A h \in Handles : handle[h] \in HandleRecords
      /\ reg[v] \in {0, top[v]} /\ top[v] \in Int
  BY DEF TypeOK, AccessInv, Gens
<1>c. reg[v] # 0 => Cur(v) \in Handles
  BY CurType
<1>1. /\ Moves(t) /\ th'[t].pc = (IF reg[v] = 0 THEN "unregister" ELSE "dispose")
      /\ th'[t].aux = reg[v] /\ th'[t].tgt = v /\ At(t, "remove")
  BY <1>0, <1>n DEF Remove, Moves, ThreadRecords
<1>2. /\ reg' = [reg EXCEPT ![v] = 0] /\ GuardFree(v)
      /\ UNCHANGED <<top, dead, phase>>
      /\ \A h \in Handles : /\ handle'[h].slot = handle[h].slot /\ handle'[h].lock = handle[h].lock
                            /\ reg[v] = 0 \/ h # Cur(v) => handle'[h] = handle[h]
  BY <1>0, <1>c, <1>n DEF Remove, outside, history, HandleRecords
<1>3. \A a \in Actors \ {v} : reg'[a] = reg[a] /\ (reg[a] # 0 => handle'[Cur(a)] = handle[Cur(a)])
  <2> SUFFICES ASSUME NEW a \in Actors \ {v}, reg[a] # 0 PROVE handle'[Cur(a)] = handle[Cur(a)]
    BY <1>2, <1>n
  <2>1. Cur(a) \in Handles /\ Cur(a) # Cur(v)
    BY CurType DEF Cur
  <2> QED
    BY <1>2, <2>1
<1>4. reg'[v] = 0
  BY <1>2, <1>n
<1>5. OwnOk(t)'
  <2>1. t \in Workers => WorkerOk(t)
    BY DEF StateInv
  <2>2. ThreadOk(t)'
    BY <1>1, <1>2, <1>4, <1>n DEF ThreadOk, At
  <2> QED
    BY <1>1, <1>2, <2>1, <2>2 DEF OwnOk, WorkerOk, ClientOk, At, InHand
<1>6. \A h \in Handles : HandleOk(h)'
  BY <1>2 DEF HandleOk, StateInv
<1>7. \A a \in Actors : top'[a] >= top[a]
  BY <1>2 DEF TypeOK, Gens
<1> QED
  BY <1>1, <1>2, <1>3, <1>4, <1>5, <1>6, <1>7, RegistryChanged DEF InHand, Calling, At

LEMMA DisposeState ==
  ASSUME TypeOK, TypeOK', AccessInv, StateInv, NEW t \in Threads, Dispose(t)
  PROVE  StateInv'
<1>0. PICK h \in Handles : h = <<th[t].tgt, th[t].aux>>
  BY LocalsType DEF StateInv, ThreadOk, Dispose, Handles, Gens
<1>n. /\ handle \in [Handles -> HandleRecords] /\ handle[h] \in HandleRecords
      /\ th \in [Threads -> ThreadRecords] /\ h[2] \in Gens /\ h[1] \in Actors /\ 0 \notin Gens
      /\ handle[h].lock = NoThread
  BY <1>0 DEF TypeOK, Handles, Gens, Dispose
<1>1. HandleOk(h) /\ ThreadOk(t) /\ At(t, "dispose")
  BY DEF StateInv, Dispose
<1>2. /\ \A k \in Handles \ {h} : handle'[k] = handle[k]
      /\ handle'[h].slot = 0 /\ handle'[h].running = handle[h].running
      /\ handle'[h].lock = handle[h].lock
  BY <1>0, <1>n DEF Dispose, OnStop, HandleRecords
<1>3. UNCHANGED <<reg, top, phase>> /\ Goto(t, "unregister")
      /\ dead' = dead \cup ({<<h[1], handle[h].slot>>} \cap (Actors \X Gens))
  BY <1>0 DEF Dispose, OnStop, registry, outside
<1>4. CASE handle[h].slot = 0
  <2>1. dead' = dead
    BY <1>3, <1>4, <1>n
  <2>2. SameSlots /\ LocksBy(t) /\ SameRunning
    BY <1>2, <1>4 DEF SameSlots, LocksBy, SameRunning
  <2> QED
    BY <1>1, <1>3, <2>1, <2>2, GotoState DEF InHand, Calling, At
<1>5. CASE handle[h].slot = h[2]
  <2>1. dead' = dead \cup {h}
    BY <1>0, <1>3, <1>5, <1>n
  <2>2. Moves(t) /\ th'[t].pc = "unregister"
    BY <1>3, <1>n, GotoFrame DEF Moves
  <2>3. OwnOk(t)'
    <3>1. t \in Workers => WorkerOk(t)
      BY DEF StateInv
    <3> QED
      BY <1>1, <1>3, <2>2, <3>1 DEF OwnOk, ThreadOk, WorkerOk, ClientOk, At, InHand
  <2>4. HandleOk(h)'
    <3>1. <<h[1], 0>> \notin dead /\ <<h[1], 0>> # h
      BY <1>n DEF StateInv, DeadOk
    <3> QED
      BY <1>1, <1>2, <2>1, <3>1 DEF HandleOk
  <2>5. reg[h[1]] # h[2] /\ h[2] <= top[h[1]]
    BY <1>0, <1>1 DEF ThreadOk
  <2>6. \A u \in Workers \ {t} : th[u].pc \in InHand \cup {"take"} => Own(u) # h
    <3> SUFFICES ASSUME NEW u \in Workers \ {t}, th[u].pc \in InHand \cup {"take"}, Own(u) = h PROVE FALSE
      OBVIOUS
    <3>1. WorkerOk(u) /\ th[u].act = h[1] /\ th[u].gen = h[2]
      BY DEF StateInv, Own
    <3> QED
      BY <1>5, <1>n, <2>5, <3>1 DEF WorkerOk, At, InHand
  <2>7. \A c \in Clients \ {t} : At(c, "handling") => Own(c) # h
    <3>1. \A c \in Clients : ClientOk(c)
      BY DEF StateInv
    <3> QED
      BY <1>n, <3>1, ThreadAssumption DEF ClientOk
  <2>8. \A b \in Actors : reg[b] # 0 => Cur(b) # h
    BY <2>5 DEF Cur
  <2> QED
    BY <1>1, <1>2, <1>3, <2>1, <2>2, <2>3, <2>4, <2>5, <2>6, <2>7, <2>8, SlotChanged
    DEF InHand, Calling, At
<1> QED
  BY <1>1, <1>4, <1>5 DEF HandleOk

(* No mutex is ever poisoned. *)
LEMMA NeverPoisoned ==
  ASSUME TypeOK, StateInv, NEW t \in Threads
  PROVE  ~PoisonSpreads(t)
<1>l. \A h \in Handles : handle[h].lock \notin Workers
  BY DEF StateInv, HandleOk
<1>t. th[t].act \in Actors /\ th[t].tgt \in Actors /\ th[t].aux \in 0..MaxGen /\ th[t].gen \in Gens
  BY LocalsType
<1>1. ~(At(t, "putback") /\ Poisoned(Cur(th[t].act)))
  <2> SUFFICES ASSUME At(t, "putback") PROVE Cur(th[t].act) \in Handles
    BY <1>l DEF Poisoned
  <2>1. t \in Workers /\ reg[th[t].act] = th[t].gen
    BY DEF StateInv, ThreadOk, WorkerOk
  <2> QED
    BY <1>t, <2>1 DEF Cur, Handles
<1>2. ~(reg[th[t].act] # 0 /\ Poisoned(Cur(th[t].act)))
  BY <1>l, <1>t, CurType DEF Poisoned
<1>3. ~(At(t, "dispose") /\ Poisoned(<<th[t].tgt, th[t].aux>>))
  <2> SUFFICES ASSUME At(t, "dispose") PROVE <<th[t].tgt, th[t].aux>> \in Handles
    BY <1>l DEF Poisoned
  <2>1. th[t].aux # 0
    BY DEF StateInv, ThreadOk
  <2> QED
    BY <1>t, <2>1 DEF Handles, Gens
<1> QED
  BY <1>1, <1>2, <1>3 DEF PoisonSpreads

LEMMA CrashState ==
  ASSUME TypeOK, TypeOK', AccessInv, StateInv, NEW t \in Threads, CrashStep(t)
  PROVE  StateInv'
<1>t. th[t] \in ThreadRecords /\ th \in [Threads -> ThreadRecords]
  BY DEF TypeOK
<1>1. ASSUME NEW elapsed \in BOOLEAN, Decide(t, elapsed) PROVE StateInv'
  <2>1. Moves(t) /\ th'[t].pc \in {"rebuild", "remove"} /\ th[t].pc = "decide"
    BY <1>t, <1>1 DEF Decide, Moves, ThreadRecords, At
  <2>2. SameSlots /\ LocksBy(t) /\ SameRunning
    BY <1>1, UnmovedHandles DEF Decide
  <2>3. Quietly(t)
    BY <1>1, <2>1, <2>2 DEF Decide, Quietly, registry, outside, history, InHand, Calling
  <2> QED
    BY <2>3, QuietState
<1>2. ASSUME NEW v \in Actors, NEW starts \in BOOLEAN, Rebuild(t, v, starts) PROVE StateInv'
  <2>1. Moves(t) /\ th'[t].pc \in {"insert", "remove"} /\ th[t].pc = "rebuild"
    BY <1>t, <1>2 DEF Rebuild, Moves, ThreadRecords, At
  <2>2. SameSlots /\ LocksBy(t) /\ SameRunning
    BY <1>2, UnmovedHandles DEF Rebuild
  <2>3. Quietly(t)
    BY <1>2, <2>1, <2>2 DEF Rebuild, Quietly, registry, outside, history, InHand, Calling
  <2> QED
    BY <2>3, QuietState
<1>3. CASE Unregister(t) \/ AfterCrash(t)
  <2>1. SameSlots /\ LocksBy(t) /\ SameRunning
    BY <1>3, UnmovedHandles DEF Unregister, AfterCrash
  <2>2. UNCHANGED <<reg, top, dead, phase>> /\ th[t].pc \in {"unregister", "after"}
    BY <1>3 DEF Unregister, AfterCrash, registry, outside, history, At
  <2>3. Goto(t, "idle") \/ Goto(t, "after") \/ Goto(t, "rebuild")
    BY <1>3 DEF Unregister, AfterCrash, AfterVictim
  <2> QED
    BY <2>1, <2>2, <2>3, GotoState DEF InHand, Calling
<1> QED
  BY <1>1, <1>2, <1>3, InsertState, RemoveState, DisposeState, NeverPoisoned DEF CrashStep

-----------------------------------------------------------------------------
(* A caller lets its actor go: the state is in the handle. *)
LEMMA LetGoState ==
  ASSUME TypeOK, TypeOK', StateInv, NEW c \in Clients, Moves(c), th[c].pc \in Calling,
         handle' = [handle EXCEPT ![Own(c)].running = FALSE],
         th'[c].pc \in {"fallback", "finish"}, UNCHANGED <<reg, top, dead, phase>>
  PROVE  StateInv'
<1>h. /\ c \in Threads /\ handle \in [Handles -> HandleRecords] /\ Own(c) \in Handles
      /\ \A h \in Handles : handle[h] \in HandleRecords
  BY LocalsType DEF TypeOK, Threads
<1>1. SameSlots /\ LocksBy(c) /\ \A h \in Handles \ {Own(c)} : handle'[h] = handle[h]
  BY <1>h DEF SameSlots, LocksBy, HandleRecords
<1>2. OwnOk(c)'
  BY ThreadAssumption DEF OwnOk, ThreadOk, ClientOk, At
<1>3. ASSUME NEW a \in Actors, reg[a] # 0, phase \in {"up", "stopping"}
      PROVE  HasState(a) \/ ReachedAsBefore(c, a)
  <2>1. CASE Cur(a) = Own(c)
    BY <1>3, <2>1 DEF StateInv, StateFound
  <2>2. CASE Cur(a) # Own(c)
    <3>1. handle'[Cur(a)] = handle[Cur(a)]
      BY <1>1, <1>3, <2>2, CurType
    <3> QED
      BY <3>1 DEF ReachedAsBefore, Calling
  <2> QED
    BY <2>1, <2>2
<1>4. c \notin Workers /\ ~At(c, "putback")
  BY ThreadAssumption DEF At, Calling
<1> QED
  BY <1>h, <1>1, <1>2, <1>3, <1>4, SlotsKept

LEMMA SwapState ==
  ASSUME TypeOK, TypeOK', StateInv, NEW c \in Clients, Swap(c)
  PROVE  StateInv'
<1>h. /\ c \in Threads /\ handle \in [Handles -> HandleRecords] /\ Own(c) \in Handles
      /\ \A h \in Handles : handle[h] \in HandleRecords /\ c \notin Workers
      /\ th \in [Threads -> ThreadRecords]
  BY LocalsType, ThreadAssumption DEF TypeOK, Threads
<1>1. /\ \A h \in Handles \ {Own(c)} : handle'[h] = handle[h]
      /\ handle'[Own(c)].running /\ SameSlots /\ LocksBy(c)
  BY <1>h DEF Swap, SameSlots, LocksBy, HandleRecords
<1>2. UNCHANGED <<reg, top, dead, phase>> /\ th[c].pc = "swap"
  BY DEF Swap, registry, outside, history, At
<1>3. CASE handle[Own(c)].running
  <2>1. SameRunning /\ Goto(c, "push")
    BY <1>1, <1>3, <1>h DEF SameRunning, HandleRecords, Swap
  <2> QED
    BY <1>h, <1>1, <1>2, <2>1, GotoState DEF Calling, InHand
<1>4. CASE ~handle[Own(c)].running
  <2>1. Moves(c) /\ th'[c].pc = "check" /\ Own(c)' = Own(c)
    <3>1. Moves(c) /\ th'[c] = [th[c] EXCEPT !.pc = "check"] /\ th[c] \in ThreadRecords
      BY <1>h, <1>4, GotoFrame DEF Swap, Moves
    <3> QED
      BY <3>1 DEF ThreadRecords, Own
  <2>2. OwnOk(c)'
    BY <1>h, <2>1 DEF OwnOk, ThreadOk, ClientOk, At
  <2>3. ASSUME NEW a \in Actors, reg[a] # 0, phase \in {"up", "stopping"}
        PROVE  HasState(a) \/ ReachedAsBefore(c, a)
    <3>1. CASE Cur(a) = Own(c)
      BY <1>4, <2>3, <3>1 DEF StateInv, StateFound
    <3>2. CASE Cur(a) # Own(c)
      <4>1. handle'[Cur(a)] = handle[Cur(a)]
        BY <1>1, <2>3, <3>2, CurType
      <4> QED
        BY <2>1, <3>2, <4>1 DEF ReachedAsBefore
    <3> QED
      BY <3>1, <3>2
  <2> QED
    BY <1>h, <1>1, <1>2, <2>1, <2>2, <2>3, SlotsKept DEF At
<1> QED
  BY <1>3, <1>4

LEMMA TryLockState ==
  ASSUME TypeOK, TypeOK', StateInv, NEW c \in Clients, TryLock(c)
  PROVE  StateInv'
<1> DEFINE h == Own(c)
           locks == handle[h].lock = NoThread
           runs == locks /\ handle[h].slot # 0 /\ h[1] \in callback
<1>h. /\ c \in Threads /\ handle \in [Handles -> HandleRecords] /\ h \in Handles
      /\ \A k \in Handles : handle[k] \in HandleRecords
      /\ c \notin Workers /\ th \in [Threads -> ThreadRecords] /\ th[c] \in ThreadRecords
      /\ h = <<th[c].act, th[c].gen>>
  BY LocalsType, ThreadAssumption DEF TypeOK, Threads, Own
<1>1. /\ Moves(c) /\ th'[c].act = th[c].act /\ th'[c].gen = th[c].gen /\ th[c].pc = "trylock"
      /\ th'[c].pc = (IF runs THEN "handling" ELSE "giveup")
      /\ th'[c].inc = (IF runs THEN handle[h].slot ELSE 0) /\ Own(c)' = h
  BY <1>h DEF TryLock, Moves, ThreadRecords, At, Own
<1>2. /\ SameSlots /\ SameRunning /\ LocksBy(c) /\ (locks => handle'[h].lock = c)
  BY <1>h DEF TryLock, SameSlots, SameRunning, LocksBy, HandleRecords
<1>3. UNCHANGED <<reg, top, dead, phase>>
  BY DEF TryLock, registry, outside
<1>4. OwnOk(c)'
  <2>1. HandleOk(h)
    BY <1>h DEF StateInv
  <2>2. ClientOk(c)'
    BY <1>h, <1>1, <1>2, <2>1 DEF ClientOk, HandleOk, SameSlots, At
  <2>3. ThreadOk(c)'
    BY <1>1 DEF ThreadOk, At
  <2> QED
    BY <1>h, <2>2, <2>3 DEF OwnOk
<1>5. \A a \in Actors : reg[a] # 0 => ReachedAsBefore(c, a)
  <2> SUFFICES ASSUME NEW a \in Actors, reg[a] # 0 PROVE ReachedAsBefore(c, a)
    OBVIOUS
  <2>1. Cur(a) \in Handles
    BY CurType
  <2> QED
    BY <1>1, <1>2, <2>1 DEF ReachedAsBefore, SameRunning, Calling
<1> QED
  BY <1>h, <1>1, <1>2, <1>3, <1>4, <1>5, SlotsKept DEF At

LEMMA FastCrashesState ==
  ASSUME TypeOK, TypeOK', AccessInv, StateInv, NEW c \in Clients, FastCrashes(c)
  PROVE  StateInv'
<1> DEFINE h == Own(c)
<1>c. c \in Threads /\ th[c] \in ThreadRecords /\ c \notin Workers /\ NoThread \notin Workers
      /\ th \in [Threads -> ThreadRecords] /\ At(c, "handling") /\ Inside(c)
  BY ThreadAssumption DEF Threads, TypeOK, FastCrashes, Inside, InsidePCs, At
<1>o. h \in Handles /\ h = <<th[c].act, th[c].gen>>
  BY <1>c, Occupied
<1>h. handle \in [Handles -> HandleRecords] /\ handle[h] \in HandleRecords
  BY <1>o DEF TypeOK
<1>1. Moves(c) /\ th'[c].pc = "decide" /\ Own(c)' = h
  BY <1>c DEF FastCrashes, Moves, ThreadRecords, Own
<1>2. /\ \A k \in Handles \ {h} : handle'[k] = handle[k]
      /\ handle'[h].slot = 0 /\ handle'[h].running = handle[h].running
      /\ handle'[h].lock = NoThread
  BY <1>o, <1>h DEF FastCrashes, HandleRecords
<1>3. UNCHANGED <<reg, top, phase>>
  BY DEF FastCrashes, registry, outside
<1>4. Retired(c) = h /\ handle[h].slot = th[c].gen /\ th[c].gen # 0
  BY <1>o, <1>c, LocalsType DEF StateInv, ClientOk, Retired, Gens
<1>5. dead' = dead \cup {h}
  BY <1>4 DEF FastCrashes
<1>6. OwnOk(c)'
  BY <1>c, <1>1 DEF OwnOk, ThreadOk, ClientOk, At
<1>7. \A u \in Workers \ {c} : At(u, "putback") => th[u].act # th[c].act
  <2> SUFFICES ASSUME NEW u \in Workers \ {c}, At(u, "putback"), th[u].act = th[c].act PROVE FALSE
    OBVIOUS
  <2>1. WorkerOk(u) /\ th[u].gen = reg[th[u].act] /\ th[u].gen \in Gens
    BY LocalsType DEF StateInv, WorkerOk, Threads
  <2>2. Own(u) = h
    <3>1. reg[th[c].act] # 0
      BY <2>1 DEF Gens
    <3>2. Cur(th[c].act) = h
      BY <1>c, <3>1, Occupied
    <3> QED
      BY <2>1, <3>2 DEF Own, Cur
  <2> QED
    BY <1>4, <2>1, <2>2 DEF WorkerOk, InHand, At
<1> QED
  BY <1>c, <1>1, <1>2, <1>3, <1>5, <1>6, <1>7, OwnSlotChanged DEF Calling

LEMMA CallState ==
  ASSUME TypeOK, TypeOK', AccessInv, StateInv, NEW c \in Clients, CallStep(c)
  PROVE  StateInv'
<1>c. c \in Threads /\ th[c] \in ThreadRecords /\ c \notin Workers /\ Own(c) \in Handles
      /\ th \in [Threads -> ThreadRecords] /\ handle \in [Handles -> HandleRecords]
      /\ \A h \in Handles : handle[h] \in HandleRecords
  BY ThreadAssumption, LocalsType DEF Threads, TypeOK
<1>1. CASE Push(c) \/ Notify(c) \/ AskReturns(c) \/ CheckEmpty(c)
  <2>1. SameSlots /\ LocksBy(c) /\ SameRunning
    BY <1>1, UnmovedHandles DEF Push, Notify, AskReturns, CheckEmpty
  <2>2. UNCHANGED <<reg, top, dead, phase>> /\ th[c].pc \in {"push", "notify", "await", "check"}
    BY <1>1 DEF Push, Notify, AskReturns, CheckEmpty, registry, outside, history, At
  <2>3. \/ Goto(c, "idle") \/ Goto(c, "notify") \/ Goto(c, "await")
        \/ th[c].pc = "check" /\ (Goto(c, "trylock") \/ Goto(c, "giveup"))
    BY <1>1 DEF Push, Notify, AskReturns, CheckEmpty, At
  <2> QED
    BY <1>c, <2>1, <2>2, <2>3, GotoState DEF Calling
<1>2. CASE Fallback(c) \/ Finish(c)
  <2>1. SameSlots /\ SameRunning /\ LocksBy(c)
    <3>1. handle' = handle
          \/ (handle[Own(c)].lock = c /\ handle' = [handle EXCEPT ![Own(c)].lock = NoThread])
      BY <1>2 DEF Fallback, Finish, Unlock
    <3> QED
      BY <1>c, <3>1 DEF SameSlots, SameRunning, LocksBy, HandleRecords
  <2>2. UNCHANGED <<reg, top, dead, phase>> /\ th[c].pc \in {"fallback", "finish"}
    BY <1>2 DEF Fallback, Finish, registry, outside, history, At
  <2>3. Goto(c, "push") \/ Goto(c, "idle")
    BY <1>2 DEF Fallback, Finish
  <2> QED
    BY <1>c, <2>1, <2>2, <2>3, GotoState DEF Calling
<1>3. CASE GiveUp(c) \/ FastReturns(c)
  <2>1. Moves(c) /\ th'[c].pc \in {"fallback", "finish"} /\ th[c].pc \in Calling
    <3>1. CASE GiveUp(c)
      BY <1>c, <3>1, GotoFrame DEF GiveUp, Moves, Calling, At
    <3>2. CASE FastReturns(c)
      BY <1>c, <3>2 DEF FastReturns, Moves, ThreadRecords, Calling, At
    <3> QED
      BY <1>3, <3>1, <3>2
  <2>2. handle' = [handle EXCEPT ![Own(c)].running = FALSE] /\ UNCHANGED <<reg, top, dead, phase>>
    BY <1>3 DEF GiveUp, FastReturns, registry, outside, history
  <2> QED
    BY <2>1, <2>2, LetGoState
<1> QED
  BY <1>1, <1>2, <1>3, SwapState, TryLockState, FastCrashesState DEF CallStep

-----------------------------------------------------------------------------
(* shutdown has joined the workers before it runs on_stop in place. *)
LEMMA StopActorState ==
  ASSUME TypeOK, TypeOK', AccessInv, StateInv, NEW a \in Actors, StopActor(a)
  PROVE  StateInv'
<1>0. PICK h \in Handles : h = Cur(a)
  BY CurType DEF StopActor
<1>h. /\ handle \in [Handles -> HandleRecords] /\ handle[h] \in HandleRecords
      /\ h[1] = a /\ h[2] = reg[a] /\ h[2] \in Gens /\ 0 \notin Gens /\ reg[a] = top[a]
  BY <1>0 DEF TypeOK, Cur, Handles, Gens, AccessInv, StopActor
<1>1. HandleOk(h) /\ handle[h].slot = h[2] /\ handle[h].lock = NoThread
  BY <1>0 DEF StateInv, HandleOk, StopActor
<1>2. /\ \A k \in Handles \ {h} : handle'[k] = handle[k]
      /\ handle'[h].slot = 0 /\ handle'[h].lock = NoThread
      /\ UNCHANGED <<th, reg, top, phase>> /\ phase = "cleanup" /\ dead' = dead \cup {h}
  <2>1. handle' = [handle EXCEPT ![h].slot = 0]
        /\ UNCHANGED <<th, reg, top, phase>> /\ phase = "cleanup"
    BY <1>0 DEF StopActor, OnStop, registry, outside
  <2>2. dead' = dead \cup ({<<h[1], h[2]>>} \cap (Actors \X Gens)) /\ h = <<h[1], h[2]>>
    BY <1>0, <1>1 DEF StopActor, OnStop, Cur
  <2> QED
    BY <1>1, <1>h, <2>1, <2>2 DEF HandleRecords
<1>3. \A u \in Threads : ThreadOk(u)'
  BY <1>2 DEF StateInv, ThreadOk, At
<1>4. \A w \in Workers : WorkerOk(w)'
  <2>1. \A w \in Workers : At(w, "exited")
    BY <1>2 DEF StateInv, WorkerOk
  <2> QED
    BY <1>2, <2>1 DEF WorkerOk, At, InHand
<1>5. \A c \in Clients : ClientOk(c)'
  <2> SUFFICES ASSUME NEW c \in Clients, At(c, "handling") PROVE ClientOk(c)'
    BY <1>2 DEF ClientOk, At
  <2>1. ClientOk(c) /\ Own(c) # h /\ Own(c) \in Handles
    BY <1>1, ThreadAssumption, LocalsType DEF StateInv, ClientOk, Threads
  <2>2. Own(c)' = Own(c)
    BY <1>2 DEF Own
  <2> QED
    BY <1>2, <2>1, <2>2 DEF ClientOk, At
<1>6. \A k \in Handles : HandleOk(k)'
  <2>1. \A d \in dead : d[2] \in Gens
    BY DEF StateInv, DeadOk
  <2>2. HandleOk(h)'
    BY <1>h, <1>2, <2>1, ThreadAssumption DEF HandleOk
  <2>3. ASSUME NEW k \in Handles \ {h} PROVE HandleOk(k)'
    <3>1. HandleOk(k) /\ k = <<k[1], k[2]>> /\ h = <<h[1], h[2]>>
      BY DEF StateInv, Handles
    <3>2. <<k[1], handle[k].slot>> # h
      BY <1>h, <2>3, <3>1 DEF HandleOk
    <3> QED
      BY <1>2, <2>3, <3>1, <3>2 DEF HandleOk
  <2> QED
    BY <2>2, <2>3
<1>7. \A b \in Actors : StateFound(b)'
  BY <1>2 DEF StateFound
<1>8. DeadOk'
  BY <1>2, <1>h DEF StateInv, DeadOk, Gens
<1> QED
  BY <1>3, <1>4, <1>5, <1>6, <1>7, <1>8 DEF StateInv

LEMMA ClearRegistryState ==
  ASSUME TypeOK, TypeOK', StateInv, ClearRegistry
  PROVE  StateInv'
<1>1. /\ th' = th /\ top' = top /\ dead' = dead /\ phase' = "down" /\ phase = "cleanup"
      /\ \A a \in Actors : reg'[a] = 0
  BY DEF ClearRegistry, history
<1>2. \A h \in Handles : handle'[h].slot = handle[h].slot /\ handle'[h].lock = handle[h].lock
  <2>1. \A h \in Handles : handle[h] \in HandleRecords
    BY DEF TypeOK
  <2> QED
    BY <2>1 DEF ClearRegistry, HandleRecords
<1>3. \A u \in Threads : ThreadOk(u)'
  BY <1>1, LocalsType DEF StateInv, ThreadOk, At
<1>4. \A w \in Workers : WorkerOk(w)'
  <2>1. \A w \in Workers : At(w, "exited")
    BY <1>1 DEF StateInv, WorkerOk
  <2> QED
    BY <1>1, <2>1 DEF WorkerOk, At, InHand
<1>5. \A c \in Clients : ClientOk(c)'
  <2>1. \A c \in Clients : Own(c) \in Handles /\ Own(c)' = Own(c)
    BY <1>1, LocalsType DEF Own, Threads
  <2> QED
    BY <1>1, <1>2, <2>1 DEF StateInv, ClientOk, At
<1>6. \A h \in Handles : HandleOk(h)'
  BY <1>1, <1>2 DEF StateInv, HandleOk
<1>7. \A a \in Actors : StateFound(a)'
  BY <1>1 DEF StateFound
<1>8. DeadOk'
  BY <1>1 DEF StateInv, DeadOk
<1> QED
  BY <1>3, <1>4, <1>5, <1>6, <1>7, <1>8 DEF StateInv

LEMMA OtherState ==
  ASSUME TypeOK, TypeOK', AccessInv, StateInv,
         \/ \E c \in Clients : ClientChoice(c)
         \/ \E t \in Threads : HandlerChoice(t)
         \/ StopAll \/ ShutdownStep \/ Rest \/ UNCHANGED vars
  PROVE  StateInv'
<1>h. /\ handle \in [Handles -> HandleRecords]
      /\ \A h \in Handles : handle[h] \in HandleRecords
  BY DEF TypeOK
<1>1. ASSUME NEW c \in Clients, NEW a \in Actors, NEW tag \in {"send", "ask"}, Call(c, a, tag)
      PROVE  StateInv'
  <2>1. c \in Threads /\ th \in [Threads -> ThreadRecords] /\ c \notin Workers
    BY ThreadAssumption DEF Threads, TypeOK
  <2>2. Moves(c) /\ th'[c].pc \in {"swap", "push"} /\ th[c].pc = "idle"
    BY <1>1, <2>1 DEF Call, Moves, ThreadRecords, At
  <2>3. SameSlots /\ LocksBy(c) /\ SameRunning
    BY <1>1, UnmovedHandles DEF Call
  <2>4. Quietly(c)
    BY <1>1, <2>1, <2>2, <2>3 DEF Call, Quietly, registry, history, Calling
  <2> QED
    BY <2>1, <2>4, QuietState
<1>2. ASSUME NEW c \in Clients, NEW a \in Actors, Resolve(c, a) PROVE StateInv'
  <2>1. /\ th' = th /\ handle' = handle /\ reg' = reg /\ top' = top
        /\ dead' = dead /\ phase' = phase
    BY <1>2 DEF Resolve, registry, history
  <2>2. SameSlots /\ SameRunning /\ \A h \in Handles : handle'[h].lock = handle[h].lock
    BY <2>1 DEF SameSlots, SameRunning
  <2>3. UNCHANGED <<reg, top, dead>>
    BY <2>1
  <2> QED
    BY <2>1, <2>2, <2>3, UnmovedState
<1>3. ASSUME NEW a \in Actors, RequestStop(a) PROVE StateInv'
  <2>1. SameSlots /\ SameRunning /\ \A h \in Handles : handle'[h].lock = handle[h].lock
    BY <1>3, <1>h DEF RequestStop, SameSlots, SameRunning, HandleRecords
  <2>2. th' = th /\ reg' = reg /\ top' = top /\ dead' = dead /\ phase' = phase
    BY <1>3 DEF RequestStop, registry, outside, history
  <2> QED
    BY <2>1, <2>2, UnmovedState
<1>4. ASSUME NEW t \in Threads, NEW b \in Actors, Forward(t, b) PROVE StateInv'
  BY <1>4, UnmovedState DEF Forward, SameSlots, SameRunning, registry, history
<1>5. CASE StopAll
  BY <1>5, UnmovedState DEF StopAll, SameSlots, SameRunning, registry
<1>6. CASE JoinWorkers
  <2>1. \A w \in Workers : At(w, "exited")
    BY <1>6 DEF JoinWorkers, WorkersGone, Gone, StateInv, ThreadOk, Threads, At
  <2> QED
    BY <1>6, <2>1, UnmovedState DEF JoinWorkers, SameSlots, SameRunning, registry, history
<1>7. CASE Rest \/ UNCHANGED vars
  <2>1. /\ th' = th /\ handle' = handle /\ reg' = reg /\ top' = top
        /\ dead' = dead /\ phase' = phase
    BY <1>7 DEF Rest, vars, registry, outside, history
  <2>2. SameSlots /\ SameRunning /\ \A h \in Handles : handle'[h].lock = handle[h].lock
    BY <2>1 DEF SameSlots, SameRunning
  <2> QED
    BY <2>1, <2>2, UnmovedState
<1>8. CASE \E c \in Clients : ClientChoice(c)
  BY <1>1, <1>2, <1>3, <1>8 DEF ClientChoice
<1>9. CASE \E t \in Threads : HandlerChoice(t)
  BY <1>3, <1>4, <1>9, LocalsType DEF HandlerChoice
<1> QED
  BY <1>5, <1>6, <1>7, <1>8, <1>9, StopActorState, ClearRegistryState DEF ShutdownStep

LEMMA StateStep ==
  ASSUME TypeOK, TypeOK', AccessInv, StateInv, [Next]_vars
  PROVE  StateInv'
  BY WorkerState, CrashState, CallState, OtherState DEF Next

LEMMA InitState == Init => StateInv
<1> SUFFICES ASSUME Init PROVE StateInv
  OBVIOUS
<1>1. TypeOK
  BY InitType
<1>2. \A t \in Threads : th[t].pc = "idle"
  BY DEF Init, IdleThread
<1>3. \A h \in Handles : handle[h].slot = h[2] /\ handle[h].lock = NoThread
  BY DEF Init, NewHandle
<1>4. \A t \in Threads : ThreadOk(t)
  BY <1>2 DEF ThreadOk, At
<1>5. \A w \in Workers : WorkerOk(w)
  BY <1>2 DEF WorkerOk, At, InHand, Threads, Init
<1>6. \A c \in Clients : ClientOk(c)
  BY <1>2 DEF ClientOk, At, Threads
<1>7. \A h \in Handles : HandleOk(h)
  BY <1>3, ThreadAssumption DEF HandleOk, Init
<1>8. \A a \in Actors : StateFound(a)
  <2>1. \A a \in Actors : reg[a] = 1 /\ Cur(a) = <<a, 1>>
    BY DEF Init, Cur
  <2>2. \A a \in Actors : Cur(a) \in Handles
    BY <1>1, <2>1, CurType
  <2> QED
    BY <1>3, <2>1, <2>2 DEF StateFound, HasState
<1>9. DeadOk
  BY DEF DeadOk, Init
<1> QED
  BY <1>4, <1>5, <1>6, <1>7, <1>8, <1>9 DEF StateInv

(* Where the states are, with actors restarted one by one: in the newest    *)
(* handle, in the hands of the worker that took it, or dead.                *)
THEOREM StateInvariant == Strategy = "OneForOne" => (Spec => []StateInv)
<1> SUFFICES ASSUME Strategy = "OneForOne" PROVE Spec => []StateInv
  OBVIOUS
<1>1. Spec => []TypeOK
  BY TypeCorrect
<1>2. Spec => []AccessInv
  BY AccessInvariant
<1>3. TypeOK /\ TypeOK' /\ AccessInv /\ StateInv /\ [Next]_vars => StateInv'
  BY StateStep
<1> QED
  BY <1>1, <1>2, <1>3, InitState, PTL DEF Spec

(* The expect of process_actor never fails and no mutex is poisoned ... *)
THEOREM NoPanicHolds == Strategy = "OneForOne" => (Spec => []NoPanic)
<1>1. StateInv => NoPanic
  BY DEF StateInv, ThreadOk, NoPanic
<1> QED
  BY <1>1, StateInvariant, PTL

(* ... a handler runs on the state of the newest incarnation ... *)
THEOREM FreshStateHolds == Strategy = "OneForOne" => (Spec => []FreshState)
<1>1. TypeOK /\ AccessInv /\ StateInv => FreshState
  <2> SUFFICES ASSUME TypeOK, AccessInv, StateInv, NEW t \in Threads, At(t, "handling")
               PROVE  th[t].inc = top[th[t].act]
    BY DEF FreshState
  <2>1. th[t].inc = th[t].gen
    BY DEF StateInv, WorkerOk, ClientOk, InHand, At, Threads
  <2>2. Inside(t)
    BY DEF Inside, InsidePCs, At
  <2> QED
    BY <2>1, <2>2, Occupied
<1> QED
  BY <1>1, TypeCorrect, AccessInvariant, StateInvariant, PTL

(* ... and never on one that crashed or was stopped, wherever it is found. *)
THEOREM NoReuseHolds == Strategy = "OneForOne" => (Spec => []NoReuse)
<1>1. TypeOK /\ StateInv => NoReuse
  <2> SUFFICES ASSUME TypeOK, StateInv PROVE NoReuse
    OBVIOUS
  <2>1. ASSUME NEW t \in Threads, At(t, "handling") PROVE Retired(t) \notin dead
    <3>1. CASE t \in Workers
      BY <2>1, <3>1 DEF StateInv, WorkerOk, InHand, At
    <3>2. CASE t \in Clients
      <4>1. ClientOk(t) /\ Own(t) \in Handles
        BY <3>2, LocalsType DEF StateInv
      <4>2. HandleOk(Own(t))
        BY <4>1 DEF StateInv
      <4> QED
        BY <2>1, <4>1, <4>2 DEF ClientOk, HandleOk, Retired, Own
    <3> QED
      BY <3>1, <3>2 DEF Threads
  <2>2. \A h \in Handles : <<h[1], handle[h].slot>> \notin dead
    BY DEF StateInv, HandleOk
  <2> QED
    BY <2>1, <2>2 DEF NoReuse
<1> QED
  BY <1>1, TypeCorrect, StateInvariant, PTL
=============================================================================
