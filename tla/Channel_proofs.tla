---------------------------- MODULE Channel_proofs ----------------------------
(***************************************************************************)
(* Proofs about Channel, for any sets of threads, any capacities and any   *)
(* sizes of the socket buffer: type correctness, that nobody oversleeps on *)
(* an unbounded channel, and that the channel implements BoundedFifo.      *)
(***************************************************************************)
EXTENDS ChannelProps, FiniteSetTheorems, SequenceTheorems, TLAPS

(* The bound on the exploration: calls under way will not exceed it.       *)
WithinBound == IsFiniteSet(Sending) /\ Len(queue) + Cardinality(Sending) <= MaxItems

TypeInv == TypeOK /\ WithinBound

(* On an unbounded channel only receivers sleep.                           *)
OnlyReceiversSleep == capacity = 0 => \A t \in waiting : t \in Receivers /\ pc[t] = "recv"

SleepInv == OnlyReceiversSleep /\ NoOversleptReceiver

-----------------------------------------------------------------------------
(* Type correctness.                                                       *)

LEMMA InitType == Init => TypeInv
<1> SUFFICES ASSUME Init PROVE TypeInv
  OBVIOUS
<1>1. Sending = {}
  BY DEF Init, Sending, Threads
<1>2. IsFiniteSet(Sending) /\ Cardinality(Sending) = 0
  BY <1>1, FS_EmptySet
<1>3. <<"none">> \in Results /\ "idle" \in Ops
  BY DEF Results, Ops
<1>4. queue \in Seq(Items) /\ Len(queue) = 0 /\ head \in 0..Len(queue)
  BY DEF Init
<1>5. pc \in [Threads -> Ops] /\ res \in [Threads -> Results]
  BY <1>3 DEF Init
<1>6. wake \in 0..WakeCap
  BY ChannelAssumption DEF Init
<1>7. waiting = {} /\ closed \in BOOLEAN /\ capacity \in Capacities /\ live \subseteq Threads
      /\ holder \in Threads \cup {NoThread}
  BY ChannelAssumption DEF Init
<1>8. TypeOK
  BY <1>4, <1>5, <1>6, <1>7 DEF TypeOK
<1> QED
  BY <1>2, <1>4, <1>8, ChannelAssumption DEF TypeInv, WithinBound

(* A call of which pc moves from one operation to another, or to its end.  *)
(* The threads that are about to push lose t, or gain it, or stay.         *)
LEMMA SendingShrinks ==
  ASSUME TypeInv, NEW t \in Threads, NEW l \in Ops \ {"send", "sendr", "trysend"}, Goto(t, l)
  PROVE  /\ Sending' = Sending \ {t}
         /\ IsFiniteSet(Sending')
         /\ Cardinality(Sending') = IF t \in Sending THEN Cardinality(Sending) - 1 ELSE Cardinality(Sending)
         /\ Cardinality(Sending) \in Nat
<1>1. Sending' = Sending \ {t}
  BY DEF Sending, Goto, TypeInv, TypeOK
<1> QED
  BY <1>1, FS_RemoveElement, FS_CardinalityType DEF TypeInv, WithinBound

LEMMA SendingSame ==
  ASSUME TypeInv, NEW t \in Threads, NEW l \in Ops, t \in Senders, t \in Sending,
         l \in {"send", "sendr", "trysend"}, Goto(t, l)
  PROVE  Sending' = Sending
  BY DEF Sending, Goto, TypeInv, TypeOK

LEMMA SendingGrows ==
  ASSUME TypeInv, NEW t \in Senders, NEW l \in {"send", "sendr", "trysend"},
         pc[t] = "idle", Goto(t, l)
  PROVE  /\ IsFiniteSet(Sending')
         /\ Cardinality(Sending') = Cardinality(Sending) + 1
<1>1. Sending' = Sending \cup {t} /\ t \notin Sending
  BY DEF Sending, Goto, TypeInv, TypeOK, Threads
<1> QED
  BY <1>1, FS_AddElement DEF TypeInv, WithinBound

(* What the ends of the operations do to the types.                        *)
LEMMA GotoType ==
  ASSUME TypeInv, NEW t \in Threads, NEW l \in Ops, Goto(t, l), t \notin waiting,
         waiting' \subseteq waiting
  PROVE  /\ pc' \in [Threads -> Ops]
         /\ waiting' \subseteq {u \in Threads : pc'[u] \in {"send", "recv"}}
  BY DEF Goto, TypeInv, TypeOK

LEMMA ReturnType ==
  ASSUME TypeInv, NEW t \in Threads, NEW x \in Results, Return(t, x)
  PROVE  res' \in [Threads -> Results]
  BY DEF Return, TypeInv, TypeOK

LEMMA NotifyOneShrinks == NotifyOne => waiting' \subseteq waiting
  BY DEF NotifyOne

LEMMA ResultWords ==
  /\ <<"ok">> \in Results /\ <<"full">> \in Results /\ <<"closed">> \in Results
  /\ <<"empty">> \in Results /\ <<"end">> \in Results /\ Items \subseteq Results
  BY DEF Results

LEMMA OpWords ==
  /\ "idle" \in Ops \ {"send", "sendr", "trysend"} /\ "wake" \in Ops \ {"send", "sendr", "trysend"}
  /\ {"take", "seen", "parked", "drain", "recv", "tryrecv", "close"} \subseteq Ops \ {"send", "sendr", "trysend"}
  /\ {"send", "sendr", "trysend"} \subseteq Ops
  BY DEF Ops

LEMMA WakeAndUnlockType ==
  ASSUME TypeInv, NEW t \in Threads, WakeAndUnlock(t), holder = NoThread
  PROVE  /\ wake' \in 0..WakeCap /\ holder' \in Threads \cup {NoThread}
         /\ \E l \in Ops \ {"send", "sendr", "trysend"} : Goto(t, l)
<1>1. CASE wake < WakeCap
  BY <1>1, OpWords, ChannelAssumption DEF WakeAndUnlock, TypeInv, TypeOK
<1>2. CASE ~(wake < WakeCap)
  BY <1>2, OpWords DEF WakeAndUnlock, TypeInv, TypeOK
<1> QED
  BY <1>1, <1>2

LEMMA PushType ==
  ASSUME TypeInv, NEW t \in Threads, t \in Sending, Locked(t, pc[t]), Push(t),
         UNCHANGED <<capacity, live>>
  PROVE  TypeInv'
<1>1. PICK l \in Ops \ {"send", "sendr", "trysend"} : Goto(t, l)
  BY WakeAndUnlockType DEF Push, Locked
<1>2. Cardinality(Sending) \in Nat /\ Cardinality(Sending) >= 1
      /\ IsFiniteSet(Sending') /\ Cardinality(Sending') = Cardinality(Sending) - 1
<2>1. IsFiniteSet(Sending') /\ Cardinality(Sending') = Cardinality(Sending) - 1
      /\ Cardinality(Sending) \in Nat
  BY <1>1, SendingShrinks
<2>2. Cardinality(Sending') \in Nat
  BY <2>1, FS_CardinalityType
<2> QED
  BY <2>1, <2>2
<1>3. Len(queue) \in Nat /\ MaxItems \in Nat /\ Len(queue) + 1 \in 1..MaxItems
  BY <1>2, ChannelAssumption DEF TypeInv, TypeOK, WithinBound
<1>4. Item(t) \in Items
  BY <1>3 DEF Item, Items, Sending
<1>5. queue' \in Seq(Items) /\ Len(queue') = Len(queue) + 1
  BY <1>4, AppendProperties DEF Push, TypeInv, TypeOK
<1>6. pc' \in [Threads -> Ops] /\ waiting' \subseteq {u \in Threads : pc'[u] \in {"send", "recv"}}
  BY <1>1, GotoType, NotifyOneShrinks DEF Push, Locked
<1>7. res' \in [Threads -> Results]
  BY ReturnType, ResultWords DEF Push
<1>8. wake' \in 0..WakeCap /\ holder' \in Threads \cup {NoThread}
  BY WakeAndUnlockType DEF Push, Locked
<1>9. TypeOK'
  BY <1>3, <1>5, <1>6, <1>7, <1>8 DEF Push, TypeInv, TypeOK
<1> QED
  BY <1>2, <1>3, <1>5, <1>9 DEF TypeInv, WithinBound

LEMMA PopType ==
  ASSUME TypeInv, NEW t \in Threads, Locked(t, pc[t]), Pop(t), UNCHANGED <<capacity, live>>
  PROVE  TypeInv'
<1>1. Goto(t, "idle")
  BY DEF Pop
<1>2. Len(queue) \in Nat /\ head + 1 \in 1..Len(queue) /\ queue[head + 1] \in Items
  BY DEF Pop, Pending, TypeInv, TypeOK
<1>3. pc' \in [Threads -> Ops] /\ waiting' \subseteq {u \in Threads : pc'[u] \in {"send", "recv"}}
  BY <1>1, GotoType, NotifyOneShrinks, OpWords DEF Pop, Locked
<1>4. res' \in [Threads -> Results]
  BY <1>2, ReturnType, ResultWords DEF Pop
<1>5. WithinBound'
  BY <1>1, <1>2, SendingShrinks, OpWords, ChannelAssumption DEF Pop, TypeInv, WithinBound
<1> QED
  BY <1>2, <1>3, <1>4, <1>5 DEF Pop, TypeInv, TypeOK

(* A call that ends, or goes on to another operation, and leaves the queue *)
(* and the mutex alone.                                                    *)
LEMMA MoveType ==
  ASSUME TypeInv, NEW t \in Threads, NEW l \in Ops, Goto(t, l), t \notin waiting,
         l \in {"send", "sendr", "trysend"} => t \in Sending,
         UNCHANGED <<queue, head, capacity, live, waiting>>,
         closed' \in BOOLEAN, wake' \in 0..WakeCap, holder' \in Threads \cup {NoThread},
         res' \in [Threads -> Results]
  PROVE  TypeInv'
<1>1. pc' \in [Threads -> Ops] /\ waiting' \subseteq {u \in Threads : pc'[u] \in {"send", "recv"}}
  BY GotoType
<1>2. WithinBound'
<2>1. CASE l \in {"send", "sendr", "trysend"}
<3>1. t \in Senders
  BY <2>1 DEF Sending
<3> QED
  BY <2>1, <3>1, SendingSame DEF TypeInv, WithinBound
<2>2. CASE l \notin {"send", "sendr", "trysend"}
  BY <2>2, SendingShrinks, ChannelAssumption DEF TypeInv, WithinBound, TypeOK
<2> QED
  BY <2>1, <2>2
<1> QED
  BY <1>1, <1>2 DEF TypeInv, TypeOK

LEMMA FinishType ==
  ASSUME TypeInv, NEW t \in Threads, NEW x \in Results, Finish(t, x), t \notin waiting,
         UNCHANGED <<capacity, live>>
  PROVE  TypeInv'
<1>1. res' \in [Threads -> Results]
  BY ReturnType DEF Finish
<1> QED
  BY <1>1, MoveType, OpWords DEF Finish, chan, TypeInv, TypeOK

LEMMA WaitType ==
  ASSUME TypeInv, NEW t \in Threads, pc[t] \in {"send", "recv"}, Wait(t),
         UNCHANGED <<capacity, live>>
  PROVE  TypeInv'
<1>1. TypeOK'
  BY DEF Wait, chan, TypeInv, TypeOK
<1>2. Sending' = Sending
  BY DEF Wait, Sending
<1> QED
  BY <1>1, <1>2 DEF Wait, chan, TypeInv, WithinBound

-----------------------------------------------------------------------------
(* One lemma per action.                                                   *)

LEMMA CallType ==
  ASSUME TypeInv, NEW t \in Threads, Call(t), UNCHANGED <<capacity, live>>
  PROVE  TypeInv'
<1>1. t \notin waiting
  BY DEF Call, TypeInv, TypeOK
<1>2. CASE \E l \in {"recv", "tryrecv", "close", "drain"} : Goto(t, l)
<2>1. PICK l \in {"recv", "tryrecv", "close", "drain"} : Goto(t, l)
  BY <1>2
<2> QED
  BY <1>1, <2>1, MoveType, OpWords DEF Call, chan, TypeInv, TypeOK
<1>3. CASE /\ t \in Senders /\ Len(queue) + Cardinality(Sending) < MaxItems
           /\ \E op \in {"send", "sendr", "trysend"} : Goto(t, op)
<2>1. PICK op \in {"send", "sendr", "trysend"} : Goto(t, op)
  BY <1>3
<2>2. IsFiniteSet(Sending') /\ Cardinality(Sending') = Cardinality(Sending) + 1
  BY <1>3, <2>1, SendingGrows DEF Call
<2>3. Cardinality(Sending) \in Nat /\ Len(queue) \in Nat /\ MaxItems \in Nat
  BY FS_CardinalityType, ChannelAssumption DEF TypeInv, TypeOK, WithinBound
<2>4. WithinBound'
  BY <1>3, <2>2, <2>3 DEF Call, chan, WithinBound
<2>5. pc' \in [Threads -> Ops] /\ waiting' \subseteq {u \in Threads : pc'[u] \in {"send", "recv"}}
  BY <1>1, <2>1, GotoType, OpWords DEF Call
<2> QED
  BY <2>4, <2>5 DEF Call, chan, TypeInv, TypeOK
<1> QED
  BY <1>2, <1>3 DEF Call

LEMMA SendType ==
  ASSUME TypeInv, NEW t \in Threads, UNCHANGED <<capacity, live>>,
         t \in Senders, Send(t) \/ TrySend(t)
  PROVE  TypeInv'
<1>1. t \in Sending /\ Locked(t, pc[t])
  BY DEF Send, TrySend, Locked, Sending
<1>2. CASE Push(t)
  BY <1>1, <1>2, PushType
<1>3. CASE pc[t] = "send" /\ Wait(t)
  BY <1>3, WaitType
<1>4. CASE Finish(t, <<"full">>)
  BY <1>1, <1>4, FinishType, ResultWords DEF Locked
<1> QED
  BY <1>2, <1>3, <1>4 DEF Send, TrySend, Locked

LEMMA SendResultType ==
  ASSUME TypeInv, NEW t \in Threads, UNCHANGED <<capacity, live>>, t \in Senders, SendResult(t)
  PROVE  TypeInv'
<1>1. t \notin waiting /\ t \in Sending
  BY DEF SendResult, Sending, TypeInv, TypeOK
<1>2. CASE Finish(t, <<"closed">>)
  BY <1>1, <1>2, FinishType, ResultWords
<1>3. CASE Goto(t, "send") /\ UNCHANGED <<chan, wake, holder, waiting, res>>
  BY <1>1, <1>3, MoveType, OpWords DEF chan, TypeInv, TypeOK
<1> QED
  BY <1>2, <1>3 DEF SendResult

LEMMA CloseType ==
  ASSUME TypeInv, NEW t \in Threads, UNCHANGED <<capacity, live>>, CloseChannel(t)
  PROVE  TypeInv'
<1>1. PICK l \in Ops \ {"send", "sendr", "trysend"} : Goto(t, l)
  BY WakeAndUnlockType DEF CloseChannel, Locked
<1>2. pc' \in [Threads -> Ops] /\ waiting' \subseteq {u \in Threads : pc'[u] \in {"send", "recv"}}
  BY <1>1, GotoType DEF CloseChannel, Locked
<1>3. res' \in [Threads -> Results]
  BY ReturnType, ResultWords DEF CloseChannel
<1>4. wake' \in 0..WakeCap /\ holder' \in Threads \cup {NoThread}
  BY WakeAndUnlockType DEF CloseChannel, Locked
<1>5. WithinBound'
  BY <1>1, SendingShrinks, ChannelAssumption DEF CloseChannel, TypeInv, WithinBound, TypeOK
<1> QED
  BY <1>2, <1>3, <1>4, <1>5 DEF CloseChannel, TypeInv, TypeOK

LEMMA WakeByteType ==
  ASSUME TypeInv, NEW t \in Threads, UNCHANGED <<capacity, live>>, WakeByte(t)
  PROVE  TypeInv'
<1>1. t \notin waiting /\ wake' \in 0..WakeCap
  BY ChannelAssumption DEF WakeByte, TypeInv, TypeOK
<1> QED
  BY <1>1, MoveType, OpWords DEF WakeByte, chan, TypeInv, TypeOK

LEMMA RecvType ==
  ASSUME TypeInv, NEW t \in Threads, UNCHANGED <<capacity, live>>, Recv(t) \/ TryRecv(t) \/ PollTake(t)
  PROVE  TypeInv'
<1>1. Locked(t, pc[t]) /\ t \notin waiting
  BY DEF Recv, TryRecv, PollTake, Locked
<1>2. CASE Pop(t)
  BY <1>1, <1>2, PopType
<1>3. CASE pc[t] = "recv" /\ Wait(t)
  BY <1>3, WaitType
<1>4. CASE \E x \in {<<"end">>, <<"empty">>} : Finish(t, x)
  BY <1>1, <1>4, FinishType, ResultWords
<1>5. CASE Goto(t, "seen") /\ UNCHANGED <<chan, wake, holder, waiting, res>>
  BY <1>1, <1>5, MoveType, OpWords DEF chan, TypeInv, TypeOK
<1> QED
  BY <1>2, <1>3, <1>4, <1>5 DEF Recv, TryRecv, PollTake, Locked

LEMMA PollType ==
  ASSUME TypeInv, NEW t \in Threads, UNCHANGED <<capacity, live>>,
         Drain(t) \/ PollClosed(t) \/ Unpark(t)
  PROVE  TypeInv'
<1>1. t \notin waiting
  BY DEF Drain, PollClosed, Unpark, TypeInv, TypeOK
<1>2. CASE Drain(t)
<2>1. wake' \in 0..WakeCap
  BY <1>2, ChannelAssumption DEF Drain, TypeInv, TypeOK
<2> QED
  BY <1>1, <1>2, <2>1, MoveType, OpWords DEF Drain, chan, TypeInv, TypeOK
<1>3. CASE PollClosed(t) /\ closed
  BY <1>1, <1>3, FinishType, ResultWords DEF PollClosed
<1>4. CASE PollClosed(t) /\ ~closed
  BY <1>1, <1>4, MoveType, OpWords DEF PollClosed, chan, TypeInv, TypeOK
<1>5. CASE Unpark(t)
  BY <1>1, <1>5, MoveType, OpWords DEF Unpark, chan, TypeInv, TypeOK
<1> QED
  BY <1>2, <1>3, <1>4, <1>5

(* The operations of a handle are called by the threads that hold one.     *)
CallersHold ==
  \A t \in Threads :
    /\ pc[t] \in {"send", "sendr", "trysend"} => t \in Senders
    /\ pc[t] = "recv" => t \in Receivers
    /\ pc[t] \in {"drain", "take", "seen", "parked"} => t \in Pollers

LEMMA CallersHoldInit == Init => CallersHold
  BY DEF Init, CallersHold

LEMMA CallersHoldStep == TypeInv /\ CallersHold /\ [Next]_vars => CallersHold'
<1> SUFFICES ASSUME TypeInv, CallersHold, [Next]_vars PROVE CallersHold'
  OBVIOUS
<1> USE DEF TypeInv, TypeOK, CallersHold, Goto
<1>1. CASE UNCHANGED vars
  BY <1>1 DEF vars
<1>2. CASE Next
<2>1. PICK t \in Threads : Call(t) \/ Step(t) \/ SpuriousWakeup(t)
  BY <1>2 DEF Next
<2>2. CASE Call(t)
  BY <2>2 DEF Call
<2>3. CASE SpuriousWakeup(t)
  BY <2>3 DEF SpuriousWakeup
<2>4. CASE Send(t) \/ TrySend(t) \/ CloseChannel(t) \/ WakeByte(t)
  BY <2>4 DEF Send, TrySend, CloseChannel, WakeByte, Push, Wait, Finish, WakeAndUnlock
<2>5. CASE Recv(t) \/ TryRecv(t) \/ PollTake(t)
  BY <2>5 DEF Recv, TryRecv, PollTake, Pop, Wait, Finish, Locked
<2>6. CASE SendResult(t) \/ Drain(t) \/ PollClosed(t) \/ Unpark(t)
  BY <2>6 DEF SendResult, Drain, PollClosed, Unpark, Finish
<2> QED
  BY <2>1, <2>2, <2>3, <2>4, <2>5, <2>6 DEF Step
<1> QED
  BY <1>1, <1>2

LEMMA StepType == TypeInv /\ CallersHold /\ [Next]_vars => TypeInv'
<1> SUFFICES ASSUME TypeInv, CallersHold, [Next]_vars PROVE TypeInv'
  OBVIOUS
<1>1. CASE UNCHANGED vars
<2>1. Sending' = Sending
  BY <1>1 DEF vars, Sending
<2> QED
  BY <1>1, <2>1 DEF vars, TypeInv, TypeOK, WithinBound
<1>2. CASE Next
<2>1. PICK t \in Threads : Call(t) \/ Step(t) \/ SpuriousWakeup(t)
  BY <1>2 DEF Next
<2>2. UNCHANGED <<capacity, live>>
  BY <1>2 DEF Next
<2>3. CASE Call(t)
  BY <2>2, <2>3, CallType
<2>4. CASE SpuriousWakeup(t)
<3>1. Sending' = Sending
  BY <2>4 DEF SpuriousWakeup, Sending
<3> QED
  BY <2>2, <2>4, <3>1 DEF SpuriousWakeup, chan, TypeInv, TypeOK, WithinBound
<2>5. CASE Send(t) \/ TrySend(t) \/ SendResult(t)
<3>1. t \in Senders
  BY <2>5 DEF Send, TrySend, SendResult, Locked, CallersHold
<3> QED
  BY <2>2, <2>5, <3>1, SendType, SendResultType
<2>6. CASE CloseChannel(t) \/ WakeByte(t)
  BY <2>2, <2>6, CloseType, WakeByteType
<2>7. CASE Recv(t) \/ TryRecv(t) \/ PollTake(t)
  BY <2>2, <2>7, RecvType
<2>8. CASE Drain(t) \/ PollClosed(t) \/ Unpark(t)
  BY <2>2, <2>8, PollType
<2> QED
  BY <2>1, <2>3, <2>4, <2>5, <2>6, <2>7, <2>8 DEF Step
<1> QED
  BY <1>1, <1>2

LEMMA Invariance == Spec => [](TypeInv /\ CallersHold)
<1>1. Init => TypeInv /\ CallersHold
  BY InitType, CallersHoldInit
<1>2. (TypeInv /\ CallersHold) /\ [Next]_vars => (TypeInv /\ CallersHold)'
  BY StepType, CallersHoldStep
<1> QED
  BY <1>1, <1>2, PTL DEF Spec

(* The channel keeps to its types whatever its threads do.                 *)
THEOREM TypeCorrect == Spec => []TypeOK
<1>1. TypeInv => TypeOK
  BY DEF TypeInv
<1> QED
  BY <1>1, Invariance, PTL

-----------------------------------------------------------------------------
(* Nobody oversleeps on an unbounded channel.                              *)

LEMMA SleepInit == Init => SleepInv
  BY DEF Init, SleepInv, OnlyReceiversSleep, NoOversleptReceiver

(* A woken thread that stays in recv, while only t moves, is on its way to *)
(* the queue.                                                              *)
LEMMA NotifyKeepsSleep ==
  ASSUME TypeInv, SleepInv, NEW t \in Threads, NEW l \in Ops, Goto(t, l), t \notin waiting,
         NotifyOne, UNCHANGED capacity
  PROVE  SleepInv'
<1> SUFFICES ASSUME capacity = 0
             PROVE  /\ \A u \in waiting' : u \in Receivers /\ pc'[u] = "recv"
                    /\ waiting' # {} => AwakeReceivers' # {}
  BY DEF SleepInv, OnlyReceiversSleep, NoOversleptReceiver
<1>1. \A u \in Threads \ {t} : pc'[u] = pc[u]
  BY DEF Goto, TypeInv, TypeOK
<1>2. \A u \in waiting : u \in Receivers /\ pc'[u] = "recv"
  BY <1>1 DEF SleepInv, OnlyReceiversSleep, TypeInv, TypeOK
<1>3. CASE waiting = {}
  BY <1>3 DEF NotifyOne
<1>4. CASE waiting # {}
<2>1. PICK w \in waiting : waiting' = waiting \ {w}
  BY <1>4 DEF NotifyOne
<2>2. w \in AwakeReceivers'
  BY <1>2, <2>1 DEF AwakeReceivers
<2> QED
  BY <1>2, <2>1, <2>2
<1> QED
  BY <1>3, <1>4

(* A thread that leaves, or joins, the receivers while the queue is empty, *)
(* or is none of them, changes nothing for the sleepers.                   *)
LEMMA MoveKeepsSleep ==
  ASSUME TypeInv, SleepInv, NEW t \in Threads, NEW l \in Ops, Goto(t, l), t \notin waiting,
         UNCHANGED <<queue, head, capacity, waiting>>, pc[t] = "recv" => Pending = 0
  PROVE  SleepInv'
<1>1. \A u \in Threads \ {t} : pc'[u] = pc[u]
  BY DEF Goto, TypeInv, TypeOK
<1>2. OnlyReceiversSleep'
  BY <1>1 DEF SleepInv, OnlyReceiversSleep, TypeInv, TypeOK
<1>3. Pending' = Pending
  BY DEF Pending
<1>4. pc[t] # "recv" => AwakeReceivers \subseteq AwakeReceivers'
  BY <1>1 DEF AwakeReceivers, Threads
<1>5. NoOversleptReceiver'
  BY <1>3, <1>4 DEF SleepInv, NoOversleptReceiver, TypeInv, TypeOK
<1> QED
  BY <1>2, <1>5 DEF SleepInv

LEMMA FinishKeepsSleep ==
  ASSUME TypeInv, SleepInv, NEW t \in Threads, NEW x, Finish(t, x), t \notin waiting,
         UNCHANGED capacity, pc[t] = "recv" => Pending = 0
  PROVE  SleepInv'
  BY MoveKeepsSleep, OpWords DEF Finish, chan

LEMMA PushKeepsSleep ==
  ASSUME TypeInv, SleepInv, NEW t \in Threads, Locked(t, pc[t]), Push(t), UNCHANGED capacity
  PROVE  SleepInv'
<1>1. \E l \in Ops : Goto(t, l)
  BY WakeAndUnlockType DEF Push, Locked
<1> QED
  BY <1>1, NotifyKeepsSleep DEF Push, Locked

LEMMA SleepStep == TypeInv /\ CallersHold /\ SleepInv /\ [Next]_vars => SleepInv'
<1> SUFFICES ASSUME TypeInv, CallersHold, SleepInv, [Next]_vars PROVE SleepInv'
  OBVIOUS
<1>1. CASE UNCHANGED vars
  BY <1>1 DEF vars, SleepInv, OnlyReceiversSleep, NoOversleptReceiver, AwakeReceivers, Pending
<1>2. CASE Next
<2>1. PICK t \in Threads : Call(t) \/ Step(t) \/ SpuriousWakeup(t)
  BY <1>2 DEF Next
<2>2. UNCHANGED capacity
  BY <1>2 DEF Next
<2>3. CASE Call(t)
<3>1. t \notin waiting /\ pc[t] # "recv"
  BY <2>3 DEF Call, TypeInv, TypeOK
<3>2. \E l \in Ops : Goto(t, l)
  BY <2>3, OpWords DEF Call
<3> QED
  BY <2>2, <2>3, <3>1, <3>2, MoveKeepsSleep DEF Call, chan
<2>4. CASE SpuriousWakeup(t)
<3>1. capacity = 0 => t \in AwakeReceivers'
  BY <2>4 DEF SpuriousWakeup, SleepInv, OnlyReceiversSleep, AwakeReceivers
<3> QED
  BY <2>2, <2>4, <3>1 DEF SpuriousWakeup, SleepInv, OnlyReceiversSleep, NoOversleptReceiver
<2>5. CASE Send(t) \/ TrySend(t)
<3>1. t \notin waiting /\ Locked(t, pc[t]) /\ pc[t] # "recv"
  BY <2>5 DEF Send, TrySend, Locked
<3>2. CASE Push(t)
  BY <2>2, <3>1, <3>2, PushKeepsSleep
<3>3. CASE Full /\ Wait(t)
<4>1. capacity # 0
  BY <3>3 DEF Full, TypeInv, TypeOK
<4> QED
  BY <2>2, <4>1 DEF SleepInv, OnlyReceiversSleep, NoOversleptReceiver
<3>4. CASE Finish(t, <<"full">>)
  BY <2>2, <3>1, <3>4, FinishKeepsSleep
<3> QED
  BY <2>5, <3>2, <3>3, <3>4 DEF Send, TrySend
<2>6. CASE CloseChannel(t)
  BY <2>6 DEF CloseChannel, SleepInv, OnlyReceiversSleep, NoOversleptReceiver
<2>7. CASE SendResult(t) \/ WakeByte(t) \/ Drain(t) \/ PollClosed(t) \/ Unpark(t)
<3>1. t \notin waiting /\ pc[t] # "recv"
  BY <2>7 DEF SendResult, WakeByte, Drain, PollClosed, Unpark, TypeInv, TypeOK
<3>2. UNCHANGED <<queue, head, waiting>>
  BY <2>7 DEF SendResult, WakeByte, Drain, PollClosed, Unpark, Finish, chan
<3>3. \E l \in Ops : Goto(t, l)
  BY <2>7, OpWords DEF SendResult, WakeByte, Drain, PollClosed, Unpark, Finish
<3> QED
  BY <2>2, <3>1, <3>2, <3>3, MoveKeepsSleep
<2>8. CASE Recv(t) \/ TryRecv(t) \/ PollTake(t)
<3>1. t \notin waiting
  BY <2>8 DEF Recv, TryRecv, PollTake, Locked
<3>2. CASE Pop(t)
  BY <2>2, <3>1, <3>2, NotifyKeepsSleep, OpWords DEF Pop
<3>3. CASE pc[t] = "recv" /\ Pending = 0 /\ Wait(t)
<4>1. Pending' = 0
  BY <3>3 DEF Wait, chan, Pending
<4>2. t \in Threads /\ (capacity = 0 => OnlyReceiversSleep')
<5>1. t \in Receivers
  BY <3>3 DEF CallersHold
<5> QED
  BY <3>3, <5>1 DEF Wait, SleepInv, OnlyReceiversSleep
<4> QED
  BY <2>2, <4>1, <4>2 DEF SleepInv, OnlyReceiversSleep, NoOversleptReceiver
<3>4. CASE Pending = 0 /\ \E x \in {<<"end">>, <<"empty">>} : Finish(t, x)
  BY <2>2, <3>1, <3>4, FinishKeepsSleep
<3>5. CASE pc[t] = "take" /\ Goto(t, "seen") /\ UNCHANGED <<chan, wake, holder, waiting, res>>
  BY <2>2, <3>1, <3>5, MoveKeepsSleep, OpWords DEF chan
<3> QED
  BY <2>8, <3>2, <3>3, <3>4, <3>5 DEF Recv, TryRecv, PollTake, Locked
<2> QED
  BY <2>1, <2>3, <2>4, <2>5, <2>6, <2>7, <2>8 DEF Step
<1> QED
  BY <1>1, <1>2

(* On an unbounded channel a receiver that sleeps while an item is there   *)
(* has an awake one before it: no mix of recv, try_recv, close, spurious   *)
(* wakeups and asynchronous receivers loses the signal of a send.          *)
THEOREM NobodyOversleeps == Spec => []NoOversleptReceiver
<1>1. Init => SleepInv
  BY SleepInit
<1>2. (TypeInv /\ CallersHold) /\ SleepInv /\ [Next]_vars => SleepInv'
  BY SleepStep
<1>3. SleepInv => NoOversleptReceiver
  BY DEF SleepInv
<1> QED
  BY <1>1, <1>2, <1>3, Invariance, PTL DEF Spec

-----------------------------------------------------------------------------
(* A lone asynchronous receiver is not left parked.                        *)

(* Between its look at the queue and its sleep an item that comes brings a *)
(* byte that only the poller itself reads; from its look at closed on, so  *)
(* does the end.  Only threads with a handle are inside of an operation.   *)
ParkInv ==
  /\ \A t \in Threads : pc[t] # "idle" => t \in live
  /\ \A p \in Pollers : live \cap Pollers = {p} /\ pc[p] = "seen" /\ Pending > 0 => wake > 0
  /\ ParkedIsWoken

LEMMA ParkInit == Init => ParkInv
  BY DEF Init, ParkInv, ParkedIsWoken, Threads

(* A thread that writes its byte, or finds the buffer full: there is one.  *)
LEMMA BytesThere ==
  ASSUME TypeInv, NEW t \in Threads, WakeAndUnlock(t) \/ WakeByte(t)
  PROVE  wake' > 0
  BY ChannelAssumption DEF WakeAndUnlock, WakeByte, TypeInv, TypeOK

(* Only t moves, and t is inside of an operation or holds a handle.        *)
LEMMA OnlyHolders ==
  ASSUME TypeInv, ParkInv, NEW t \in Threads, t \in live, live' = live,
         pc' = pc \/ \E l : Goto(t, l)
  PROVE  \A u \in Threads : pc'[u] # "idle" => u \in live'
  BY DEF ParkInv, Goto, TypeInv, TypeOK

(* A step after which there are bytes, or after which there is nothing new *)
(* to look at and the bytes are still there.                               *)
LEMMA StaysWoken ==
  ASSUME TypeInv, ParkInv, NEW t \in Threads, t \in live, live' = live,
         pc' = pc \/ \E l \in Ops \ {"seen", "parked"} : Goto(t, l),
         wake' > 0 \/ (wake' = wake /\ closed' = closed /\ (Pending' > 0 => Pending > 0))
  PROVE  ParkInv'
<1>1. \A u \in Threads : pc'[u] # "idle" => u \in live'
  BY OnlyHolders
<1>2. \A p \in Pollers : pc'[p] \in {"seen", "parked"} => pc'[p] = pc[p]
  BY DEF Goto, TypeInv, TypeOK, Threads
<1> QED
  BY <1>1, <1>2 DEF ParkInv, ParkedIsWoken

LEMMA ParkStep == TypeInv /\ CallersHold /\ ParkInv /\ [Next]_vars => ParkInv'
<1> SUFFICES ASSUME TypeInv, CallersHold, ParkInv, [Next]_vars PROVE ParkInv'
  OBVIOUS
<1>1. CASE UNCHANGED vars
  BY <1>1 DEF vars, ParkInv, ParkedIsWoken, Pending
<1>2. CASE Next
<2>1. PICK t \in Threads : Call(t) \/ Step(t) \/ SpuriousWakeup(t)
  BY <1>2 DEF Next
<2>2. live' = live
  BY <1>2 DEF Next
<2>3. t \in live
<3>1. CASE Call(t)
  BY <3>1 DEF Call
<3>2. CASE SpuriousWakeup(t)
  BY <3>2 DEF SpuriousWakeup, ParkInv, TypeInv, TypeOK
<3>3. CASE Step(t)
<4>1. pc[t] # "idle"
  BY <3>3 DEF Step, Send, TrySend, SendResult, CloseChannel, WakeByte, Recv, TryRecv, Drain, PollTake,
              PollClosed, Unpark, Locked
<4> QED
  BY <4>1 DEF ParkInv
<3> QED
  BY <2>1, <3>1, <3>2, <3>3
<2>n. (queue' = queue /\ head' = head => Pending' = Pending) /\ Pending \in Int /\ head \in Int
  BY DEF Pending, TypeInv, TypeOK
<2>4. CASE Call(t)
<3>1. (\E l \in Ops \ {"seen", "parked"} : Goto(t, l)) /\ UNCHANGED <<chan, wake>>
  BY <2>4 DEF Call, Ops
<3> QED
  BY <2>2, <2>3, <2>n, <3>1, StaysWoken DEF chan
<2>5. CASE SpuriousWakeup(t)
  BY <2>2, <2>3, <2>5, <2>n, StaysWoken DEF SpuriousWakeup, chan
<2>6. CASE Push(t) \/ CloseChannel(t) \/ WakeByte(t)
<3>1. wake' > 0
  BY <2>6, BytesThere DEF Push, CloseChannel
<3>2. \E l \in Ops \ {"seen", "parked"} : Goto(t, l)
  BY <2>6 DEF Push, CloseChannel, WakeByte, WakeAndUnlock, Ops
<3> QED
  BY <2>2, <2>3, <3>1, <3>2, StaysWoken
<2>7. CASE Wait(t) \/ \E x : Finish(t, x)
<3>1. UNCHANGED <<chan, wake>> /\ (pc' = pc \/ Goto(t, "idle"))
  BY <2>7 DEF Wait, Finish
<3>2. "idle" \in Ops \ {"seen", "parked"}
  BY DEF Ops
<3> QED
  BY <2>2, <2>3, <2>n, <3>1, <3>2, StaysWoken DEF chan
<2>8. CASE Pop(t)
<3>1. closed' = closed /\ wake' = wake /\ Goto(t, "idle") /\ Pending > 0
  BY <2>8 DEF Pop
<3>2. "idle" \in Ops \ {"seen", "parked"}
  BY DEF Ops
<3> QED
  BY <2>2, <2>3, <3>1, <3>2, StaysWoken
<2>9. CASE (SendResult(t) \/ Unpark(t)) /\ \E l \in {"send", "drain"} : Goto(t, l) /\ UNCHANGED <<chan, wake>>
<3>1. \E l \in Ops \ {"seen", "parked"} : Goto(t, l)
  BY <2>9 DEF Ops
<3> QED
  BY <2>2, <2>3, <2>9, <2>n, <3>1, StaysWoken DEF chan
<2>10. CASE Drain(t)
<3>1. t \in Pollers /\ Goto(t, "take") /\ t \in live
  BY <2>3, <2>10 DEF Drain, CallersHold
<3>2. \A u \in Threads : pc'[u] # "idle" => u \in live'
  BY <2>2, <2>3, <3>1, OnlyHolders
<3>3. \A p \in Pollers : live' \cap Pollers = {p} => p = t /\ pc'[p] = "take"
  BY <2>2, <3>1 DEF Goto, TypeInv, TypeOK
<3> QED
  BY <3>2, <3>3 DEF ParkInv, ParkedIsWoken
<2>11. CASE Pending = 0 /\ Goto(t, "seen") /\ UNCHANGED <<chan, wake>>
<3>1. \A u \in Threads : pc'[u] # "idle" => u \in live'
  BY <2>2, <2>3, <2>11, OnlyHolders
<3>2. ~(Pending' > 0) /\ wake' = wake /\ closed' = closed
  BY <2>11, <2>n DEF chan
<3>3. \A p \in Pollers : pc'[p] = "parked" => pc[p] = "parked"
  BY <2>11 DEF Goto, TypeInv, TypeOK, Threads
<3> QED
  BY <2>2, <3>1, <3>2, <3>3 DEF ParkInv, ParkedIsWoken
<2>12. CASE pc[t] = "seen" /\ ~closed /\ Goto(t, "parked") /\ UNCHANGED <<chan, wake>>
<3>1. \A u \in Threads : pc'[u] # "idle" => u \in live'
  BY <2>2, <2>3, <2>12, OnlyHolders
<3>2. Pending' = Pending /\ wake' = wake /\ ~closed'
  BY <2>12, <2>n DEF chan
<3>3. \A p \in Pollers : pc'[p] = pc[p] \/ (p = t /\ pc[p] = "seen" /\ pc'[p] = "parked")
  BY <2>12 DEF Goto, TypeInv, TypeOK, Threads
<3> QED
  BY <2>2, <3>1, <3>2, <3>3 DEF ParkInv, ParkedIsWoken
<2> QED
<3>1. CASE Send(t) \/ TrySend(t)
  BY <2>6, <2>7, <3>1 DEF Send, TrySend
<3>2. CASE SendResult(t) \/ Unpark(t)
<4>1. (\E x : Finish(t, x)) \/ \E l \in {"send", "drain"} : Goto(t, l) /\ UNCHANGED <<chan, wake>>
  BY <3>2 DEF SendResult, Unpark
<4> QED
  BY <2>7, <2>9, <3>2, <4>1
<3>3. CASE CloseChannel(t) \/ WakeByte(t)
  BY <2>6, <3>3
<3>4. CASE Recv(t) \/ TryRecv(t)
  BY <2>7, <2>8, <3>4 DEF Recv, TryRecv
<3>5. CASE PollTake(t)
  BY <2>8, <2>11, <3>5 DEF PollTake
<3>6. CASE PollClosed(t)
  BY <2>7, <2>12, <3>6 DEF PollClosed
<3> QED
  BY <2>1, <2>4, <2>5, <2>10, <3>1, <3>2, <3>3, <3>4, <3>5, <3>6 DEF Step
<1> QED
  BY <1>1, <1>2

(* An asynchronous receiver that is the only one is never parked without a *)
(* byte while there is an item or the channel is closed, whatever the size *)
(* of the socket buffer and of what one poll drains.                       *)
THEOREM NobodyParksUnwoken == Spec => []ParkedIsWoken
<1>1. (TypeInv /\ CallersHold) /\ ParkInv /\ [Next]_vars => ParkInv'
  BY ParkStep
<1>2. ParkInv => ParkedIsWoken
  BY DEF ParkInv
<1> QED
  BY <1>1, <1>2, ParkInit, Invariance, PTL DEF Spec

-----------------------------------------------------------------------------
(* The channel implements the shared queue.                                *)

Held == SubSeq(queue, head + 1, Len(queue))

LEMMA HeldLength ==
  ASSUME TypeInv
  PROVE  /\ Held \in Seq(Items) /\ Len(Held) = Pending
         /\ Held = <<>> <=> Pending = 0
         /\ Fifo!Room <=> ~Full
<1>1. head \in Nat /\ Len(queue) \in Nat /\ head <= Len(queue) /\ queue \in Seq(Items)
  BY DEF TypeInv, TypeOK
<1>2. Held \in Seq(Items) /\ Len(Held) = Pending
  BY <1>1, SubSeqProperties DEF Held, Pending
<1>3. Held = <<>> <=> Pending = 0
  BY <1>1, <1>2
<1>4. capacity \in Nat
  BY ChannelAssumption DEF TypeInv, TypeOK
<1> QED
  BY <1>1, <1>2, <1>3, <1>4 DEF Fifo!Room, Full, Held, Pending

LEMMA PushIsPut ==
  ASSUME TypeInv, NEW t \in Threads, t \in Sending, Push(t), ~Full, UNCHANGED capacity
  PROVE  Fifo!Next
<1>1. head \in Nat /\ Len(queue) \in Nat /\ head <= Len(queue) /\ queue \in Seq(Items)
  BY DEF TypeInv, TypeOK
<1>2. Item(t) \in Items
<2>1. Cardinality(Sending) \in Nat /\ Cardinality(Sending \ {t}) \in Nat
      /\ Cardinality(Sending \ {t}) = Cardinality(Sending) - 1
  BY FS_RemoveElement, FS_CardinalityType DEF TypeInv, WithinBound
<2>2. Len(queue) + 1 \in 1..MaxItems
  BY <1>1, <2>1, ChannelAssumption DEF TypeInv, WithinBound
<2> QED
  BY <2>2 DEF Item, Items, Sending
<1>3. queue' = Append(queue, Item(t)) /\ head' = head
  BY DEF Push
<1>4. queue' \in Seq(Items) /\ Len(queue') = Len(queue) + 1
  BY <1>1, <1>2, <1>3, AppendProperties
<1>5. Held' = Append(Held, Item(t))
<2>1. Held' \in Seq(Items) /\ Len(Held') = Len(queue) + 1 - head
      /\ \A i \in 1..Len(queue) + 1 - head : Held'[i] = queue'[head + i]
<3>1. head' + 1 \in 1..Len(queue') + 1 /\ Len(queue') \in 0..Len(queue')
  BY <1>1, <1>3, <1>4
<3> QED
  BY <1>1, <1>3, <1>4, <3>1, SubSeqProperties DEF Held
<2>2. Held \in Seq(Items) /\ Len(Held) = Len(queue) - head
      /\ \A i \in 1..Len(queue) - head : Held[i] = queue[head + i]
  BY <1>1, SubSeqProperties DEF Held
<2>3. Append(Held, Item(t)) \in Seq(Items) /\ Len(Append(Held, Item(t))) = Len(Held) + 1
      /\ \A i \in 1..Len(Held) : Append(Held, Item(t))[i] = Held[i]
      /\ Append(Held, Item(t))[Len(Held) + 1] = Item(t)
  BY <1>2, <2>2, AppendProperties
<2>4. /\ \A i \in 1..Len(queue) : queue'[i] = queue[i]
      /\ queue'[Len(queue) + 1] = Item(t)
  BY <1>1, <1>2, <1>3, AppendProperties
<2>5. \A i \in 1..Len(queue) + 1 - head : Held'[i] = Append(Held, Item(t))[i]
<3> SUFFICES ASSUME NEW i \in 1..Len(queue) + 1 - head
             PROVE  Held'[i] = Append(Held, Item(t))[i]
  OBVIOUS
<3>1. CASE i \in 1..Len(queue) - head
<4>1. head + i \in 1..Len(queue)
  BY <1>1, <3>1
<4> QED
  BY <3>1, <4>1, <2>1, <2>2, <2>3, <2>4
<3>2. CASE i = Len(queue) + 1 - head
<4>1. head + i = Len(queue) + 1 /\ i = Len(Held) + 1
  BY <1>1, <2>2, <3>2
<4> QED
  BY <4>1, <2>1, <2>3, <2>4
<3>3. i \in 1..Len(queue) - head \/ i = Len(queue) + 1 - head
  BY <1>1
<3> QED
  BY <3>1, <3>2, <3>3
<2>6. Len(Held') = Len(Append(Held, Item(t))) /\ Len(Held') = Len(queue) + 1 - head
  BY <1>1, <2>1, <2>2, <2>3
<2>7. \A i \in 1..Len(Held') : Held'[i] = Append(Held, Item(t))[i]
  BY <2>5, <2>6
<2> HIDE DEF Held
<2> QED
  BY <2>1, <2>3, <2>6, <2>7, SeqEqual
<1>6. Fifo!Put(t, Item(t))
  BY <1>5, HeldLength DEF Fifo!Put, Fifo!Says, Fifo!Returns, Push, Return, Held
<1> QED
  BY <1>2, <1>6 DEF Fifo!Next

LEMMA PopIsTake ==
  ASSUME TypeInv, NEW t \in Threads, Pop(t), UNCHANGED capacity
  PROVE  Fifo!Next
<1>1. head \in Nat /\ Len(queue) \in Nat /\ head + 1 <= Len(queue) /\ queue \in Seq(Items)
  BY DEF Pop, Pending, TypeInv, TypeOK
<1>2. Head(Held) = queue[head + 1] /\ Tail(Held) = SubSeq(queue, head + 1 + 1, Len(queue))
  BY <1>1, HeadTailOfSubSeq DEF Held
<1>3. Held # <<>>
  BY <1>1, HeldLength DEF Pending
<1>4. Fifo!Take(t)
  BY <1>2, <1>3 DEF Fifo!Take, Fifo!Returns, Pop, Return, Held
<1> QED
  BY <1>4 DEF Fifo!Next

LEMMA FinishIsReport ==
  ASSUME TypeInv, NEW t \in Threads, NEW word, Finish(t, <<word>>), UNCHANGED capacity,
         \/ word = "full" /\ Full
         \/ word = "closed" /\ closed
         \/ word = "empty" /\ Pending = 0
         \/ word = "end" /\ closed /\ (Pending = 0 \/ t \in Pollers)
  PROVE  Fifo!Next
<1>1. Fifo!Report(t)
  BY HeldLength DEF Fifo!Report, Fifo!Says, Fifo!Returns, Finish, Return, chan, Held
<1> QED
  BY <1>1 DEF Fifo!Next

LEMMA StepRefines == TypeInv /\ CallersHold /\ [Next]_vars => [Fifo!Next]_Fifo!fifoVars
<1> SUFFICES ASSUME TypeInv, CallersHold, [Next]_vars
             PROVE  Fifo!Next \/ UNCHANGED <<queue, head, closed, capacity, res>>
<2>1. UNCHANGED <<queue, head, closed, capacity, res>> => UNCHANGED Fifo!fifoVars
  BY DEF Fifo!fifoVars
<2> QED
  BY <2>1
<1>1. CASE UNCHANGED vars
  BY <1>1 DEF vars
<1>2. CASE Next
<2>1. PICK t \in Threads : Call(t) \/ Step(t) \/ SpuriousWakeup(t)
  BY <1>2 DEF Next
<2>2. UNCHANGED capacity
  BY <1>2 DEF Next
<2>3. CASE Send(t) \/ TrySend(t)
<3>1. t \in Sending
  BY <2>3 DEF Send, TrySend, Locked, Sending, CallersHold
<3> QED
  BY <2>2, <2>3, <3>1, PushIsPut, FinishIsReport DEF Send, TrySend, Wait, chan
<2>4. CASE Recv(t) \/ TryRecv(t) \/ PollTake(t)
<3>1. CASE Pop(t)
  BY <2>2, <3>1, PopIsTake
<3>2. CASE Pending = 0 /\ Finish(t, <<"empty">>)
  BY <2>2, <3>2, FinishIsReport
<3>3. CASE Pending = 0 /\ closed /\ Finish(t, <<"end">>)
  BY <2>2, <3>3, FinishIsReport
<3> QED
  BY <2>2, <2>4, <3>1, <3>2, <3>3 DEF Recv, TryRecv, PollTake, Wait, chan
<2>5. CASE CloseChannel(t)
<3>1. Fifo!Close(t)
  BY <2>2, <2>5 DEF Fifo!Close, Fifo!Says, Fifo!Returns, CloseChannel, Return
<3> QED
  BY <3>1 DEF Fifo!Next
<2>6. CASE SendResult(t)
  BY <2>2, <2>6, FinishIsReport DEF SendResult, chan
<2>7. CASE PollClosed(t)
<3>1. t \in Pollers
  BY <2>7 DEF PollClosed, CallersHold
<3> QED
  BY <2>2, <2>7, <3>1, FinishIsReport DEF PollClosed, chan
<2>8. CASE Call(t) \/ SpuriousWakeup(t) \/ WakeByte(t) \/ Drain(t) \/ Unpark(t)
  BY <2>2, <2>8 DEF Call, SpuriousWakeup, WakeByte, Drain, Unpark, chan
<2> QED
  BY <2>1, <2>3, <2>4, <2>5, <2>6, <2>7, <2>8 DEF Step
<1> QED
  BY <1>1, <1>2

LEMMA InitRefines == Init => Fifo!Init
<1> SUFFICES ASSUME Init PROVE Fifo!Init
  OBVIOUS
<1>1. SubSeq(queue, head + 1, Len(queue)) = <<>>
  BY SubSeqEmpty DEF Init
<1>2. capacity \in Nat
  BY ChannelAssumption DEF Init
<1> QED
  BY <1>1, <1>2 DEF Init, Fifo!Init

(* Whatever threads share it, the channel is the queue of BoundedFifo:     *)
(* every operation takes effect at one instant, in the order of the queue. *)
THEOREM ImplementsFifo == Spec => RefinesFifo
<1>1. Init => Fifo!Init
  BY InitRefines
<1>2. (TypeInv /\ CallersHold) /\ [Next]_vars => [Fifo!Next]_Fifo!fifoVars
  BY StepRefines
<1> QED
  BY <1>1, <1>2, Invariance, PTL DEF Spec, RefinesFifo, Fifo!Spec
=============================================================================
