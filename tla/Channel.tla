------------------------------ MODULE Channel ------------------------------
(***************************************************************************)
(* std::sync::Channel (sync/channel.rl) with the mutex, the condition      *)
(* variable and the socket pair it is built from, and the executor's       *)
(* block_on that drives its asynchronous receiver.                         *)
(*                                                                         *)
(* A region between m.lock() and m.unlock() or cv.wait() is one action: no *)
(* other thread reads what it writes without the lock, except `closed` and *)
(* the wake-up bytes, and it writes each of those once.  The one place     *)
(* where such a region can block, send_all on a full socket buffer, is a   *)
(* state of its own ("wake"), reached with the mutex held.                 *)
(***************************************************************************)
EXTENDS Integers, Sequences, FiniteSets

CONSTANTS
  Senders, Receivers,   \* threads that hold a Sender, a Receiver
  Pollers,              \* threads that call block_on(rx.recv_async())
  Capacities,           \* capacities a channel may be built with, 0 = none
  WakeCap,              \* bytes the socket pair buffers before send_all blocks
  DrainMax,             \* bytes one poll of RecvAsync reads
  MaxItems,             \* items ever sent: a bound on the exploration
  Fleets,               \* the sets of threads that may share a channel
  NoThread

Threads == Senders \cup Receivers \cup Pollers
Items == Senders \X (1..MaxItems)
Ops == {"idle", "send", "sendr", "trysend", "close", "wake",
        "recv", "tryrecv", "drain", "take", "seen", "parked"}
Results == {<<word>> : word \in {"none", "ok", "full", "closed", "empty", "end"}} \cup Items

ASSUME ChannelAssumption ==
  /\ NoThread \notin Threads
  /\ Capacities \subseteq Nat
  /\ WakeCap \in Nat \ {0} /\ DrainMax \in Nat \ {0} /\ MaxItems \in Nat
  /\ Fleets \subseteq SUBSET Threads
  /\ Senders \cap Receivers = {} /\ Senders \cap Pollers = {}
  /\ Receivers \cap Pollers = {}

VARIABLES
  queue, head, closed, capacity,  \* the fields of Channel
  holder,                         \* the owner of the mutex between actions
  waiting,                        \* threads inside cv.wait
  wake,                           \* bytes in the socket pair
  live,                           \* the threads that were given a handle
  pc, res                         \* the call each thread is in, its last result

chan == <<queue, head, closed>>
vars == <<queue, head, closed, capacity, holder, waiting, wake, live, pc, res>>

----------------------------------------------------------------------------
Pending == Len(queue) - head
Full == capacity > 0 /\ Pending >= capacity
Goto(t, l) == pc' = [pc EXCEPT ![t] = l]
Return(t, x) == res' = [res EXCEPT ![t] = x]

(* pthread_cond_signal: one waiter, any of them, or nobody. *)
NotifyOne ==
  IF waiting = {} THEN UNCHANGED waiting
                  ELSE \E w \in waiting : waiting' = waiting \ {w}

(* The end of send, try_send and close: the wake-up byte, then unlock. *)
WakeAndUnlock(t) ==
  IF wake < WakeCap
    THEN wake' = wake + 1 /\ Goto(t, "idle") /\ UNCHANGED holder
    ELSE holder' = t /\ Goto(t, "wake") /\ UNCHANGED wake

(* Items are told apart by their place in the order of sending. *)
Item(t) == <<t, Len(queue) + 1>>

(* mutant: an item is pushed and no receiver is told *)
PushSilently(t) ==
  /\ queue' = Append(queue, Item(t)) /\ UNCHANGED <<head, closed, waiting>>
  /\ WakeAndUnlock(t) /\ Return(t, <<"ok">>)

(* Vec::push, notify_one and the byte, under the lock. *)
Push(t) ==
  /\ queue' = Append(queue, Item(t)) /\ UNCHANGED <<head, closed>>
  /\ NotifyOne
  /\ WakeAndUnlock(t)
  /\ Return(t, <<"ok">>)

(* The item at head goes to t and one waiter is woken; the vector keeps it. *)
Pop(t) ==
  /\ Pending > 0
  /\ head' = head + 1 /\ UNCHANGED <<queue, closed>>
  /\ NotifyOne
  /\ Return(t, queue[head + 1])
  /\ Goto(t, "idle")
  /\ UNCHANGED <<wake, holder>>

Wait(t) ==
  /\ waiting' = waiting \cup {t}
  /\ UNCHANGED <<chan, wake, holder, pc, res>>

Finish(t, x) ==
  /\ Return(t, x) /\ Goto(t, "idle")
  /\ UNCHANGED <<chan, wake, holder, waiting>>

(* pthread_mutex_lock succeeds for a thread that is at operation op. *)
Locked(t, op) == pc[t] = op /\ t \notin waiting /\ holder = NoThread

----------------------------------------------------------------------------
Init ==
  /\ queue = <<>> /\ head = 0 /\ closed = FALSE
  /\ capacity \in Capacities
  /\ holder = NoThread /\ waiting = {} /\ wake = 0
  /\ live \in Fleets
  /\ pc = [t \in Threads |-> "idle"]
  /\ res = [t \in Threads |-> <<"none">>]

Sending == {t \in Senders : pc[t] \in {"send", "sendr", "trysend"}}

(* A thread calls one of the operations of its handle. *)
Call(t) ==
  /\ t \in live /\ pc[t] = "idle"
  /\ \/ t \in Senders /\ Len(queue) + Cardinality(Sending) < MaxItems
        /\ \E op \in {"send", "sendr", "trysend"} : Goto(t, op)
     \/ t \in Senders /\ ~closed /\ Goto(t, "close")   \* again: one more byte only
     \/ t \in Receivers /\ \E op \in {"recv", "tryrecv"} : Goto(t, op)
     \/ t \in Pollers /\ Goto(t, "drain")
  /\ UNCHANGED <<chan, wake, holder, waiting, res>>

(* mutant: off by one at the capacity *)
SendOneTooMany(t) ==
  /\ Locked(t, "send")
  /\ IF capacity > 0 /\ Pending > capacity THEN Wait(t) ELSE Push(t)

Send(t) ==
  /\ Locked(t, "send")
  /\ IF Full THEN Wait(t) ELSE Push(t)

TrySend(t) ==
  /\ Locked(t, "trysend")
  /\ IF Full THEN Finish(t, <<"full">>) ELSE Push(t)

(* send_result looks at closed without the lock, and only then sends. *)
SendResult(t) ==
  /\ pc[t] = "sendr"
  /\ IF closed THEN Finish(t, <<"closed">>)
     ELSE Goto(t, "send") /\ UNCHANGED <<chan, wake, holder, waiting, res>>

(* mutant: notify_one in place of notify_all *)
CloseOne(t) ==
  /\ Locked(t, "close")
  /\ closed' = TRUE /\ UNCHANGED <<queue, head>>
  /\ NotifyOne /\ WakeAndUnlock(t) /\ Return(t, <<"ok">>)

CloseChannel(t) ==
  /\ Locked(t, "close")
  /\ closed' = TRUE /\ UNCHANGED <<queue, head>>
  /\ waiting' = {}
  /\ WakeAndUnlock(t)
  /\ Return(t, <<"ok">>)

(* send_all of a thread that found the socket buffer full goes through. *)
WakeByte(t) ==
  /\ pc[t] = "wake" /\ wake < WakeCap
  /\ wake' = wake + 1 /\ holder' = NoThread /\ Goto(t, "idle")
  /\ UNCHANGED <<chan, waiting, res>>

Recv(t) ==
  /\ Locked(t, "recv")
  /\ \/ Pop(t)
     \/ Pending = 0 /\ closed /\ Finish(t, <<"end">>)
     \/ Pending = 0 /\ ~closed /\ Wait(t)

(* try_recv and next report "empty"; try_recv_result tells the two apart. *)
TryRecv(t) ==
  /\ Locked(t, "tryrecv")
  /\ \/ Pop(t)
     \/ Pending = 0 /\ Finish(t, <<"empty">>)
     \/ Pending = 0 /\ closed /\ Finish(t, <<"end">>)

(* mutant: more bytes are read than there are *)
DrainMaxAlways(t) ==
  /\ pc[t] = "drain" /\ wake > 0
  /\ wake' = wake - DrainMax
  /\ Goto(t, "take")
  /\ UNCHANGED <<chan, holder, waiting, res>>

(* RecvAsync::poll: recv(2) on the blocking wake_r, which sleeps while the *)
(* socket pair holds no byte.                                              *)
Drain(t) ==
  /\ pc[t] = "drain" /\ wake > 0
  /\ wake' = IF wake > DrainMax THEN wake - DrainMax ELSE 0
  /\ Goto(t, "take")
  /\ UNCHANGED <<chan, holder, waiting, res>>

PollTake(t) ==
  /\ Locked(t, "take")
  /\ \/ Pop(t)
     \/ Pending = 0 /\ Goto(t, "seen") /\ UNCHANGED <<chan, wake, holder, waiting, res>>

(* mutant: the bytes are drained after the look at the queue *)
ParkDraining(t) ==
  /\ pc[t] = "seen"
  /\ IF closed THEN Finish(t, <<"end">>)
     ELSE wake' = 0 /\ Goto(t, "parked") /\ UNCHANGED <<chan, holder, waiting, res>>

(* ... then closed, read without the lock: Ready(None) or Pending. *)
PollClosed(t) ==
  /\ pc[t] = "seen"
  /\ IF closed THEN Finish(t, <<"end">>)
     ELSE Goto(t, "parked") /\ UNCHANGED <<chan, wake, holder, waiting, res>>

(* block_on waits in poll(2) for wake_r to be readable and polls again. *)
Unpark(t) ==
  /\ pc[t] = "parked" /\ wake > 0
  /\ Goto(t, "drain")
  /\ UNCHANGED <<chan, wake, holder, waiting, res>>

(* pthread_cond_wait may return without a signal; callers look again. *)
SpuriousWakeup(t) ==
  /\ t \in waiting /\ waiting' = waiting \ {t}
  /\ UNCHANGED <<chan, wake, holder, pc, res>>

Step(t) ==
  \/ Send(t) \/ TrySend(t) \/ SendResult(t) \/ CloseChannel(t) \/ WakeByte(t)
  \/ Recv(t) \/ TryRecv(t)
  \/ Drain(t) \/ PollTake(t) \/ PollClosed(t) \/ Unpark(t)

Next == \E t \in Threads :
  /\ UNCHANGED <<capacity, live>>
  /\ Call(t) \/ Step(t) \/ SpuriousWakeup(t)

Spec == Init /\ [][Next]_vars

(* The operating system runs every thread that can run; nobody is obliged *)
(* to call an operation, and no wakeup is assumed but those of the code.  *)
FairSpec == Spec /\ \A t \in Threads : WF_vars(Step(t) /\ UNCHANGED <<capacity, live>>)
=============================================================================
