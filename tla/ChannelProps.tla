---------------------------- MODULE ChannelProps ----------------------------
(* The correctness properties of std::sync::Channel. *)
EXTENDS Channel

(* The channel is the shared queue of BoundedFifo: what it holds is the    *)
(* part of the vector from head on.                                        *)
Fifo == INSTANCE BoundedFifo WITH
  Async <- Pollers,
  q <- SubSeq(queue, head + 1, Len(queue)),
  open <- ~closed, cap <- capacity

(* Every operation takes effect at one instant of its call as the abstract *)
(* queue allows: no item is lost, doubled or overtaken, a bounded channel  *)
(* never exceeds its capacity, and full, empty, closed and end are said    *)
(* only when true (sync/channel.rl, send to next).                         *)
RefinesFifo == Fifo!Spec

(* Every variable of the model keeps to its type, in particular a thread   *)
(* sleeps on the condition variable only inside send or recv, and owns the *)
(* mutex between two actions only to write its wake-up byte.               *)
TypeOK ==
  /\ queue \in Seq(Items) /\ head \in 0..Len(queue)
  /\ closed \in BOOLEAN /\ capacity \in Capacities
  /\ holder \in Threads \cup {NoThread}
  /\ waiting \subseteq {t \in Threads : pc[t] \in {"send", "recv"}}
  /\ wake \in 0..WakeCap
  /\ live \subseteq Threads
  /\ pc \in [Threads -> Ops] /\ res \in [Threads -> Results]

AwakeReceivers == {r \in Receivers : pc[r] = "recv" /\ r \notin waiting}

(* On an unbounded channel nobody oversleeps: when a receiver sleeps and   *)
(* an item is there, a receiver that was woken is on its way to the queue. *)
(* recv passes the signal on (its own notify_one), which is what carries   *)
(* this through a try_recv that takes the item somebody else was woken for.*)
NoOversleptReceiver ==
  capacity = 0 /\ waiting # {} /\ Pending > 0 => AwakeReceivers # {}

OnePair == Cardinality(live \cap Senders) = 1 /\ Cardinality(live \cap Receivers) <= 1

(* An asynchronous receiver that is parked, the only one on its channel,   *)
(* has a byte to wake it as soon as there is an item or the channel is     *)
(* closed: nothing is lost between its look at the queue and its sleep.    *)
ParkedIsWoken ==
  \A p \in Pollers : live \cap Pollers = {p} /\ pc[p] = "parked" /\ (Pending > 0 \/ closed)
                       => wake > 0

(* Someone is stuck in send_all, mutex in hand, on a full socket buffer:   *)
(* send, try_send and close write a byte per call, and only asynchronous   *)
(* receivers ever read one.                                                *)
Clogged == holder # NoThread

(* A receiver inside recv leaves it once the channel is closed, unless the *)
(* channel clogs: close wakes all of them and none sleeps again.           *)
CloseEndsRecv ==
  \A r \in Receivers : closed /\ pc[r] = "recv" ~> pc[r] = "idle" \/ Clogged

(* On an unbounded channel, and on a bounded one between one sender and    *)
(* one receiver, an item does not stay while receivers wait for it, unless *)
(* the channel clogs.                                                      *)
ItemsReachReceivers ==
  (capacity = 0 \/ OnePair) /\ Pending > 0 /\ (\E r \in Receivers : pc[r] = "recv")
    ~> Pending = 0 \/ Clogged \/ \A r \in Receivers : pc[r] # "recv"
=============================================================================
