---------------------------- MODULE BoundedFifo ----------------------------
(***************************************************************************)
(* What a channel promises its users: a queue that many threads share.     *)
(* Every operation happens at one instant; an item put is taken at most    *)
(* once and in the order it was put, a put finds room, and an operation    *)
(* reports "empty", "full", "closed" or "end" only when that is so.        *)
(*                                                                         *)
(* The asynchronous receivers get a weaker promise: they may report the    *)
(* end of a closed channel that still holds items, because the code looks  *)
(* at the queue and at the closed flag at two different instants.          *)
(***************************************************************************)
EXTENDS Naturals, Sequences

CONSTANTS
  Threads,        \* the threads that use the channel
  Async,          \* those of them that receive through recv_async
  Items           \* what may be sent

VARIABLES
  q,              \* the items put and not yet taken
  open,           \* nobody has closed the channel
  cap,            \* the largest number of items, 0 for no bound
  res             \* what the last operation of each thread returned

fifoVars == <<q, open, cap, res>>

Room == cap = 0 \/ Len(q) < cap
Returns(t, x) == res' = [res EXCEPT ![t] = x]
Says(t, word) == Returns(t, <<word>>)

Init ==
  /\ q = <<>> /\ open = TRUE /\ cap \in Nat
  /\ res = [t \in Threads |-> <<"none">>]

Put(t, v) == Room /\ q' = Append(q, v) /\ Says(t, "ok") /\ UNCHANGED <<open, cap>>

Take(t) ==
  /\ q # <<>>
  /\ q' = Tail(q) /\ Returns(t, Head(q))
  /\ UNCHANGED <<open, cap>>

Report(t) ==
  /\ \/ ~Room /\ Says(t, "full")
     \/ ~open /\ Says(t, "closed")
     \/ q = <<>> /\ Says(t, "empty")
     \/ ~open /\ (q = <<>> \/ t \in Async) /\ Says(t, "end")
  /\ UNCHANGED <<q, open, cap>>

Close(t) == open' = FALSE /\ Says(t, "ok") /\ UNCHANGED <<q, cap>>

Next == \E t \in Threads :
  (\E v \in Items : Put(t, v)) \/ Take(t) \/ Report(t) \/ Close(t)

Spec == Init /\ [][Next]_fifoVars
=============================================================================
