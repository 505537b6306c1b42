---------------------------- MODULE BoundedFifo ----------------------------
(***************************************************************************)
(* What a ring of sw_shared_ringbuffer.h promises to its two users: a      *)
(* first-in first-out queue of buffer descriptors that holds at most       *)
(* Capacity of them.  A call either takes effect in one step and returns 0 *)
(* or finds the queue full (enqueue) or empty (dequeue) and returns -1.    *)
(* RingBuffer.tla implements it.                                           *)
(***************************************************************************)
EXTENDS Integers, Sequences

CONSTANTS
  Descs,      \* descriptors that callers may enqueue
  Capacity,   \* most descriptors the queue holds
  NoDesc      \* the dequeuer's variables before its first success

VARIABLES
  queue,      \* descriptors enqueued and not yet dequeued, oldest first
  enqRet,     \* what the last enqueue returned
  deqRet,     \* what the last dequeue returned
  out         \* the descriptor the last successful dequeue handed out

fifoVars == <<queue, enqRet, deqRet, out>>

Init ==
  /\ queue = <<>>
  /\ enqRet = 0
  /\ deqRet = 0
  /\ out = NoDesc

Put(d) ==
  /\ Len(queue) < Capacity
  /\ queue' = Append(queue, d)
  /\ enqRet' = 0
  /\ UNCHANGED <<deqRet, out>>

PutRefused ==
  /\ Len(queue) = Capacity
  /\ enqRet' = -1
  /\ UNCHANGED <<queue, deqRet, out>>

Take ==
  /\ queue # <<>>
  /\ out' = Head(queue)
  /\ queue' = Tail(queue)
  /\ deqRet' = 0
  /\ UNCHANGED enqRet

TakeRefused ==
  /\ queue = <<>>
  /\ deqRet' = -1
  /\ UNCHANGED <<queue, enqRet, out>>

Next ==
  \/ \E d \in Descs : Put(d)
  \/ PutRefused
  \/ Take
  \/ TakeRefused

Spec == Init /\ [][Next]_fifoVars

=============================================================================
