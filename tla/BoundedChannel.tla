--------------------------- MODULE BoundedChannel ---------------------------
(***************************************************************************)
(* What a Streamix channel promises to the two nets it connects, without   *)
(* threads, waits or errors: a queue of bounded capacity that one end      *)
(* closes and the other abandons.  SmxChannel implements it.               *)
(***************************************************************************)
EXTENDS Integers, Sequences

CONSTANT Message  \* records with a field seq, the message's position

VARIABLES
  kind,       \* [capacity, lossy, repeats]: decoupled input, decoupled output
  queue,      \* the messages between the ends, oldest first
  delivered,  \* the messages the consumer has taken, in that order
  closed,     \* the producer has terminated
  abandoned,  \* the consumer has terminated
  ended       \* the consumer has been told that the producer has terminated

vars == <<kind, queue, delivered, closed, abandoned, ended>>

Init ==
  /\ kind \in [capacity : Nat \ {0}, lossy : BOOLEAN, repeats : BOOLEAN]
  /\ queue = <<>> /\ delivered = <<>>
  /\ closed = FALSE /\ abandoned = FALSE /\ ended = FALSE

New(m) == /\ \A i \in DOMAIN queue : queue[i].seq < m.seq
          /\ \A i \in DOMAIN delivered : delivered[i].seq < m.seq

Open == ~closed /\ ~abandoned

Accept(m) ==
  /\ Open /\ New(m) /\ Len(queue) < kind.capacity
  /\ queue' = Append(queue, m)
  /\ UNCHANGED <<kind, delivered, closed, abandoned, ended>>

(* Only a lossy channel gives up a message it has accepted.                *)
Replace(m) ==
  /\ Open /\ New(m) /\ kind.lossy /\ Len(queue) = kind.capacity
  /\ queue' = [queue EXCEPT ![1] = m]
  /\ UNCHANGED <<kind, delivered, closed, abandoned, ended>>

Deliver ==
  /\ ~abandoned /\ queue # <<>>
  /\ queue' = Tail(queue)
  /\ delivered' = Append(delivered, Head(queue))
  /\ UNCHANGED <<kind, closed, abandoned, ended>>

(* The end of the stream is told after everything else, and never by a     *)
(* channel that repeats its last message instead.                          *)
TellEnd ==
  /\ closed /\ ~abandoned /\ queue = <<>> /\ ~kind.repeats
  /\ ended' = TRUE
  /\ UNCHANGED <<kind, queue, delivered, closed, abandoned>>

Close ==
  /\ ~closed /\ closed' = TRUE
  /\ UNCHANGED <<kind, queue, delivered, abandoned, ended>>

Abandon ==
  /\ ~abandoned /\ abandoned' = TRUE
  /\ UNCHANGED <<kind, queue, delivered, closed, ended>>

Next == \/ \E m \in Message : Accept(m) \/ Replace(m)
        \/ Deliver \/ TellEnd \/ Close \/ Abandon

Spec == Init /\ [][Next]_vars

(* Both ends close in the end; a consumer that stays drains the queue.     *)
Fairness == /\ WF_vars(Deliver \/ TellEnd \/ Abandon)
            /\ WF_vars(Close \/ \E m \in Message : Accept(m) \/ Replace(m))

FairSpec == Spec /\ Fairness
=============================================================================
