---------------------------- MODULE BoundedFifo ----------------------------
(***************************************************************************)
(* What the agent's telemetry buffer promises its users: a first-in        *)
(* first-out queue of at most Capacity batches that never refuses a batch, *)
(* but drops its oldest one to make room.                                  *)
(*                                                                         *)
(* `returned` is the value handed back by the last operation: the empty    *)
(* sequence when nothing is returned.  It makes what a caller observes     *)
(* part of the promise.                                                    *)
(***************************************************************************)
EXTENDS Naturals, Sequences

CONSTANTS
  Item,      \* the telemetry batches
  Capacity   \* the most batches the queue may hold

VARIABLES
  queue,     \* the batches held, oldest first
  returned   \* what the last operation returned

\* The queue after inserting x: the oldest batch is dropped when it is full.
Enqueue(q, x) ==
  IF Len(q) < Capacity THEN Append(q, x) ELSE Append(Tail(q), x)

Init ==
  /\ queue = << >>
  /\ returned = << >>

Put(x) ==
  /\ queue' = Enqueue(queue, x)
  /\ returned' = << >>

Take ==
  /\ queue # << >>
  /\ queue' = Tail(queue)
  /\ returned' = << Head(queue) >>

TakeNothing ==
  /\ queue = << >>
  /\ returned' = << >>
  /\ UNCHANGED queue

TakeAll ==
  /\ queue' = << >>
  /\ returned' = queue

Next ==
  \/ \E x \in Item : Put(x)
  \/ Take
  \/ TakeNothing
  \/ TakeAll

Spec == Init /\ [][Next]_<<queue, returned>>
=============================================================================
