---------------------------- MODULE BoundedQueue ----------------------------
(***************************************************************************)
(* What a ring of records promises its users: a queue of at most Depth     *)
(* records, from which a record put into a full queue pushes the oldest.   *)
(***************************************************************************)
EXTENDS Naturals, Sequences

CONSTANTS Depth, Records

VARIABLE queue

QueueInit == queue = <<>>

Put(v)  == Len(queue) < Depth /\ queue' = Append(queue, v)
Push(v) == Len(queue) = Depth /\ queue' = Append(Tail(queue), v)
Take    == queue # <<>> /\ queue' = Tail(queue)
Reset   == queue' = <<>>

QueueNext == (\E v \in Records : Put(v) \/ Push(v)) \/ Take \/ Reset

QueueSpec == QueueInit /\ [][QueueNext]_queue
=============================================================================
