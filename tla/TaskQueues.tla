----------------------------- MODULE TaskQueues -----------------------------
(***************************************************************************)
(* What the worker threads are promised of their runnable_queues: queues,  *)
(* first in, first out, of which a thread without work takes the front     *)
(* part of another's and makes it its own.  Module Skiplist implements it; *)
(* the threads of module Mediator use nothing else.                        *)
(***************************************************************************)
EXTENDS Integers, SequencesExt

CONSTANTS Queues, Tasks, SkipGap

VARIABLES
    queue,      \* queue[q]: the tasks in the queue q
    stolen      \* stolen[q]: what the thread of q has taken and not queued yet

vars == <<queue, stolen>>

(* All queues are empty, or one of them has the root task. *)
Init ==
    /\ stolen = [q \in Queues |-> <<>>]
    /\ \/ queue = stolen
       \/ \E r \in Queues, t \in Tasks : queue = [stolen EXCEPT ![r] = <<t>>]

(* A task is handed to one queue at a time. *)
Nowhere(t) == \A q \in Queues : t \notin ToSet(queue[q]) \cup ToSet(stolen[q])

Enqueue(q, t) ==
    /\ Nowhere(t)
    /\ stolen[q] = <<>>
    /\ queue' = [queue EXCEPT ![q] = Append(@, t)]
    /\ UNCHANGED stolen

Dequeue(q) ==
    /\ queue[q] # <<>>
    /\ queue' = [queue EXCEPT ![q] = Tail(@)]
    /\ UNCHANGED stolen

(***************************************************************************)
(* How many tasks a thief takes of n: half, rounded up, of fewer than      *)
(* 2 * SkipGap; of more at least a third and at most three quarters.       *)
(***************************************************************************)
Halves(n) == IF n < 2 * SkipGap THEN {(n + 1) \div 2}
             ELSE {k \in 1 .. n : 3 * k >= n /\ 4 * k <= 3 * n}

DequeueHalf(thief, victim) ==
    /\ thief # victim
    /\ queue[thief] = <<>> /\ stolen[thief] = <<>>
    /\ LET s == queue[victim] IN
       /\ s # <<>>
       /\ \E k \in Halves(Len(s)) :
            /\ stolen' = [stolen EXCEPT ![thief] = SubSeq(s, 1, k)]
            /\ queue' = [queue EXCEPT ![victim] = SubSeq(s, k + 1, Len(s))]

(* Nothing is lost: the queue is empty that replace() overwrites. *)
Replace(q) ==
    /\ queue[q] = <<>>
    /\ stolen[q] # <<>>
    /\ queue' = [queue EXCEPT ![q] = stolen[q]]
    /\ stolen' = [stolen EXCEPT ![q] = <<>>]

Next ==
    \/ \E q \in Queues, t \in Tasks : Enqueue(q, t)
    \/ \E q \in Queues : Dequeue(q) \/ Replace(q)
    \/ \E thief, victim \in Queues : DequeueHalf(thief, victim)

Spec == Init /\ [][Next]_vars
=============================================================================
