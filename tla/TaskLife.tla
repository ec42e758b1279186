------------------------------ MODULE TaskLife ------------------------------
(***************************************************************************)
(* How long a Task object lives: the reference count of util.hh through    *)
(* every TaskPtr that the library and its users make, move and drop.       *)
(*                                                                         *)
(* Module TaskGroup says what happens to the tasks; here every step of it  *)
(* is joined with what it does to the counts, and the drops of a local     *)
(* TaskPtr at the end of a function are steps of their own: the task may   *)
(* have run on another thread, and to its end, in the meantime.            *)
(***************************************************************************)
EXTENDS TaskGroup, Functions

CONSTANT NThreads   \* Config::num_of_threads

ASSUME WorkerAssumption == NThreads \in Nat \ {0}

VARIABLES
    counter,    \* RefCounted::counter__
    frame,      \* frame[p]: the tasks of the TaskHandles in the frame of p
    bound,      \* bound[t]: those in t's callback, bound to it by go()
    entry,      \* run_mpi_blocked() has t, by the entry of mpi_blocked_queue
    current,    \* the tasks that are the currentTask__ of a thread
    letting,    \* the threads that handed t on and still have their ptr to it
    nowCanRun,  \* nowCanRun of the informDone() that p is in
    deleted     \* the tasks whose destructor has begun

refVars == <<counter, frame, bound, entry, current, letting, nowCanRun, deleted>>

lifeVars == <<vars, refVars>>

(* main() has let go of the root. *)
LifeInit ==
    /\ Init
    /\ counter = [t \in Tasks |-> IF t = Root THEN 1 ELSE 0]
    /\ frame = [t \in Tasks |-> {}]
    /\ bound = [t \in Tasks |-> {}]
    /\ entry = [t \in Tasks |-> FALSE]
    /\ current = {}
    /\ letting = [t \in Tasks |-> 0]
    /\ nowCanRun = [t \in Tasks |-> NULL]
    /\ deleted = {}

----------------------------------------------------------------------------
(* DerivedRefPtr *)

(* increase() of every task of S. *)
Increase(S) == counter' = [t \in Tasks |-> IF t \in S THEN counter[t] + 1 ELSE counter[t]]

(* decrease() of every task of S: the last reference deletes. *)
Decrease(S) ==
    /\ counter' = [t \in Tasks |-> IF t \in S THEN counter[t] - 1 ELSE counter[t]]
    /\ deleted' = deleted \cup {t \in S : counter[t] = 1}

----------------------------------------------------------------------------
(* The user's code *)

Held(p) == frame[p] \cup bound[p]

(* go(): the queue and the returned handle, and copies of what is bound. *)
Spawn(p, t) ==
    /\ Go(p, t)
    /\ \E S \in SUBSET (Held(p) \cap Handles[t]) :
        /\ bound' = [bound EXCEPT ![t] = S]
        /\ counter' = [u \in Tasks |-> IF u = t THEN 2
                                       ELSE IF u \in S THEN counter[u] + 1 ELSE counter[u]]
    /\ frame' = [frame EXCEPT ![p] = @ \cup {t}]
    /\ UNCHANGED <<entry, current, letting, nowCanRun, deleted>>

(* A handle in the frame is destroyed, by the user or at the end of its scope. *)
DropHandle(p) ==
    /\ Active(p)
    /\ \E t \in frame[p] :
        /\ Decrease({t})
        /\ frame' = [frame EXCEPT ![p] = @ \ {t}]
    /\ UNCHANGED <<vars, bound, entry, current, letting, nowCanRun>>

(* The calls that leave every count as it was when they return. *)
Call(p) ==
    /\ \/ \E t \in Held(p), g \in Groups : Registe(p, t, g)
       \/ \E g \in Groups : Wait(p, g)
       \/ Yield(p) \/ MpiCall(p) \/ MpiComplete(p) \/ MpiPending(p) \/ MpiError(p)
       \/ frame[p] = {} /\ Finish(p)
       \/ Terminated(p)
    /\ UNCHANGED refVars

(* ~Task() destroys the callback and what is bound to it. *)
DropBound(t) ==
    /\ t \in deleted
    /\ \E u \in bound[t] :
        /\ Decrease({u})
        /\ bound' = [bound EXCEPT ![t] = @ \ {u}]
    /\ UNCHANGED <<vars, frame, entry, current, letting, nowCanRun>>

----------------------------------------------------------------------------
(* informDone(): the TaskPtr(this) of terminate() is its argument ...       *)

Inform(p) ==
    /\ Decrement(p)
    /\ Increase({p})
    /\ UNCHANGED <<frame, bound, entry, current, letting, nowCanRun, deleted>>

(* Slip: the waiter is moved into the queue, and nowCanRun dropped too. *)
ResumeUncounted(p) ==
    /\ Release(p)
    /\ nowCanRun' = [nowCanRun EXCEPT ![p] = blockedTask[groups[p][informed[p]]]]
    /\ UNCHANGED <<counter, frame, bound, entry, current, letting, deleted>>

(* ... blockedTask is moved to nowCanRun, and enqueued ... *)
Resume(p) ==
    /\ Release(p)
    /\ LET w == blockedTask[groups[p][informed[p]]] IN
       /\ nowCanRun' = [nowCanRun EXCEPT ![p] = w]
       /\ Increase({w})
    /\ UNCHANGED <<frame, bound, entry, current, letting, deleted>>

(* ... and both go at the end. *)
InformEnd(p) ==
    /\ Unlock(p)
    /\ Decrease({p, nowCanRun[p]} \ {NULL})
    /\ nowCanRun' = [nowCanRun EXCEPT ![p] = NULL]
    /\ UNCHANGED <<frame, bound, entry, current, letting>>

----------------------------------------------------------------------------
(* The worker *)

(* A thread that has no ptr: the queue's reference becomes its ptr, or the   *)
(* entry's is used, and currentTask__ is a copy.                             *)
Run(p) ==
    /\ Cardinality(current) + FoldFunction(+, 0, letting) < NThreads
    /\ Dispatch(p) \/ Poll(p)
    /\ current' = current \cup {p}
    /\ Increase({p})
    /\ UNCHANGED <<frame, bound, entry, letting, nowCanRun, deleted>>

(* Slip: the copy is not counted. *)
HandOnUncounted(p) ==
    /\ p \in current
    /\ HandleRunnable(p) \/ HandleGroupWait(p) \/ (HandleMpi(p) /\ ~entry[p])
    /\ current' = current \ {p}
    /\ letting' = [letting EXCEPT ![p] = @ + 1]
    /\ entry' = [entry EXCEPT ![p] = state[p] = "MPIBlocked"]
    /\ Decrease({p})
    /\ UNCHANGED <<frame, bound, nowCanRun>>

(***************************************************************************)
(* currentTask__ is reset and handle_after_continuationOut() copies ptr to *)
(* the queue or the group that gets the task.  From then on the thread's   *)
(* ptr, or the entry of the MPI queue, is about to go.                     *)
(***************************************************************************)
HandOn(p) ==
    /\ p \in current
    /\ HandleRunnable(p) \/ HandleGroupWait(p) \/ (HandleMpi(p) /\ ~entry[p])
    /\ current' = current \ {p}
    /\ letting' = [letting EXCEPT ![p] = @ + 1]
    /\ entry' = [entry EXCEPT ![p] = state[p] = "MPIBlocked"]
    /\ UNCHANGED <<counter, frame, bound, nowCanRun, deleted>>

(* A task that is MPIBlocked still keeps its entry. *)
KeepEntry(p) ==
    /\ p \in current
    /\ HandleMpi(p) /\ entry[p]
    /\ current' = current \ {p}
    /\ Decrease({p})
    /\ UNCHANGED <<frame, bound, entry, letting, nowCanRun>>

(* Slip: the entry of a finished task stays in the MPI queue. *)
RetireKeeps(p) ==
    /\ p \in current
    /\ pc[p] = "done"
    /\ current' = current \ {p}
    /\ letting' = [letting EXCEPT ![p] = IF entry[p] THEN @ ELSE @ + 1]
    /\ Decrease({p})
    /\ UNCHANGED <<vars, frame, bound, entry, nowCanRun>>

(* A task that is finished is handed to nobody. *)
Retire(p) ==
    /\ p \in current
    /\ pc[p] = "done"
    /\ current' = current \ {p}
    /\ letting' = [letting EXCEPT ![p] = @ + 1]
    /\ entry' = [entry EXCEPT ![p] = FALSE]
    /\ Decrease({p})
    /\ UNCHANGED <<vars, frame, bound, nowCanRun>>

(* run_runnable() returns, or run_mpi_blocked() has erased the entry. *)
LetGo(t) ==
    /\ letting[t] > 0
    /\ letting' = [letting EXCEPT ![t] = @ - 1]
    /\ Decrease({t})
    /\ UNCHANGED <<vars, frame, bound, entry, current, nowCanRun>>

----------------------------------------------------------------------------

Destroyed == AllDone /\ UNCHANGED refVars

Library(p) ==
    \/ Inform(p) \/ Resume(p) \/ InformEnd(p)
    \/ Run(p) \/ HandOn(p) \/ KeepEntry(p) \/ Retire(p)
    \/ LetGo(p) \/ DropBound(p)

LifeNext ==
    \/ \E p \in Tasks :
        \/ \E t \in Tasks : Spawn(p, t)
        \/ DropHandle(p) \/ Call(p) \/ Library(p)
    \/ Destroyed

LifeSpec == LifeInit /\ [][LifeNext]_lifeVars

----------------------------------------------------------------------------

(* Type invariant. *)
LifeTypeOK ==
    /\ counter \in [Tasks -> Nat]
    /\ frame \in [Tasks -> SUBSET Tasks]
    /\ bound \in [Tasks -> SUBSET Tasks]
    /\ entry \in [Tasks -> BOOLEAN]
    /\ current \in SUBSET Tasks
    /\ letting \in [Tasks -> Nat]
    /\ nowCanRun \in [Tasks -> Tasks \cup {NULL}]
    /\ deleted \in SUBSET Tasks

(* Every TaskPtr to t that there is. *)
References(t) ==
    (IF pc[t] \in {"queued", "polled"} THEN 1 ELSE 0)
    + (IF t \in current THEN 2 ELSE 0)
    + (IF pc[t] \in {"deciding", "unlocking"} THEN 1 ELSE 0)
    + letting[t]
    + Cardinality({g \in Groups : blockedTask[g] = t})
    + Cardinality({p \in Tasks : nowCanRun[p] = t})
    + Cardinality({p \in Tasks : t \in frame[p]})
    + Cardinality({u \in Tasks : t \in bound[u]})

(***************************************************************************)
(* The count of a task is the number of TaskPtrs to it, through every copy *)
(* and move by several threads (util.hh:64-102, Skiplist.hh:85-126).       *)
(***************************************************************************)
RefExact == \A t \in Tasks : counter[t] = References(t)

(***************************************************************************)
(* "let the shared_ptr delete it automatically when there is no ref count" *)
(* (Task.hh:42-45): a task is deleted only when it has finished, no thread *)
(* is about to touch it, and it is never in the hands of anybody again.    *)
(***************************************************************************)
NoUseAfterDelete ==
    \A t \in deleted : pc[t] = "done" /\ References(t) = 0

(***************************************************************************)
(* No leak: when all is done and no function is left that has a TaskPtr to *)
(* drop, every task that ran is deleted.  Nothing keeps one back: no entry *)
(* of a queue, no group, no callback of another task.                      *)
(***************************************************************************)
AllReclaimed ==
    LET quiet == /\ \A t \in Tasks : /\ pc[t] \in {"new", "done"}
                                     /\ frame[t] = {} /\ letting[t] = 0
                 /\ current = {}
                 /\ \A t \in deleted : bound[t] = {}
    IN quiet => \A t \in Tasks : pc[t] = "done" => t \in deleted
=============================================================================
