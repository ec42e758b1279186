------------------------------ MODULE TaskGroup ------------------------------
(***************************************************************************)
(* The life of a task and the join protocol of task groups: Task.cc,       *)
(* TaskGroup.cc, the part of PerThreadMgr.cc that takes a coroutine back   *)
(* after it switched out, and the MPI hooks.                               *)
(*                                                                         *)
(* Every task is a process.  Which worker thread runs it, and when, is     *)
(* left open here (a queued task may be dispatched at any time); module    *)
(* Mediator adds the threads, their queues and work stealing.              *)
(*                                                                         *)
(* The user's code is the nondeterminism of the running tasks: they spawn  *)
(* tasks, register them with the groups on their own stack, wait, yield,   *)
(* call MPI and return, in any order the API allows.                       *)
(***************************************************************************)
EXTENDS Integers, Sequences, FiniteSets

CONSTANTS
    Tasks,      \* every Task object of the run
    Root,       \* the task that main() spawns before it enters the main loop
    Pure,       \* tasks made by go_pure(): run on the worker's stack, never yield
    MpiTasks,   \* tasks that call MPI_Send_Hook or MPI_Recv_Hook
    Groups,     \* every TaskGroup object of the run
    Owner,      \* Owner[g]: the task on whose stack g lives
    Handles,    \* Handles[p]: the tasks whose TaskPtr the code of p holds
    Throwers,   \* tasks whose callback may leave by a std::exception
    MaxGroups,  \* Task::max_groups
    Scoped,     \* TRUE: groups live in the frame of their owner; FALSE: on the heap
    NULL        \* nullptr

ASSUME ClientAssumption ==
    /\ IsFiniteSet(Tasks)
    /\ NULL \notin Tasks
    /\ NULL \notin Groups
    /\ Root \in Tasks \ Pure
    /\ Pure \subseteq Tasks
    /\ MpiTasks \subseteq Tasks \ Pure
    /\ Throwers \subseteq Tasks
    /\ Owner \in [Groups -> Tasks \ Pure]
    /\ Handles \in [Tasks -> SUBSET Tasks]
    /\ MaxGroups \in Nat \ {0}
    /\ Scoped \in BOOLEAN

VARIABLES
    state,          \* Task::state
    pc,             \* where the control of each task is, see Control
    inMpi,          \* the coroutine is suspended in the polling loop of an MPI hook
    groups,         \* Task::groups[0 .. cur_groups-1]
    informed,       \* groups whose blocking_count terminate() already decremented
    blockedBy,      \* Task::blockedBy
    blocking_count, \* TaskGroup::blocking_count
    blockedTask,    \* TaskGroup::blockedTask
    phase           \* where the owner of a group is with it, see Phase

vars == <<state, pc, inMpi, groups, informed, blockedBy,
          blocking_count, blockedTask, phase>>

(* END_OF_STATE is never assigned. *)
TaskState == {"Initial", "Runnable", "MPIBlocked", "GroupWait", "Terminated"}

(***************************************************************************)
(* new          constructed, addRunnable not called yet                    *)
(* queued       in a runnable_queue, or in the hands of a thief            *)
(* running      a worker executes its code                                 *)
(* switched     left by continuationOut, the worker has not handled it yet *)
(* polled       in an mpi_blocked_queue                                    *)
(* parked       in the blockedTask of a group                              *)
(* terminating  in terminate(), holding its own mut_                       *)
(* deciding     in informDone(), holding the group's mut_, brought the     *)
(*              count to 0 and has not looked at blockedTask yet           *)
(* unlocking    in informDone(), about to release the group's mut_         *)
(* done         terminate() returned                                       *)
(***************************************************************************)
Control == {"new", "queued", "running", "switched", "polled", "parked",
            "terminating", "deciding", "unlocking", "done"}

(***************************************************************************)
(* open     the owner registers tasks                                      *)
(* waiting  wait() saw a count other than 0 and gave up the thread         *)
(* joined   wait() returned and nothing was registered since               *)
(* dead     the owner's frame is gone                                      *)
(***************************************************************************)
Phase == {"open", "waiting", "joined", "dead"}

----------------------------------------------------------------------------

Members(g) == {t \in Tasks : \E i \in 1..Len(groups[t]) : groups[t][i] = g}

(* Task::mut_ is held by terminate() from end to end. *)
TaskLocked(t) == pc[t] \in {"terminating", "deciding", "unlocking"}

(* TaskGroup::mut_ is held in informDone(); resumeIfNothingToWait() is one step. *)
Informing(t, g) == /\ pc[t] \in {"deciding", "unlocking"}
                   /\ groups[t][informed[t]] = g

GroupLocked(g) == \E t \in Tasks : Informing(t, g)

(* The code of p is executing and is not inside an MPI hook. *)
Active(p) == pc[p] = "running" /\ ~inMpi[p]

----------------------------------------------------------------------------

Init ==
    /\ state = [t \in Tasks |-> "Initial"]
    /\ pc = [t \in Tasks |-> IF t = Root THEN "queued" ELSE "new"]
    /\ inMpi = [t \in Tasks |-> FALSE]
    /\ groups = [t \in Tasks |-> <<>>]
    /\ informed = [t \in Tasks |-> 0]
    /\ blockedBy = [t \in Tasks |-> NULL]
    /\ blocking_count = [g \in Groups |-> 0]
    /\ blockedTask = [g \in Groups |-> NULL]
    /\ phase = [g \in Groups |-> "open"]

(* go(), go_pure() and addRunnable() of a new task. *)
Go(p, t) ==
    /\ Active(p)
    /\ pc[t] = "new"
    /\ pc' = [pc EXCEPT ![t] = "queued"]
    /\ UNCHANGED <<state, inMpi, groups, informed, blockedBy,
                   blocking_count, blockedTask, phase>>

(* Slip: the array is filled to its last slot and one further. *)
RegisteUnbounded(p, t, g) ==
    /\ Active(p) /\ Owner[g] = p /\ phase[g] \in {"open", "joined"}
    /\ t \in Handles[p] /\ ~TaskLocked(t) /\ state[t] # "Terminated"
    /\ Len(groups[t]) < MaxGroups
    /\ groups' = [groups EXCEPT ![t] = Append(@, g)]
    /\ blocking_count' = [blocking_count EXCEPT ![g] = @ + 1]
    /\ phase' = [phase EXCEPT ![g] = "open"]
    /\ UNCHANGED <<state, pc, inMpi, informed, blockedBy, blockedTask>>

(* Slip: the group counts the task before it asks whether it is finished. *)
RegisteCountsFirst(p, t, g) ==
    /\ Active(p) /\ Owner[g] = p /\ phase[g] \in {"open", "joined"}
    /\ t \in Handles[p] /\ ~TaskLocked(t)
    /\ Len(groups[t]) + 1 < MaxGroups
    /\ groups' = IF state[t] = "Terminated" THEN groups
                 ELSE [groups EXCEPT ![t] = Append(@, g)]
    /\ blocking_count' = [blocking_count EXCEPT ![g] = @ + 1]
    /\ phase' = [phase EXCEPT ![g] = "open"]
    /\ UNCHANGED <<state, pc, inMpi, informed, blockedBy, blockedTask>>

(***************************************************************************)
(* TaskGroup::registe(t) by the owner p, and Task::addToGroup: under t's   *)
(* mut_ a task that is not finished gets the group and the group counts    *)
(* it; registering a finished task changes nothing.  The bound on Len is   *)
(* the MUST_TRUE the caller has to respect.                                *)
(***************************************************************************)
Registe(p, t, g) ==
    /\ Active(p)
    /\ Owner[g] = p
    /\ phase[g] \in {"open", "joined"}
    /\ t \in Handles[p]
    /\ ~TaskLocked(t)
    /\ state[t] # "Terminated"
    /\ Len(groups[t]) + 1 < MaxGroups
    /\ groups' = [groups EXCEPT ![t] = Append(@, g)]
    /\ blocking_count' = [blocking_count EXCEPT ![g] = @ + 1]
    /\ phase' = [phase EXCEPT ![g] = "open"]
    /\ UNCHANGED <<state, pc, inMpi, informed, blockedBy, blockedTask>>

(***************************************************************************)
(* TaskGroup::wait(): blocking_count is read without a lock.  When it is   *)
(* not 0 the state changes and co_yield gives up the thread; the worker    *)
(* will look at the group again in HandleGroupWait.  The tasks registered  *)
(* with g have all been handed to addRunnable by then.                     *)
(***************************************************************************)
Wait(p, g) ==
    /\ Active(p)
    /\ Owner[g] = p
    /\ phase[g] \in {"open", "joined"}
    /\ \A t \in Members(g) : pc[t] # "new"
    /\ \/ /\ blocking_count[g] = 0
          /\ phase' = [phase EXCEPT ![g] = "joined"]
          /\ UNCHANGED <<state, pc, blockedBy>>
       \/ /\ blocking_count[g] # 0
          /\ p \notin Pure
          /\ state' = [state EXCEPT ![p] = "GroupWait"]
          /\ blockedBy' = [blockedBy EXCEPT ![p] = g]
          /\ pc' = [pc EXCEPT ![p] = "switched"]
          /\ phase' = [phase EXCEPT ![g] = "waiting"]
    /\ UNCHANGED <<inMpi, groups, informed, blocking_count, blockedTask>>

(* co_yield in user code: continuationOut() with the state left as it is. *)
Yield(p) ==
    /\ Active(p)
    /\ p \notin Pure
    /\ pc' = [pc EXCEPT ![p] = "switched"]
    /\ UNCHANGED <<state, inMpi, groups, informed, blockedBy,
                   blocking_count, blockedTask, phase>>

(***************************************************************************)
(* MPI_Send_Hook and MPI_Recv_Hook.  MpiCall is a call whose first         *)
(* MPI_Test found the request pending (a call that succeeds or fails at    *)
(* once changes nothing).  MpiTest is one turn of the loop after co_yield: *)
(* complete, pending, or an MPI error, which returns without a new state.  *)
(***************************************************************************)
MpiCall(p) ==
    /\ Active(p)
    /\ p \in MpiTasks
    /\ state' = [state EXCEPT ![p] = "MPIBlocked"]
    /\ inMpi' = [inMpi EXCEPT ![p] = TRUE]
    /\ pc' = [pc EXCEPT ![p] = "switched"]
    /\ UNCHANGED <<groups, informed, blockedBy, blocking_count, blockedTask, phase>>

MpiComplete(p) ==
    /\ pc[p] = "running" /\ inMpi[p]
    /\ state' = [state EXCEPT ![p] = "Runnable"]
    /\ inMpi' = [inMpi EXCEPT ![p] = FALSE]
    /\ UNCHANGED <<pc, groups, informed, blockedBy, blocking_count, blockedTask, phase>>

MpiPending(p) ==
    /\ pc[p] = "running" /\ inMpi[p]
    /\ pc' = [pc EXCEPT ![p] = "switched"]
    /\ UNCHANGED <<state, inMpi, groups, informed, blockedBy,
                   blocking_count, blockedTask, phase>>

MpiError(p) ==
    /\ pc[p] = "running" /\ inMpi[p]
    /\ inMpi' = [inMpi EXCEPT ![p] = FALSE]
    /\ UNCHANGED <<state, pc, groups, informed, blockedBy,
                   blocking_count, blockedTask, phase>>

(***************************************************************************)
(* The callback returns, its frame goes, and terminate() takes mut_ and    *)
(* sets the state.  A callback that returns has waited for the groups it   *)
(* used; one that leaves by an exception may not have.                     *)
(***************************************************************************)
Finish(p) ==
    /\ Active(p)
    /\ \/ p \in Throwers
       \/ \A g \in Groups : Owner[g] = p => phase[g] = "joined" \/ Members(g) = {}
    /\ state' = [state EXCEPT ![p] = "Terminated"]
    /\ pc' = [pc EXCEPT ![p] = "terminating"]
    /\ phase' = [g \in Groups |-> IF Scoped /\ Owner[g] = p THEN "dead" ELSE phase[g]]
    /\ UNCHANGED <<inMpi, groups, informed, blockedBy, blocking_count, blockedTask>>

(* Slip: whoever reports wakes the waiter, whatever the count. *)
DecrementAlwaysWakes(p) ==
    /\ pc[p] = "terminating"
    /\ informed[p] < Len(groups[p])
    /\ LET g == groups[p][informed[p] + 1] IN
       /\ ~GroupLocked(g)
       /\ blocking_count' = [blocking_count EXCEPT ![g] = @ - 1]
       /\ pc' = [pc EXCEPT ![p] = "deciding"]
    /\ informed' = [informed EXCEPT ![p] = @ + 1]
    /\ UNCHANGED <<state, inMpi, groups, blockedBy, blockedTask, phase>>

(***************************************************************************)
(* One turn of the loop of terminate(): informDone() of the next group     *)
(* takes the group's mut_ and decrements the count ...                     *)
(***************************************************************************)
Decrement(p) ==
    /\ pc[p] = "terminating"
    /\ informed[p] < Len(groups[p])
    /\ LET g == groups[p][informed[p] + 1] IN
       /\ ~GroupLocked(g)
       /\ blocking_count' = [blocking_count EXCEPT ![g] = @ - 1]
       /\ pc' = [pc EXCEPT ![p] = IF blocking_count[g] = 1 THEN "deciding" ELSE "unlocking"]
    /\ informed' = [informed EXCEPT ![p] = @ + 1]
    /\ UNCHANGED <<state, inMpi, groups, blockedBy, blockedTask, phase>>

(* Slip: the TaskPtr is copied out of the group where it should be moved. *)
ReleaseCopies(p) ==
    /\ pc[p] = "deciding"
    /\ LET w == blockedTask[groups[p][informed[p]]] IN
       /\ pc' = [t \in Tasks |-> IF t = p THEN "unlocking"
                                 ELSE IF t = w THEN "queued" ELSE pc[t]]
       /\ state' = [t \in Tasks |-> IF t = w THEN "Runnable" ELSE state[t]]
    /\ UNCHANGED <<inMpi, groups, informed, blockedBy, blocking_count,
                   blockedTask, phase>>

(* ... a count of 0 moves the blocked task out and makes it runnable ...   *)
Release(p) ==
    /\ pc[p] = "deciding"
    /\ LET g == groups[p][informed[p]]
           w == blockedTask[g] IN
       /\ blockedTask' = [blockedTask EXCEPT ![g] = NULL]
       /\ IF w = NULL
          THEN /\ pc' = [pc EXCEPT ![p] = "unlocking"]
               /\ UNCHANGED state
          ELSE /\ pc' = [pc EXCEPT ![p] = "unlocking", ![w] = "queued"]
               /\ state' = [state EXCEPT ![w] = "Runnable"]
    /\ UNCHANGED <<inMpi, groups, informed, blockedBy, blocking_count, phase>>

(* ... and the lock_guard of informDone() releases the group's mut_. *)
Unlock(p) ==
    /\ pc[p] = "unlocking"
    /\ pc' = [pc EXCEPT ![p] = "terminating"]
    /\ UNCHANGED <<state, inMpi, groups, informed, blockedBy,
                   blocking_count, blockedTask, phase>>

(* The end of the loop: the lock_guard of terminate() releases mut_. *)
Terminated(p) ==
    /\ pc[p] = "terminating"
    /\ informed[p] = Len(groups[p])
    /\ pc' = [pc EXCEPT ![p] = "done"]
    /\ UNCHANGED <<state, inMpi, groups, informed, blockedBy,
                   blocking_count, blockedTask, phase>>

----------------------------------------------------------------------------
(* The worker: handle_after_continuationOut() takes a coroutine back.       *)

(* Runnable: back to the runnable_queue. *)
HandleRunnable(p) ==
    /\ pc[p] = "switched"
    /\ state[p] = "Runnable"
    /\ pc' = [pc EXCEPT ![p] = "queued"]
    /\ UNCHANGED <<state, inMpi, groups, informed, blockedBy,
                   blocking_count, blockedTask, phase>>

(* MPIBlocked: to the mpi_blocked_queue, or it is still there. *)
HandleMpi(p) ==
    /\ pc[p] = "switched"
    /\ state[p] = "MPIBlocked"
    /\ pc' = [pc EXCEPT ![p] = "polled"]
    /\ UNCHANGED <<state, inMpi, groups, informed, blockedBy,
                   blocking_count, blockedTask, phase>>

(* Slip: the count is not read again under the lock. *)
HandleGroupWaitBlind(p) ==
    /\ pc[p] = "switched"
    /\ state[p] = "GroupWait"
    /\ ~GroupLocked(blockedBy[p])
    /\ blockedTask' = [blockedTask EXCEPT ![blockedBy[p]] = p]
    /\ pc' = [pc EXCEPT ![p] = "parked"]
    /\ UNCHANGED <<state, inMpi, groups, informed, blockedBy, blocking_count, phase>>

(***************************************************************************)
(* GroupWait: resumeIfNothingToWait() under the group's mut_ reads the     *)
(* count once more; the task goes back to the runnable_queue, or into      *)
(* blockedTask.                                                            *)
(***************************************************************************)
HandleGroupWait(p) ==
    LET g == blockedBy[p] IN
    /\ pc[p] = "switched"
    /\ state[p] = "GroupWait"
    /\ ~GroupLocked(g)
    /\ \/ /\ blocking_count[g] = 0
          /\ state' = [state EXCEPT ![p] = "Runnable"]
          /\ pc' = [pc EXCEPT ![p] = "queued"]
          /\ UNCHANGED blockedTask
       \/ /\ blocking_count[g] # 0
          /\ blockedTask' = [blockedTask EXCEPT ![g] = p]
          /\ pc' = [pc EXCEPT ![p] = "parked"]
          /\ UNCHANGED state
    /\ UNCHANGED <<inMpi, groups, informed, blockedBy, blocking_count, phase>>

(***************************************************************************)
(* A worker dequeues p and switches into it: continuationIn(), or          *)
(* runInStack() for a pure task, which leaves the state Initial.  A task   *)
(* that had given up the thread in wait() returns from it.                 *)
(***************************************************************************)
Dispatch(p) ==
    /\ pc[p] = "queued"
    /\ pc' = [pc EXCEPT ![p] = "running"]
    /\ state' = [state EXCEPT ![p] = IF @ = "Initial" /\ p \notin Pure THEN "Runnable" ELSE @]
    /\ phase' = [g \in Groups |-> IF Owner[g] = p /\ phase[g] = "waiting"
                                  THEN "joined" ELSE phase[g]]
    /\ UNCHANGED <<inMpi, groups, informed, blockedBy, blocking_count, blockedTask>>

(* run_mpi_blocked() switches into p. *)
Poll(p) ==
    /\ pc[p] = "polled"
    /\ pc' = [pc EXCEPT ![p] = "running"]
    /\ UNCHANGED <<state, inMpi, groups, informed, blockedBy,
                   blocking_count, blockedTask, phase>>

----------------------------------------------------------------------------

(* Every task that was spawned has terminated: the program may stop. *)
AllDone ==
    /\ \A t \in Tasks : pc[t] \in {"new", "done"}
    /\ UNCHANGED vars

(* What the code of the tasks does. *)
Client(p) ==
    \/ \E t \in Tasks : Go(p, t)
    \/ \E t \in Tasks, g \in Groups : Registe(p, t, g)
    \/ \E g \in Groups : Wait(p, g)
    \/ Yield(p)
    \/ MpiCall(p)
    \/ MpiComplete(p)
    \/ MpiPending(p)
    \/ MpiError(p)
    \/ Finish(p)

(* What the library does for it. *)
System(p) ==
    \/ Decrement(p)
    \/ Release(p)
    \/ Unlock(p)
    \/ Terminated(p)
    \/ HandleRunnable(p)
    \/ HandleMpi(p)
    \/ HandleGroupWait(p)
    \/ Dispatch(p)
    \/ Poll(p)

Next == (\E p \in Tasks : Client(p) \/ System(p)) \/ AllDone

Spec == Init /\ [][Next]_vars

(***************************************************************************)
(* Weak fairness of the library's steps: a worker that holds a task goes   *)
(* on, a spinlock is handed over, queues are served.  Module Mediator asks *)
(* what the last one rests on.  The other conjuncts are what the library   *)
(* asks of the user: tasks that a group waits for are spawned, MPI         *)
(* requests complete, and a task that is given the processor again and     *)
(* again gets to the end of its code, through the waits it has to make.    *)
(***************************************************************************)
Fairness ==
    /\ \A p \in Tasks :
        /\ WF_vars(System(p))
        /\ SF_vars(\E q \in Tasks : Go(q, p))
        /\ SF_vars(MpiComplete(p))
        /\ SF_vars(Finish(p))
    /\ \A g \in Groups : SF_vars(Wait(Owner[g], g))

FairSpec == Spec /\ Fairness

----------------------------------------------------------------------------

(***************************************************************************)
(* Type invariant.  With calls within the bound of Task.cc:123 a task has  *)
(* at most max_groups-1 groups (the array does not overflow), and it       *)
(* informs each of them at most once.                                      *)
(***************************************************************************)
TypeOK ==
    /\ state \in [Tasks -> TaskState]
    /\ pc \in [Tasks -> Control]
    /\ inMpi \in [Tasks -> BOOLEAN]
    /\ groups \in [Tasks -> Seq(Groups)]
    /\ informed \in [Tasks -> Nat]
    /\ \A t \in Tasks : Len(groups[t]) < MaxGroups /\ informed[t] <= Len(groups[t])
    /\ blockedBy \in [Tasks -> Groups \cup {NULL}]
    /\ blocking_count \in [Groups -> Int]
    /\ blockedTask \in [Groups -> Tasks \cup {NULL}]
    /\ phase \in [Groups -> Phase]

(* The registrations with g that informDone() has not answered yet. *)
Pending(g) ==
    {r \in Tasks \X (1..MaxGroups) : /\ r[2] \in (informed[r[1]] + 1)..Len(groups[r[1]])
                                     /\ groups[r[1]][r[2]] = g}

(***************************************************************************)
(* The atomic blocking_count, incremented under the task's mut_ and        *)
(* decremented under the group's, is the number of registrations not yet   *)
(* answered: none is lost when registe() races terminate(), none is        *)
(* counted twice, and it is never negative.                                *)
(***************************************************************************)
CountExact == \A g \in Groups : blocking_count[g] = Cardinality(Pending(g))

(***************************************************************************)
(* No lost wakeup (TaskGroup.cc:18, 33 and 59): a task whose coroutine has *)
(* been put away in a group is in that group's blockedTask, and either a   *)
(* registered task still has to report or the one that brought the count   *)
(* to 0 holds mut_ and is about to look at blockedTask.                    *)
(***************************************************************************)
NoLostWakeup ==
    \A p \in Tasks : pc[p] = "parked" =>
        /\ state[p] = "GroupWait"
        /\ blockedBy[p] \in Groups
        /\ blockedTask[blockedBy[p]] = p
        /\ \/ blocking_count[blockedBy[p]] > 0
           \/ \E t \in Tasks : pc[t] = "deciding" /\ Informing(t, blockedBy[p])

(***************************************************************************)
(* What wait() promises: when it has returned, every task registered with  *)
(* the group has terminated.                                               *)
(***************************************************************************)
JoinSafe ==
    \A g \in Groups : phase[g] = "joined" => \A t \in Members(g) : state[t] = "Terminated"

(***************************************************************************)
(* Why these hold: the inductive invariant.  Only a terminated task has    *)
(* reported to a group (EndInv).  The owner of a group that waits is in    *)
(* front of the second check, parked, or released with a count of 0, and a *)
(* group that is joined keeps the count 0 (WaitInv).  A task in state      *)
(* GroupWait waits for a group of its own (ParkInv), nobody else is in the *)
(* group's blockedTask, and whoever is about to take it out from there has *)
(* seen the count 0 that is still there (BlockedInv).                      *)
(***************************************************************************)
EndInv ==
    \A t \in Tasks :
        /\ state[t] = "Terminated" <=> pc[t] \in {"terminating", "deciding", "unlocking", "done"}
        /\ informed[t] > 0 => state[t] = "Terminated"
        /\ pc[t] \in {"deciding", "unlocking"} => informed[t] > 0

WaitInv ==
    \A g \in Groups :
        /\ phase[g] = "waiting" =>
            /\ blockedBy[Owner[g]] = g
            /\ \/ pc[Owner[g]] = "switched" /\ state[Owner[g]] = "GroupWait"
               \/ pc[Owner[g]] = "parked"
               \/ pc[Owner[g]] = "queued" /\ blocking_count[g] = 0
        /\ phase[g] = "joined" => blocking_count[g] = 0

ParkInv ==
    \A p \in Tasks : state[p] = "GroupWait" =>
        /\ pc[p] \in {"switched", "parked"}
        /\ blockedBy[p] \in Groups
        /\ Owner[blockedBy[p]] = p
        /\ phase[blockedBy[p]] = "waiting"

BlockedInv ==
    \A g \in Groups : blockedTask[g] # NULL =>
        /\ pc[blockedTask[g]] = "parked"
        /\ blockedBy[blockedTask[g]] = g
        /\ \A t \in Tasks : pc[t] = "deciding" /\ Informing(t, g) => blocking_count[g] = 0

IInv == TypeOK /\ EndInv /\ CountExact /\ WaitInv /\ ParkInv /\ BlockedInv /\ NoLostWakeup

(***************************************************************************)
(* A TaskPtr left behind in a blockedTask or a queue never brings a        *)
(* finished task back: Terminated is final.                                *)
(***************************************************************************)
NoReturn ==
    \A t \in Tasks : state[t] = "Terminated" =>
        state'[t] = "Terminated" /\ pc'[t] \notin {"queued", "running"}

NoResurrection == [][NoReturn]_vars

(***************************************************************************)
(* The comment on the class (TaskGroup.hh:12): a group "might be accessed  *)
(* by multiple threads through informDone()".  informDone() must find it   *)
(* alive: no task is inside informDone() of a group whose owner's frame    *)
(* is gone, nor still has to call it.                                      *)
(***************************************************************************)
NoDanglingInform ==
    \A t \in Tasks, g \in Groups :
        (\/ Informing(t, g)
         \/ TaskLocked(t) /\ \E i \in (informed[t] + 1)..Len(groups[t]) : groups[t][i] = g)
        => phase[g] # "dead"

(***************************************************************************)
(* Refinement: seen through the states of the tasks and of their groups,   *)
(* this is the abstract join; under FairSpec a wait whose tasks have       *)
(* finished returns.                                                       *)
(***************************************************************************)
J == INSTANCE Join WITH
        finished <- {t \in Tasks : state[t] = "Terminated"},
        members <- [g \in Groups |-> Members(g)],
        status <- phase

JoinSpec == J!Spec
JoinFairSpec == J!FairSpec

(* Liveness: wait() returns. *)
WaitReturns == \A g \in Groups : phase[g] = "waiting" ~> phase[g] = "joined"

=============================================================================
