------------------------------ MODULE Mediator ------------------------------
(***************************************************************************)
(* The worker threads: GlobalMediator.cc and PerThreadMgr.cc around the    *)
(* tasks of module TaskGroup.  Each thread has a runnable_queue and an     *)
(* mpi_blocked_queue; it runs its own tasks, steals the front half of      *)
(* another thread's queue when it has none, polls its MPI tasks when there *)
(* is nothing to steal, and sleeps or leaves when it has none of those.    *)
(*                                                                         *)
(* A step of a task is a step of module TaskGroup taken by the thread that *)
(* has the task as currentTask__, joined with what it does to the queues.  *)
(* A Skiplist is the sequence of the tasks it holds; every operation on it *)
(* takes its spinlock once and is one step.                                *)
(***************************************************************************)
EXTENDS TaskGroup, SequencesExt

CONSTANTS
    NThreads,   \* Config::num_of_threads
    SkipGap     \* the SkipGap of a runnable_queue

ASSUME ThreadAssumption ==
    /\ NThreads \in Nat \ {0}
    /\ SkipGap \in Nat \ {0, 1}

Threads == 0 .. NThreads - 1    \* 0 is the main thread

VARIABLES
    queue,              \* PerThreadMgr::runnable_queue
    mpi_blocked_queue,  \* PerThreadMgr::mpi_blocked_queue
    currentTask,        \* PerThreadMgr::currentTask__
    stolen,             \* what dequeue_half() returned to this thread
    at,                 \* where the thread is, see Place
    index,              \* the index of the thread's loop
    terminatable        \* GlobalMediator::terminatable

(* The queues and thefts alone, as the threads use them. *)
Q == INSTANCE TaskQueues WITH Queues <- Threads

threadVars == <<queue, mpi_blocked_queue, currentTask, stolen, at, index, terminatable>>

mediatorVars == <<vars, threadVars>>

(***************************************************************************)
(* run      at the start of run_once()                                     *)
(* exec     run_runnable() has switched into currentTask                   *)
(* steal    in the loop over the threads, about to try thread index        *)
(* replace  has a stolen queue, has not put it into its own yet            *)
(* poll     in the loop of run_mpi_blocked(), about to take entry index    *)
(* polling  run_mpi_blocked() has switched into currentTask                *)
(* idle     run_once() returned false                                      *)
(* sleep    in wait_task()                                                 *)
(* join     the main thread joins its children                             *)
(* exit     run() has returned                                             *)
(***************************************************************************)
Place == {"run", "exec", "steal", "replace", "poll", "polling",
          "idle", "sleep", "join", "exit"}

----------------------------------------------------------------------------

(* main() has called Init() and addRunnable(); the others run since Init(). *)
MediatorInit ==
    /\ Init
    /\ queue = [th \in Threads |-> IF th = 0 THEN <<Root>> ELSE <<>>]
    /\ mpi_blocked_queue = [th \in Threads |-> <<>>]
    /\ currentTask = [th \in Threads |-> NULL]
    /\ stolen = [th \in Threads |-> <<>>]
    /\ at \in {f \in [Threads -> {"run", "sleep"}] : f[0] = "run"}
    /\ index = [th \in Threads |-> 0]
    /\ terminatable = FALSE

Goto(th, place) == at' = [at EXCEPT ![th] = place]

(* Slip: the task goes to the next thread, as with a stale thread_id. *)
EnqueueAstray(th, t) == queue' = [queue EXCEPT ![(th + 1) % NThreads] = Append(@, t)]

(***************************************************************************)
(* addRunnable() on thread th.  Its notify_one() may end the sleep of      *)
(* another thread; so may the time limit of that sleep, at any moment, so  *)
(* that a notification has no step of its own (see Wake).                  *)
(***************************************************************************)
Enqueue(th, t) == queue' = [queue EXCEPT ![th] = Append(@, t)]

(* The code of p runs on th, called by run_runnable() or run_mpi_blocked(). *)
Runs(th, p) == at[th] \in {"exec", "polling"} /\ currentTask[th] = p

(* Steps of the current task that leave the thread and its queues alone. *)
TaskStep(th) ==
    /\ \E p \in Tasks :
        /\ Runs(th, p)
        /\ \/ \E t \in Tasks, g \in Groups : Registe(p, t, g)
           \/ \E g \in Groups : Wait(p, g)
           \/ Yield(p)
           \/ MpiCall(p)
           \/ MpiComplete(p)
           \/ MpiPending(p)
           \/ MpiError(p)
           \/ Finish(p)
           \/ Decrement(p)
           \/ Unlock(p)
           \/ Terminated(p)
    /\ UNCHANGED threadVars

(* go(), go_pure(): a new task goes to the queue of the thread it is made on. *)
TaskGo(th, t) ==
    /\ \E p \in Tasks : Runs(th, p) /\ Go(p, t)
    /\ Enqueue(th, t)
    /\ UNCHANGED <<mpi_blocked_queue, currentTask, stolen, at, index, terminatable>>

(* informDone() makes the waiter runnable on the thread of the last member. *)
TaskRelease(th) ==
    /\ \E p \in Tasks :
        /\ Runs(th, p)
        /\ Release(p)
        /\ LET w == blockedTask[groups[p][informed[p]]] IN
           IF w = NULL THEN UNCHANGED queue ELSE Enqueue(th, w)
    /\ UNCHANGED <<mpi_blocked_queue, currentTask, stolen, at, index, terminatable>>

(* co_terminate(), called by the root task. *)
TerminateGracefully(th) ==
    /\ Runs(th, Root) /\ Active(Root)
    /\ terminatable' = TRUE
    /\ UNCHANGED <<vars, queue, mpi_blocked_queue, currentTask, stolen, at, index>>

----------------------------------------------------------------------------
(* run_runnable()                                                           *)

RunTask(th) ==
    /\ at[th] = "run"
    /\ queue[th] # <<>>
    /\ Dispatch(Head(queue[th]))
    /\ queue' = [queue EXCEPT ![th] = Tail(@)]
    /\ currentTask' = [currentTask EXCEPT ![th] = Head(queue[th])]
    /\ Goto(th, "exec")
    /\ UNCHANGED <<mpi_blocked_queue, stolen, index, terminatable>>

NothingLocal(th) ==
    /\ at[th] = "run"
    /\ queue[th] = <<>>
    /\ Goto(th, "steal")
    /\ index' = [index EXCEPT ![th] = 0]
    /\ UNCHANGED <<vars, queue, mpi_blocked_queue, currentTask, stolen, terminatable>>

(***************************************************************************)
(* The coroutine of p is back on its worker: it terminated, or it switched *)
(* out and handle_after_continuationOut() puts it where its state says.    *)
(***************************************************************************)
Ended(p) == pc[p] = "done" /\ UNCHANGED vars

Requeue(p) == (HandleRunnable(p) \/ HandleGroupWait(p)) /\ pc'[p] = "queued"

Park(p) == HandleGroupWait(p) /\ pc'[p] = "parked"

(* Slip: currentTask__ is not reset. *)
TakeBackKeeps(th) ==
    /\ at[th] = "exec"
    /\ Ended(currentTask[th]) \/ Park(currentTask[th])
    /\ Goto(th, "run")
    /\ UNCHANGED <<queue, mpi_blocked_queue, currentTask, stolen, index, terminatable>>

TakeBack(th) ==
    /\ at[th] = "exec"
    /\ LET p == currentTask[th] IN
       \/ /\ Ended(p) \/ Park(p)
          /\ UNCHANGED <<queue, mpi_blocked_queue>>
       \/ /\ Requeue(p)
          /\ Enqueue(th, p)
          /\ UNCHANGED mpi_blocked_queue
       \/ /\ HandleMpi(p)
          /\ mpi_blocked_queue' = [mpi_blocked_queue EXCEPT ![th] = Append(@, p)]
          /\ UNCHANGED queue
    /\ currentTask' = [currentTask EXCEPT ![th] = NULL]
    /\ Goto(th, "run")
    /\ UNCHANGED <<stolen, index, terminatable>>

----------------------------------------------------------------------------
(* run_once(): stealing, then polling.                                      *)

(* The loop goes past the thread itself and past empty queues. *)
NextVictim(th) ==
    /\ at[th] = "steal"
    /\ index[th] < NThreads
    /\ index[th] = th \/ queue[index[th]] = <<>>
    /\ index' = [index EXCEPT ![th] = @ + 1]
    /\ UNCHANGED <<vars, queue, mpi_blocked_queue, currentTask, stolen, at, terminatable>>

(***************************************************************************)
(* dequeue_half() takes half of the queue, or something near it when it    *)
(* has skip nodes to split at (Halves of TaskQueues; see module Skiplist). *)
(***************************************************************************)
Steal(th) ==
    /\ at[th] = "steal"
    /\ index[th] \in Threads \ {th}
    /\ LET q == queue[index[th]] IN
       /\ q # <<>>
       /\ \E k \in Q!Halves(Len(q)) :
            /\ stolen' = [stolen EXCEPT ![th] = SubSeq(q, 1, k)]
            /\ queue' = [queue EXCEPT ![index[th]] = SubSeq(q, k + 1, Len(q))]
    /\ Goto(th, "replace")
    /\ UNCHANGED <<vars, mpi_blocked_queue, currentTask, index, terminatable>>

(* Slip: replace() copies the stolen queue where it should move it. *)
ReplaceKeeps(th) ==
    /\ at[th] = "replace"
    /\ queue' = [queue EXCEPT ![th] = stolen[th]]
    /\ Goto(th, "run")
    /\ UNCHANGED <<vars, mpi_blocked_queue, currentTask, stolen, index, terminatable>>

(* replace(): the own queue becomes the stolen one, whatever it held. *)
Replace(th) ==
    /\ at[th] = "replace"
    /\ queue' = [queue EXCEPT ![th] = stolen[th]]
    /\ stolen' = [stolen EXCEPT ![th] = <<>>]
    /\ Goto(th, "run")
    /\ UNCHANGED <<vars, mpi_blocked_queue, currentTask, index, terminatable>>

(* Slip: the MPI tasks of the thread are forgotten. *)
NothingToStealForgets(th) ==
    /\ at[th] = "steal"
    /\ index[th] = NThreads
    /\ Goto(th, "idle")
    /\ UNCHANGED <<vars, queue, mpi_blocked_queue, currentTask, stolen, index, terminatable>>

NothingToSteal(th) ==
    /\ at[th] = "steal"
    /\ index[th] = NThreads
    /\ IF mpi_blocked_queue[th] # <<>>
       THEN Goto(th, "poll") /\ index' = [index EXCEPT ![th] = 1]
       ELSE Goto(th, "idle") /\ UNCHANGED index
    /\ UNCHANGED <<vars, queue, mpi_blocked_queue, currentTask, stolen, terminatable>>

(* run_mpi_blocked(): the next entry of the queue. *)
PollTask(th) ==
    /\ at[th] = "poll"
    /\ index[th] <= Len(mpi_blocked_queue[th])
    /\ Poll(mpi_blocked_queue[th][index[th]])
    /\ currentTask' = [currentTask EXCEPT ![th] = mpi_blocked_queue[th][index[th]]]
    /\ Goto(th, "polling")
    /\ UNCHANGED <<queue, mpi_blocked_queue, stolen, index, terminatable>>

(* The task is MPIBlocked still, or again: it stays where it is. *)
PollNext(th) ==
    /\ at[th] = "polling"
    /\ HandleMpi(currentTask[th])
    /\ currentTask' = [currentTask EXCEPT ![th] = NULL]
    /\ index' = [index EXCEPT ![th] = @ + 1]
    /\ Goto(th, "poll")
    /\ UNCHANGED <<queue, mpi_blocked_queue, stolen, terminatable>>

(* It is not: it goes where its state says and the entry is erased. *)
PollLeave(th) ==
    /\ at[th] = "polling"
    /\ LET p == currentTask[th] IN
       \/ (Ended(p) \/ Park(p)) /\ UNCHANGED queue
       \/ Requeue(p) /\ Enqueue(th, p)
    /\ mpi_blocked_queue' = [mpi_blocked_queue EXCEPT ![th] = RemoveAt(@, index[th])]
    /\ currentTask' = [currentTask EXCEPT ![th] = NULL]
    /\ Goto(th, "run")
    /\ UNCHANGED <<stolen, index, terminatable>>

PollEnd(th) ==
    /\ at[th] = "poll"
    /\ index[th] > Len(mpi_blocked_queue[th])
    /\ Goto(th, "run")
    /\ UNCHANGED <<vars, queue, mpi_blocked_queue, currentTask, stolen, index, terminatable>>

----------------------------------------------------------------------------
(* run(): sleep, leave, or join the children.                               *)

Idle(th) ==
    /\ at[th] = "idle"
    /\ Goto(th, IF ~terminatable THEN "sleep" ELSE IF th # 0 THEN "exit" ELSE "join")
    /\ UNCHANGED <<vars, queue, mpi_blocked_queue, currentTask, stolen, index, terminatable>>

(* Slip: a wait for work, which does not see the end of the program. *)
WakeForWork(th) ==
    /\ at[th] = "sleep"
    /\ Goto(th, IF \E v \in Threads : queue[v] # <<>> THEN "run" ELSE "sleep")
    /\ UNCHANGED <<vars, queue, mpi_blocked_queue, currentTask, stolen, index, terminatable>>

(* wait_task() ends: the time limit, a notification, or a spurious wakeup. *)
Wake(th) ==
    /\ at[th] = "sleep"
    /\ Goto(th, "run")
    /\ UNCHANGED <<vars, queue, mpi_blocked_queue, currentTask, stolen, index, terminatable>>

(* Slip: the main thread does not wait for its children. *)
JoinDetaches ==
    /\ at[0] = "join"
    /\ Goto(0, "exit")
    /\ UNCHANGED <<vars, queue, mpi_blocked_queue, currentTask, stolen, index, terminatable>>

Join ==
    /\ at[0] = "join"
    /\ \A th \in Threads \ {0} : at[th] = "exit"
    /\ Goto(0, "exit")
    /\ UNCHANGED <<vars, queue, mpi_blocked_queue, currentTask, stolen, index, terminatable>>

(* The program has returned from main(). *)
Stopped ==
    /\ at[0] = "exit"
    /\ UNCHANGED mediatorVars

Worker(th) ==
    \/ RunTask(th)      \/ NothingLocal(th)   \/ TakeBack(th)
    \/ NextVictim(th)   \/ Steal(th)          \/ Replace(th)
    \/ NothingToSteal(th)
    \/ PollTask(th)     \/ PollNext(th)       \/ PollLeave(th)  \/ PollEnd(th)
    \/ Idle(th)         \/ Wake(th)

MediatorNext ==
    \/ \E th \in Threads :
        \/ TaskStep(th)
        \/ \E t \in Tasks : TaskGo(th, t)
        \/ TaskRelease(th)
        \/ TerminateGracefully(th)
        \/ Worker(th)
    \/ Join
    \/ Stopped

MediatorSpec == MediatorInit /\ [][MediatorNext]_mediatorVars

(***************************************************************************)
(* Fairness.  Every thread goes on as long as it can (WF of its own steps  *)
(* and of the library's steps of the task it runs).  SF of RunTask is an   *)
(* assumption about luck, not about the scheduler of the OS: a thread that *)
(* again and again finds a task in its queue sometimes gets it before a    *)
(* thief does.  The rest is asked of the user's code, as in TaskGroup.     *)
(***************************************************************************)
RunsStep(p, A) == A /\ UNCHANGED threadVars /\ \E th \in Threads : Runs(th, p)

LibraryFairness ==
    /\ \A th \in Threads : WF_mediatorVars(Worker(th)) /\ WF_mediatorVars(TaskRelease(th))
    /\ \A p \in Tasks :
        WF_mediatorVars(RunsStep(p, Decrement(p) \/ Unlock(p) \/ Terminated(p)))
    /\ WF_mediatorVars(Join)

ClientFairness ==
    /\ \A p \in Tasks :
        /\ SF_mediatorVars(\E th \in Threads : TaskGo(th, p))
        /\ SF_mediatorVars(RunsStep(p, MpiComplete(p)))
        /\ SF_mediatorVars(RunsStep(p, Finish(p)))
    /\ \A g \in Groups : SF_mediatorVars(RunsStep(Owner[g], Wait(Owner[g], g)))

WeakFairSpec == MediatorSpec /\ LibraryFairness /\ ClientFairness

MediatorFairSpec ==
    WeakFairSpec /\ \A th \in Threads : SF_mediatorVars(RunTask(th))

----------------------------------------------------------------------------

(* Type invariant of the threads. *)
MediatorTypeOK ==
    /\ queue \in [Threads -> Seq(Tasks)]
    /\ mpi_blocked_queue \in [Threads -> Seq(Tasks)]
    /\ currentTask \in [Threads -> Tasks \cup {NULL}]
    /\ stolen \in [Threads -> Seq(Tasks)]
    /\ at \in [Threads -> Place]
    /\ index \in [Threads -> Nat]
    /\ terminatable \in BOOLEAN
    /\ \A th \in Threads : at[th] \in {"exec", "polling"} <=> currentTask[th] # NULL

(* The places in queues, own or in the hands of a thief, where t is. *)
QueuedAt(t) ==
    {e \in Threads \X {"queue", "stolen"} \X (1 .. Cardinality(Tasks)) :
        LET s == IF e[2] = "queue" THEN queue[e[1]] ELSE stolen[e[1]] IN
        e[3] <= Len(s) /\ s[e[3]] = t}

(***************************************************************************)
(* A runnable task is in one queue, once: stealing and waking up lose none *)
(* and duplicate none, and no coroutine runs on two threads.               *)
(***************************************************************************)
OnePlace ==
    \A t \in Tasks :
        /\ Cardinality(QueuedAt(t)) = IF pc[t] = "queued" THEN 1 ELSE 0
        /\ \A th1, th2 \in Threads :
            currentTask[th1] = t /\ currentTask[th2] = t => th1 = th2
        /\ pc[t] \in {"running", "switched", "terminating", "deciding", "unlocking"}
            => \E th \in Threads : currentTask[th] = t

(***************************************************************************)
(* MUST_TRUE of GlobalMediator.cc:80 and Skiplist.hh:372 (compiled out):   *)
(* between the steal and replace() nothing gets into the thief's queue, so *)
(* that replace() overwrites no task.                                      *)
(***************************************************************************)
ReplaceEmpty == \A th \in Threads : at[th] = "replace" => queue[th] = <<>>

(***************************************************************************)
(* A thread that has left run() leaves no task behind (nobody would poll   *)
(* its mpi_blocked_queue), and when the main thread returns, also after a  *)
(* co_terminate() in the middle of the work, everything spawned is done.   *)
(***************************************************************************)
ShutdownComplete ==
    /\ \A th \in Threads : at[th] \in {"join", "exit"} =>
        queue[th] = <<>> /\ stolen[th] = <<>> /\ mpi_blocked_queue[th] = <<>>
    /\ at[0] = "exit" => \A t \in Tasks : pc[t] \in {"new", "done"}

(***************************************************************************)
(* What the threads do to their queues, with no lock held from the theft   *)
(* to replace(), is what queues are for: each step is at most one          *)
(* operation on one queue, of a thread that may call it, with a task that  *)
(* is in no queue when it is enqueued.                                     *)
(***************************************************************************)
ThreadQueuesSpec == Q!Spec

(* Every task that was handed to a queue is run to its end. *)
EveryTaskEnds == \A t \in Tasks : pc[t] = "queued" ~> pc[t] = "done"

(* co_terminate() ends the program. *)
ShutsDown == terminatable ~> at[0] = "exit"

(***************************************************************************)
(* Task.cc:8-10, "traverse all threads to steal a runnable_queue task --   *)
(* if success, run it": a runnable task is run.                            *)
(***************************************************************************)
RunnableRuns == \A t \in Tasks : pc[t] = "queued" ~> pc[t] = "running"

=============================================================================
