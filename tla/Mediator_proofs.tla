--------------------------- MODULE Mediator_proofs ---------------------------
(***************************************************************************)
(* Proofs about module Mediator, for every number of threads and every set *)
(* of tasks and groups: the worker threads do nothing that module          *)
(* TaskGroup does not allow, so that what is proved there holds of the     *)
(* tasks that they run; replace() finds the thief's queue empty; stealing  *)
(* and polling lose and duplicate no task; and a program that ends has     *)
(* done its work.                                                          *)
(***************************************************************************)
EXTENDS Mediator, TaskGroup_proofs, WellFoundedInduction

(***************************************************************************)
(* A thief has nothing of its own: only the thread itself adds to its      *)
(* queue, and it runs no task then.                                        *)
(***************************************************************************)
ThiefEmpty == \A th \in Threads : at[th] \in {"steal", "replace"} => queue[th] = <<>>

(* run_mpi_blocked() is at an entry of its queue. *)
PollInv ==
    \A th \in Threads :
        /\ at[th] \in {"poll", "polling"} => index[th] > 0
        /\ at[th] = "polling" => index[th] <= Len(mpi_blocked_queue[th])

(* The inductive invariant of the threads. *)
MInv == MediatorTypeOK /\ ThiefEmpty /\ PollInv

----------------------------------------------------------------------------
(* Lemmas about sequences *)

(* The first task of a queue, and what dequeue() leaves. *)
LEMMA HeadTail ==
  ASSUME NEW S, NEW s \in Seq(S), s # <<>>
  PROVE  Head(s) \in S /\ Tail(s) \in Seq(S)
<1>1. QED
  OBVIOUS

(* dequeue_half() cuts a queue of tasks into two. *)
LEMMA Cut ==
  ASSUME NEW S, NEW s \in Seq(S), NEW k \in 0 .. Len(s)
  PROVE  SubSeq(s, 1, k) \in Seq(S) /\ SubSeq(s, k + 1, Len(s)) \in Seq(S)
<1>1. Len(s) \in Nat
  OBVIOUS
<1>2. \A m \in Nat, n \in Int : (\A i \in m .. n : i \in 1 .. Len(s)) => SubSeq(s, m, n) \in Seq(S)
  OBVIOUS
<1>3. QED
  BY <1>1, <1>2

(* erase() of an entry leaves a queue of tasks. *)
LEMMA Erase ==
  ASSUME NEW S, NEW s \in Seq(S), NEW i \in 1 .. Len(s)
  PROVE  RemoveAt(s, i) \in Seq(S)
<1>1. i - 1 \in 0 .. Len(s) /\ i \in 0 .. Len(s)
  OBVIOUS
<1>2. SubSeq(s, 1, i - 1) \in Seq(S) /\ SubSeq(s, i + 1, Len(s)) \in Seq(S)
  BY <1>1, Cut
<1>3. QED
  BY <1>2 DEF RemoveAt

(* A theft takes no more than there is. *)
LEMMA HalfOf ==
  ASSUME NEW n \in Nat \ {0}, NEW k \in Q!Halves(n)
  PROVE  k \in 0 .. n
<1>1. CASE k \in 1 .. n
  BY <1>1
<1>2. CASE k = (n + 1) \div 2
  <2>1. (n + 1) \div 2 \in Int /\ 0 <= (n + 1) \div 2 /\ (n + 1) \div 2 <= n
    OBVIOUS
  <2>2. QED
    BY <1>2, <2>1
<1>3. QED
  BY <1>1, <1>2 DEF Q!Halves

----------------------------------------------------------------------------
(* What a thread does to its own variables, and to nobody else's. *)

(* addRunnable() by a thread that runs a task. *)
LEMMA EnqueueKeeps ==
  ASSUME MInv, NEW th \in Threads, at[th] \in {"exec", "polling"}, NEW t \in Tasks, Enqueue(th, t)
  PROVE  /\ queue' \in [Threads -> Seq(Tasks)]
         /\ \A u \in Threads : at[u] \in {"steal", "replace"} => queue'[u] = <<>>
<1>1. queue \in [Threads -> Seq(Tasks)] /\ queue' = [queue EXCEPT ![th] = Append(@, t)]
  BY DEF MInv, MediatorTypeOK, Enqueue
<1>2. \A u \in Threads : u # th => queue'[u] = queue[u]
  BY <1>1
<1>3. QED
  BY <1>1, <1>2 DEF MInv, ThiefEmpty

(* A thread that runs a task, while it runs: only its queue grows. *)
LEMMA RunningKeeps ==
  ASSUME IInv, MInv, NEW th \in Threads,
         TaskStep(th) \/ (\E t \in Tasks : TaskGo(th, t)) \/ TaskRelease(th) \/ TerminateGracefully(th)
  PROVE  MInv'
<1> USE DEF MInv
<1>1. CASE TaskStep(th)
  BY <1>1 DEF TaskStep, threadVars, MediatorTypeOK, ThiefEmpty, PollInv
<1>2. CASE TerminateGracefully(th)
  <2>1. terminatable' \in BOOLEAN
    BY <1>2 DEF TerminateGracefully
  <2>2. QED
    BY <1>2, <2>1 DEF TerminateGracefully, MediatorTypeOK, ThiefEmpty, PollInv
<1>3. ASSUME NEW t \in Tasks, Runs(th, t) \/ at[th] \in {"exec", "polling"},
             UNCHANGED queue \/ Enqueue(th, t),
             UNCHANGED <<mpi_blocked_queue, currentTask, stolen, at, index, terminatable>>
      PROVE  MInv'
  <2>1. at[th] \in {"exec", "polling"}
    BY <1>3 DEF Runs
  <2>2. /\ queue' \in [Threads -> Seq(Tasks)]
        /\ \A u \in Threads : at[u] \in {"steal", "replace"} => queue'[u] = <<>>
    <3>1. CASE UNCHANGED queue
      BY <3>1 DEF MediatorTypeOK, ThiefEmpty
    <3>2. CASE Enqueue(th, t)
      BY <2>1, <3>2, EnqueueKeeps
    <3>3. QED
      BY <1>3, <3>1, <3>2
  <2>3. QED
    BY <1>3, <2>2 DEF MediatorTypeOK, ThiefEmpty, PollInv
<1>4. ASSUME NEW t \in Tasks, TaskGo(th, t) PROVE MInv'
  <2>1. at[th] \in {"exec", "polling"}
    BY <1>4 DEF TaskGo, Runs
  <2>2. QED
    BY <1>3, <1>4, <2>1 DEF TaskGo
<1>5. CASE TaskRelease(th)
  <2>1. PICK p \in Tasks :
          /\ Runs(th, p) /\ Release(p)
          /\ IF blockedTask[groups[p][informed[p]]] = NULL THEN UNCHANGED queue
             ELSE Enqueue(th, blockedTask[groups[p][informed[p]]])
    BY <1>5 DEF TaskRelease
  <2>2. PICK g \in Groups : ReleaseNobody(p, g) \/ \E w \in Tasks : ReleaseTask(p, g, w)
    BY <2>1, ReleaseFacts
  <2>3. groups[p][informed[p]] = g
    BY <2>2 DEF ReleaseNobody, ReleaseTask, Informing
  <2>4. blockedTask[g] \in Tasks \cup {NULL}
    BY DEF IInv, TypeOK
  <2>5. \E t \in Tasks : UNCHANGED queue \/ Enqueue(th, t)
    BY <2>1, <2>3, <2>4
  <2>6. at[th] \in {"exec", "polling"}
    BY <2>1 DEF Runs
  <2>7. QED
    BY <1>3, <1>5, <2>5, <2>6 DEF TaskRelease
<1>6. QED
  BY <1>1, <1>2, <1>4, <1>5

(* run_runnable(): a task out of the queue, and back to where its state says. *)
LEMMA RunKeeps ==
  ASSUME MInv, NEW th \in Threads, RunTask(th) \/ NothingLocal(th)
  PROVE  MInv'
<1> USE DEF MInv, Goto
<1>1. CASE RunTask(th)
  <2>1. queue[th] \in Seq(Tasks) /\ queue[th] # <<>> /\ at[th] = "run"
    BY <1>1 DEF RunTask, MediatorTypeOK
  <2>2. Head(queue[th]) \in Tasks /\ Tail(queue[th]) \in Seq(Tasks)
    BY <2>1, HeadTail
  <2>3. Head(queue[th]) # NULL
    BY <2>2, ClientAssumption
  <2>4. MediatorTypeOK'
    BY <1>1, <2>2, <2>3 DEF RunTask, MediatorTypeOK, Place
  <2>5. ThiefEmpty' /\ PollInv'
    BY <1>1, <2>2 DEF RunTask, MediatorTypeOK, ThiefEmpty, PollInv
  <2>6. QED
    BY <2>4, <2>5
<1>2. CASE NothingLocal(th)
  <2>1. MediatorTypeOK'
    BY <1>2 DEF NothingLocal, MediatorTypeOK, Place
  <2>2. ThiefEmpty' /\ PollInv'
    BY <1>2 DEF NothingLocal, MediatorTypeOK, ThiefEmpty, PollInv
  <2>3. QED
    BY <2>1, <2>2
<1>3. QED
  BY <1>1, <1>2

(* run_runnable(): the coroutine is back, and its task goes where its state says. *)
LEMMA TakeBackKeepsIt ==
  ASSUME MInv, NEW th \in Threads, TakeBack(th)
  PROVE  MInv'
<1> USE DEF MInv, Goto
<1>1. /\ at[th] = "exec" /\ currentTask[th] \in Tasks
      /\ currentTask' = [currentTask EXCEPT ![th] = NULL]
      /\ at' = [at EXCEPT ![th] = "run"]
      /\ UNCHANGED <<stolen, index, terminatable>>
  BY DEF TakeBack, MediatorTypeOK
<1>2. /\ queue' \in [Threads -> Seq(Tasks)]
      /\ \A u \in Threads : at[u] \in {"steal", "replace"} => queue'[u] = <<>>
  <2>1. CASE UNCHANGED queue
    BY <2>1 DEF MediatorTypeOK, ThiefEmpty
  <2>2. CASE Enqueue(th, currentTask[th])
    BY <1>1, <2>2, EnqueueKeeps
  <2>3. QED
    BY <2>1, <2>2 DEF TakeBack
<1>3. /\ mpi_blocked_queue' \in [Threads -> Seq(Tasks)]
      /\ \A u \in Threads \ {th} : mpi_blocked_queue'[u] = mpi_blocked_queue[u]
  <2>1. CASE UNCHANGED mpi_blocked_queue
    BY <2>1 DEF MediatorTypeOK
  <2>2. CASE mpi_blocked_queue' = [mpi_blocked_queue EXCEPT ![th] = Append(@, currentTask[th])]
    <3>1. mpi_blocked_queue \in [Threads -> Seq(Tasks)]
      BY DEF MediatorTypeOK
    <3>2. QED
      BY <1>1, <2>2, <3>1
  <2>3. QED
    BY <2>1, <2>2 DEF TakeBack
<1>4. MediatorTypeOK'
  BY <1>1, <1>2, <1>3 DEF MediatorTypeOK, Place
<1>5. ThiefEmpty' /\ PollInv'
  BY <1>1, <1>2, <1>3 DEF MediatorTypeOK, ThiefEmpty, PollInv
<1>6. QED
  BY <1>4, <1>5

(* run_once(): the front of another thread's queue, and the own one instead. *)
LEMMA StealKeeps ==
  ASSUME MInv, NEW th \in Threads, NextVictim(th) \/ Steal(th) \/ Replace(th) \/ NothingToSteal(th)
  PROVE  MInv'
<1> USE DEF MInv, Goto
<1>1. CASE NextVictim(th)
  <2>1. MediatorTypeOK'
    BY <1>1 DEF NextVictim, MediatorTypeOK
  <2>2. ThiefEmpty' /\ PollInv'
    BY <1>1 DEF NextVictim, MediatorTypeOK, ThiefEmpty, PollInv
  <2>3. QED
    BY <2>1, <2>2
<1>2. CASE Steal(th)
  <2>1. index[th] \in Threads /\ at[th] = "steal"
    BY <1>2 DEF Steal
  <2> DEFINE q == queue[index[th]]
  <2>2. q \in Seq(Tasks) /\ q # <<>>
    BY <1>2, <2>1 DEF Steal, MediatorTypeOK
  <2>3. PICK k \in Q!Halves(Len(q)) :
          /\ stolen' = [stolen EXCEPT ![th] = SubSeq(q, 1, k)]
          /\ queue' = [queue EXCEPT ![index[th]] = SubSeq(q, k + 1, Len(q))]
    BY <1>2 DEF Steal
  <2>4. k \in 0 .. Len(q)
    <3>1. Len(q) \in Nat \ {0}
      BY <2>2
    <3>2. QED
      BY <3>1, HalfOf
  <2>5. SubSeq(q, 1, k) \in Seq(Tasks) /\ SubSeq(q, k + 1, Len(q)) \in Seq(Tasks)
    BY <2>2, <2>4, Cut
  <2>6. MediatorTypeOK'
    BY <1>2, <2>1, <2>3, <2>5 DEF Steal, MediatorTypeOK, Place
  <2>7. \A u \in Threads : at[u] \in {"steal", "replace"} => u # index[th] /\ queue'[u] = queue[u]
    BY <2>2, <2>3 DEF MediatorTypeOK, ThiefEmpty
  <2>8. ThiefEmpty' /\ PollInv'
    BY <1>2, <2>1, <2>7 DEF Steal, MediatorTypeOK, ThiefEmpty, PollInv
  <2>9. QED
    BY <2>6, <2>8
<1>3. CASE Replace(th)
  <2>1. MediatorTypeOK'
    <3>1. stolen[th] \in Seq(Tasks)
      BY DEF MediatorTypeOK
    <3>2. QED
      BY <1>3, <3>1 DEF Replace, MediatorTypeOK, Place
  <2>2. ThiefEmpty' /\ PollInv'
    BY <1>3 DEF Replace, MediatorTypeOK, ThiefEmpty, PollInv
  <2>3. QED
    BY <2>1, <2>2
<1>4. CASE NothingToSteal(th)
  <2>0. PICK place \in {"poll", "idle"} :
          /\ at' = [at EXCEPT ![th] = place]
          /\ \/ place = "poll" /\ index' = [index EXCEPT ![th] = 1]
             \/ place = "idle" /\ UNCHANGED index
          /\ at[th] = "steal"
          /\ UNCHANGED <<queue, mpi_blocked_queue, currentTask, stolen, terminatable>>
    BY <1>4 DEF NothingToSteal
  <2>1. at' \in [Threads -> Place] /\ index' \in [Threads -> Nat]
    <3>1. at \in [Threads -> Place] /\ index \in [Threads -> Nat] /\ place \in Place
      BY DEF MediatorTypeOK, Place
    <3>2. at' \in [Threads -> Place]
      BY <2>0, <3>1
    <3>3. CASE place = "poll"
      BY <2>0, <3>1, <3>2, <3>3
    <3>4. CASE place = "idle"
      BY <2>0, <3>1, <3>2, <3>4
    <3>5. QED
      BY <3>3, <3>4
  <2>2. MediatorTypeOK'
    BY <2>0, <2>1 DEF MediatorTypeOK
  <2>3. ThiefEmpty' /\ PollInv'
    BY <2>0 DEF MediatorTypeOK, ThiefEmpty, PollInv
  <2>4. QED
    BY <2>2, <2>3
<1>5. QED
  BY <1>1, <1>2, <1>3, <1>4

(* run_mpi_blocked(): one entry after the other. *)
LEMMA PollKeeps ==
  ASSUME MInv, NEW th \in Threads, PollTask(th) \/ PollNext(th) \/ PollEnd(th)
  PROVE  MInv'
<1> USE DEF MInv, Goto
<1>1. CASE PollTask(th)
  <2>1. /\ mpi_blocked_queue[th] \in Seq(Tasks)
        /\ index[th] \in 1 .. Len(mpi_blocked_queue[th])
    BY <1>1 DEF PollTask, PollInv, MediatorTypeOK
  <2>2. mpi_blocked_queue[th][index[th]] \in Tasks \ {NULL}
    BY <2>1, ClientAssumption
  <2>3. MediatorTypeOK'
    BY <1>1, <2>2 DEF PollTask, MediatorTypeOK, Place
  <2>4. ThiefEmpty' /\ PollInv'
    BY <1>1 DEF PollTask, MediatorTypeOK, ThiefEmpty, PollInv
  <2>5. QED
    BY <2>3, <2>4
<1>2. CASE PollNext(th)
  <2>1. MediatorTypeOK'
    BY <1>2 DEF PollNext, MediatorTypeOK, Place
  <2>2. ThiefEmpty' /\ PollInv'
    BY <1>2 DEF PollNext, MediatorTypeOK, ThiefEmpty, PollInv
  <2>3. QED
    BY <2>1, <2>2
<1>3. CASE PollEnd(th)
  <2>1. MediatorTypeOK'
    BY <1>3 DEF PollEnd, MediatorTypeOK, Place
  <2>2. ThiefEmpty' /\ PollInv'
    BY <1>3 DEF PollEnd, MediatorTypeOK, ThiefEmpty, PollInv
  <2>3. QED
    BY <2>1, <2>2
<1>4. QED
  BY <1>1, <1>2, <1>3

(* run_mpi_blocked(): an entry whose task is no longer MPIBlocked is erased. *)
LEMMA PollLeaveKeeps ==
  ASSUME MInv, NEW th \in Threads, PollLeave(th)
  PROVE  MInv'
<1> USE DEF MInv, Goto
<1>1. /\ at[th] = "polling" /\ currentTask[th] \in Tasks
      /\ currentTask' = [currentTask EXCEPT ![th] = NULL]
      /\ mpi_blocked_queue' = [mpi_blocked_queue EXCEPT ![th] = RemoveAt(@, index[th])]
      /\ at' = [at EXCEPT ![th] = "run"]
      /\ UNCHANGED <<stolen, index, terminatable>>
  BY DEF PollLeave, MediatorTypeOK
<1>2. /\ queue' \in [Threads -> Seq(Tasks)]
      /\ \A u \in Threads : at[u] \in {"steal", "replace"} => queue'[u] = <<>>
  <2>1. CASE UNCHANGED queue
    BY <2>1 DEF MediatorTypeOK, ThiefEmpty
  <2>2. CASE Enqueue(th, currentTask[th])
    BY <1>1, <2>2, EnqueueKeeps
  <2>3. QED
    BY <2>1, <2>2 DEF PollLeave
<1>3. RemoveAt(mpi_blocked_queue[th], index[th]) \in Seq(Tasks)
  <2>1. mpi_blocked_queue[th] \in Seq(Tasks) /\ index[th] \in 1 .. Len(mpi_blocked_queue[th])
    BY <1>1 DEF PollInv, MediatorTypeOK
  <2>2. QED
    BY <2>1, Erase
<1>4. MediatorTypeOK'
  BY <1>1, <1>2, <1>3 DEF MediatorTypeOK, Place
<1>5. ThiefEmpty' /\ PollInv'
  BY <1>1, <1>2, <1>3 DEF MediatorTypeOK, ThiefEmpty, PollInv
<1>6. QED
  BY <1>4, <1>5

(* run(): sleep, wake up, leave, join. *)
LEMMA GotoKeeps ==
  ASSUME MInv, NEW th \in Threads, at[th] \in {"idle", "sleep", "join"},
         NEW place \in {"sleep", "run", "exit", "join"}, Goto(th, place),
         UNCHANGED <<queue, mpi_blocked_queue, currentTask, stolen, index, terminatable>>
  PROVE  MInv'
<1> USE DEF MInv, Goto
<1>1. MediatorTypeOK'
  BY DEF MediatorTypeOK, Place
<1>2. ThiefEmpty' /\ PollInv'
  BY DEF MediatorTypeOK, ThiefEmpty, PollInv
<1>3. QED
  BY <1>1, <1>2

(* Every step of the threads preserves the invariant. *)
LEMMA ThreadStep == IInv /\ MInv /\ [MediatorNext]_mediatorVars => MInv'
<1> SUFFICES ASSUME IInv, MInv, [MediatorNext]_mediatorVars PROVE MInv'
  OBVIOUS
<1>1. CASE UNCHANGED threadVars
  BY <1>1 DEF threadVars, MInv, MediatorTypeOK, ThiefEmpty, PollInv
<1>2. ASSUME NEW th \in Threads, Worker(th) PROVE MInv'
  <2>1. CASE Idle(th)
    BY <2>1, GotoKeeps DEF Idle
  <2>2. CASE Wake(th)
    BY <2>2, GotoKeeps DEF Wake
  <2>3. QED
    BY <1>2, <2>1, <2>2, RunKeeps, TakeBackKeepsIt, StealKeeps, PollKeeps, PollLeaveKeeps DEF Worker
<1>3. CASE Join
  <2>1. 0 \in Threads
    BY ThreadAssumption DEF Threads
  <2>2. QED
    BY <1>3, <2>1, GotoKeeps DEF Join
<1>4. QED
  BY <1>1, <1>2, <1>3, RunningKeeps DEF MediatorNext, Stopped, mediatorVars

----------------------------------------------------------------------------

(* What a step of the threads is for the tasks. *)
LEMMA TasksStep == MInv /\ [MediatorNext]_mediatorVars => [Next]_vars
<1> SUFFICES ASSUME MInv, [MediatorNext]_mediatorVars PROVE [Next]_vars
  OBVIOUS
<1>1. ASSUME NEW p \in Tasks, Client(p) \/ System(p) PROVE Next
  BY <1>1 DEF Next
<1>2. ASSUME NEW th \in Threads, TaskStep(th) \/ (\E t \in Tasks : TaskGo(th, t)) \/ TaskRelease(th)
      PROVE  Next
  <2>1. \E p \in Tasks : Client(p) \/ System(p)
    BY <1>2 DEF TaskStep, TaskGo, TaskRelease, Client, System
  <2>2. QED
    BY <1>1, <2>1
<1>3. ASSUME NEW th \in Threads, RunTask(th) PROVE Next
  <2>1. queue[th] \in Seq(Tasks) /\ queue[th] # <<>>
    BY <1>3 DEF MInv, MediatorTypeOK, RunTask
  <2>2. Head(queue[th]) \in Tasks /\ Dispatch(Head(queue[th]))
    BY <1>3, <2>1, HeadTail DEF RunTask
  <2>3. QED
    BY <1>1, <2>2 DEF System
<1>4. ASSUME NEW th \in Threads, TakeBack(th) \/ PollNext(th) \/ PollLeave(th) PROVE Next \/ UNCHANGED vars
  <2>1. currentTask[th] \in Tasks
    BY <1>4 DEF MInv, MediatorTypeOK, TakeBack, PollNext, PollLeave
  <2>2. System(currentTask[th]) \/ UNCHANGED vars
    BY <1>4 DEF TakeBack, PollNext, PollLeave, Ended, Park, Requeue, System
  <2>3. QED
    BY <1>1, <2>1, <2>2
<1>5. ASSUME NEW th \in Threads, PollTask(th) PROVE Next
  <2>1. mpi_blocked_queue[th] \in Seq(Tasks) /\ index[th] \in 1 .. Len(mpi_blocked_queue[th])
    BY <1>5 DEF MInv, MediatorTypeOK, PollInv, PollTask
  <2>2. mpi_blocked_queue[th][index[th]] \in Tasks
    BY <2>1
  <2>3. QED
    BY <1>1, <1>5, <2>2 DEF PollTask, System
<1>6. CASE UNCHANGED vars
  BY <1>6
<1>7. QED
  BY <1>2, <1>3, <1>4, <1>5, <1>6 DEF MediatorNext, Worker, TerminateGracefully, NothingLocal, NextVictim,
     Steal, Replace, NothingToSteal, PollEnd, Idle, Wake, Join, Stopped, mediatorVars

(* The invariants of the tasks and of the threads hold together. *)
THEOREM MediatorInvariant == MediatorSpec => [](IInv /\ MInv)
<1>1. MediatorInit => IInv /\ MInv
  <2> SUFFICES ASSUME MediatorInit PROVE IInv /\ MInv
    OBVIOUS
  <2>1. IInv
    BY InitIInv DEF MediatorInit
  <2>2. <<Root>> \in Seq(Tasks) /\ <<>> \in Seq(Tasks) /\ 0 \in Threads
    BY ClientAssumption, ThreadAssumption DEF Threads
  <2>3. /\ queue \in [Threads -> Seq(Tasks)]
        /\ mpi_blocked_queue \in [Threads -> Seq(Tasks)]
        /\ stolen \in [Threads -> Seq(Tasks)]
        /\ currentTask = [th \in Threads |-> NULL]
        /\ index \in [Threads -> Nat]
    BY <2>2 DEF MediatorInit
  <2>4. terminatable \in BOOLEAN
    BY DEF MediatorInit
  <2>5. at \in [Threads -> {"run", "sleep"}]
    BY DEF MediatorInit
  <2>6. QED
    BY <2>1, <2>3, <2>4, <2>5 DEF MInv, MediatorTypeOK, Place, ThiefEmpty, PollInv
<1>2. IInv /\ MInv /\ [MediatorNext]_mediatorVars => (IInv /\ MInv)'
  BY TasksStep, ThreadStep, TypeStep, EndStep, CountStep, WaitStep, ParkStep, BlockedStep, LostStep DEF IInv
<1>3. QED
  BY <1>1, <1>2, PTL DEF MediatorSpec

(***************************************************************************)
(* The threads implement the task protocol: every run of the mediator, with*)
(* its queues, thefts and polling, is a run of module TaskGroup.           *)
(***************************************************************************)
THEOREM ImplementsTaskGroup == MediatorSpec => Spec
<1>1. MediatorInit => Init
  BY DEF MediatorInit
<1>2. IInv /\ MInv /\ [MediatorNext]_mediatorVars => [Next]_vars
  BY TasksStep
<1>3. QED
  BY <1>1, <1>2, MediatorInvariant, PTL DEF MediatorSpec, Spec

(* What the threads work with is well typed. *)
THEOREM ThreadsTyped == MediatorSpec => []MediatorTypeOK
<1>1. MInv => MediatorTypeOK
  BY DEF MInv
<1>2. QED
  BY <1>1, MediatorInvariant, PTL

(***************************************************************************)
(* MUST_TRUE of GlobalMediator.cc:80: replace() overwrites an empty queue. *)
(***************************************************************************)
THEOREM ReplaceCorrect == MediatorSpec => []ReplaceEmpty
<1>1. MInv => ReplaceEmpty
  BY DEF MInv, ThiefEmpty, ReplaceEmpty
<1>2. QED
  BY <1>1, MediatorInvariant, PTL

(***************************************************************************)
(* wait() returns only after all registered tasks have terminated, on any  *)
(* number of threads.                                                      *)
(***************************************************************************)
THEOREM JoinOnThreads == MediatorSpec => []JoinSafe
<1>1. QED
  BY ImplementsTaskGroup, JoinCorrect, PTL

----------------------------------------------------------------------------
(* Where a task is: one line of tasks per thread, and one per thief. *)

(* A sequence of tasks for each thread. *)
Lines == [Threads -> Seq(Tasks)]

(* The tasks of S, and no others, are in the lines, each of them once. *)
Placed(q, s, S) ==
    /\ \A th \in Threads : \A i \in 1 .. Len(q[th]) : q[th][i] \in S
    /\ \A th \in Threads : \A i \in 1 .. Len(s[th]) : s[th][i] \in S
    /\ \A t \in S : \E th \in Threads :
        \/ \E i \in 1 .. Len(q[th]) : q[th][i] = t
        \/ \E i \in 1 .. Len(s[th]) : s[th][i] = t
    /\ \A th, u \in Threads : \A i \in 1 .. Len(q[th]), j \in 1 .. Len(q[u]) :
        q[th][i] = q[u][j] => th = u /\ i = j
    /\ \A th, u \in Threads : \A i \in 1 .. Len(s[th]), j \in 1 .. Len(s[u]) :
        s[th][i] = s[u][j] => th = u /\ i = j
    /\ \A th, u \in Threads : \A i \in 1 .. Len(q[th]), j \in 1 .. Len(s[u]) :
        q[th][i] # s[u][j]

(* addRunnable() of a task that is in no line. *)
LEMMA PlacedAppend ==
  ASSUME NEW q \in Lines, NEW s \in Lines, NEW S, Placed(q, s, S),
         NEW th \in Threads, NEW t \in Tasks, t \notin S,
         NEW r \in Lines, r[th] = Append(q[th], t), \A u \in Threads : u # th => r[u] = q[u]
  PROVE  Placed(r, s, S \cup {t})
<1>1. q[th] \in Seq(Tasks) /\ Len(q[th]) \in Nat
  BY DEF Lines
<1>2. Len(r[th]) = Len(q[th]) + 1 /\ r[th][Len(q[th]) + 1] = t
  BY <1>1
<1>3. \A i \in 1 .. Len(q[th]) : r[th][i] = q[th][i] /\ i \in 1 .. Len(r[th])
  BY <1>1, <1>2
<1>4. Len(q[th]) + 1 \in 1 .. Len(r[th])
  BY <1>1, <1>2
<1>5. \A i \in 1 .. Len(r[th]) : i \in 1 .. Len(q[th]) \/ i = Len(q[th]) + 1
  BY <1>1, <1>2
<1>6. \A u \in Threads : \A i \in 1 .. Len(r[u]) :
        \/ i \in 1 .. Len(q[u]) /\ r[u][i] = q[u][i]
        \/ u = th /\ i = Len(q[th]) + 1 /\ r[u][i] = t
  BY <1>2, <1>3, <1>5
<1>7. \A u \in Threads : \A i \in 1 .. Len(q[u]) : i \in 1 .. Len(r[u]) /\ r[u][i] = q[u][i]
  BY <1>3
<1>8. \A u \in Threads : \A i \in 1 .. Len(r[u]) : r[u][i] \in S \cup {t}
  BY <1>6 DEF Placed
<1>9. \A u \in Threads : \A i \in 1 .. Len(s[u]) : s[u][i] \in S \cup {t}
  BY DEF Placed
<1>10. ASSUME NEW w \in S \cup {t}
       PROVE  \E u \in Threads : \/ \E i \in 1 .. Len(r[u]) : r[u][i] = w
                                 \/ \E i \in 1 .. Len(s[u]) : s[u][i] = w
  <2>1. CASE w = t
    BY <1>2, <1>4, <2>1
  <2>2. CASE w \in S
    BY <1>7, <2>2 DEF Placed
  <2>3. QED
    BY <2>1, <2>2
<1>11. \A u, v \in Threads : \A i \in 1 .. Len(r[u]), j \in 1 .. Len(r[v]) :
         r[u][i] = r[v][j] => u = v /\ i = j
  BY <1>6, SMTT(60) DEF Placed
<1>12. \A u, v \in Threads : \A i \in 1 .. Len(r[u]), j \in 1 .. Len(s[v]) : r[u][i] # s[v][j]
  BY <1>6 DEF Placed
<1>13. QED
  BY <1>8, <1>9, <1>10, <1>11, <1>12 DEF Placed

(* dequeue(): the first task of a line leaves it. *)
LEMMA PlacedTail ==
  ASSUME NEW q \in Lines, NEW s \in Lines, NEW S, Placed(q, s, S),
         NEW th \in Threads, q[th] # <<>>,
         NEW r \in Lines, r[th] = Tail(q[th]), \A u \in Threads : u # th => r[u] = q[u]
  PROVE  Head(q[th]) \in S /\ Placed(r, s, S \ {Head(q[th])})
<1> DEFINE t == Head(q[th])
<1>1. q[th] \in Seq(Tasks) /\ Len(q[th]) \in Nat /\ Len(q[th]) > 0
  BY DEF Lines
<1>2. t = q[th][1] /\ 1 \in 1 .. Len(q[th])
  BY <1>1
<1>3. Len(r[th]) = Len(q[th]) - 1 /\ \A i \in 1 .. Len(r[th]) : r[th][i] = q[th][i + 1]
  BY <1>1
<1>4. \A i \in 1 .. Len(r[th]) : i + 1 \in 1 .. Len(q[th]) /\ i + 1 # 1
  BY <1>1, <1>3
<1>5. \A i \in 1 .. Len(q[th]) : i = 1 \/ (i - 1 \in 1 .. Len(r[th]) /\ (i - 1) + 1 = i)
  BY <1>1, <1>3
<1>6. t \in S
  BY <1>2 DEF Placed
<1> HIDE DEF t
<1>7. \A u \in Threads : \A i \in 1 .. Len(r[u]) :
        \/ u # th /\ i \in 1 .. Len(q[u]) /\ r[u][i] = q[u][i]
        \/ u = th /\ \E j \in 1 .. Len(q[th]) : j = i + 1 /\ j # 1 /\ r[u][i] = q[th][j]
  BY <1>3, <1>4
<1>8. \A u \in Threads : \A i \in 1 .. Len(r[u]) : r[u][i] \in S \ {t}
  BY <1>2, <1>7 DEF Placed
<1>9. \A u \in Threads : \A i \in 1 .. Len(s[u]) : s[u][i] \in S \ {t}
  BY <1>2 DEF Placed
<1>10. ASSUME NEW w \in S \ {t}
       PROVE  \E u \in Threads : \/ \E i \in 1 .. Len(r[u]) : r[u][i] = w
                                 \/ \E i \in 1 .. Len(s[u]) : s[u][i] = w
  <2>1. PICK u \in Threads : \/ \E i \in 1 .. Len(q[u]) : q[u][i] = w
                             \/ \E i \in 1 .. Len(s[u]) : s[u][i] = w
    BY DEF Placed
  <2>2. CASE u = th /\ \E i \in 1 .. Len(q[u]) : q[u][i] = w
    <3>1. PICK i \in 1 .. Len(q[th]) : q[th][i] = w
      BY <2>2
    <3>2. i - 1 \in 1 .. Len(r[th]) /\ (i - 1) + 1 = i
      BY <1>2, <1>5, <3>1
    <3>3. r[th][i - 1] = w
      BY <1>3, <3>1, <3>2
    <3>4. QED
      BY <3>2, <3>3
  <2>3. QED
    BY <2>1, <2>2
<1>11. \A u, v \in Threads : \A i \in 1 .. Len(r[u]), j \in 1 .. Len(r[v]) :
         r[u][i] = r[v][j] => u = v /\ i = j
  <2> SUFFICES ASSUME NEW u \in Threads, NEW v \in Threads,
                      NEW i \in 1 .. Len(r[u]), NEW j \in 1 .. Len(r[v]), r[u][i] = r[v][j]
               PROVE  u = v /\ i = j
    OBVIOUS
  <2>1. CASE u = th /\ v = th
    <3>1. PICK x \in 1 .. Len(q[th]) : x = i + 1 /\ r[u][i] = q[th][x]
      BY <1>7, <2>1
    <3>2. PICK y \in 1 .. Len(q[th]) : y = j + 1 /\ r[v][j] = q[th][y]
      BY <1>7, <2>1
    <3>3. x = y
      <4>1. q[th][x] = q[th][y]
        BY <3>1, <3>2
      <4>2. \A a, b \in 1 .. Len(q[th]) : q[th][a] = q[th][b] => a = b
        BY DEF Placed
      <4>3. QED
        BY <4>1, <4>2
    <3>4. QED
      BY <2>1, <3>1, <3>2, <3>3
  <2>2. QED
    BY <1>7, <2>1 DEF Placed
<1>12. \A u, v \in Threads : \A i \in 1 .. Len(r[u]), j \in 1 .. Len(s[v]) : r[u][i] # s[v][j]
  <2> SUFFICES ASSUME NEW u \in Threads, NEW v \in Threads,
                      NEW i \in 1 .. Len(r[u]), NEW j \in 1 .. Len(s[v])
               PROVE  r[u][i] # s[v][j]
    OBVIOUS
  <2>1. PICK x \in 1 .. Len(q[u]) : r[u][i] = q[u][x]
    <3>1. CASE u = th
      <4>1. i \in 1 .. Len(r[th])
        BY <3>1
      <4>2. PICK x \in 1 .. Len(q[th]) : r[th][i] = q[th][x]
        BY <1>7, <4>1
      <4>3. QED
        BY <3>1, <4>2
    <3>2. CASE u # th
      BY <1>7, <3>2
    <3>3. QED
      BY <3>1, <3>2
  <2>2. q[u][x] # s[v][j]
    BY DEF Placed
  <2>3. QED
    BY <2>1, <2>2
<1>13. Placed(r, s, S \ {t})
  BY <1>8, <1>9, <1>10, <1>11, <1>12 DEF Placed
<1>14. QED
  BY <1>6, <1>13 DEF t

(* dequeue_half(): the first k tasks of v go to the thief th. *)
LEMMA PlacedSplit ==
  ASSUME NEW q \in Lines, NEW s \in Lines, NEW S, Placed(q, s, S),
         NEW th \in Threads, s[th] = <<>>, NEW v \in Threads, NEW k \in 0 .. Len(q[v]),
         NEW r \in Lines, r[v] = SubSeq(q[v], k + 1, Len(q[v])), \A u \in Threads : u # v => r[u] = q[u],
         NEW o \in Lines, o[th] = SubSeq(q[v], 1, k), \A u \in Threads : u # th => o[u] = s[u]
  PROVE  Placed(r, o, S)
<1>0. /\ \A a, b \in 1 .. Len(q[v]) : q[v][a] = q[v][b] => a = b
      /\ \A a \in 1 .. Len(q[v]) : q[v][a] \in S
  BY DEF Placed
<1>1. q[v] \in Seq(Tasks) /\ Len(q[v]) \in Nat /\ k \in Nat /\ k <= Len(q[v])
  BY DEF Lines
<1>2. Len(r[v]) = Len(q[v]) - k /\ \A i \in 1 .. Len(r[v]) : r[v][i] = q[v][i + k]
  BY <1>1
<1>3. Len(o[th]) = k /\ \A i \in 1 .. Len(o[th]) : o[th][i] = q[v][i]
  BY <1>1
<1>4. \A i \in 1 .. Len(r[v]) : i + k \in 1 .. Len(q[v]) /\ i + k > k /\ i \in Nat
  BY <1>1, <1>2
<1>5. \A i \in 1 .. Len(o[th]) : i \in 1 .. Len(q[v]) /\ i <= k
  BY <1>1, <1>3
<1>6. \A i \in 1 .. Len(q[v]) : \/ i \in 1 .. Len(o[th])
                                \/ i - k \in 1 .. Len(r[v]) /\ (i - k) + k = i
  BY <1>1, <1>2, <1>3
<1>7. \A u \in Threads : \A i \in 1 .. Len(r[u]) :
        \/ u # v /\ i \in 1 .. Len(q[u]) /\ r[u][i] = q[u][i]
        \/ u = v /\ \E j \in 1 .. Len(q[v]) : j = i + k /\ j > k /\ r[u][i] = q[v][j]
  BY <1>2, <1>4, SMTT(60)
<1>8. \A u \in Threads : \A i \in 1 .. Len(o[u]) :
        \/ u # th /\ i \in 1 .. Len(s[u]) /\ o[u][i] = s[u][i]
        \/ u = th /\ i \in 1 .. Len(q[v]) /\ i <= k /\ o[u][i] = q[v][i]
  BY <1>3, <1>5
<1>9. \A u \in Threads : \A i \in 1 .. Len(r[u]) : r[u][i] \in S
  <2>1. \A u \in Threads : u # v => \A i \in 1 .. Len(q[u]) : q[u][i] \in S
    BY DEF Placed
  <2>2. QED
    BY <1>0, <1>7, <2>1
<1>10. \A u \in Threads : \A i \in 1 .. Len(o[u]) : o[u][i] \in S
  BY <1>8, SMTT(60) DEF Placed
<1>11. ASSUME NEW w \in S
       PROVE  \E u \in Threads : \/ \E i \in 1 .. Len(r[u]) : r[u][i] = w
                                 \/ \E i \in 1 .. Len(o[u]) : o[u][i] = w
  <2>1. PICK u \in Threads : \/ \E i \in 1 .. Len(q[u]) : q[u][i] = w
                             \/ \E i \in 1 .. Len(s[u]) : s[u][i] = w
    BY DEF Placed
  <2>2. CASE \E i \in 1 .. Len(s[u]) : s[u][i] = w
    <3>1. u # th
      BY <2>2
    <3>2. QED
      BY <2>2, <3>1
  <2>3. CASE u # v /\ \E i \in 1 .. Len(q[u]) : q[u][i] = w
    BY <2>3
  <2>4. CASE u = v /\ \E i \in 1 .. Len(q[u]) : q[u][i] = w
    <3>1. PICK i \in 1 .. Len(q[v]) : q[v][i] = w
      BY <2>4
    <3>2. CASE i \in 1 .. Len(o[th])
      BY <1>3, <3>1, <3>2
    <3>3. CASE i - k \in 1 .. Len(r[v]) /\ (i - k) + k = i
      <4>1. r[v][i - k] = w
        BY <1>2, <3>1, <3>3
      <4>2. QED
        BY <3>3, <4>1
    <3>4. QED
      BY <1>6, <3>2, <3>3
  <2>5. QED
    BY <2>1, <2>2, <2>3, <2>4
<1>12. ASSUME NEW u \in Threads, NEW w \in Threads,
              NEW i \in 1 .. Len(r[u]), NEW j \in 1 .. Len(r[w]), r[u][i] = r[w][j]
       PROVE  u = w /\ i = j
  <2>1. CASE u = v /\ w = v
    <3>1. PICK x \in 1 .. Len(q[v]) : x = i + k /\ r[u][i] = q[v][x]
      BY <1>7, <2>1
    <3>2. PICK y \in 1 .. Len(q[v]) : y = j + k /\ r[w][j] = q[v][y]
      BY <1>7, <2>1
    <3>3. q[v][x] = q[v][y]
      BY <1>12, <3>1, <3>2
    <3>4. x = y
      BY <3>3, <1>0
    <3>5. QED
      BY <1>1, <2>1, <3>1, <3>2, <3>4
  <2>2. QED
    BY <1>7, <1>12, <2>1 DEF Placed
<1>13. ASSUME NEW u \in Threads, NEW w \in Threads,
              NEW i \in 1 .. Len(o[u]), NEW j \in 1 .. Len(o[w]), o[u][i] = o[w][j]
       PROVE  u = w /\ i = j
  BY <1>8, <1>13, SMTT(60) DEF Placed
<1>14. ASSUME NEW u \in Threads, NEW w \in Threads,
              NEW i \in 1 .. Len(r[u]), NEW j \in 1 .. Len(o[w]), r[u][i] = o[w][j]
       PROVE  FALSE
  <2>0. PICK y \in 1 .. Len(q[u]) : r[u][i] = q[u][y] /\ (u # v => y = i)
    BY <1>7, ZenonT(60)
  <2>1. CASE w # th
    <3>1. j \in 1 .. Len(s[w]) /\ o[w][j] = s[w][j]
      BY <1>8, <2>1
    <3>2. q[u][y] # s[w][j]
      BY <3>1 DEF Placed
    <3>3. QED
      BY <1>14, <2>0, <3>1, <3>2
  <2>2. CASE w = th /\ u # v
    <3>1. j \in 1 .. Len(q[v]) /\ o[w][j] = q[v][j]
      BY <1>8, <2>2
    <3>2. q[u][y] = q[v][j] => u = v
      BY <3>1 DEF Placed
    <3>3. QED
      BY <1>14, <2>0, <2>2, <3>1, <3>2
  <2>3. CASE w = th /\ u = v
    <3>1. PICK x \in 1 .. Len(q[v]) : x > k /\ r[u][i] = q[v][x]
      BY <1>7, <2>3
    <3>2. j \in 1 .. Len(q[v]) /\ j <= k /\ o[w][j] = q[v][j]
      BY <1>8, <2>3
    <3>3. q[v][x] = q[v][j]
      BY <1>14, <3>1, <3>2
    <3>4. x = j
      BY <1>0, <3>2, <3>3
    <3>5. QED
      BY <1>1, <3>1, <3>2, <3>4
  <2>4. QED
    BY <2>1, <2>2, <2>3
<1>15. \A u, w \in Threads : \A i \in 1 .. Len(r[u]), j \in 1 .. Len(o[w]) : r[u][i] # o[w][j]
  BY <1>14
<1>16. \A u, w \in Threads : \A i \in 1 .. Len(o[u]), j \in 1 .. Len(o[w]) :
         o[u][i] = o[w][j] => u = w /\ i = j
  BY <1>13
<1>17. \A u, w \in Threads : \A i \in 1 .. Len(r[u]), j \in 1 .. Len(r[w]) :
         r[u][i] = r[w][j] => u = w /\ i = j
  BY <1>12
<1>18. \A w \in S : \E u \in Threads : \/ \E i \in 1 .. Len(r[u]) : r[u][i] = w
                                       \/ \E i \in 1 .. Len(o[u]) : o[u][i] = w
  BY <1>11
<1>19. QED
  BY <1>9, <1>10, <1>15, <1>16, <1>17, <1>18 DEF Placed

(* replace(): what th has stolen becomes its queue, which was empty. *)
LEMMA PlacedReplace ==
  ASSUME NEW q \in Lines, NEW s \in Lines, NEW S, Placed(q, s, S),
         NEW th \in Threads, q[th] = <<>>,
         NEW r \in Lines, r[th] = s[th], \A u \in Threads : u # th => r[u] = q[u],
         NEW o \in Lines, o[th] = <<>>, \A u \in Threads : u # th => o[u] = s[u]
  PROVE  Placed(r, o, S)
<1>1. Len(q[th]) = 0 /\ Len(o[th]) = 0
  OBVIOUS
<1>2. \A u \in Threads : \A i \in 1 .. Len(r[u]) :
        \/ u # th /\ i \in 1 .. Len(q[u]) /\ r[u][i] = q[u][i]
        \/ u = th /\ i \in 1 .. Len(s[u]) /\ r[u][i] = s[u][i]
  OBVIOUS
<1>3. \A u \in Threads : \A i \in 1 .. Len(o[u]) :
        u # th /\ i \in 1 .. Len(s[u]) /\ o[u][i] = s[u][i]
  BY <1>1
<1>4. \A u \in Threads : \A i \in 1 .. Len(q[u]) : i \in 1 .. Len(r[u]) /\ r[u][i] = q[u][i]
  BY <1>1
<1>5. \A u \in Threads : \A i \in 1 .. Len(s[u]) :
        \/ i \in 1 .. Len(r[u]) /\ r[u][i] = s[u][i]
        \/ i \in 1 .. Len(o[u]) /\ o[u][i] = s[u][i]
  OBVIOUS
<1>6. \A u \in Threads : \A i \in 1 .. Len(r[u]) : r[u][i] \in S
  BY <1>2 DEF Placed
<1>7. \A u \in Threads : \A i \in 1 .. Len(o[u]) : o[u][i] \in S
  BY <1>3 DEF Placed
<1>8. \A w \in S : \E u \in Threads : \/ \E i \in 1 .. Len(r[u]) : r[u][i] = w
                                      \/ \E i \in 1 .. Len(o[u]) : o[u][i] = w
  BY <1>4, <1>5 DEF Placed
<1>9. \A u, v \in Threads : \A i \in 1 .. Len(r[u]), j \in 1 .. Len(r[v]) :
        r[u][i] = r[v][j] => u = v /\ i = j
  BY <1>2 DEF Placed
<1>10. \A u, v \in Threads : \A i \in 1 .. Len(o[u]), j \in 1 .. Len(o[v]) :
         o[u][i] = o[v][j] => u = v /\ i = j
  BY <1>3 DEF Placed
<1>11. \A u, v \in Threads : \A i \in 1 .. Len(r[u]), j \in 1 .. Len(o[v]) : r[u][i] # o[v][j]
  BY <1>2, <1>3 DEF Placed
<1>12. QED
  BY <1>6, <1>7, <1>8, <1>9, <1>10, <1>11 DEF Placed

----------------------------------------------------------------------------
(* The inductive invariant of what OnePlace and ShutdownComplete say. *)

(* The controls of a task that a worker has in its hands. *)
Busy == {"running", "switched", "terminating", "deciding", "unlocking"}

(* The tasks that are in some queue, or in the hands of a thief. *)
Queued == {t \in Tasks : pc[t] = "queued"}

(* Each of them is in one place only. *)
QueueInv == Placed(queue, stolen, Queued)

(* A task that runs is the current one of one thread, and no other thread has it. *)
CurrentInv ==
    /\ \A th \in Threads : currentTask[th] # NULL => pc[currentTask[th]] \in Busy \cup {"done"}
    /\ \A u, v \in Threads : currentTask[u] # NULL /\ currentTask[u] = currentTask[v] => u = v
    /\ \A t \in Tasks : pc[t] \in Busy => \E th \in Threads : currentTask[th] = t

(* An MPI task that nobody runs has an entry; the one polled is at index. *)
PolledInv ==
    /\ \A th \in Threads :
        at[th] = "polling" => mpi_blocked_queue[th][index[th]] = currentTask[th]
    /\ \A t \in Tasks : pc[t] = "polled" =>
        \E th \in Threads : \E i \in 1 .. Len(mpi_blocked_queue[th]) : mpi_blocked_queue[th][i] = t

(* What a thread has nothing of, where it is. *)
EmptyInv ==
    \A th \in Threads :
        /\ at[th] # "replace" => stolen[th] = <<>>
        /\ at[th] \in {"steal", "replace", "idle", "sleep", "join", "exit"} => queue[th] = <<>>
        /\ at[th] \in {"idle", "sleep", "join", "exit"} => mpi_blocked_queue[th] = <<>>
        /\ at[0] = "exit" => at[th] = "exit"

(* The inductive invariant of the places. *)
PlaceInv == QueueInv /\ CurrentInv /\ PolledInv /\ EmptyInv

----------------------------------------------------------------------------
(* The steps, as far as these invariants tell them apart. *)

(* No other task moves. *)
Others(p) == \A t \in Tasks : t # p => pc'[t] = pc[t]

(* The code of p goes on. *)
GoesOn(th, p) ==
    /\ currentTask[th] = p
    /\ pc[p] \in Busy /\ pc'[p] \in Busy \cup {"done"} /\ Others(p)
    /\ UNCHANGED threadVars

(* It makes t runnable, which is new or parked. *)
HandsOut(th, t) ==
    /\ at[th] \in {"exec", "polling"}
    /\ pc[t] \in {"new", "parked"} /\ pc'[t] = "queued"
    /\ \A u \in Tasks : u # t => pc'[u] = pc[u] \/ (pc[u] \in Busy /\ pc'[u] \in Busy)
    /\ Enqueue(th, t)
    /\ UNCHANGED <<mpi_blocked_queue, currentTask, stolen, at, index>>

(* p is taken from a queue, or polled. *)
TakesUp(th, p) ==
    /\ currentTask[th] = NULL
    /\ pc[p] \in {"queued", "polled"} /\ pc'[p] = "running" /\ Others(p)
    /\ currentTask' = [currentTask EXCEPT ![th] = p]
    /\ UNCHANGED <<mpi_blocked_queue, stolen, index>>
    /\ \/ /\ pc[p] = "queued" /\ queue[th] # <<>> /\ p = Head(queue[th])
          /\ queue' = [queue EXCEPT ![th] = Tail(@)]
          /\ at[th] = "run" /\ Goto(th, "exec")
       \/ /\ pc[p] = "polled" /\ queue' = queue
          /\ index[th] \in 1 .. Len(mpi_blocked_queue[th])
          /\ p = mpi_blocked_queue[th][index[th]]
          /\ at[th] = "poll" /\ Goto(th, "polling")

(* p goes where its state says, and the thread goes on without it. *)
GivesUp(th, p) ==
    /\ currentTask[th] = p
    /\ pc[p] \in {"switched", "done"} /\ Others(p)
    /\ currentTask' = [currentTask EXCEPT ![th] = NULL]
    /\ UNCHANGED stolen
    /\ \/ pc'[p] = "queued" /\ Enqueue(th, p)
       \/ pc'[p] \in {"parked", "polled", "done"} /\ queue' = queue
    /\ \/ /\ at[th] = "exec"
          /\ mpi_blocked_queue' = IF pc'[p] # "polled" THEN mpi_blocked_queue
                                  ELSE [mpi_blocked_queue EXCEPT ![th] = Append(@, p)]
          /\ Goto(th, "run") /\ index' = index
       \/ /\ at[th] = "polling" /\ pc'[p] # "polled"
          /\ mpi_blocked_queue' = [mpi_blocked_queue EXCEPT ![th] = RemoveAt(@, index[th])]
          /\ Goto(th, "run") /\ index' = index
       \/ /\ at[th] = "polling" /\ pc'[p] = "polled"
          /\ mpi_blocked_queue' = mpi_blocked_queue
          /\ Goto(th, "poll") /\ index' = [index EXCEPT ![th] = @ + 1]

(* The thread looks around. *)
Looks(th) ==
    \/ NothingLocal(th) \/ NextVictim(th) \/ NothingToSteal(th) \/ PollEnd(th)
    \/ Idle(th) \/ Wake(th) \/ TerminateGracefully(th) \/ (th = 0 /\ Join)

(* Every step of a thread is one of these. *)
Shape(th) ==
    \/ \E p \in Tasks : GoesOn(th, p) \/ HandsOut(th, p) \/ TakesUp(th, p) \/ GivesUp(th, p)
    \/ Steal(th) \/ Replace(th) \/ Looks(th)

(* A task that runs is the thread's current one, in a control of Busy. *)
LEMMA TaskStepShape ==
  ASSUME IInv, MInv, NEW th \in Threads, TaskStep(th)
  PROVE  Shape(th)
<1> USE DEF Busy, Others
<1>1. PICK p \in Tasks :
        /\ Runs(th, p)
        /\ \/ \E t \in Tasks, g \in Groups : Registe(p, t, g)
           \/ \E g \in Groups : Wait(p, g)
           \/ Yield(p) \/ MpiCall(p) \/ MpiComplete(p) \/ MpiPending(p) \/ MpiError(p)
           \/ Finish(p) \/ Decrement(p) \/ Unlock(p) \/ Terminated(p)
        /\ UNCHANGED threadVars
  BY DEF TaskStep
<1>2. pc \in [Tasks -> Control]
  BY DEF IInv, TypeOK
<1>3. pc[p] \in Busy /\ pc'[p] \in Busy \cup {"done"} /\ Others(p)
  <2>1. CASE \E t \in Tasks, g \in Groups : Registe(p, t, g)
    BY <2>1 DEF Registe, Active
  <2>2. CASE \E g \in Groups : Wait(p, g)
    <3>1. pc[p] = "running" /\ (pc' = pc \/ pc' = [pc EXCEPT ![p] = "switched"])
      BY <2>2 DEF Wait, Active
    <3>2. QED
      BY <1>2, <3>1
  <2>3. CASE Yield(p) \/ MpiCall(p) \/ MpiComplete(p) \/ MpiPending(p) \/ MpiError(p)
    BY <1>2, <2>3 DEF Yield, MpiCall, MpiComplete, MpiPending, MpiError, Active
  <2>4. CASE Finish(p)
    BY <1>2, <2>4 DEF Finish, Active
  <2>5. CASE Decrement(p)
    <3>1. PICK c \in {"deciding", "unlocking"} :
            pc[p] = "terminating" /\ pc' = [pc EXCEPT ![p] = c]
      BY <2>5 DEF Decrement
    <3>2. QED
      BY <1>2, <3>1
  <2>6. CASE Unlock(p) \/ Terminated(p)
    BY <1>2, <2>6 DEF Unlock, Terminated
  <2>7. QED
    BY <1>1, <2>1, <2>2, <2>3, <2>4, <2>5, <2>6
<1>4. GoesOn(th, p)
  BY <1>1, <1>3 DEF GoesOn, Runs
<1>5. QED
  BY <1>4 DEF Shape

(* A spawned task was new; the task that informDone() wakes was parked. *)
LEMMA HandOutShape ==
  ASSUME IInv, MInv, NEW th \in Threads, (\E t \in Tasks : TaskGo(th, t)) \/ TaskRelease(th)
  PROVE  Shape(th)
<1> USE DEF Busy, Others
<1>1. pc \in [Tasks -> Control]
  BY DEF IInv, TypeOK
<1>2. ASSUME NEW t \in Tasks, TaskGo(th, t)
      PROVE  HandsOut(th, t)
  <2>1. pc[t] = "new" /\ pc' = [pc EXCEPT ![t] = "queued"] /\ at[th] \in {"exec", "polling"}
    BY <1>2 DEF TaskGo, Go, Runs
  <2>2. Enqueue(th, t) /\ UNCHANGED <<mpi_blocked_queue, currentTask, stolen, at, index>>
    BY <1>2 DEF TaskGo
  <2>3. QED
    BY <1>1, <2>1, <2>2 DEF HandsOut
<1>3. CASE TaskRelease(th)
  <2>1. PICK p \in Tasks :
          /\ Runs(th, p) /\ Release(p)
          /\ IF blockedTask[groups[p][informed[p]]] = NULL THEN UNCHANGED queue
             ELSE Enqueue(th, blockedTask[groups[p][informed[p]]])
    BY <1>3 DEF TaskRelease
  <2>2. PICK g \in Groups : ReleaseNobody(p, g) \/ \E w \in Tasks : ReleaseTask(p, g, w)
    BY <2>1, ReleaseFacts
  <2>3. groups[p][informed[p]] = g
    BY <2>2 DEF ReleaseNobody, ReleaseTask, Informing
  <2>4. UNCHANGED <<mpi_blocked_queue, currentTask, stolen, at, index, terminatable>>
    BY <1>3 DEF TaskRelease
  <2>5. CASE ReleaseNobody(p, g)
    <3>1. blockedTask[g] = NULL /\ pc[p] = "deciding" /\ pc' = [pc EXCEPT ![p] = "unlocking"]
      BY <2>5 DEF ReleaseNobody
    <3>2. pc[p] \in Busy /\ pc'[p] \in Busy \cup {"done"} /\ Others(p)
      BY <1>1, <3>1
    <3>3. GoesOn(th, p)
      BY <2>1, <2>3, <2>4, <3>1, <3>2 DEF GoesOn, Runs, threadVars
    <3>4. QED
      BY <3>3 DEF Shape
  <2>6. ASSUME NEW w \in Tasks, ReleaseTask(p, g, w)
        PROVE  Shape(th)
    <3>1. /\ w # p /\ blockedTask[g] = w /\ pc[w] = "parked" /\ pc[p] = "deciding"
          /\ \A t \in Tasks : pc'[t] = IF t = p THEN "unlocking"
                                       ELSE IF t = w THEN "queued" ELSE pc[t]
      BY <2>6 DEF ReleaseTask
    <3>2. w # NULL
      BY ClientAssumption
    <3>3. Enqueue(th, w) /\ at[th] \in {"exec", "polling"}
      BY <2>1, <2>3, <3>1, <3>2 DEF Runs
    <3>4. \A u \in Tasks : u # w => pc'[u] = pc[u] \/ (pc[u] \in Busy /\ pc'[u] \in Busy)
      BY <3>1
    <3>5. HandsOut(th, w)
      BY <2>4, <3>1, <3>3, <3>4 DEF HandsOut
    <3>6. QED
      BY <3>5 DEF Shape
  <2>7. QED
    BY <2>2, <2>5, <2>6
<1>4. QED
  BY <1>2, <1>3 DEF Shape

(* run_runnable() and run_mpi_blocked() switch into a task. *)
LEMMA TakesUpShape ==
  ASSUME IInv, MInv, NEW th \in Threads, RunTask(th) \/ PollTask(th)
  PROVE  Shape(th)
<1> USE DEF Others
<1>1. pc \in [Tasks -> Control]
  BY DEF IInv, TypeOK
<1>2. CASE RunTask(th)
  <2> DEFINE p == Head(queue[th])
  <2>1. p \in Tasks /\ queue[th] # <<>>
    BY <1>2, HeadTail DEF RunTask, MInv, MediatorTypeOK
  <2>2. pc[p] = "queued" /\ pc' = [pc EXCEPT ![p] = "running"]
    BY <1>2 DEF RunTask, Dispatch
  <2>3. currentTask[th] = NULL
    BY <1>2 DEF RunTask, MInv, MediatorTypeOK
  <2>4. TakesUp(th, p)
    BY <1>1, <1>2, <2>1, <2>2, <2>3 DEF TakesUp, RunTask
  <2>5. QED
    BY <2>1, <2>4 DEF Shape
<1>3. CASE PollTask(th)
  <2> DEFINE p == mpi_blocked_queue[th][index[th]]
  <2>1. mpi_blocked_queue[th] \in Seq(Tasks) /\ index[th] \in 1 .. Len(mpi_blocked_queue[th])
    BY <1>3 DEF MInv, MediatorTypeOK, PollInv, PollTask
  <2>2. p \in Tasks
    BY <2>1
  <2>3. pc[p] = "polled" /\ pc' = [pc EXCEPT ![p] = "running"]
    BY <1>3 DEF PollTask, Poll
  <2>4. currentTask[th] = NULL
    BY <1>3 DEF PollTask, MInv, MediatorTypeOK
  <2>5. TakesUp(th, p)
    BY <1>1, <1>3, <2>1, <2>2, <2>3, <2>4 DEF TakesUp, PollTask
  <2>6. QED
    BY <2>2, <2>5 DEF Shape
<1>4. QED
  BY <1>2, <1>3

(* handle_after_continuationOut(): one task, out of the worker's hands. *)
LEMMA BackFacts ==
  ASSUME IInv, NEW p \in Tasks, Ended(p) \/ Park(p) \/ Requeue(p) \/ HandleMpi(p)
  PROVE  /\ pc[p] \in {"switched", "done"} /\ Others(p)
         /\ Ended(p) => pc'[p] = "done"
         /\ Park(p) => pc'[p] = "parked"
         /\ Requeue(p) => pc'[p] = "queued"
         /\ HandleMpi(p) => pc'[p] = "polled"
<1> USE DEF Others
<1>1. pc \in [Tasks -> Control]
  BY DEF IInv, TypeOK
<1>2. Ended(p) => pc[p] = "done" /\ pc' = pc
  BY DEF Ended, vars
<1>3. HandleRunnable(p) => pc[p] = "switched" /\ pc' = [pc EXCEPT ![p] = "queued"]
  BY DEF HandleRunnable
<1>4. HandleMpi(p) => pc[p] = "switched" /\ pc' = [pc EXCEPT ![p] = "polled"]
  BY DEF HandleMpi
<1>5. ASSUME HandleGroupWait(p)
      PROVE  pc[p] = "switched" /\ Others(p)
  <2>1. PICK g \in Groups : Requeued(p, g) \/ Parked(p, g)
    BY <1>5, HandleGroupWaitFacts
  <2>2. QED
    BY <2>1 DEF Requeued, Parked, AboutToWait
<1>6. pc[p] \in {"switched", "done"} /\ Others(p)
  BY <1>1, <1>2, <1>3, <1>4, <1>5 DEF Park, Requeue
<1>7. QED
  BY <1>1, <1>2, <1>4, <1>6 DEF Park, Requeue

(* run_runnable() and run_mpi_blocked() take their task back. *)
LEMMA GivesUpShape ==
  ASSUME IInv, MInv, NEW th \in Threads, TakeBack(th) \/ PollNext(th) \/ PollLeave(th)
  PROVE  Shape(th)
<1>1. PICK p \in Tasks : currentTask[th] = p
  BY DEF MInv, MediatorTypeOK, TakeBack, PollNext, PollLeave
<1>2. CASE TakeBack(th)
  <2>1. /\ at[th] = "exec" /\ Goto(th, "run") /\ index' = index /\ stolen' = stolen
        /\ currentTask' = [currentTask EXCEPT ![th] = NULL]
    BY <1>2 DEF TakeBack
  <2>2. \/ (Ended(p) \/ Park(p)) /\ UNCHANGED <<queue, mpi_blocked_queue>>
        \/ Requeue(p) /\ Enqueue(th, p) /\ UNCHANGED mpi_blocked_queue
        \/ /\ HandleMpi(p)
           /\ mpi_blocked_queue' = [mpi_blocked_queue EXCEPT ![th] = Append(@, p)]
           /\ UNCHANGED queue
    BY <1>1, <1>2 DEF TakeBack
  <2>3. pc[p] \in {"switched", "done"} /\ Others(p)
    BY <2>2, BackFacts
  <2>4. \/ pc'[p] = "queued" /\ Enqueue(th, p) /\ UNCHANGED mpi_blocked_queue
        \/ pc'[p] \in {"parked", "done"} /\ UNCHANGED <<queue, mpi_blocked_queue>>
        \/ /\ pc'[p] = "polled" /\ UNCHANGED queue
           /\ mpi_blocked_queue' = [mpi_blocked_queue EXCEPT ![th] = Append(@, p)]
    BY <2>2, BackFacts
  <2>5. GivesUp(th, p)
    BY <1>1, <2>1, <2>3, <2>4 DEF GivesUp
  <2>6. QED
    BY <2>5 DEF Shape
<1>3. CASE PollNext(th)
  <2>1. /\ at[th] = "polling" /\ Goto(th, "poll") /\ UNCHANGED <<queue, mpi_blocked_queue, stolen>>
        /\ index' = [index EXCEPT ![th] = @ + 1]
        /\ currentTask' = [currentTask EXCEPT ![th] = NULL]
        /\ HandleMpi(p)
    BY <1>1, <1>3 DEF PollNext
  <2>2. pc[p] \in {"switched", "done"} /\ Others(p) /\ pc'[p] = "polled"
    BY <2>1, BackFacts
  <2>3. GivesUp(th, p)
    BY <1>1, <2>1, <2>2 DEF GivesUp
  <2>4. QED
    BY <2>3 DEF Shape
<1>4. CASE PollLeave(th)
  <2>1. /\ at[th] = "polling" /\ Goto(th, "run") /\ index' = index /\ stolen' = stolen
        /\ mpi_blocked_queue' = [mpi_blocked_queue EXCEPT ![th] = RemoveAt(@, index[th])]
        /\ currentTask' = [currentTask EXCEPT ![th] = NULL]
    BY <1>4 DEF PollLeave
  <2>2. \/ (Ended(p) \/ Park(p)) /\ UNCHANGED queue
        \/ Requeue(p) /\ Enqueue(th, p)
    BY <1>1, <1>4 DEF PollLeave
  <2>3. pc[p] \in {"switched", "done"} /\ Others(p)
    BY <2>2, BackFacts
  <2>4. \/ pc'[p] = "queued" /\ Enqueue(th, p)
        \/ pc'[p] \in {"parked", "done"} /\ queue' = queue
    BY <2>2, BackFacts
  <2>5. GivesUp(th, p)
    BY <1>1, <2>1, <2>3, <2>4 DEF GivesUp
  <2>6. QED
    BY <2>5 DEF Shape
<1>5. QED
  BY <1>2, <1>3, <1>4

(* Every step has one of the shapes, or changes nothing. *)
LEMMA StepShape ==
  ASSUME IInv, MInv, [MediatorNext]_mediatorVars
  PROVE  (\E th \in Threads : Shape(th)) \/ UNCHANGED mediatorVars
<1>1. ASSUME NEW th \in Threads, Worker(th)
      PROVE  Shape(th)
  <2>1. CASE RunTask(th) \/ PollTask(th)
    BY <2>1, TakesUpShape
  <2>2. CASE TakeBack(th) \/ PollNext(th) \/ PollLeave(th)
    BY <2>2, GivesUpShape
  <2>3. QED
    BY <1>1, <2>1, <2>2 DEF Worker, Shape, Looks
<1>2. 0 \in Threads
  BY ThreadAssumption DEF Threads
<1>3. Join => Shape(0)
  BY DEF Shape, Looks
<1>4. \A th \in Threads : TerminateGracefully(th) => Shape(th)
  BY DEF Shape, Looks
<1>5. ASSUME NEW th \in Threads,
             TaskStep(th) \/ (\E t \in Tasks : TaskGo(th, t)) \/ TaskRelease(th)
      PROVE  Shape(th)
  BY <1>5, TaskStepShape, HandOutShape
<1>6. Stopped => UNCHANGED mediatorVars
  BY DEF Stopped
<1>7. QED
  BY <1>1, <1>2, <1>3, <1>4, <1>5, <1>6 DEF MediatorNext

----------------------------------------------------------------------------
(* Every shape of a step preserves the invariants. *)

(* What a thread that looks around leaves as it is. *)
LEMMA LooksFacts ==
  ASSUME NEW th \in Threads, Looks(th)
  PROVE  /\ pc' = pc /\ queue' = queue /\ stolen' = stolen /\ currentTask' = currentTask
         /\ mpi_blocked_queue' = mpi_blocked_queue
         /\ (at' = at \/ \E place \in Place \ {"polling", "exec", "replace"} : Goto(th, place))
<1> USE DEF Place
<1>1. CASE NothingLocal(th) \/ PollEnd(th) \/ Wake(th)
  BY <1>1 DEF NothingLocal, PollEnd, Wake, vars
<1>2. CASE NextVictim(th) \/ TerminateGracefully(th)
  BY <1>2 DEF NextVictim, TerminateGracefully, vars
<1>3. CASE NothingToSteal(th)
  <2>1. \E place \in {"poll", "idle"} : Goto(th, place)
    BY <1>3 DEF NothingToSteal
  <2>2. QED
    BY <1>3, <2>1 DEF NothingToSteal, vars
<1>4. CASE Idle(th)
  <2>1. \E place \in {"sleep", "exit", "join"} : Goto(th, place)
    BY <1>4 DEF Idle
  <2>2. QED
    BY <1>4, <2>1 DEF Idle, vars
<1>5. CASE th = 0 /\ Join
  BY <1>5 DEF Join, vars
<1>6. QED
  BY <1>1, <1>2, <1>3, <1>4, <1>5 DEF Looks

(* The runnable tasks are in the lines, once: whoever moves one moves it. *)
LEMMA QueueStep ==
  ASSUME IInv, MInv, PlaceInv, [MediatorNext]_mediatorVars
  PROVE  QueueInv'
<1>0. Placed(queue, stolen, Queued) /\ queue \in Lines /\ stolen \in Lines
  BY DEF PlaceInv, QueueInv, MInv, MediatorTypeOK, Lines
<1>1. queue' \in Lines /\ stolen' \in Lines
  BY ThreadStep DEF MInv, MediatorTypeOK, Lines
<1>2. CASE UNCHANGED mediatorVars
  BY <1>0, <1>2 DEF mediatorVars, vars, threadVars, QueueInv, Queued
<1>3. ASSUME NEW th \in Threads, NEW p \in Tasks, GoesOn(th, p)
      PROVE  QueueInv'
  <2>1. Queued' = Queued
    BY <1>3 DEF GoesOn, Others, Queued, Busy
  <2>2. QED
    BY <1>0, <1>3, <2>1 DEF GoesOn, threadVars, QueueInv
<1>4. ASSUME NEW th \in Threads, NEW t \in Tasks, t \notin Queued, Queued' = Queued \cup {t},
             Enqueue(th, t), stolen' = stolen
      PROVE  QueueInv'
  <2>1. queue'[th] = Append(queue[th], t) /\ \A u \in Threads : u # th => queue'[u] = queue[u]
    BY <1>0, <1>4 DEF Enqueue, Lines
  <2>2. Placed(queue', stolen, Queued \cup {t})
    BY <1>0, <1>1, <1>4, <2>1, PlacedAppend
  <2>3. QED
    BY <1>4, <2>2 DEF QueueInv
<1>5. ASSUME NEW th \in Threads, NEW t \in Tasks, HandsOut(th, t)
      PROVE  QueueInv'
  <2>1. t \notin Queued /\ Queued' = Queued \cup {t}
    BY <1>5 DEF HandsOut, Queued, Busy
  <2>2. QED
    BY <1>4, <1>5, <2>1 DEF HandsOut
<1>6. ASSUME NEW th \in Threads, NEW p \in Tasks, TakesUp(th, p)
      PROVE  QueueInv'
  <2>1. CASE pc[p] = "queued"
    <3>1. queue[th] # <<>> /\ p = Head(queue[th]) /\ queue' = [queue EXCEPT ![th] = Tail(@)]
      BY <1>6, <2>1 DEF TakesUp
    <3>2. queue'[th] = Tail(queue[th]) /\ \A u \in Threads : u # th => queue'[u] = queue[u]
      BY <1>0, <3>1 DEF Lines
    <3>3. Placed(queue', stolen, Queued \ {p})
      BY <1>0, <1>1, <3>1, <3>2, PlacedTail
    <3>4. Queued' = Queued \ {p}
      BY <1>6 DEF TakesUp, Others, Queued
    <3>5. stolen' = stolen
      BY <1>6 DEF TakesUp
    <3>6. QED
      BY <3>3, <3>4, <3>5 DEF QueueInv
  <2>2. CASE pc[p] = "polled"
    <3>1. Queued' = Queued /\ queue' = queue /\ stolen' = stolen
      BY <1>6, <2>2 DEF TakesUp, Others, Queued
    <3>2. QED
      BY <1>0, <3>1 DEF QueueInv
  <2>3. QED
    BY <1>6, <2>1, <2>2 DEF TakesUp
<1>7. ASSUME NEW th \in Threads, NEW p \in Tasks, GivesUp(th, p)
      PROVE  QueueInv'
  <2>1. CASE pc'[p] = "queued" /\ Enqueue(th, p)
    <3>1. p \notin Queued /\ Queued' = Queued \cup {p} /\ stolen' = stolen
      BY <1>7, <2>1 DEF GivesUp, Others, Queued
    <3>2. QED
      BY <1>4, <2>1, <3>1
  <2>2. CASE pc'[p] \in {"parked", "polled", "done"} /\ queue' = queue
    <3>1. Queued' = Queued /\ stolen' = stolen
      BY <1>7, <2>2 DEF GivesUp, Others, Queued
    <3>2. QED
      BY <1>0, <2>2, <3>1 DEF QueueInv
  <2>3. QED
    BY <1>7, <2>1, <2>2 DEF GivesUp
<1>8. ASSUME NEW th \in Threads, Steal(th)
      PROVE  QueueInv'
  <2>1. index[th] \in Threads /\ at[th] = "steal" /\ Queued' = Queued
    BY <1>8 DEF Steal, vars, Queued
  <2>2. PICK v \in Threads : v = index[th]
    BY <2>1
  <2>3. queue[v] \in Seq(Tasks) /\ queue[v] # <<>>
    BY <1>0, <1>8, <2>2 DEF Steal, Lines
  <2>4. PICK k \in Q!Halves(Len(queue[v])) :
          /\ stolen' = [stolen EXCEPT ![th] = SubSeq(queue[v], 1, k)]
          /\ queue' = [queue EXCEPT ![v] = SubSeq(queue[v], k + 1, Len(queue[v]))]
    BY <1>8, <2>2 DEF Steal
  <2>5. k \in 0 .. Len(queue[v])
    <3>1. Len(queue[v]) \in Nat \ {0}
      BY <2>3
    <3>2. QED
      BY <3>1, HalfOf
  <2>6. stolen[th] = <<>>
    BY <2>1 DEF PlaceInv, EmptyInv
  <2>7. /\ queue'[v] = SubSeq(queue[v], k + 1, Len(queue[v]))
        /\ \A u \in Threads : u # v => queue'[u] = queue[u]
        /\ stolen'[th] = SubSeq(queue[v], 1, k)
        /\ \A u \in Threads : u # th => stolen'[u] = stolen[u]
    BY <1>0, <2>4 DEF Lines
  <2>8. Placed(queue', stolen', Queued)
    BY <1>0, <1>1, <2>5, <2>6, <2>7, PlacedSplit
  <2>9. QED
    BY <2>1, <2>8 DEF QueueInv
<1>9. ASSUME NEW th \in Threads, Replace(th)
      PROVE  QueueInv'
  <2>1. queue[th] = <<>>
    BY <1>9 DEF Replace, PlaceInv, EmptyInv
  <2>2. /\ queue'[th] = stolen[th] /\ \A u \in Threads : u # th => queue'[u] = queue[u]
        /\ stolen'[th] = <<>> /\ \A u \in Threads : u # th => stolen'[u] = stolen[u]
        /\ Queued' = Queued
    BY <1>0, <1>9 DEF Replace, Lines, vars, Queued
  <2>3. Placed(queue', stolen', Queued)
    BY <1>0, <1>1, <2>1, <2>2, PlacedReplace
  <2>4. QED
    BY <2>2, <2>3 DEF QueueInv
<1>10. ASSUME NEW th \in Threads, Looks(th)
       PROVE  QueueInv'
  BY <1>0, <1>10, LooksFacts DEF QueueInv, Queued
<1>11. QED
  BY <1>2, <1>3, <1>5, <1>6, <1>7, <1>8, <1>9, <1>10, StepShape DEF Shape

(* A task in the hands of a worker is in the hands of one. *)
LEMMA CurrentStep ==
  ASSUME IInv, MInv, PlaceInv, [MediatorNext]_mediatorVars
  PROVE  CurrentInv'
<1>0. CurrentInv /\ currentTask \in [Threads -> Tasks \cup {NULL}] /\ NULL \notin Tasks
  BY ClientAssumption DEF PlaceInv, MInv, MediatorTypeOK
<1>1. CASE UNCHANGED <<pc, currentTask>>
  BY <1>0, <1>1 DEF CurrentInv
<1>2. ASSUME NEW th \in Threads, NEW p \in Tasks, GoesOn(th, p)
      PROVE  CurrentInv'
  <2>1. currentTask' = currentTask
    BY <1>2 DEF GoesOn, threadVars
  <2>2. QED
    BY <1>0, <1>2, <2>1 DEF GoesOn, Others, CurrentInv
<1>3. ASSUME NEW th \in Threads, NEW t \in Tasks, HandsOut(th, t)
      PROVE  CurrentInv'
  <2>1. currentTask' = currentTask /\ pc[t] \notin Busy \cup {"done"} /\ pc'[t] \notin Busy
    BY <1>3 DEF HandsOut, Busy
  <2>2. \A u \in Tasks : u # t => pc'[u] = pc[u] \/ (pc[u] \in Busy /\ pc'[u] \in Busy)
    BY <1>3 DEF HandsOut
  <2>3. QED
    BY <1>0, <2>1, <2>2 DEF CurrentInv
<1>4. ASSUME NEW th \in Threads, NEW p \in Tasks, TakesUp(th, p)
      PROVE  CurrentInv'
  <2>1. /\ pc[p] \notin Busy \cup {"done"} /\ pc'[p] \in Busy /\ Others(p) /\ currentTask[th] = NULL
        /\ currentTask'[th] = p /\ \A u \in Threads : u # th => currentTask'[u] = currentTask[u]
    BY <1>0, <1>4 DEF TakesUp, Busy
  <2>2. \A u \in Threads : currentTask[u] # p
    BY <1>0, <2>1 DEF CurrentInv
  <2>3. QED
    BY <1>0, <2>1, <2>2 DEF CurrentInv, Others
<1>5. ASSUME NEW th \in Threads, NEW p \in Tasks, GivesUp(th, p)
      PROVE  CurrentInv'
  <2>1. /\ currentTask[th] = p /\ pc'[p] \notin Busy /\ Others(p)
        /\ currentTask'[th] = NULL /\ \A u \in Threads : u # th => currentTask'[u] = currentTask[u]
    BY <1>0, <1>5 DEF GivesUp, Busy
  <2>2. \A u \in Threads : u # th => currentTask[u] # p
    BY <1>0, <2>1 DEF CurrentInv
  <2>3. QED
    BY <1>0, <2>1, <2>2 DEF CurrentInv, Others
<1>6. ASSUME NEW th \in Threads, Steal(th) \/ Replace(th) \/ Looks(th)
      PROVE  UNCHANGED <<pc, currentTask>>
  BY <1>6, LooksFacts DEF Steal, Replace, vars
<1>7. QED
  BY <1>1, <1>2, <1>3, <1>4, <1>5, <1>6, StepShape DEF Shape, mediatorVars, vars, threadVars

(* erase(): the other entries of the queue stay in it. *)
LEMMA EraseKeeps ==
  ASSUME NEW S, NEW s \in Seq(S), NEW x \in 1 .. Len(s), NEW i \in 1 .. Len(s), i # x
  PROVE  \E j \in 1 .. Len(RemoveAt(s, x)) : RemoveAt(s, x)[j] = s[i]
<1>1. Len(s) \in Nat /\ x \in Nat /\ x > 0 /\ x <= Len(s)
  OBVIOUS
<1> DEFINE front == SubSeq(s, 1, x - 1)
           back == SubSeq(s, x + 1, Len(s))
<1>2. front \in Seq(S) /\ Len(front) = x - 1 /\ \A j \in 1 .. x - 1 : front[j] = s[j]
  BY <1>1
<1>3. /\ back \in Seq(S) /\ Len(back) = Len(s) - x
      /\ \A j \in 1 .. Len(s) - x : back[j] = s[j + x]
  BY <1>1
<1>4. RemoveAt(s, x) = front \o back
  BY DEF RemoveAt
<1> HIDE DEF front, back
<1>5. Len(front \o back) = Len(s) - 1
  <2>1. Len(front \o back) = Len(front) + Len(back)
    <3>1. front \in Seq(S) /\ back \in Seq(S)
      BY <1>2, <1>3
    <3>2. QED
      BY <3>1
  <2>2. QED
    BY <1>1, <1>2, <1>3, <2>1
<1>6. CASE i < x
  <2>1. i \in 1 .. Len(front \o back) /\ i \in 1 .. x - 1
    BY <1>1, <1>5, <1>6
  <2>2. (front \o back)[i] = front[i]
    BY <1>1, <1>2, <1>3, <2>1
  <2>3. QED
    BY <1>2, <1>4, <2>1, <2>2
<1>7. CASE i > x
  <2>1. i - 1 \in 1 .. Len(front \o back) /\ i - x \in 1 .. Len(s) - x
    BY <1>1, <1>5, <1>7
  <2>2. (front \o back)[i - 1] = back[i - x]
    BY <1>1, <1>2, <1>3, <1>7, <2>1, SMTT(60)
  <2>3. back[i - x] = s[i]
    BY <1>1, <1>3, <2>1
  <2>4. QED
    BY <1>4, <2>1, <2>2, <2>3
<1>8. QED
  BY <1>1, <1>6, <1>7

(* An MPI task keeps its entry until it is no longer MPIBlocked. *)
LEMMA PolledStep ==
  ASSUME IInv, MInv, PlaceInv, [MediatorNext]_mediatorVars
  PROVE  PolledInv'
<1>0. /\ PolledInv /\ PollInv /\ at \in [Threads -> Place] /\ index \in [Threads -> Nat]
      /\ mpi_blocked_queue \in [Threads -> Seq(Tasks)]
      /\ currentTask \in [Threads -> Tasks \cup {NULL}]
      /\ \A th \in Threads : at[th] \in {"exec", "polling"} <=> currentTask[th] # NULL
  BY DEF PlaceInv, MInv, MediatorTypeOK
<1>1. CASE UNCHANGED mediatorVars
  BY <1>0, <1>1 DEF mediatorVars, vars, threadVars, PolledInv
<1>2. ASSUME NEW th \in Threads, NEW p \in Tasks, GoesOn(th, p)
      PROVE  PolledInv'
  <2>1. UNCHANGED threadVars /\ \A t \in Tasks : pc'[t] = "polled" => pc[t] = "polled"
    BY <1>2 DEF GoesOn, Others, Busy
  <2>2. UNCHANGED <<at, index, mpi_blocked_queue, currentTask>>
    BY <2>1 DEF threadVars
  <2>3. QED
    BY <1>0, <2>1, <2>2 DEF PolledInv
<1>3. ASSUME NEW th \in Threads, NEW t \in Tasks, HandsOut(th, t)
      PROVE  PolledInv'
  <2>1. \A u \in Tasks : pc'[u] = "polled" => pc[u] = "polled"
    BY <1>3 DEF HandsOut, Busy
  <2>2. UNCHANGED <<at, mpi_blocked_queue, index, currentTask>>
    BY <1>3 DEF HandsOut
  <2>3. QED
    BY <1>0, <2>1, <2>2 DEF PolledInv
<1>4. ASSUME NEW th \in Threads, NEW p \in Tasks, TakesUp(th, p)
      PROVE  PolledInv'
  <2>1. \A u \in Tasks : pc'[u] = "polled" => pc[u] = "polled"
    BY <1>4 DEF TakesUp, Others
  <2>2. UNCHANGED <<mpi_blocked_queue, index>> /\ currentTask' = [currentTask EXCEPT ![th] = p]
    BY <1>4 DEF TakesUp
  <2>3. \/ at' = [at EXCEPT ![th] = "exec"]
        \/ at' = [at EXCEPT ![th] = "polling"] /\ p = mpi_blocked_queue[th][index[th]]
    BY <1>4 DEF TakesUp, Goto
  <2>4. QED
    BY <1>0, <2>1, <2>2, <2>3 DEF PolledInv
<1>5. ASSUME NEW th \in Threads, NEW p \in Tasks, GivesUp(th, p)
      PROVE  PolledInv'
  <2>1. /\ currentTask[th] = p /\ p # NULL /\ Others(p)
        /\ currentTask' = [currentTask EXCEPT ![th] = NULL]
        /\ at[th] \in {"exec", "polling"}
    BY <1>5, ClientAssumption DEF GivesUp
  <2>2. at'[th] \in {"run", "poll"} /\ \A u \in Threads : u # th => at'[u] = at[u] /\ index'[u] = index[u]
    BY <1>0, <1>5 DEF GivesUp, Goto
  <2>3. \A u \in Threads : u # th => mpi_blocked_queue'[u] = mpi_blocked_queue[u]
    BY <1>0, <1>5 DEF GivesUp
  <2>4. \A u \in Threads : at'[u] = "polling" => mpi_blocked_queue'[u][index'[u]] = currentTask'[u]
    BY <1>0, <2>1, <2>2, <2>3 DEF PolledInv
  <2>5. ASSUME NEW t \in Tasks, t # p, NEW i \in 1 .. Len(mpi_blocked_queue[th]),
               mpi_blocked_queue[th][i] = t
        PROVE  \E j \in 1 .. Len(mpi_blocked_queue'[th]) : mpi_blocked_queue'[th][j] = t
    <3> DEFINE s == mpi_blocked_queue[th]
    <3>1. s \in Seq(Tasks)
      BY <1>0
    <3>2. CASE mpi_blocked_queue' = mpi_blocked_queue
      BY <2>5, <3>2
    <3>3. CASE mpi_blocked_queue' = [mpi_blocked_queue EXCEPT ![th] = Append(@, p)]
      <4>1. mpi_blocked_queue'[th] = Append(s, p)
        BY <1>0, <3>3
      <4>2. i \in 1 .. Len(Append(s, p)) /\ Append(s, p)[i] = s[i]
        BY <3>1
      <4>3. QED
        BY <2>5, <4>1, <4>2
    <3>4. CASE /\ at[th] = "polling"
               /\ mpi_blocked_queue' = [mpi_blocked_queue EXCEPT ![th] = RemoveAt(@, index[th])]
      <4>1. mpi_blocked_queue'[th] = RemoveAt(s, index[th])
        BY <1>0, <3>4
      <4>2. index[th] \in 1 .. Len(s) /\ s[index[th]] = p
        BY <1>0, <2>1, <3>4 DEF PollInv, PolledInv
      <4>3. i # index[th]
        BY <2>5, <4>2
      <4>4. QED
        BY <2>5, <3>1, <4>1, <4>2, <4>3, EraseKeeps
    <3>5. QED
      BY <1>5, <3>2, <3>3, <3>4 DEF GivesUp
  <2>6. ASSUME pc'[p] = "polled"
        PROVE  \E j \in 1 .. Len(mpi_blocked_queue'[th]) : mpi_blocked_queue'[th][j] = p
    <3> DEFINE s == mpi_blocked_queue[th]
    <3>1. s \in Seq(Tasks)
      BY <1>0
    <3>2. CASE at[th] = "exec"
      <4>1. mpi_blocked_queue'[th] = Append(s, p)
        BY <1>0, <1>5, <2>6, <3>2 DEF GivesUp
      <4>2. Len(s) + 1 \in 1 .. Len(Append(s, p)) /\ Append(s, p)[Len(s) + 1] = p
        BY <3>1
      <4>3. QED
        BY <4>1, <4>2
    <3>3. CASE at[th] = "polling"
      <4>1. mpi_blocked_queue' = mpi_blocked_queue
        BY <1>5, <2>6, <3>3 DEF GivesUp
      <4>2. index[th] \in 1 .. Len(s) /\ s[index[th]] = p
        BY <1>0, <2>1, <3>3 DEF PollInv, PolledInv
      <4>3. QED
        BY <4>1, <4>2
    <3>4. QED
      BY <2>1, <3>2, <3>3
  <2>7. ASSUME NEW t \in Tasks, pc'[t] = "polled"
        PROVE  \E u \in Threads : \E j \in 1 .. Len(mpi_blocked_queue'[u]) : mpi_blocked_queue'[u][j] = t
    <3>1. CASE t = p
      BY <2>6, <2>7, <3>1
    <3>2. CASE t # p
      <4>1. pc[t] = "polled"
        BY <2>1, <2>7, <3>2 DEF Others
      <4>2. PICK u \in Threads : \E i \in 1 .. Len(mpi_blocked_queue[u]) : mpi_blocked_queue[u][i] = t
        BY <1>0, <4>1 DEF PolledInv
      <4>3. CASE u = th
        BY <2>5, <3>2, <4>2, <4>3
      <4>4. CASE u # th
        BY <2>3, <4>2, <4>4
      <4>5. QED
        BY <4>3, <4>4
    <3>3. QED
      BY <3>1, <3>2
  <2>8. QED
    BY <2>4, <2>7 DEF PolledInv
<1>6. ASSUME NEW th \in Threads, Steal(th) \/ Replace(th)
      PROVE  PolledInv'
  <2>1. UNCHANGED <<pc, currentTask, mpi_blocked_queue, index>>
    BY <1>6 DEF Steal, Replace, vars
  <2>2. at' = [at EXCEPT ![th] = "replace"] \/ at' = [at EXCEPT ![th] = "run"]
    BY <1>6 DEF Steal, Replace, Goto
  <2>3. \A u \in Threads : at'[u] = "polling" => at[u] = "polling"
    BY <1>0, <2>2
  <2>4. QED
    BY <1>0, <2>1, <2>3 DEF PolledInv
<1>7. ASSUME NEW th \in Threads, Looks(th)
      PROVE  PolledInv'
  <2>1. UNCHANGED <<pc, currentTask, mpi_blocked_queue>>
    BY <1>7, LooksFacts
  <2>2. \A u \in Threads : at'[u] = "polling" => at[u] = "polling" /\ index'[u] = index[u]
    <3>1. CASE NothingLocal(th) \/ NextVictim(th) \/ NothingToSteal(th)
      <4>1. at[th] \in {"run", "steal"} /\ (at' = at \/ \E c \in {"steal", "poll", "idle"} : Goto(th, c))
        BY <3>1 DEF NothingLocal, NextVictim, NothingToSteal
      <4>2. \A u \in Threads : u # th => index'[u] = index[u]
        BY <1>0, <3>1 DEF NothingLocal, NextVictim, NothingToSteal
      <4>3. QED
        BY <1>0, <4>1, <4>2 DEF Goto
    <3>2. CASE PollEnd(th) \/ Idle(th) \/ Wake(th) \/ TerminateGracefully(th) \/ (th = 0 /\ Join)
      <4>1. index' = index
        BY <3>2 DEF PollEnd, Idle, Wake, TerminateGracefully, Join
      <4>2. at' = at \/ \E c \in Place \ {"polling", "exec", "replace"} : at' = [at EXCEPT ![th] = c]
        BY <1>7, LooksFacts DEF Goto
      <4>3. QED
        BY <1>0, <4>1, <4>2
    <3>3. QED
      BY <1>7, <3>1, <3>2 DEF Looks
  <2>3. QED
    BY <1>0, <2>1, <2>2 DEF PolledInv
<1>8. QED
  BY <1>1, <1>2, <1>3, <1>4, <1>5, <1>6, <1>7, StepShape DEF Shape

(***************************************************************************)
(* Nobody adds to what another thread has: a thread that found nothing has *)
(* nothing, until it goes round again.                                     *)
(***************************************************************************)
LEMMA EmptyStep ==
  ASSUME IInv, MInv, PlaceInv, [MediatorNext]_mediatorVars
  PROVE  EmptyInv'
<1>0. /\ EmptyInv /\ ThiefEmpty /\ at \in [Threads -> Place]
      /\ queue \in [Threads -> Seq(Tasks)] /\ stolen \in [Threads -> Seq(Tasks)]
      /\ mpi_blocked_queue \in [Threads -> Seq(Tasks)]
      /\ \A th \in Threads : at[th] \in {"exec", "polling"} <=> currentTask[th] # NULL
      /\ 0 \in Threads
  BY ThreadAssumption DEF PlaceInv, MInv, MediatorTypeOK, Threads
<1>1. CASE UNCHANGED <<queue, stolen, mpi_blocked_queue, at>>
  BY <1>0, <1>1 DEF EmptyInv
<1>2. ASSUME NEW th \in Threads, at[th] \in {"run", "exec", "poll", "polling"},
             NEW place \in {"run", "exec", "poll", "polling"}, at' = [at EXCEPT ![th] = place],
             stolen' = stolen,
             \A u \in Threads : u # th => queue'[u] = queue[u] /\ mpi_blocked_queue'[u] = mpi_blocked_queue[u]
      PROVE  EmptyInv'
  <2>1. at'[th] = place /\ \A u \in Threads : u # th => at'[u] = at[u]
    BY <1>0, <1>2
  <2>2. at[0] # "exit" /\ at'[0] # "exit"
    BY <1>0, <1>2, <2>1 DEF EmptyInv
  <2>3. QED
    BY <1>0, <1>2, <2>1, <2>2 DEF EmptyInv
<1>3. ASSUME NEW th \in Threads, NEW t \in Tasks, HandsOut(th, t)
      PROVE  EmptyInv'
  <2>1. at' = [at EXCEPT ![th] = at[th]]
    BY <1>0, <1>3 DEF HandsOut
  <2>2. at[th] \in {"exec", "polling"} /\ stolen' = stolen /\ mpi_blocked_queue' = mpi_blocked_queue
    BY <1>3 DEF HandsOut
  <2>3. \A u \in Threads : u # th => queue'[u] = queue[u]
    BY <1>0, <1>3 DEF HandsOut, Enqueue
  <2>4. QED
    BY <1>2, <2>1, <2>2, <2>3
<1>4. ASSUME NEW th \in Threads, NEW p \in Tasks, TakesUp(th, p)
      PROVE  EmptyInv'
  <2>1. at[th] \in {"run", "poll"} /\ \E c \in {"exec", "polling"} : at' = [at EXCEPT ![th] = c]
    BY <1>4 DEF TakesUp, Goto
  <2>2. \A u \in Threads : u # th => queue'[u] = queue[u]
    BY <1>0, <1>4 DEF TakesUp
  <2>3. mpi_blocked_queue' = mpi_blocked_queue /\ stolen' = stolen
    BY <1>4 DEF TakesUp
  <2>4. QED
    BY <1>2, <2>1, <2>2, <2>3
<1>5. ASSUME NEW th \in Threads, NEW p \in Tasks, GivesUp(th, p)
      PROVE  EmptyInv'
  <2>1. at[th] \in {"exec", "polling"} /\ \E c \in {"run", "poll"} : at' = [at EXCEPT ![th] = c]
    BY <1>5 DEF GivesUp, Goto
  <2>2. \A u \in Threads : u # th => queue'[u] = queue[u]
    BY <1>0, <1>5 DEF GivesUp, Enqueue
  <2>3. \A u \in Threads : u # th => mpi_blocked_queue'[u] = mpi_blocked_queue[u]
    BY <1>0, <1>5 DEF GivesUp
  <2>4. stolen' = stolen
    BY <1>5 DEF GivesUp
  <2>5. QED
    BY <1>2, <2>1, <2>2, <2>3, <2>4
<1>6. ASSUME NEW th \in Threads, Steal(th)
      PROVE  EmptyInv'
  <2>1. /\ at[th] = "steal" /\ at' = [at EXCEPT ![th] = "replace"]
        /\ index[th] \in Threads \ {th} /\ queue[index[th]] # <<>>
        /\ mpi_blocked_queue' = mpi_blocked_queue
    BY <1>6 DEF Steal, Goto
  <2>2. /\ \A u \in Threads : u # index[th] => queue'[u] = queue[u]
        /\ \A u \in Threads : u # th => stolen'[u] = stolen[u]
    BY <1>0, <1>6 DEF Steal
  <2>3. at[index[th]] \notin {"steal", "replace", "idle", "sleep", "join", "exit"}
    BY <1>0, <2>1 DEF EmptyInv
  <2>4. at'[th] = "replace" /\ \A u \in Threads : u # th => at'[u] = at[u]
    BY <1>0, <2>1
  <2>5. at[0] # "exit" /\ at'[0] # "exit"
    BY <1>0, <2>1, <2>4 DEF EmptyInv
  <2>6. QED
    BY <1>0, <2>1, <2>2, <2>3, <2>4, <2>5, SMTT(60) DEF EmptyInv
<1>7. ASSUME NEW th \in Threads, Replace(th)
      PROVE  EmptyInv'
  <2>1. /\ at[th] = "replace" /\ at' = [at EXCEPT ![th] = "run"]
        /\ mpi_blocked_queue' = mpi_blocked_queue
    BY <1>7 DEF Replace, Goto
  <2>2. /\ \A u \in Threads : u # th => queue'[u] = queue[u] /\ stolen'[u] = stolen[u]
        /\ stolen'[th] = <<>>
    BY <1>0, <1>7 DEF Replace
  <2>3. at'[th] = "run" /\ \A u \in Threads : u # th => at'[u] = at[u]
    BY <1>0, <2>1
  <2>4. at[0] # "exit" /\ at'[0] # "exit"
    BY <1>0, <2>1, <2>3 DEF EmptyInv
  <2>5. QED
    BY <1>0, <2>1, <2>2, <2>3, <2>4 DEF EmptyInv
<1>8. ASSUME NEW th \in Threads, Looks(th)
      PROVE  EmptyInv'
  <2>1. queue' = queue /\ stolen' = stolen /\ mpi_blocked_queue' = mpi_blocked_queue
    BY <1>8, LooksFacts
  <2>2. CASE at' = at
    BY <1>1, <2>1, <2>2
  <2>3. ASSUME NEW place \in Place, at[th] \notin {"replace", "exit"}, place # "replace",
               at' = [at EXCEPT ![th] = place],
               place \in {"steal", "idle", "sleep", "join", "exit"} => queue[th] = <<>>,
               place \in {"idle", "sleep", "join", "exit"} => mpi_blocked_queue[th] = <<>>,
               place = "exit" => th # 0 \/ \A u \in Threads \ {0} : at[u] = "exit"
        PROVE  EmptyInv'
    <3>1. at'[th] = place /\ \A u \in Threads : u # th => at'[u] = at[u]
      BY <1>0, <2>3
    <3>2. at'[0] = "exit" => \A u \in Threads : at'[u] = "exit"
      BY <1>0, <2>3, <3>1 DEF EmptyInv
    <3>3. QED
      BY <1>0, <2>1, <2>3, <3>1, <3>2 DEF EmptyInv
  <2>4. CASE NothingLocal(th) \/ PollEnd(th) \/ Wake(th)
    <3>1. PICK place \in {"steal", "run"} :
            /\ at' = [at EXCEPT ![th] = place] /\ at[th] \in {"run", "poll", "sleep"}
            /\ place = "steal" => queue[th] = <<>>
      BY <2>4 DEF NothingLocal, PollEnd, Wake, Goto
    <3>2. QED
      BY <2>3, <3>1 DEF Place
  <2>5. CASE NothingToSteal(th)
    <3>1. PICK place \in {"poll", "idle"} :
            /\ at' = [at EXCEPT ![th] = place] /\ at[th] = "steal"
            /\ place = "idle" => mpi_blocked_queue[th] = <<>>
      BY <2>5 DEF NothingToSteal, Goto
    <3>2. queue[th] = <<>>
      BY <1>0, <3>1 DEF EmptyInv
    <3>3. QED
      BY <2>3, <3>1, <3>2 DEF Place
  <2>6. CASE Idle(th)
    <3>1. PICK place \in {"sleep", "exit", "join"} :
            at' = [at EXCEPT ![th] = place] /\ at[th] = "idle" /\ (place = "exit" => th # 0)
      BY <2>6 DEF Idle, Goto
    <3>2. queue[th] = <<>> /\ mpi_blocked_queue[th] = <<>>
      BY <1>0, <3>1 DEF EmptyInv
    <3>3. QED
      BY <2>3, <3>1, <3>2 DEF Place
  <2>7. CASE th = 0 /\ Join
    <3>1. /\ at' = [at EXCEPT ![th] = "exit"] /\ at[th] = "join"
          /\ \A u \in Threads \ {0} : at[u] = "exit"
      BY <2>7 DEF Join, Goto
    <3>2. queue[th] = <<>> /\ mpi_blocked_queue[th] = <<>>
      BY <1>0, <3>1 DEF EmptyInv
    <3>3. QED
      BY <2>3, <3>1, <3>2 DEF Place
  <2>8. CASE NextVictim(th) \/ TerminateGracefully(th)
    BY <2>2, <2>8 DEF NextVictim, TerminateGracefully
  <2>9. QED
    BY <1>8, <2>4, <2>5, <2>6, <2>7, <2>8 DEF Looks
<1>9. ASSUME NEW th \in Threads, NEW p \in Tasks, GoesOn(th, p)
      PROVE  EmptyInv'
  BY <1>1, <1>9 DEF GoesOn, threadVars
<1>10. QED
  BY <1>1, <1>3, <1>4, <1>5, <1>6, <1>7, <1>8, <1>9, StepShape DEF Shape, mediatorVars, threadVars

(* At the start the root task is in the queue of the main thread. *)
LEMMA InitPlaceInv == MediatorInit => PlaceInv
<1> SUFFICES ASSUME MediatorInit PROVE PlaceInv
  OBVIOUS
<1>1. /\ queue = [th \in Threads |-> IF th = 0 THEN <<Root>> ELSE <<>>]
      /\ mpi_blocked_queue = [th \in Threads |-> <<>>]
      /\ currentTask = [th \in Threads |-> NULL]
      /\ stolen = [th \in Threads |-> <<>>]
      /\ pc = [t \in Tasks |-> IF t = Root THEN "queued" ELSE "new"]
      /\ at \in [Threads -> {"run", "sleep"}] /\ at[0] = "run"
      /\ Root \in Tasks /\ NULL \notin Tasks /\ 0 \in Threads
  BY ClientAssumption, ThreadAssumption DEF MediatorInit, Init, Threads
<1>2. Queued = {Root}
  BY <1>1 DEF Queued
<1>3. QueueInv
  <2>1. Len(<<Root>>) = 1 /\ <<Root>>[1] = Root /\ Len(<<>>) = 0
    OBVIOUS
  <2>2. \A th \in Threads : \A i \in 1 .. Len(queue[th]) : th = 0 /\ i = 1 /\ queue[th][i] = Root
    BY <1>1, <2>1
  <2>3. \A th \in Threads : \A i \in 1 .. Len(stolen[th]) : FALSE
    BY <1>1, <2>1
  <2>4. 1 \in 1 .. Len(queue[0]) /\ queue[0][1] = Root
    BY <1>1, <2>1
  <2>5. QED
    BY <1>1, <1>2, <2>2, <2>3, <2>4 DEF QueueInv, Placed
<1>4. CurrentInv
  BY <1>1 DEF CurrentInv, Busy
<1>5. PolledInv
  BY <1>1 DEF PolledInv
<1>6. EmptyInv
  BY <1>1 DEF EmptyInv
<1>7. QED
  BY <1>3, <1>4, <1>5, <1>6 DEF PlaceInv

(***************************************************************************)
(* Where every task is, on any number of threads: the inductive invariant  *)
(* of stealing, polling and leaving.                                       *)
(***************************************************************************)
THEOREM PlacesInvariant == MediatorSpec => [](IInv /\ MInv /\ PlaceInv)
<1>1. MediatorInit => PlaceInv
  BY InitPlaceInv
<1>2. IInv /\ MInv /\ PlaceInv /\ [MediatorNext]_mediatorVars => PlaceInv'
  <2> SUFFICES ASSUME IInv, MInv, PlaceInv, [MediatorNext]_mediatorVars PROVE PlaceInv'
    OBVIOUS
  <2>1. QueueInv' /\ CurrentInv' /\ PolledInv' /\ EmptyInv'
    BY QueueStep, CurrentStep, PolledStep, EmptyStep
  <2>2. QED
    BY <2>1 DEF PlaceInv
<1>3. QED
  BY <1>1, <1>2, MediatorInvariant, PTL DEF MediatorSpec

----------------------------------------------------------------------------
(* OnePlace *)

(* A line in which no task is twice is not longer than there are tasks. *)
LEMMA ShortLine ==
  ASSUME NEW s \in Seq(Tasks), \A i, j \in 1 .. Len(s) : s[i] = s[j] => i = j
  PROVE  Len(s) <= Cardinality(Tasks)
<1> DEFINE f == [i \in 1 .. Len(s) |-> s[i]]
<1>1. Len(s) \in Nat /\ \A i \in 1 .. Len(s) : s[i] \in Tasks
  OBVIOUS
<1>2. f \in Injection(1 .. Len(s), Tasks)
  BY <1>1 DEF Injection, IsInjective
<1> HIDE DEF f
<1>3. IsFiniteSet(Tasks)
  BY ClientAssumption
<1>4. Cardinality(1 .. Len(s)) <= Cardinality(Tasks)
  BY <1>2, <1>3, FS_Injection
<1>5. Cardinality(1 .. Len(s)) = Len(s)
  <2>1. PICK n \in Nat : n = Len(s)
    BY <1>1
  <2>2. Cardinality(1 .. n) = IF 1 > n THEN 0 ELSE n - 1 + 1
    BY FS_Interval
  <2>3. Cardinality(1 .. n) = n
    BY <2>2
  <2>4. QED
    BY <2>1, <2>3
<1>6. QED
  BY <1>4, <1>5

(***************************************************************************)
(* A runnable task is in one queue, or in the hands of one thief, once; no *)
(* coroutine runs on two threads, and one that runs does so on a thread.   *)
(***************************************************************************)
LEMMA PlacedOnce == MInv /\ PlaceInv => OnePlace
<1> SUFFICES ASSUME MInv, PlaceInv, NEW t \in Tasks
             PROVE  /\ Cardinality(QueuedAt(t)) = IF pc[t] = "queued" THEN 1 ELSE 0
                    /\ \A u, v \in Threads : currentTask[u] = t /\ currentTask[v] = t => u = v
                    /\ pc[t] \in {"running", "switched", "terminating", "deciding", "unlocking"}
                        => \E th \in Threads : currentTask[th] = t
  BY DEF OnePlace
<1>1. t # NULL
  BY ClientAssumption
<1>2. \A u, v \in Threads : currentTask[u] = t /\ currentTask[v] = t => u = v
  BY <1>1 DEF PlaceInv, CurrentInv
<1>3. pc[t] \in {"running", "switched", "terminating", "deciding", "unlocking"}
        => \E th \in Threads : currentTask[th] = t
  BY DEF PlaceInv, CurrentInv, Busy
<1>4. Placed(queue, stolen, Queued) /\ queue \in Lines /\ stolen \in Lines
  BY DEF PlaceInv, QueueInv, MInv, MediatorTypeOK, Lines
<1>5. \A e : e \in QueuedAt(t) <=>
        \E th \in Threads, k \in {"queue", "stolen"}, i \in 1 .. Cardinality(Tasks) :
          /\ e = <<th, k, i>>
          /\ k = "queue" => i <= Len(queue[th]) /\ queue[th][i] = t
          /\ k = "stolen" => i <= Len(stolen[th]) /\ stolen[th][i] = t
  BY DEF QueuedAt
<1>6. IsFiniteSet(Tasks) /\ Cardinality(Tasks) \in Nat
  BY ClientAssumption, FS_CardinalityType
<1>7. \A th \in Threads : Len(queue[th]) \in Nat /\ Len(stolen[th]) \in Nat
  BY <1>4 DEF Lines
<1>8. \A e : e \in QueuedAt(t) =>
        \E th \in Threads :
          \/ \E i \in 1 .. Len(queue[th]) : e = <<th, "queue", i>> /\ queue[th][i] = t
          \/ \E i \in 1 .. Len(stolen[th]) : e = <<th, "stolen", i>> /\ stolen[th][i] = t
  <2> SUFFICES ASSUME NEW e, e \in QueuedAt(t)
               PROVE  \E th \in Threads :
                        \/ \E i \in 1 .. Len(queue[th]) : e = <<th, "queue", i>> /\ queue[th][i] = t
                        \/ \E i \in 1 .. Len(stolen[th]) : e = <<th, "stolen", i>> /\ stolen[th][i] = t
    OBVIOUS
  <2>1. PICK th \in Threads, k \in {"queue", "stolen"}, i \in 1 .. Cardinality(Tasks) :
          /\ e = <<th, k, i>>
          /\ k = "queue" => i <= Len(queue[th]) /\ queue[th][i] = t
          /\ k = "stolen" => i <= Len(stolen[th]) /\ stolen[th][i] = t
    BY <1>5
  <2>2. k = "queue" => i \in 1 .. Len(queue[th])
    BY <1>6, <1>7, <2>1
  <2>3. k = "stolen" => i \in 1 .. Len(stolen[th])
    BY <1>6, <1>7, <2>1
  <2>4. QED
    BY <2>1, <2>2, <2>3
<1>9. CASE pc[t] # "queued"
  <2>1. t \notin Queued
    BY <1>9 DEF Queued
  <2>2. \A e : e \notin QueuedAt(t)
    BY <1>4, <1>8, <2>1 DEF Placed
  <2>3. QueuedAt(t) = {}
    BY <2>2
  <2>4. Cardinality(QueuedAt(t)) = 0
    BY <2>3, FS_EmptySet
  <2>5. QED
    BY <1>2, <1>3, <1>9, <2>4
<1>10. CASE pc[t] = "queued"
  <2>1. t \in Queued
    BY <1>10 DEF Queued
  <2>2. ASSUME NEW e \in QueuedAt(t), NEW d \in QueuedAt(t)
        PROVE  d = e
    <3>1. PICK u \in Threads :
            \/ \E i \in 1 .. Len(queue[u]) : e = <<u, "queue", i>> /\ queue[u][i] = t
            \/ \E i \in 1 .. Len(stolen[u]) : e = <<u, "stolen", i>> /\ stolen[u][i] = t
      BY <1>8
    <3>2. PICK v \in Threads :
            \/ \E i \in 1 .. Len(queue[v]) : d = <<v, "queue", i>> /\ queue[v][i] = t
            \/ \E i \in 1 .. Len(stolen[v]) : d = <<v, "stolen", i>> /\ stolen[v][i] = t
      BY <1>8
    <3>3. /\ \A i \in 1 .. Len(queue[u]), j \in 1 .. Len(queue[v]) :
                queue[u][i] = queue[v][j] => u = v /\ i = j
          /\ \A i \in 1 .. Len(stolen[u]), j \in 1 .. Len(stolen[v]) :
                stolen[u][i] = stolen[v][j] => u = v /\ i = j
          /\ \A i \in 1 .. Len(queue[u]), j \in 1 .. Len(stolen[v]) : queue[u][i] # stolen[v][j]
          /\ \A i \in 1 .. Len(queue[v]), j \in 1 .. Len(stolen[u]) : queue[v][i] # stolen[u][j]
      BY <1>4 DEF Placed
    <3>4. CASE \E i \in 1 .. Len(queue[u]) : e = <<u, "queue", i>> /\ queue[u][i] = t
      <4>1. PICK i \in 1 .. Len(queue[u]) : e = <<u, "queue", i>> /\ queue[u][i] = t
        BY <3>4
      <4>2. PICK j \in 1 .. Len(queue[v]) : d = <<v, "queue", j>> /\ queue[v][j] = t
        BY <3>2, <3>3, <4>1
      <4>3. u = v /\ i = j
        BY <3>3, <4>1, <4>2
      <4>4. QED
        BY <4>1, <4>2, <4>3
    <3>5. CASE \E i \in 1 .. Len(stolen[u]) : e = <<u, "stolen", i>> /\ stolen[u][i] = t
      <4>1. PICK i \in 1 .. Len(stolen[u]) : e = <<u, "stolen", i>> /\ stolen[u][i] = t
        BY <3>5
      <4>2. PICK j \in 1 .. Len(stolen[v]) : d = <<v, "stolen", j>> /\ stolen[v][j] = t
        BY <3>2, <3>3, <4>1
      <4>3. u = v /\ i = j
        BY <3>3, <4>1, <4>2
      <4>4. QED
        BY <4>1, <4>2, <4>3
    <3>6. QED
      BY <3>1, <3>4, <3>5
  <2>3. \E e : e \in QueuedAt(t)
    <3>1. PICK th \in Threads : \/ \E i \in 1 .. Len(queue[th]) : queue[th][i] = t
                                \/ \E i \in 1 .. Len(stolen[th]) : stolen[th][i] = t
      BY <1>4, <2>1 DEF Placed
    <3>2. Len(queue[th]) <= Cardinality(Tasks) /\ Len(stolen[th]) <= Cardinality(Tasks)
      <4>1. queue[th] \in Seq(Tasks) /\ stolen[th] \in Seq(Tasks)
        BY <1>4 DEF Lines
      <4>2. \A i, j \in 1 .. Len(queue[th]) : queue[th][i] = queue[th][j] => i = j
        BY <1>4 DEF Placed
      <4>3. \A i, j \in 1 .. Len(stolen[th]) : stolen[th][i] = stolen[th][j] => i = j
        BY <1>4 DEF Placed
      <4>4. QED
        BY <4>1, <4>2, <4>3, ShortLine
    <3>3. ASSUME NEW i \in 1 .. Len(queue[th]), queue[th][i] = t
          PROVE  <<th, "queue", i>> \in QueuedAt(t)
      <4>1. i \in 1 .. Cardinality(Tasks) /\ i <= Len(queue[th])
        BY <1>6, <1>7, <3>2
      <4>2. QED
        BY <1>5, <3>3, <4>1
    <3>4. ASSUME NEW i \in 1 .. Len(stolen[th]), stolen[th][i] = t
          PROVE  <<th, "stolen", i>> \in QueuedAt(t)
      <4>1. i \in 1 .. Cardinality(Tasks) /\ i <= Len(stolen[th])
        BY <1>6, <1>7, <3>2
      <4>2. QED
        BY <1>5, <3>4, <4>1
    <3>5. QED
      BY <3>1, <3>3, <3>4
  <2>4. PICK e : e \in QueuedAt(t)
    BY <2>3
  <2>5. QueuedAt(t) = {e}
    BY <2>2, <2>4
  <2>6. Cardinality(QueuedAt(t)) = 1
    BY <2>5, FS_Singleton
  <2>7. QED
    BY <1>2, <1>3, <1>10, <2>6
<1>11. QED
  BY <1>9, <1>10

(***************************************************************************)
(* Stealing, waking up and polling lose no runnable task and duplicate     *)
(* none, and no coroutine runs on two threads.                             *)
(***************************************************************************)
THEOREM PlaceCorrect == MediatorSpec => []OnePlace
<1>1. IInv /\ MInv /\ PlaceInv => OnePlace
  BY PlacedOnce
<1>2. QED
  BY <1>1, PlacesInvariant, PTL

----------------------------------------------------------------------------
(* ThreadQueuesSpec *)

(* A task that no control says is queued is in no queue. *)
LEMMA QueuedNowhere ==
  ASSUME MInv, PlaceInv, NEW t \in Tasks, pc[t] # "queued"
  PROVE  Q!Nowhere(t)
<1>1. t \notin Queued
  BY DEF Queued
<1>2. /\ \A th \in Threads : \A i \in 1 .. Len(queue[th]) : queue[th][i] # t
      /\ \A th \in Threads : \A i \in 1 .. Len(stolen[th]) : stolen[th][i] # t
  BY <1>1 DEF PlaceInv, QueueInv, Placed
<1>3. ASSUME NEW th \in Threads
      PROVE  t \notin Q!ToSet(queue[th]) /\ t \notin Q!ToSet(stolen[th])
  <2>1. queue[th] \in Seq(Tasks) /\ stolen[th] \in Seq(Tasks)
    BY DEF MInv, MediatorTypeOK
  <2>2. DOMAIN queue[th] = 1 .. Len(queue[th]) /\ DOMAIN stolen[th] = 1 .. Len(stolen[th])
    BY <2>1
  <2>3. QED
    BY <1>2, <2>2 DEF Q!ToSet
<1>4. QED
  BY <1>3 DEF Q!Nowhere

(* addRunnable() gets a task that is in no queue, of a thread that steals nothing. *)
LEMMA EnqueueOnThread ==
  ASSUME MInv, PlaceInv, NEW th \in Threads, NEW t \in Tasks, pc[t] # "queued",
         at[th] # "replace", Enqueue(th, t), stolen' = stolen
  PROVE  Q!Next
<1>1. Q!Nowhere(t)
  BY QueuedNowhere
<1>2. stolen[th] = <<>>
  BY DEF PlaceInv, EmptyInv
<1>3. Q!Enqueue(th, t)
  BY <1>1, <1>2 DEF Enqueue, Q!Enqueue
<1>4. QED
  BY <1>3 DEF Q!Next

(* A thief finds both its hands and its own queue empty. *)
LEMMA StealOnThread ==
  ASSUME MInv, PlaceInv, NEW th \in Threads, Steal(th)
  PROVE  Q!Next
<1>1. at[th] = "steal" /\ index[th] \in Threads \ {th}
  BY DEF Steal
<1>2. queue[th] = <<>> /\ stolen[th] = <<>>
  BY <1>1 DEF PlaceInv, EmptyInv
<1>3. PICK v \in Threads : v = index[th] /\ v # th
  BY <1>1
<1>4. /\ queue[v] # <<>>
      /\ \E k \in Q!Halves(Len(queue[v])) :
           /\ stolen' = [stolen EXCEPT ![th] = SubSeq(queue[v], 1, k)]
           /\ queue' = [queue EXCEPT ![v] = SubSeq(queue[v], k + 1, Len(queue[v]))]
  BY <1>3 DEF Steal
<1>5. Q!DequeueHalf(th, v)
  BY <1>2, <1>3, <1>4 DEF Q!DequeueHalf
<1>6. QED
  BY <1>5 DEF Q!Next

(* replace() makes the stolen queue the thread's own, which is empty. *)
LEMMA ReplaceOnThread ==
  ASSUME MInv, PlaceInv, NEW th \in Threads, Replace(th)
  PROVE  [Q!Next]_(Q!vars)
<1>1. /\ queue' = [queue EXCEPT ![th] = stolen[th]]
      /\ stolen' = [stolen EXCEPT ![th] = <<>>]
      /\ queue[th] = <<>>
  BY DEF Replace, PlaceInv, EmptyInv
<1>2. CASE stolen[th] = <<>>
  <2>1. queue' = queue /\ stolen' = stolen
    BY <1>1, <1>2 DEF MInv, MediatorTypeOK
  <2>2. QED
    BY <2>1 DEF Q!vars
<1>3. CASE stolen[th] # <<>>
  <2>1. Q!Replace(th)
    BY <1>1, <1>3 DEF Q!Replace
  <2>2. QED
    BY <2>1 DEF Q!Next
<1>4. QED
  BY <1>2, <1>3

(* A step of the threads is one operation of one queue, or none. *)
LEMMA QueueOperation ==
  ASSUME IInv, MInv, PlaceInv, [MediatorNext]_mediatorVars
  PROVE  [Q!Next]_(Q!vars)
<1>1. CASE queue' = queue /\ stolen' = stolen
  BY <1>1 DEF Q!vars
<1>2. ASSUME NEW th \in Threads, NEW p \in Tasks, GoesOn(th, p)
      PROVE  [Q!Next]_(Q!vars)
  BY <1>1, <1>2 DEF GoesOn, threadVars
<1>3. ASSUME NEW th \in Threads, NEW t \in Tasks, HandsOut(th, t)
      PROVE  [Q!Next]_(Q!vars)
  <2>1. at[th] # "replace" /\ pc[t] # "queued" /\ Enqueue(th, t) /\ stolen' = stolen
    BY <1>3 DEF HandsOut
  <2>2. QED
    BY <2>1, EnqueueOnThread
<1>4. ASSUME NEW th \in Threads, NEW p \in Tasks, TakesUp(th, p)
      PROVE  [Q!Next]_(Q!vars)
  <2>1. CASE queue[th] # <<>> /\ queue' = [queue EXCEPT ![th] = Tail(@)]
    <3>1. stolen' = stolen
      BY <1>4 DEF TakesUp
    <3>2. Q!Dequeue(th)
      BY <2>1, <3>1 DEF Q!Dequeue
    <3>3. QED
      BY <3>2 DEF Q!Next
  <2>2. QED
    BY <1>1, <1>4, <2>1 DEF TakesUp
<1>5. ASSUME NEW th \in Threads, NEW p \in Tasks, GivesUp(th, p)
      PROVE  [Q!Next]_(Q!vars)
  <2>1. at[th] # "replace" /\ pc[p] # "queued" /\ stolen' = stolen
    BY <1>5 DEF GivesUp
  <2>2. Enqueue(th, p) \/ queue' = queue
    BY <1>5 DEF GivesUp
  <2>3. QED
    BY <1>1, <2>1, <2>2, EnqueueOnThread
<1>6. ASSUME NEW th \in Threads, Looks(th)
      PROVE  [Q!Next]_(Q!vars)
  BY <1>1, <1>6, LooksFacts
<1>7. CASE UNCHANGED mediatorVars
  BY <1>1, <1>7 DEF mediatorVars, threadVars
<1>8. QED
  BY <1>2, <1>3, <1>4, <1>5, <1>6, <1>7, StealOnThread, ReplaceOnThread, StepShape DEF Shape

(***************************************************************************)
(* The threads use their runnable_queues as queues are to be used, with no *)
(* lock around a theft and its replace(): a task is in no queue when it is *)
(* enqueued, the thief's queue is empty when it steals and when it         *)
(* replaces it.  These are what module Skiplist has as guards, and         *)
(* ImplementsQueues of Skiplist_proofs says what a thread gets for them.   *)
(***************************************************************************)
THEOREM QueuesOnThreads == MediatorSpec => ThreadQueuesSpec
<1>1. MediatorInit => Q!Init
  <2> SUFFICES ASSUME MediatorInit PROVE Q!Init
    OBVIOUS
  <2>1. Root \in Tasks /\ 0 \in Threads
    BY ClientAssumption, ThreadAssumption DEF Threads
  <2>2. /\ stolen = [th \in Threads |-> <<>>]
        /\ queue = [stolen EXCEPT ![0] = <<Root>>]
    BY DEF MediatorInit
  <2>3. QED
    BY <2>1, <2>2 DEF Q!Init
<1>2. IInv /\ MInv /\ PlaceInv /\ [MediatorNext]_mediatorVars => [Q!Next]_(Q!vars)
  BY QueueOperation
<1>3. QED
  BY <1>1, <1>2, PlacesInvariant, PTL DEF MediatorSpec, ThreadQueuesSpec, Q!Spec

----------------------------------------------------------------------------
(* ShutdownComplete *)

(***************************************************************************)
(* No circular waits, which the library cannot resolve: a task has handles *)
(* of tasks of a lower rank only (of the tasks it spawned itself, in every *)
(* test).                                                                  *)
(***************************************************************************)
NoCircularWait ==
    \E rank \in [Tasks -> Nat] : \A p \in Tasks : \A t \in Handles[p] : rank[t] < rank[p]

(***************************************************************************)
(* A member of a group is a task its owner has a handle of, and has been   *)
(* spawned when the owner waits; a task that is done has reported to all   *)
(* its groups.                                                             *)
(***************************************************************************)
MemberInv ==
    \A t \in Tasks : \A i \in 1 .. Len(groups[t]) :
        /\ t \in Handles[Owner[groups[t][i]]]
        /\ phase[groups[t][i]] = "waiting" => pc[t] # "new"

(* A task that is done has reported to all its groups. *)
DoneInv == \A t \in Tasks : pc[t] = "done" => informed[t] = Len(groups[t])

(* Nothing a step does to groups, phases and controls disturbs MemberInv. *)
LEMMA MemberStep == IInv /\ MemberInv /\ [Next]_vars => MemberInv'
<1> SUFFICES ASSUME IInv, MemberInv, [Next]_vars PROVE MemberInv'
  OBVIOUS
<1>0. /\ pc \in [Tasks -> Control] /\ groups \in [Tasks -> Seq(Groups)]
      /\ phase \in [Groups -> Phase] /\ \A t \in Tasks : Len(groups[t]) \in Nat
  BY DEF IInv, TypeOK
<1>1. ASSUME groups' = groups,
             \A t \in Tasks : pc'[t] = "new" => pc[t] = "new",
             \A g \in Groups : phase'[g] = "waiting" => phase[g] = "waiting"
      PROVE  MemberInv'
  BY <1>0, <1>1 DEF MemberInv
<1>2. ASSUME NEW p \in Tasks, NEW t \in Tasks, NEW g \in Groups, Registe(p, t, g) PROVE MemberInv'
  <2>1. /\ Owner[g] = p /\ t \in Handles[p]
        /\ groups' = [groups EXCEPT ![t] = Append(@, g)]
        /\ phase' = [phase EXCEPT ![g] = "open"] /\ pc' = pc
    BY <1>2 DEF Registe
  <2> SUFFICES ASSUME NEW u \in Tasks, NEW i \in 1 .. Len(groups'[u])
               PROVE  /\ u \in Handles[Owner[groups'[u][i]]]
                      /\ phase'[groups'[u][i]] = "waiting" => pc'[u] # "new"
    BY DEF MemberInv
  <2>2. CASE u = t /\ i = Len(groups[t]) + 1
    <3>1. groups'[u][i] = g
      BY <1>0, <2>1, <2>2
    <3>2. QED
      BY <1>0, <2>1, <2>2, <3>1
  <2>3. CASE ~ (u = t /\ i = Len(groups[t]) + 1)
    <3>1. i \in 1 .. Len(groups[u]) /\ groups'[u][i] = groups[u][i]
      <4>1. CASE u # t
        BY <1>0, <2>1, <4>1
      <4>2. CASE u = t
        <5>1. groups'[t] = Append(groups[t], g) /\ groups[t] \in Seq(Groups)
          BY <1>0, <2>1
        <5>2. Len(groups'[t]) = Len(groups[t]) + 1
          BY <5>1
        <5>3. i \in 1 .. Len(groups[t])
          BY <1>0, <2>3, <4>2, <5>2
        <5>4. QED
          BY <4>2, <5>1, <5>3
      <4>3. QED
        BY <4>1, <4>2
    <3>2. groups[u][i] \in Groups
      BY <1>0, <3>1
    <3>3. phase'[groups[u][i]] = "waiting" => phase[groups[u][i]] = "waiting"
      BY <1>0, <2>1, <3>2
    <3>4. QED
      BY <2>1, <3>1, <3>3 DEF MemberInv
  <2>4. QED
    BY <2>2, <2>3
<1>3. ASSUME NEW p \in Tasks, NEW g \in Groups, Wait(p, g) PROVE MemberInv'
  <2>1. /\ groups' = groups /\ \A t \in Members(g) : pc[t] # "new"
        /\ \A h \in Groups : h # g => phase'[h] = phase[h]
        /\ pc' = pc \/ pc' = [pc EXCEPT ![p] = "switched"]
    BY <1>0, <1>3 DEF Wait
  <2>2. \A t \in Tasks : pc'[t] = "new" => pc[t] = "new"
    BY <1>0, <2>1
  <2>3. \A t \in Tasks : \A i \in 1 .. Len(groups[t]) : groups[t][i] = g => t \in Members(g)
    BY DEF Members
  <2>4. \A t \in Tasks : \A i \in 1 .. Len(groups[t]) : groups[t][i] \in Groups
    BY <1>0
  <2>5. QED
    BY <2>1, <2>2, <2>3, <2>4 DEF MemberInv
<1>4. ASSUME NEW p \in Tasks, NEW t \in Tasks, Go(p, t) PROVE MemberInv'
  BY <1>0, <1>1, <1>4 DEF Go
<1>5. ASSUME NEW p \in Tasks,
             Yield(p) \/ MpiCall(p) \/ MpiComplete(p) \/ MpiPending(p) \/ MpiError(p)
      PROVE  MemberInv'
  BY <1>0, <1>1, <1>5 DEF Yield, MpiCall, MpiComplete, MpiPending, MpiError
<1>6. ASSUME NEW p \in Tasks, Finish(p) PROVE MemberInv'
  <2>1. /\ groups' = groups /\ pc' = [pc EXCEPT ![p] = "terminating"]
        /\ \A g \in Groups : phase'[g] = "waiting" => phase[g] = "waiting"
    BY <1>6 DEF Finish
  <2>2. QED
    BY <1>0, <1>1, <2>1
<1>7. ASSUME NEW p \in Tasks, Decrement(p) PROVE MemberInv'
  <2>1. /\ groups' = groups /\ phase' = phase
        /\ \E c \in {"deciding", "unlocking"} : pc' = [pc EXCEPT ![p] = c]
    BY <1>7 DEF Decrement
  <2>2. QED
    BY <1>0, <1>1, <2>1
<1>8. ASSUME NEW p \in Tasks, Release(p) PROVE MemberInv'
  <2>1. PICK g \in Groups : ReleaseNobody(p, g) \/ \E w \in Tasks : ReleaseTask(p, g, w)
    BY <1>8, ReleaseFacts
  <2>2. groups' = groups /\ phase' = phase /\ \A t \in Tasks : pc'[t] = "new" => pc[t] = "new"
    BY <1>0, <2>1 DEF ReleaseNobody, ReleaseTask
  <2>3. QED
    BY <1>1, <2>2
<1>9. ASSUME NEW p \in Tasks, Unlock(p) \/ Terminated(p) \/ HandleRunnable(p) \/ HandleMpi(p) \/ Poll(p)
      PROVE  MemberInv'
  BY <1>0, <1>1, <1>9 DEF Unlock, Terminated, HandleRunnable, HandleMpi, Poll
<1>10. ASSUME NEW p \in Tasks, HandleGroupWait(p) PROVE MemberInv'
  <2>1. PICK g \in Groups : Requeued(p, g) \/ Parked(p, g)
    BY <1>10, HandleGroupWaitFacts
  <2>2. groups' = groups /\ phase' = phase /\ \A t \in Tasks : pc'[t] = "new" => pc[t] = "new"
    BY <2>1 DEF Requeued, Parked, AboutToWait
  <2>3. QED
    BY <1>1, <2>2
<1>11. ASSUME NEW p \in Tasks, Dispatch(p) PROVE MemberInv'
  <2>1. /\ groups' = groups /\ pc' = [pc EXCEPT ![p] = "running"]
        /\ \A g \in Groups : phase'[g] = "waiting" => phase[g] = "waiting"
    BY <1>11 DEF Dispatch
  <2>2. QED
    BY <1>0, <1>1, <2>1
<1>12. CASE UNCHANGED vars
  BY <1>12 DEF vars, MemberInv
<1>13. QED
  BY <1>2, <1>3, <1>4, <1>5, <1>6, <1>7, <1>8, <1>9, <1>10, <1>11, <1>12 DEF Next, Client, System, AllDone

(* terminate() returns when the last group is informed, and none is added. *)
LEMMA DoneStep == IInv /\ DoneInv /\ [Next]_vars => DoneInv'
<1> SUFFICES ASSUME IInv, DoneInv, [Next]_vars PROVE DoneInv'
  OBVIOUS
<1>0. pc \in [Tasks -> Control] /\ groups \in [Tasks -> Seq(Groups)] /\ informed \in [Tasks -> Nat]
  BY DEF IInv, TypeOK
<1>1. ASSUME groups' = groups, informed' = informed, \A t \in Tasks : pc'[t] = "done" => pc[t] = "done"
      PROVE  DoneInv'
  BY <1>1 DEF DoneInv
<1>2. ASSUME NEW p \in Tasks, NEW t \in Tasks, NEW g \in Groups, Registe(p, t, g) PROVE DoneInv'
  <2>1. /\ state[t] # "Terminated" /\ pc' = pc /\ informed' = informed
        /\ groups' = [groups EXCEPT ![t] = Append(@, g)]
    BY <1>2 DEF Registe
  <2>2. pc[t] # "done"
    BY <2>1 DEF IInv, EndInv
  <2>3. \A u \in Tasks : u # t => groups'[u] = groups[u]
    BY <1>0, <2>1
  <2>4. QED
    BY <2>1, <2>2, <2>3 DEF DoneInv
<1>3. ASSUME NEW p \in Tasks, NEW g \in Groups, Wait(p, g) PROVE DoneInv'
  <2>1. /\ groups' = groups /\ informed' = informed
        /\ pc' = pc \/ pc' = [pc EXCEPT ![p] = "switched"]
    BY <1>3 DEF Wait
  <2>2. QED
    BY <1>0, <1>1, <2>1
<1>4. ASSUME NEW p \in Tasks, NEW t \in Tasks, Go(p, t) PROVE DoneInv'
  BY <1>0, <1>1, <1>4 DEF Go
<1>5. ASSUME NEW p \in Tasks,
             Yield(p) \/ MpiCall(p) \/ MpiComplete(p) \/ MpiPending(p) \/ MpiError(p) \/ Finish(p)
      PROVE  DoneInv'
  BY <1>0, <1>1, <1>5 DEF Yield, MpiCall, MpiComplete, MpiPending, MpiError, Finish
<1>6. ASSUME NEW p \in Tasks, Decrement(p) PROVE DoneInv'
  <2>1. /\ groups' = groups /\ pc[p] = "terminating"
        /\ informed' = [informed EXCEPT ![p] = @ + 1]
        /\ \E c \in {"deciding", "unlocking"} : pc' = [pc EXCEPT ![p] = c]
    BY <1>6 DEF Decrement
  <2>2. \A t \in Tasks : pc'[t] = "done" => pc[t] = "done" /\ informed'[t] = informed[t]
    BY <1>0, <2>1
  <2>3. QED
    BY <2>1, <2>2 DEF DoneInv
<1>7. ASSUME NEW p \in Tasks, Release(p) PROVE DoneInv'
  <2>1. PICK g \in Groups : ReleaseNobody(p, g) \/ \E w \in Tasks : ReleaseTask(p, g, w)
    BY <1>7, ReleaseFacts
  <2>2. /\ groups' = groups /\ informed' = informed
        /\ \A t \in Tasks : pc'[t] = "done" => pc[t] = "done"
    BY <1>0, <2>1 DEF ReleaseNobody, ReleaseTask
  <2>3. QED
    BY <1>1, <2>2
<1>8. ASSUME NEW p \in Tasks, Terminated(p) PROVE DoneInv'
  <2>1. /\ informed[p] = Len(groups[p]) /\ pc' = [pc EXCEPT ![p] = "done"]
        /\ groups' = groups /\ informed' = informed
    BY <1>8 DEF Terminated
  <2>2. QED
    BY <1>0, <2>1 DEF DoneInv
<1>9. ASSUME NEW p \in Tasks, Unlock(p) \/ HandleRunnable(p) \/ HandleMpi(p) \/ Poll(p) \/ Dispatch(p)
      PROVE  DoneInv'
  BY <1>0, <1>1, <1>9 DEF Unlock, HandleRunnable, HandleMpi, Poll, Dispatch
<1>10. ASSUME NEW p \in Tasks, HandleGroupWait(p) PROVE DoneInv'
  <2>1. PICK g \in Groups : Requeued(p, g) \/ Parked(p, g)
    BY <1>10, HandleGroupWaitFacts
  <2>2. /\ groups' = groups /\ informed' = informed
        /\ \A t \in Tasks : pc'[t] = "done" => pc[t] = "done"
    BY <2>1 DEF Requeued, Parked, AboutToWait
  <2>3. QED
    BY <1>1, <2>2
<1>11. CASE UNCHANGED vars
  BY <1>11 DEF vars, DoneInv
<1>12. QED
  BY <1>2, <1>3, <1>4, <1>5, <1>6, <1>7, <1>8, <1>9, <1>10, <1>11 DEF Next, Client, System, AllDone

(* Whoever is parked waits for somebody it has a handle of, who is not done. *)
LEMMA ParkedWaits ==
  ASSUME IInv, MemberInv, DoneInv, NEW p \in Tasks, pc[p] = "parked",
         \A t \in Tasks : pc[t] # "deciding"
  PROVE  \E t \in Handles[p] : pc[t] \notin {"new", "done"}
<1>1. PICK g \in Groups :
        /\ Owner[g] = p /\ phase[g] = "waiting" /\ blocking_count[g] > 0
  BY DEF IInv, NoLostWakeup, ParkInv
<1>2. Cardinality(Pending(g)) > 0
  BY <1>1 DEF IInv, CountExact
<1>3. Pending(g) # {}
  BY <1>2, FS_EmptySet
<1>4. PICK r \in Tasks \X (1 .. MaxGroups) :
        /\ r[2] \in (informed[r[1]] + 1) .. Len(groups[r[1]])
        /\ groups[r[1]][r[2]] = g
  BY <1>3 DEF Pending
<1>5. PICK t \in Tasks, i \in 1 .. MaxGroups : t = r[1] /\ i = r[2]
  BY <1>4
<1>6. i \in (informed[t] + 1) .. Len(groups[t]) /\ groups[t][i] = g
  BY <1>4, <1>5
<1>7. informed[t] \in Nat /\ Len(groups[t]) \in Nat
  BY DEF IInv, TypeOK
<1>8. i \in 1 .. Len(groups[t]) /\ informed[t] # Len(groups[t])
  BY <1>6, <1>7
<1>9. t \in Handles[p] /\ pc[t] # "new"
  BY <1>1, <1>6, <1>8 DEF MemberInv
<1>10. pc[t] # "done"
  BY <1>8 DEF DoneInv
<1>11. QED
  BY <1>9, <1>10

(* A rank of tasks has a least element in every set of tasks. *)
LEMMA LeastRank ==
  ASSUME NEW rank \in [Tasks -> Nat], NEW S \in SUBSET Tasks, S # {}
  PROVE  \E p \in S : \A t \in S : rank[p] <= rank[t]
<1> DEFINE R == {rank[t] : t \in S}
<1>1. R \in SUBSET Nat /\ R # {}
  OBVIOUS
<1> HIDE DEF R
<1>2. PICK n \in R : \A y \in R : ~ (<<y, n>> \in OpToRel(<, Nat))
  BY <1>1, NatLessThanWellFounded, WFMin
<1>3. \A y \in R : ~ (<<y, n>> \in {x \in Nat \X Nat : x[1] < x[2]})
  BY <1>2, Zenon DEF OpToRel
<1>4. ASSUME NEW y \in R
      PROVE  n <= y
  <2>1. y \in Nat /\ n \in Nat
    BY <1>1
  <2>2. ~ (<<y, n>> \in {x \in Nat \X Nat : x[1] < x[2]})
    BY <1>3
  <2>3. QED
    BY <2>1, <2>2
<1>5. PICK p \in S : rank[p] = n
  BY DEF R
<1>6. QED
  BY <1>4, <1>5 DEF R

(***************************************************************************)
(* When the main thread has left nobody else runs and no queue holds a     *)
(* task; a task that is parked would wait for another that is parked, and  *)
(* so on for ever.                                                         *)
(***************************************************************************)
LEMMA ExitDone ==
  ASSUME IInv, MInv, PlaceInv, MemberInv, DoneInv, NoCircularWait, at[0] = "exit", NEW t \in Tasks
  PROVE  pc[t] \in {"new", "done"}
<1>1. \A th \in Threads : /\ at[th] = "exit" /\ currentTask[th] = NULL
                          /\ queue[th] = <<>> /\ stolen[th] = <<>> /\ mpi_blocked_queue[th] = <<>>
  BY DEF PlaceInv, EmptyInv, MInv, MediatorTypeOK
<1>2. pc \in [Tasks -> Control] /\ NULL \notin Tasks /\ Handles \in [Tasks -> SUBSET Tasks]
  BY ClientAssumption DEF IInv, TypeOK
<1>3. \A u \in Tasks : pc[u] \notin Busy
  BY <1>1, <1>2 DEF PlaceInv, CurrentInv
<1>4. \A u \in Tasks : pc[u] # "queued"
  <2>1. ASSUME NEW u \in Queued
        PROVE  FALSE
    <3>1. Placed(queue, stolen, Queued)
      BY DEF PlaceInv, QueueInv
    <3>2. PICK th \in Threads : \/ \E i \in 1 .. Len(queue[th]) : queue[th][i] = u
                                \/ \E i \in 1 .. Len(stolen[th]) : stolen[th][i] = u
      BY <3>1 DEF Placed
    <3>3. Len(queue[th]) = 0 /\ Len(stolen[th]) = 0
      BY <1>1
    <3>4. QED
      BY <3>2, <3>3
  <2>2. QED
    BY <2>1 DEF Queued
<1>5. \A u \in Tasks : pc[u] # "polled"
  <2>1. \A th \in Threads : Len(mpi_blocked_queue[th]) = 0
    BY <1>1
  <2>2. QED
    BY <2>1 DEF PlaceInv, PolledInv
<1>6. \A u \in Tasks : pc[u] \in {"new", "done", "parked"}
  BY <1>2, <1>3, <1>4, <1>5 DEF Control, Busy
<1> DEFINE S == {u \in Tasks : pc[u] = "parked"}
<1>7. ASSUME S # {}
      PROVE  FALSE
  <2>1. PICK rank \in [Tasks -> Nat] : \A p \in Tasks : \A u \in Handles[p] : rank[u] < rank[p]
    BY DEF NoCircularWait
  <2>2. S \in SUBSET Tasks
    OBVIOUS
  <2>3. PICK p \in S : \A u \in S : rank[p] <= rank[u]
    <3> HIDE DEF S
    <3>1. QED
      BY <1>7, <2>2, LeastRank
  <2>4. p \in Tasks /\ pc[p] = "parked"
    OBVIOUS
  <2>5. PICK u \in Handles[p] : pc[u] \notin {"new", "done"}
    BY <1>6, <2>4, ParkedWaits
  <2>6. u \in S
    BY <1>2, <1>6, <2>4, <2>5
  <2>7. rank[u] < rank[p] /\ rank[p] <= rank[u] /\ rank[u] \in Nat /\ rank[p] \in Nat
    BY <1>2, <2>1, <2>3, <2>4, <2>5, <2>6
  <2>8. QED
    BY <2>7
<1>8. QED
  BY <1>6, <1>7

(***************************************************************************)
(* A thread that has left run() leaves no task behind, and when the main   *)
(* thread returns everything that was spawned is done, whenever            *)
(* co_terminate() was called: provided that the tasks do not wait for each *)
(* other in a circle.                                                      *)
(***************************************************************************)
THEOREM ShutdownCorrect == ASSUME NoCircularWait PROVE MediatorSpec => []ShutdownComplete
<1>1. Init => MemberInv /\ DoneInv
  BY DEF Init, MemberInv, DoneInv
<1>2. IInv /\ MemberInv /\ DoneInv /\ [Next]_vars => (MemberInv /\ DoneInv)'
  BY MemberStep, DoneStep
<1>3. Spec => [](MemberInv /\ DoneInv)
  BY <1>1, <1>2, Invariant, PTL DEF Spec
<1>4. ASSUME NoCircularWait
      PROVE  IInv /\ MInv /\ PlaceInv /\ MemberInv /\ DoneInv => ShutdownComplete
  <2> SUFFICES ASSUME IInv, MInv, PlaceInv, MemberInv, DoneInv PROVE ShutdownComplete
    OBVIOUS
  <2>1. \A th \in Threads : at[th] \in {"join", "exit"} =>
          queue[th] = <<>> /\ stolen[th] = <<>> /\ mpi_blocked_queue[th] = <<>>
    BY DEF PlaceInv, EmptyInv
  <2>2. at[0] = "exit" => \A t \in Tasks : pc[t] \in {"new", "done"}
    BY <1>4, ExitDone
  <2>3. QED
    BY <2>1, <2>2 DEF ShutdownComplete
<1>5. QED
  BY <1>3, <1>4, PlacesInvariant, ImplementsTaskGroup, PTL

===============================================================================
