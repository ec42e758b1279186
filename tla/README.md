# A verification project for TYThread

TYThread ("Yami") runs coroutines on a fixed set of worker threads.  A program
calls `co_init()`, hands a root task to the mediator, and enters
`co_mainloop()`; tasks create tasks with `go()` and `go_pure()`, join them
through `TaskGroup`, `TaskBundle` or `CountDownLatch`, give up the thread with
`co_yield`, and call MPI through hooks that suspend the coroutine instead of
blocking the thread.

This directory holds TLA+ models of that code, TLC configurations that check
them on small instances, and proofs that the TLA+ proof system checks for all
instances.

## Inventory

| Component | State | Operations | Module |
|---|---|---|---|
| `Task` (`Task.hh`, `Task.cc`) | `state`, `groups[]`, `cur_groups`, `blockedBy`, `mut_`, the two continuations | `addToGroup`, `terminate`, `continuationIn/Out`, `runInStack` | `TaskGroup` |
| `TaskGroup` (`TaskGroup.hh/.cc`) | `blocking_count` (atomic), `blockedTask`, `mut_` | `registe`, `wait`, `resumeIfNothingToWait`, `informDone` | `TaskGroup`, abstract: `Join` |
| `PerThreadMgr` | `runnable_queue`, `mpi_blocked_queue`, `currentTask__` | `run_runnable`, `run_mpi_blocked`, `handle_after_continuationOut`, `wait_task` | `TaskGroup`, `Mediator` |
| `GlobalMediator` | the threads, `terminatable`, `sleep_count` and the condition variable | `addRunnable`, `run_once` (with stealing), `run`, `TerminateGracefully` | `Mediator` |
| `co_user.hh` | handles | `go`, `go_pure`, `TaskBundle` | `TaskGroup`, `Mediator` |
| `CountDownLatch` (`co_user.hh`) | `counter__`, `fakeTask__`, `fakeGroup__` | `add`, `down`, `wait` | `Latch` |
| MPI hooks | the suspended call | `MPI_Send_Hook`, `MPI_Recv_Hook` | `TaskGroup`, `Mediator` |
| `Skiplist` | list, offsets, candidate, layers of skip nodes | `enqueue`, `dequeue`, `dequeue_half`, `replace` | `Skiplist`, abstract: `TaskQueues` |
| `Spinlock` | a flag | `lock`, `unlock` | steps of all modules |
| `ObjectPool`, `TaskPool` | a stack of layers per thread, caches of foreign objects, `total_cached`, a daemon | `my_alloc`, `my_release`, `cleanup_all_cache`, the daemon's round | `ObjectPool`, abstract: `Allocator` |
| `DerivedRefPtr`, `RefCounted`, `Linkable` (`util.hh`, `Skiplist.hh`) | the count in the object, the pointers, `next` | copy, assign, move, reset; enqueue, dequeue, destructor of the list | `RefPtr`; for tasks: `TaskLife` |
| `Config` | numbers | a constructor | not modelled |
| debug macros | | | not modelled |

How they interact: a worker thread runs `GlobalMediator::run()`, takes a task
from the `Skiplist` of its `PerThreadMgr`, switches into it, and when it comes
back looks at `Task::state` to decide where it goes.  A terminating task calls
`informDone()` of every group it was registered with; the one that brings a
group's count to 0 hands the group's parked owner to the queue of *its own*
thread.  An idle thread takes the front half of another thread's queue.

What is hard here:

* `wait()` reads the count without a lock, the parking is done later by the
  worker, under the group's lock, after the coroutine has switched out; the
  decrement happens on any thread in between.
* `registe()` may race the end of the task it registers.
* A stolen half queue belongs to nobody between `dequeue_half()` and
  `replace()`, and `replace()` overwrites.
* A thread goes to sleep on a notification it can miss; a thread leaves for
  good when it finds nothing to do after `co_terminate()`.
* The layers above a queue are cut by arithmetic on offsets that no test looks
  at.
* The latch uses a `TaskGroup` with a task that never runs.
* A `TaskPtr` is copied and moved through queues, groups, frames and callbacks
  by several threads; the last of them to go deletes the task, and it may be the
  local variable of a function that handed the task on long ago.
* A pool frees a layer on the word of a counter, while objects of that layer are
  in the caches of other threads, linked through their own memory.

Correctness, component by component: the join is safe and wakes its owner
(`TaskGroup`); a runnable task is in one place, is not lost and is run, and the
program ends with its work done (`Mediator`); the latch waits for everybody
and returns (`Latch`); a task is deleted once, when nobody can touch it any
more (`TaskLife`, `RefPtr`); the memory of an object is nobody else's and
comes back (`ObjectPool`); queues are in order, the index describes the list, a
theft is a fair share (`Skiplist`).  `PROJECT.json` lists every hazard with its
line and the properties that cover it.

## The modules

### `TaskGroup`

One process per task.  `state`, `groups`, `blockedBy`, `blocking_count` and
`blockedTask` are the fields of the same name.  `pc` says where the control of
the task is: in a queue, running, switched out and not yet handled, parked, or
at a point inside `terminate()`/`informDone()`.  `informed` is the loop index
of `terminate()`.  `phase` is where the owner of a group is with it; it is not
a field but the position of the owner's control in its own code, and nothing
in the library's steps tests it.

| Code | Action |
|---|---|
| `go`, `go_pure`, `addRunnable` | `Go` |
| `TaskGroup::registe`, `Task::addToGroup` | `Registe` (a finished task: no change) |
| `TaskGroup::wait` | `Wait`, and `Dispatch` when it returns after having waited |
| `co_yield`, `continuationOut` | `Yield` |
| the MPI hooks | `MpiCall`, `MpiComplete`, `MpiPending`, `MpiError` |
| the callback ends, `terminate` | `Finish`, then per group `Decrement`, `Release`, `Unlock`, then `Terminated` |
| `handle_after_continuationOut` | `HandleRunnable`, `HandleMpi`, `HandleGroupWait` |
| `run_runnable`, `continuationIn`, `runInStack` | `Dispatch` |
| `run_mpi_blocked` | `Poll` |

The user's code is nondeterministic within the API.  `ClientAssumption` and the
guards of `Client` say what it may not do: a pure task does not wait or yield,
a task waits only for groups on its own stack, the tasks registered with a
group have been handed to `addRunnable` before the wait, and `registe()`
respects the bound on the number of groups that the (compiled-out) `MUST_TRUE`
of `Task.cc:123` states.  `Handles[p]` says which tasks the code of `p` can name.

Atomicity: `addToGroup` and `resumeIfNothingToWait` are one step, because they
hold a lock whose data nobody else touches meanwhile, except for the atomic
increment of the count, whose only unlocked reader is the caller itself.
`Wait` is one step: after the unlocked read the task writes only its own fields,
which nobody reads before it has switched out.  `informDone` is split into
`Decrement`, `Release` and `Unlock`, since the unlocked reader may come between.

`Scoped` chooses whether a group dies with its owner's frame (as the code has
it) or is kept alive; everything but `NoDanglingInform` is checked with groups
that are kept alive, so that what those runs show does not rest on the finding.

### `Join`

The promise to a group's owner without counters, locks, parking or threads.
`TaskGroup` implements it under `finished <- {terminated tasks}`,
`members <- Members`, `status <- phase`.

### `Mediator`

Extends `TaskGroup` with the threads.  Each task step is taken by the thread
that has the task as `currentTask`, and joined with its effect on the queues.
A queue is the sequence of its tasks.  `ThreadQueuesSpec` says that the threads use
these sequences as `TaskQueues` allows, and module `Skiplist` looks inside.

| Code | Action |
|---|---|
| `run_runnable` | `RunTask`, then `TakeBack` |
| `run_once` | `NothingLocal`, `NextVictim`, `Steal`, `Replace`, `NothingToSteal` |
| `run_mpi_blocked` | `PollTask`, `PollNext`, `PollLeave`, `PollEnd` |
| `run` | `Idle`, `Join` |
| `wait_task` and `notify_one` | `Wake`: the sleep has a time limit, so it may end at any moment, notified or not |
| `TerminateGracefully` | `TerminateGracefully`, called by the root task as in the tests |

### `TaskLife`

Extends `TaskGroup` with every `TaskPtr` to a task: `counter` is the count in
the task, the other variables say who has a reference (`frame` and `bound`: the
user's handles and what `go()` has bound to a callback; `current`: the
`currentTask__` of a thread together with the local `ptr` of `run_runnable`;
`entry`: an entry of the MPI queue; `letting`: threads that have handed the
task on and whose `ptr` is still to be dropped; `nowCanRun`: the variable of
that name in `informDone`).  A reference in a queue or a group needs no
variable: `TaskGroup` says where the task is.

| Code | Action |
|---|---|
| `go`, `go_pure` | `Spawn` |
| a handle goes out of scope | `DropHandle` |
| `registe`, `wait`, `co_yield`, the MPI hooks, the end of the callback | `Call` |
| `terminate` and `informDone`, with their `TaskPtr` argument and `nowCanRun` | `Inform`, `Resume`, `InformEnd` |
| `run_runnable`, `run_mpi_blocked` | `Run`, `Retire`, `KeepEntry`, `LetGo` |
| `handle_after_continuationOut` | `HandOn` |
| `~Task` | `DropBound` |

### `Latch`

`down()` in its three parts (decrement; the fake task's state; `informDone`)
against `registe()` and `wait()`.

### `RefPtr`

The operations of `DerivedRefPtr` on variables that belong to threads, and the
list of `Skiplist.hh` that holds objects by plain pointers and calls
`increase` and `decrease` by hand.  An operation with one access to a count is
one step; copy assignment has two accesses and is `CopyAssign`, `CopyAssignEnd`.
`DestroyHead` and `DestroyNext` are one turn of the loop of `~Skiplist()`.

### `ObjectPool` and `Allocator`

| Code | Action |
|---|---|
| `my_alloc` | `Alloc`; `Enlarge` when all layers are full |
| `my_release` of another thread's object | `ReleaseForeign` |
| `my_release` of an own object | `ReleaseOwn`, `ReturnOwn`: `my_release_mut_` is released before `mut_` is taken |
| `cleanup_all_cache` | `Flush`, one list at a time under the `mut_` of its pool, then `FlushEnd` |
| `remove_layer_if_not_in_use` | `Removable`, part of every return |
| the daemon | `Sweep`, `SweepEnd`, `DaemonWake` |
| `daemonTerminate` | `Terminate`, `Join` |

The lists are followed through `next`, which is the objects' own memory:
`place`, which says where an entry is, is a ghost that the properties compare
them with.  `my_alloc` gives out the head of a free list and looks at nothing else.

`Allocator` is the promise to the users: an object has its memory for itself,
until it is released.  It counts the objects that live in each entry (`objects`)
and lets a new one only into an entry that has none.  `ObjectPool` keeps the same
count as a history variable, by the calls alone: one more when `my_alloc` gives the
entry, one less when a user releases it, whatever the lists say.  An entry that
is given a second time, say because a list it was flushed to had it already,
would have two objects, which is no step of `Allocator`; neither is the removal
of a layer with an entry that has one.

### `TaskQueues`

What stands between `Mediator` and `Skiplist`: queues, first in, first out, of which
the front part (`Halves` says how much) can be cut off and made the queue of
somebody else.  Its guards are the obligations of the users, since
`Skiplist.hh` checks none of them (its `MUST_TRUE` is compiled out): a task is enqueued while it is in no queue; who
steals has an empty queue and nothing in hand; who enqueues has nothing in hand;
`replace()` finds the queue empty.  Its actions are what the users may rely on.  Both
sides are shown to implement it:

* the lists with their layers, `queue <- the nodes of level 0`, `stolen <-` the same
  of the list that `dequeue_half()` returned (`QueuesSpec` of `Skiplist`);
* the threads, with the variables of the same name (`ThreadQueuesSpec` of
  `Mediator`), where nothing but the order of the threads' steps keeps the
  obligations: no lock is held between a theft and its `replace()`.

A task that was taken from a queue may be enqueued again.  Module `Skiplist` counts
it as a new task then: it numbers the tasks in the order of their arrival, and a
list keeps nothing of a task that has left it (`CandidateRight`; for the pointers
`ListIntact` of `RefPtr`).

### `Skiplist`

The list of tasks is level 0 and `layers[i]` is level i + 1: the code keeps the
same fields for both and treats them alike (compare `Skiplist.hh:408-459`,
`:116-160`, and the two branches of `dequeue_half`), so the model has one rule
for all levels.  A skip node is the pair of its `downNode` and `lastDownNode`.
Nodes are cut by following these pointers while offsets are cut by arithmetic,
as in the code; `OffsetsExact` says that the two agree.  `AnyNode` is what a
level can have as nodes; it is there to say that `NULL` is none of them.
`NoList` is the null `unique_ptr` that `dequeue_half` returns from an empty list.

## Runs

| Run | Instance | Shows |
|---|---|---|
| `task_group` | root and `a` own a group each, `b` calls MPI and may be joined by either, `a` may throw; `MaxGroups` = 2 | `TypeOK`, `NoResurrection`, `WaitReturns`; implements the fair `Join` |
| `task_group_scoped` | groups on the stack, a task may be in several | **violates** `NoDanglingInform` |
| `task_life` | the same tasks on 3 threads with their handles, `MaxGroups` = 3: one task in groups of two owners; `b` pure, `a` calls MPI and may throw | `CountExact`, `NoLostWakeup`, `JoinSafe`, `IInv`; `RefExact`, `NoUseAfterDelete`, `AllReclaimed` |
| `mediator` | 3 threads, root joins `a` and the pure `b` | `OnePlace`, `ReplaceEmpty`, `ShutdownComplete` |
| `mediator_live` | 2 threads, 2 tasks, one in MPI | `EveryTaskEnds`, `ShutsDown`; implements `TaskQueues` |
| `mediator_weak` | the same, no luck | **violates** `RunnableRuns` |
| `latch` | 4 users, a waiter | `LatchSafe`, `WokenOnce`, `RegisteredReturns` |
| `latch_wait` | 2 users, a waiter | **violates** `WaitReturns` |
| `object_pool` | 2 threads, 3 layers of 1, 2 and 4 entries, a cache of 1, the daemon | `ListsExact`, `CountersExact`, `NoDangling`, `StackRight`, `ShrinksBack`, `DaemonEnds`; implements `Allocator`: no two objects in one entry |
| `ref_ptr` | 2 threads with 2 variables each, 3 objects, a list | `RefExact`, `LiveExact`, `ListIntact` |
| `ref_ptr_destroy` | the same, then the list is destroyed | **violates** `NoReadAfterDelete` |
| `skiplist` | `SkipGap` 2, 3 layers, 2 queues, 10 tasks | `OffsetsExact`, `EveryNodeFull`, `CandidateRight`, `FairShare`; implements `TaskQueues` |

The bounds.  Two groups and three tasks are the least in which a task reports
to groups of two owners, and in which two members race for the last decrement;
the safety of the join is checked there, in `task_life`.  The liveness run
`task_group` allows a task one group at a time (`MaxGroups` = 2): with more, the
temporal check is out of reach.  Three threads are the least in which a thief is
robbed by a third, or in which two thieves and the owner meet at one queue; MPI
is left to the run with two threads.  Four entries of pool 0 use all its three
layers, and the top one is reached with and without an empty one below it; one
entry of pool 1 is enough to make its thread foreign to the other.  In that run
a cache of 1 is at its limit with the first object and exceeds it with the
second.  Three objects and four pointers give lists of three, and pointers of two
threads to an object that is in the list.  Ten tasks
with `SkipGap` 2 give the three layers five, two and one nodes, so that every
branch of `dequeue_half` (nothing above, a single node preserved, a single node
dissolved, with and without a candidate in the stolen half) is taken, followed
by further operations on both halves.  `SkipGap` is 64 in the program, where
queues of the sizes in the `mediator` runs have no skip nodes.  Besides
`max_groups` of the code, `MaxTaken` (`ObjectPool`) and `MaxTasks` (`Skiplist`) are the only
bounds: yields, MPI calls and repeated waits go on for ever.

Deadlock is checked except in `object_pool`: there the program may stop for
good, when the main thread has left, the daemon is gone and no thread has
anything to release or may take more.

### What was found

* `NoDanglingInform` (`TaskGroup.cc:18`, `:56`).  The last member decrements
  the count; the owner, in `wait()`, reads 0 without the lock and returns; its
  frame goes with the group in it while the member is still about to read
  `blockedTask` and to release `mut_`.
* `RunnableRuns` (`GlobalMediator.cc:82`).  Two idle threads steal one task
  from each other for ever: what is stolen is queued, not run, contrary to
  `Task.cc:8-10`.
* `WaitReturns` of the latch (`co_user.hh:78-88`).  If the last `down()` comes
  before `wait()`, the count goes to -1 and `wait()` never returns.
* `NoReadAfterDelete` (`Skiplist.hh:395`).  `~Skiplist()` drops the list's
  reference to its first object, which may be the last, and then reads `next`
  of that object.

## Fairness

`TaskGroup!Fairness`: weak fairness of the library's steps of each task (a
worker that has a task in its hands goes on; spinlocks are handed over; a
queued task is dispatched, which `Mediator` takes apart).  The strong fairness
of `Go`, `MpiComplete`, `Finish` and `Wait` is asked of the user: tasks waited
for are spawned, MPI requests complete, and a task does not register, yield or
poll for ever when it could go on.

`Mediator`: weak fairness of each thread's steps, that is of the OS scheduler.
With it alone (`WeakFairSpec`) a runnable task may never run, as the run
`mediator_weak` shows.  `MediatorFairSpec` adds strong fairness of `RunTask`:
a thread that again and again has something in its queue sometimes gets to
it before a thief.  That is an assumption about luck; the liveness results of
`mediator_live` hold up to it.

`Latch`: weak fairness of everybody's steps.

`ObjectPool`: every thread goes on with the call it is in, and the daemon with
its round.  Weak fairness of `Sweep`, which needs the `my_release_mut_` of a
pool, is enough in the instance, where a thread runs out of objects to release;
in general a spinlock promises nothing to the daemon while a thread takes it
again and again.  Nothing obliges the user to release or to call
`daemonTerminate`: `ShrinksBack` and `DaemonEnds` say what follows if he does.

## Proofs

Eight modules hold proofs, for every value of the constants that satisfies the
assumptions its module names.  Every invariant that a passing run checks, every
action property and every refinement's safety half is a theorem.  Each inductive
invariant was model-checked on the instance of its run as well (`PoolInv` with
the length of a list, which it quantifies over `Nat`, put to the number of the
list's entries, so that TLC can enumerate it).

### The join (`TaskGroup_proofs`, `Join_proofs`)

| Theorem | Statement |
|---|---|
| `TypeCorrect` | `Spec => []TypeOK` (that the bound on a task's groups holds is asked of the caller, see above) |
| `Invariant` | `Spec => []IInv` |
| `CountCorrect` | `Spec => []CountExact` |
| `WakeupCorrect` | `Spec => []NoLostWakeup` |
| `JoinCorrect` | `Spec => []JoinSafe` |
| `TerminatedIsFinal` | `Spec => NoResurrection` |
| `ImplementsJoin` | `Spec => JoinSpec`: the safety half of the refinement |

`NoLostWakeup` and `CountExact` are not inductive.  `IInv` adds where the owner
of a waiting group can be (`WaitInv`), that a task in `GroupWait` waits for its
own group (`ParkInv`), that only the parked owner is in `blockedTask` and that
whoever is about to wake it has seen a count that is still 0 (`BlockedInv`),
and that only terminated tasks report (`EndInv`).  That `blocking_count` cannot
be negative comes from `CountExact`: the registration being answered is pending,
so the cardinality of the pending ones is positive.  One lemma per conjunct has
one step per action; the three actions under a group's lock are first restated pointwise (`DecrementOf`,
`ReleaseTask`, `Requeued`, ...) so that the provers do not meet nested `EXCEPT`s.
`JoinSafe` follows without a further induction: a joined group has the count 0,
so nothing is pending, so every member has reported, so it has terminated.
The same lemma (`ZeroDone`) is what the refinement needs where `wait()` returns,
at once or after having waited; every other step is a step of `Join` by its
guards, or leaves the states and phases that `Join` sees alone.

### The threads (`Mediator_proofs`)

| Theorem | Statement |
|---|---|
| `ThreadsTyped` | `MediatorSpec => []MediatorTypeOK` |
| `ReplaceCorrect` | `MediatorSpec => []ReplaceEmpty` |
| `ImplementsTaskGroup` | `MediatorSpec => Spec` |
| `JoinOnThreads` | `MediatorSpec => []JoinSafe` |
| `PlacesInvariant` | `MediatorSpec => [](IInv /\ MInv /\ PlaceInv)` |
| `PlaceCorrect` | `MediatorSpec => []OnePlace` |
| `QueuesOnThreads` | `MediatorSpec => ThreadQueuesSpec` |
| `ShutdownCorrect` | `NoCircularWait` implies `MediatorSpec => []ShutdownComplete` |

From `ThreadAssumption` besides.  `ReplaceEmpty` is strengthened to the whole
time a thread spends stealing (`ThiefEmpty`): nobody but the thread adds to its
queue, and others only take, from queues that are not empty.  `PollInv` keeps
the entry that `run_mpi_blocked` is at in its queue.  Typing of `blockedTask` in
`informDone` comes from `IInv`, so the invariants of the tasks and of the
threads are proved together; the refinement follows, and with it everything
proved of `TaskGroup` holds on any number of threads, `JoinOnThreads` being
the most important.

For `OnePlace` the queues and what thieves have in hand are seen as lines of
tasks (`Lines`), in which each queued task has one position (`Placed`); the
lemmas about them say what becomes of the positions when a task is appended,
taken from the front, or half a line moves.  `PlaceInv` adds that a task that
runs is the current one of one thread, that a suspended MPI call has an entry in
a queue, and what a thread has nothing of where it is.  The many steps of
`MediatorNext` are first classified (`Shape`) by what they do to lines and
controls, and each class is shown to preserve `PlaceInv`.  The same classes give the
refinement of `TaskQueues`: what `TaskGroup` makes runnable was in no queue because
its control did not say so (`QueuedNowhere`), and a thread that steals or replaces
has an empty queue by `PlaceInv`.  A `replace()` of nothing, which the invariant
need not exclude, would be a stutter.

`ShutdownComplete`
follows when the tasks that wait are looked at: when the main thread has left,
no queue holds a task and nobody runs, so a task that is not done is parked, and
waits for another that is parked (`ParkedWaits`).  `NoCircularWait`, a rank that
falls from each task to those it has handles of, excludes that this goes on for
ever.  It is a condition on the user's program, since a circle of waits is a
deadlock that no library resolves; every test passes handles down a tree.

### The latch (`Latch_proofs`)

| Theorem | Statement |
|---|---|
| `LatchCorrect` | `Spec => []LatchSafe` |
| `WokenCorrect` | `Spec => []WokenOnce` |
| `LatchTypeCorrect` | `Spec => []TypeOK` |

As long as a `down()` is outstanding, the count of the group is the number of
registrations (`OpenInv`), so that a registered waiter sees it above 0.  The
counter is the number of outstanding calls, which is why the one that brings it
to 0 is the last.  The bounds in `TypeOK` need that one user at most makes the
last call and that there is a registration per waiter at most (`BoundInv`).  Any
finite number of users and waiters is allowed here.

### The pointers (`RefPtr_proofs`)

| Theorem | Statement |
|---|---|
| `TypeCorrect` | `Spec => []TypeOK` |
| `RefCorrect` | `Spec => []RefExact` |
| `LiveCorrect` | `Spec => []LiveExact` |
| `ListCorrect` | `Spec => []ListIntact` |

The four need each other.  That a count does not go below zero, and that nobody
has what is deleted, comes from `RefExact`; that a new object has no references
from `LiveExact`; that `dequeue()` hands over the list's reference to its first
object from `ListIntact`.  The counting is done once, in `Assign`: an
assignment to one pointer takes one from the references to what it had and adds
one to those of what it gets.

### The life of a task (`TaskLife_proofs`)

| Theorem | Statement |
|---|---|
| `ImplementsTaskGroup` | `LifeSpec => Spec` |
| `LifeInvariant` | `LifeSpec => [](IInv /\ LifeInv)` |
| `LifeTypeCorrect` | `LifeSpec => []LifeTypeOK` |
| `RefCorrect` | `LifeSpec => []RefExact` |
| `DeleteCorrect` | `LifeSpec => []NoUseAfterDelete` |
| `ReclaimCorrect` | `LifeSpec => []AllReclaimed` |
| `JoinInLife` | `LifeSpec => []JoinSafe` |

`RefExact` counts the pointers that exist, those in `blockedTask` of a group
among them.  By `IInv` that pointer is to the parked owner and to nobody else, so
a task has a reference from a queue, a group or `informDone` exactly while its
control says so.  `CountInv` counts in these terms: one for the place of the task,
two for a thread that has it, and the sizes of the sets of frames, callbacks and
variables that name it.  Each action is reduced to what it does to one of these
sets and to the counts (`SpawnOf`, `Moves`, `ResumeOf`, `Counts`, ...), so that
the arithmetic is done once per kind of step.  `PlaceInv` says which control goes
with which pointer.  `DeadInv` makes the deleted tasks those whose count has come
back to 0, from which `NoUseAfterDelete` follows by `CountInv`.  For
`AllReclaimed` it does not suffice to count, as references in a circle keep each
other alive: `AcyclicInv` says that a task binds only tasks that were spawned
before it, so that every set of tasks has a youngest one, which no other keeps.

### The pools (`ObjectPool_proofs`)

| Theorem | Statement |
|---|---|
| `PoolInvariant` | `Spec => []PoolInv` |
| `PoolTypeCorrect` | `Spec => []TypeOK` |
| `ListsCorrect` | `Spec => []ListsExact` |
| `CountersCorrect` | `Spec => []CountersExact` |
| `NoDanglingCorrect` | `Spec => []NoDangling` |
| `StackCorrect` | `Spec => []StackRight` |
| `ImplementsAllocator` | `Spec => AllocatorSpec` |

A list through `next` is described by an enumeration of its entries
(`IsList`): the lemmas take its first entry, put one or a whole other list in front, and
make one of a new layer.  `PoolInv` says that each free list and each cache
is a list of the entries that `place` puts there, that `used` and the counts of
the caches are cardinalities, that totals are exact unless the thread is between its
two critical sections, that an entry is somewhere exactly while its layer
exists, that the existing layers are those up to `current_layer`, and that one
object lives in an entry that is in use and none in any other (`ObjectsInv`).
Most of the work is in `PutBackKeeps`: entries come back, from a user or from
a cache, and layers are removed on the word of `used`.  The removable layers are the
top ones (`TopInterval`), so that the divisions of `current_size` are exact, by the
law of exponents.  The refinement needs to know of a step only whether an entry
without an object is given one, an object goes, or memory without objects goes
(`GivesOne`, `TakesOne`, `MayShrink`).  That no second object gets into an entry
rests on the lists: the head of a free list is free (`FreeInv`), so it has none
(`ObjectsInv`).

An entry keeps the numbers of its pool and of its layer in 16 bits each, which is what
`PoolAssumption` asks of `NThreads` and `NLayers` (`MaxIndex`).  The sizes are powers, written as the recursive function `Power`, because the provers know
nothing of `^`.

### The queues (`Skiplist_proofs`)

| Theorem | Statement |
|---|---|
| `SkipInvariant` | `Spec => []SkipInv` |
| `OffsetsCorrect` | `Spec => []OffsetsExact` |
| `NodesCorrect` | `Spec => []EveryNodeFull` |
| `CandidatesCorrect` | `Spec => []CandidateRight` |
| `FairShareCorrect` | `Spec => FairShare` |
| `ImplementsQueues` | `Spec => QueuesSpec` |

For every `SkipGap` of at least 2 and any number of layers, queues and tasks.  Each level has a shape:
the rest of a group whose first node has left, a number of whole groups, and
less than a group (`Shape`).  The nodes that the level above should have, and
the candidate, are functions of the shape (`ShapeGroups`, `ShapeCandidate`),
and `Good` says that every level fits the one above.  What an operation does to
a level depends on what it did to its neighbour, so each is followed through the
levels, upwards for a new node (`AddTailFits`) and a lost head (`DropHeadFits`),
downwards for a cut (`CutFits`).  `dequeue_half` cuts the nodes after the one that
the chain of `lastDownNode` ends at, and the offsets by its arithmetic;
`GiveAwayStep` shows both to be the end of the same group, whatever the
alignment.  At the level that is split the three outcomes for the single node
above it (there is none, it is preserved, it is dissolved) are separate lemmas
(`TopFitsAlone`, `TopFitsSingle`).  `SkipInv` extends this to all lists, those that a thief has
in hand included, and adds that a task is in one of them and that a thief
with something in hand has an empty queue (`ThiefIsEmpty`): without it
`replace()` would lose tasks.

`FairShare` is proved with a margin.  A share `g` of `n` nodes with
`3g >= n + 1` and `4g <= 3n - 1` stands, one level down, for a share for which the
same holds, whatever the rests at both ends are (`FairBelow`); half of two or
more nodes is such a share.  Two nodes at a level above the tasks stand
for `2 * SkipGap` tasks, so that of fewer it is exactly half.

The refinement of `TaskQueues` rests on both: the nodes of level 0 after each
operation are given by the lemmas about `Good` (`EnqueuedGood`, `HalvedQueue`, ...),
how many of them a thief gets by the fair share, that the two parts make up what
the queue had by `DividedParts`, and that a new task is nowhere by `Numbers`.  Since
the mapping names no layer, the theorem says that nothing of the index can be
observed in the order of the tasks, for any gap and any number of layers.

### Induction

The library's principles of induction take an operator, which the provers cannot
instantiate.  `NatSetInduction`, derived here from the well-foundedness of `<`,
is about a set instead.  With it the recursive functions of the models (`Power`,
`Chain`, `AnyNode`, and those inside `Enqueued`, `Dequeued`, `GiveAway` and
`LastGiven`) are shown to exist at every argument, which gives their recursive
equations.

### Model-checked only

Liveness, because fairness with `ENABLED` is out of the proof system's reach:
`WaitReturns` and the fair half of the refinement of `Join` (`TaskGroup`),
`EveryTaskEnds` and `ShutsDown` (`Mediator`), `RegisteredReturns` (`Latch`),
`ShrinksBack` and `DaemonEnds` (`ObjectPool`).  The proofs do not cover the
violations either: the four runs that expect one show a behaviour.

## Not modelled

* `Config`: its constructor reads an environment variable, before there are
  threads, and then tests a local variable that it never assigned
  (`Config.hh:35`).  The models take the numbers as constants.
* `operator new` of what does not come from a pool, and its failure.
* A release of a pointer to a pool it is not from (`NotHere` and
  `HereButNotMultiple` of `ObjectPool.hh`), which the API does not allow, and
  more than 32 layers, which the `MUST_TRUE` of line 205 excludes.
* The width of `current_size`, an `int` that doubles with each layer (an overflow
  needs 2^31 tasks at a time).
* `add()` of a latch that is in use already, and `debug_run`, which one test
  calls.
* The end of a latch: in `Latch` it is there for ever.  That `informDone` may be
  in a group whose waiter has returned, as it is at the end of `down()`, is shown
  of a `TaskGroup` (`task_group_scoped`).
* An exception that takes a group off the stack before its members have
  reported: in the runs with a task that throws, groups outlive the frame.
* Starvation in an MPI queue: the liveness run of the threads has one MPI task.
* Boost's context switch and the stack it switches to; `fixedsize_stack`.
* `MUST_TRUE`, which is compiled out (`debug.hh:37`).  Where it states
  something about the protocol it is a property (`ReplaceEmpty`,
  `OffsetsExact`, `CandidateRight`), and where it binds the user a guard (the
  bound of `Registe`).
* Reordering of the plain accesses to `terminatable`: a write is seen at some
  later step.
* The width of `int` offsets in `Skiplist` (an overflow needs 2^31 tasks on
  one queue).

## Plan

1. `TaskGroup` with `Join`, its runs and its invariant proved. *Done.*
2. `Mediator` on top of it, with its runs. *Done.*
3. `Latch`, `Skiplist`. *Done.*
4. `ObjectPool` with `Allocator`; `RefPtr`, `TaskLife`. *Done.*
5. Proofs: `TaskGroup` and `Join`, `RefPtr`, `Latch`, `Mediator` with its
   refinement, `OnePlace` and `ShutdownComplete`. *Done.*
6. Proofs: `TaskLife`, `ObjectPool` with its refinement of `Allocator`,
   `Skiplist`. *Done.*
7. `TaskQueues` between `Mediator` and `Skiplist`, implemented by both, with
   proofs. *Done.*
8. Still worth having: `add()` of a latch in use and the end of its life; two MPI
   tasks in a liveness run.
