-------------------------------- MODULE Latch --------------------------------
(***************************************************************************)
(* CountDownLatch of co_user.hh: a counter, and a task group that waits    *)
(* for a fake task.  The down() that brings the counter to 0 marks the     *)
(* fake task as terminated and calls informDone() on the group, without    *)
(* the task's mut_ and whether or not anybody has registered.              *)
(*                                                                         *)
(* registe(), wait() and informDone() are those of TaskGroup.cc, for this  *)
(* one group; the coroutine of the waiter is put away and woken up as in   *)
(* module TaskGroup.                                                       *)
(***************************************************************************)
EXTENDS Integers, FiniteSets

CONSTANTS
    Downers,    \* the tasks that call down(), once each
    Waiters,    \* the tasks that call wait()
    NULL        \* nullptr

ASSUME LatchAssumption ==
    /\ IsFiniteSet(Downers) /\ Downers # {}
    /\ IsFiniteSet(Waiters)
    /\ Downers \cap Waiters = {}
    /\ NULL \notin Downers \cup Waiters

VARIABLES
    counter,        \* counter__
    fini,           \* fakeTask__->isFini()
    cur_groups,     \* fakeTask__->cur_groups
    blocking_count, \* fakeGroup__.blocking_count
    blockedTask,    \* fakeGroup__.blockedTask
    pc              \* where each task is

vars == <<counter, fini, cur_groups, blocking_count, blockedTask, pc>>

(***************************************************************************)
(* start, last (counter is 0, line 80 comes), inform (line 81 comes),      *)
(* deciding and unlocking (in informDone(), holding mut_), done;           *)
(* start, registered, switched, parked, queued, returned.                  *)
(***************************************************************************)
DownerControl == {"start", "last", "inform", "deciding", "unlocking", "done"}
WaiterControl == {"start", "registered", "switched", "parked", "queued", "returned"}

GroupLocked == \E d \in Downers : pc[d] \in {"deciding", "unlocking"}

Goto(t, place) == pc' = [pc EXCEPT ![t] = place]

(* The latch after add(n), n being the number of its users. *)
Init ==
    /\ counter = Cardinality(Downers)
    /\ fini = FALSE
    /\ cur_groups = 0
    /\ blocking_count = 0
    /\ blockedTask = NULL
    /\ pc = [t \in Downers \cup Waiters |-> "start"]

----------------------------------------------------------------------------
(* down() *)

(* Slip: the counter is compared before it is decremented. *)
DownPost(d) ==
    /\ pc[d] = "start"
    /\ counter' = counter - 1
    /\ Goto(d, IF counter' <= 1 THEN "last" ELSE "done")
    /\ UNCHANGED <<fini, cur_groups, blocking_count, blockedTask>>

Down(d) ==
    /\ pc[d] = "start"
    /\ counter' = counter - 1
    /\ Goto(d, IF counter' = 0 THEN "last" ELSE "done")
    /\ UNCHANGED <<fini, cur_groups, blocking_count, blockedTask>>

SetTerminated(d) ==
    /\ pc[d] = "last"
    /\ fini' = TRUE
    /\ Goto(d, "inform")
    /\ UNCHANGED <<counter, cur_groups, blocking_count, blockedTask>>

Inform(d) ==
    /\ pc[d] = "inform"
    /\ ~GroupLocked
    /\ blocking_count' = blocking_count - 1
    /\ Goto(d, IF blocking_count' = 0 THEN "deciding" ELSE "unlocking")
    /\ UNCHANGED <<counter, fini, cur_groups, blockedTask>>

(* Slip: blockedTask is copied, not moved. *)
ReleaseCopies(d) ==
    /\ pc[d] = "deciding"
    /\ pc' = [t \in DOMAIN pc |-> IF t = d THEN "unlocking"
                                  ELSE IF t = blockedTask THEN "queued" ELSE pc[t]]
    /\ UNCHANGED <<counter, fini, cur_groups, blocking_count, blockedTask>>

Release(d) ==
    /\ pc[d] = "deciding"
    /\ blockedTask' = NULL
    /\ pc' = [t \in DOMAIN pc |-> IF t = d THEN "unlocking"
                                  ELSE IF t = blockedTask THEN "queued" ELSE pc[t]]
    /\ UNCHANGED <<counter, fini, cur_groups, blocking_count>>

Unlock(d) ==
    /\ pc[d] = "unlocking"
    /\ Goto(d, "done")
    /\ UNCHANGED <<counter, fini, cur_groups, blocking_count, blockedTask>>

----------------------------------------------------------------------------
(* wait() *)

(* Slip: the group of the fake task is recorded whatever its state. *)
RegisteFini(w) ==
    /\ pc[w] = "start"
    /\ cur_groups' = cur_groups + 1
    /\ blocking_count' = blocking_count + (IF fini THEN 0 ELSE 1)
    /\ Goto(w, "registered")
    /\ UNCHANGED <<counter, fini, blockedTask>>

(* addToGroup() under the fake task's mut_, which down() does not take. *)
Registe(w) ==
    /\ pc[w] = "start"
    /\ cur_groups' = IF fini THEN cur_groups ELSE cur_groups + 1
    /\ blocking_count' = IF fini THEN blocking_count ELSE blocking_count + 1
    /\ Goto(w, "registered")
    /\ UNCHANGED <<counter, fini, blockedTask>>

Wait(w) ==
    /\ pc[w] = "registered"
    /\ Goto(w, IF blocking_count # 0 THEN "switched" ELSE "returned")
    /\ UNCHANGED <<counter, fini, cur_groups, blocking_count, blockedTask>>

HandleGroupWait(w) ==
    /\ pc[w] = "switched"
    /\ ~GroupLocked
    /\ IF blocking_count = 0
       THEN Goto(w, "queued") /\ UNCHANGED blockedTask
       ELSE Goto(w, "parked") /\ blockedTask' = w
    /\ UNCHANGED <<counter, fini, cur_groups, blocking_count>>

Dispatch(w) ==
    /\ pc[w] = "queued"
    /\ Goto(w, "returned")
    /\ UNCHANGED <<counter, fini, cur_groups, blocking_count, blockedTask>>

(* Nobody has anything left to do: the waiters returned or sleep for good. *)
Quiet ==
    /\ \A d \in Downers : pc[d] = "done"
    /\ \A w \in Waiters : pc[w] \in {"parked", "returned"}
    /\ UNCHANGED vars

DownerStep(d) == Down(d) \/ SetTerminated(d) \/ Inform(d) \/ Release(d) \/ Unlock(d)

WaiterStep(w) == Registe(w) \/ Wait(w) \/ HandleGroupWait(w) \/ Dispatch(w)

Next == (\E d \in Downers : DownerStep(d)) \/ (\E w \in Waiters : WaiterStep(w)) \/ Quiet

Spec == Init /\ [][Next]_vars

(* Every user of the latch goes on to the end of its call. *)
FairSpec ==
    /\ Spec
    /\ \A d \in Downers : WF_vars(DownerStep(d))
    /\ \A w \in Waiters : WF_vars(WaiterStep(w))

----------------------------------------------------------------------------

(* Type invariant. *)
TypeOK ==
    /\ counter \in 0 .. Cardinality(Downers)
    /\ fini \in BOOLEAN
    /\ cur_groups \in 0 .. Cardinality(Waiters)
    /\ blocking_count \in -1 .. Cardinality(Waiters)
    /\ blockedTask \in Waiters \cup {NULL}
    /\ pc \in [Downers \cup Waiters -> DownerControl \cup WaiterControl]
    /\ Cardinality({d \in Downers : pc[d] \in DownerControl \ {"start", "done"}}) <= 1

(***************************************************************************)
(* wait() returns only after every down() (co_user.hh:84): each user of    *)
(* the latch has decremented the counter.                                  *)
(***************************************************************************)
LatchSafe ==
    \A w \in Waiters : pc[w] \in {"queued", "returned"} =>
        \A d \in Downers : pc[d] # "start"

(***************************************************************************)
(* A wait() that registers before the last down() sets the fake task's     *)
(* state returns.                                                          *)
(***************************************************************************)
RegisteredReturns == cur_groups = Cardinality(Waiters) ~> \A w \in Waiters : pc[w] = "returned"

(***************************************************************************)
(* What every use of a latch takes for granted (user_test.cc:94, 123, 455, *)
(* skynet_yami.cc:41): once all down() calls are made, wait() returns.     *)
(***************************************************************************)
WaitReturns == \A w \in Waiters : pc[w] = "registered" ~> pc[w] = "returned"

(***************************************************************************)
(* The down() that may still be in informDone() when wait() returns        *)
(* (co_user.hh:81) does not wake the waiter a second time: it is out of    *)
(* blockedTask as soon as it is in a queue.                                *)
(***************************************************************************)
WokenOnce == \A w \in Waiters : pc[w] \in {"queued", "returned"} => blockedTask # w
=============================================================================
