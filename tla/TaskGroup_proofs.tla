--------------------------- MODULE TaskGroup_proofs ---------------------------
(***************************************************************************)
(* Proofs about module TaskGroup, for every set of tasks and groups.       *)
(*                                                                         *)
(* The invariant IInv is a conjunction; one lemma per conjunct shows that  *)
(* a step keeps it, with one step of the proof per action.  The three      *)
(* actions that meet at a group's mut_ (Decrement, Release and             *)
(* HandleGroupWait) are first restated pointwise, together with what the   *)
(* invariant says of the state they start from.                            *)
(***************************************************************************)
EXTENDS TaskGroup, TLAPS, FiniteSetTheorems

(***************************************************************************)
(* Every step keeps the types: terminate() informs no more groups than     *)
(* there are in a task's array, and Task::addToGroup, called within the    *)
(* bound of its MUST_TRUE, does not write past it.                         *)
(***************************************************************************)
LEMMA TypeStep == TypeOK /\ [Next]_vars => TypeOK'
<1> SUFFICES ASSUME TypeOK, [Next]_vars PROVE TypeOK'
  OBVIOUS
<1> USE ClientAssumption DEF TypeOK, TaskState, Control, Phase
<1>1. ASSUME NEW p \in Tasks, NEW t \in Tasks, Go(p, t) PROVE TypeOK'
  BY <1>1 DEF Go
<1>2. ASSUME NEW p \in Tasks, NEW t \in Tasks, NEW g \in Groups, Registe(p, t, g) PROVE TypeOK'
  BY <1>2 DEF Registe
<1>3. ASSUME NEW p \in Tasks, NEW g \in Groups, Wait(p, g) PROVE TypeOK'
  <2>1. CASE blocking_count[g] = 0
    BY <1>3, <2>1 DEF Wait
  <2>2. CASE blocking_count[g] # 0
    <3>1. /\ state' = [state EXCEPT ![p] = "GroupWait"]
          /\ blockedBy' = [blockedBy EXCEPT ![p] = g]
          /\ pc' = [pc EXCEPT ![p] = "switched"]
          /\ phase' = [phase EXCEPT ![g] = "waiting"]
          /\ UNCHANGED <<inMpi, groups, informed, blocking_count, blockedTask>>
      BY <1>3, <2>2 DEF Wait
    <3>2. QED
      BY <3>1
  <2>3. QED
    BY <2>1, <2>2
<1>4. ASSUME NEW p \in Tasks, Yield(p) PROVE TypeOK'
  BY <1>4 DEF Yield
<1>5. ASSUME NEW p \in Tasks, MpiCall(p) PROVE TypeOK'
  BY <1>5 DEF MpiCall
<1>6. ASSUME NEW p \in Tasks, MpiComplete(p) PROVE TypeOK'
  BY <1>6 DEF MpiComplete
<1>7. ASSUME NEW p \in Tasks, MpiPending(p) PROVE TypeOK'
  BY <1>7 DEF MpiPending
<1>8. ASSUME NEW p \in Tasks, MpiError(p) PROVE TypeOK'
  BY <1>8 DEF MpiError
<1>9. ASSUME NEW p \in Tasks, Finish(p) PROVE TypeOK'
  BY <1>9 DEF Finish
<1>10. ASSUME NEW p \in Tasks, Decrement(p) PROVE TypeOK'
  <2> DEFINE g == groups[p][informed[p] + 1]
  <2>1. g \in Groups /\ informed[p] + 1 <= Len(groups[p])
    <3>1. groups[p] \in Seq(Groups) /\ informed[p] \in Nat /\ informed[p] < Len(groups[p])
      BY <1>10 DEF Decrement
    <3>2. QED
      BY <3>1
  <2>2. /\ blocking_count' = [blocking_count EXCEPT ![g] = @ - 1]
        /\ pc' = [pc EXCEPT ![p] = IF blocking_count[g] = 1 THEN "deciding" ELSE "unlocking"]
        /\ informed' = [informed EXCEPT ![p] = @ + 1]
        /\ UNCHANGED <<state, inMpi, groups, blockedBy, blockedTask, phase>>
    BY <1>10 DEF Decrement
  <2> HIDE DEF g
  <2>3. pc' \in [Tasks -> Control] /\ blocking_count' \in [Groups -> Int]
    BY <2>1, <2>2, SMTT(60)
  <2>4. informed' \in [Tasks -> Nat] /\ \A t \in Tasks : informed'[t] <= Len(groups[t])
    <3>1. \A t \in Tasks : /\ informed[t] \in Nat /\ Len(groups[t]) \in Nat
                           /\ informed[t] <= Len(groups[t])
      OBVIOUS
    <3>2. informed' = [t \in Tasks |-> IF t = p THEN informed[t] + 1 ELSE informed[t]]
      BY <2>2
    <3> HIDE DEF TypeOK, TaskState, Control, Phase
    <3>3. QED
      BY <2>1, <3>1, <3>2
  <2>5. QED
    BY <2>2, <2>3, <2>4
<1>11. ASSUME NEW p \in Tasks, Release(p) PROVE TypeOK'
  BY <1>11 DEF Release
<1>12. ASSUME NEW p \in Tasks, Unlock(p) PROVE TypeOK'
  BY <1>12 DEF Unlock
<1>13. ASSUME NEW p \in Tasks, Terminated(p) PROVE TypeOK'
  BY <1>13 DEF Terminated
<1>14. ASSUME NEW p \in Tasks, HandleRunnable(p) PROVE TypeOK'
  BY <1>14 DEF HandleRunnable
<1>15. ASSUME NEW p \in Tasks, HandleMpi(p) PROVE TypeOK'
  BY <1>15 DEF HandleMpi
<1>16. ASSUME NEW p \in Tasks, HandleGroupWait(p) PROVE TypeOK'
  <2>1. CASE blocking_count[blockedBy[p]] = 0
    <3>1. /\ state' = [state EXCEPT ![p] = "Runnable"]
          /\ pc' = [pc EXCEPT ![p] = "queued"]
          /\ UNCHANGED <<inMpi, groups, informed, blockedBy, blocking_count,
                         blockedTask, phase>>
      BY <1>16, <2>1 DEF HandleGroupWait
    <3>2. QED
      BY <3>1
  <2>2. CASE blocking_count[blockedBy[p]] # 0
    <3>1. /\ blockedTask' = [blockedTask EXCEPT ![blockedBy[p]] = p]
          /\ pc' = [pc EXCEPT ![p] = "parked"]
          /\ UNCHANGED <<state, inMpi, groups, informed, blockedBy, blocking_count, phase>>
      BY <1>16, <2>2 DEF HandleGroupWait
    <3>2. QED
      BY <3>1
  <2>3. QED
    BY <2>1, <2>2
<1>17. ASSUME NEW p \in Tasks, Dispatch(p) PROVE TypeOK'
  BY <1>17 DEF Dispatch
<1>18. ASSUME NEW p \in Tasks, Poll(p) PROVE TypeOK'
  BY <1>18 DEF Poll
<1>19. CASE UNCHANGED vars
  BY <1>19 DEF vars
<1>20. QED
  BY <1>1, <1>2, <1>3, <1>4, <1>5, <1>6, <1>7, <1>8, <1>9, <1>10, <1>11, <1>12, <1>13, <1>14, <1>15, <1>16, <1>17, <1>18, <1>19 DEF Next, Client, System, AllDone

(* The registrations that informDone() has to answer are finitely many. *)
LEMMA PendingFinite ==
  ASSUME TypeOK, NEW g
  PROVE  IsFiniteSet(Pending(g))
<1>1. IsFiniteSet(Tasks \X (1..MaxGroups))
  <2>1. IsFiniteSet(1..MaxGroups)
    BY FS_Interval, ClientAssumption
  <2>2. QED
    BY <2>1, FS_Product, ClientAssumption
<1>2. Pending(g) \subseteq Tasks \X (1..MaxGroups)
  BY DEF Pending
<1>3. QED
  BY <1>1, <1>2, FS_Subset

(***************************************************************************)
(* The three steps that meet at a group's mut_, with all that the          *)
(* invariant says of the state they start from.                            *)
(***************************************************************************)
DecrementOf(p, g) ==
    /\ pc[p] = "terminating"
    /\ informed[p] + 1 <= Len(groups[p])
    /\ g = groups[p][informed[p] + 1]
    /\ ~GroupLocked(g)
    /\ blocking_count[g] > 0
    /\ \A h \in Groups :
        blocking_count'[h] = IF h = g THEN blocking_count[h] - 1 ELSE blocking_count[h]
    /\ pc'[p] = IF blocking_count[g] = 1 THEN "deciding" ELSE "unlocking"
    /\ \A t \in Tasks : t # p => pc'[t] = pc[t]
    /\ \A t \in Tasks : informed'[t] = IF t = p THEN informed[t] + 1 ELSE informed[t]
    /\ UNCHANGED <<state, inMpi, groups, blockedBy, blockedTask, phase>>

(* informDone() under the lock: nobody is parked, *)
ReleaseNobody(p, g) ==
    /\ Informing(p, g) /\ pc[p] = "deciding"
    /\ blockedTask[g] = NULL
    /\ pc' = [pc EXCEPT ![p] = "unlocking"]
    /\ UNCHANGED <<state, inMpi, groups, informed, blockedBy, blocking_count, phase, blockedTask>>

(* or the parked owner becomes runnable. *)
ReleaseTask(p, g, w) ==
    /\ Informing(p, g) /\ pc[p] = "deciding"
    /\ w # p /\ blockedTask[g] = w
    /\ pc[w] = "parked" /\ state[w] = "GroupWait" /\ blockedBy[w] = g
    /\ Owner[g] = w /\ phase[g] = "waiting" /\ blocking_count[g] = 0
    /\ \A h \in Groups : blockedTask'[h] = IF h = g THEN NULL ELSE blockedTask[h]
    /\ \A t \in Tasks : /\ pc'[t] = IF t = p THEN "unlocking"
                                  ELSE IF t = w THEN "queued" ELSE pc[t]
                      /\ state'[t] = IF t = w THEN "Runnable" ELSE state[t]
    /\ UNCHANGED <<inMpi, groups, informed, blockedBy, blocking_count, phase>>

(* The worker handles a task that has switched out to wait: *)
AboutToWait(p, g) ==
    /\ g = blockedBy[p] /\ Owner[g] = p /\ phase[g] = "waiting"
    /\ pc[p] = "switched" /\ state[p] = "GroupWait"
    /\ ~GroupLocked(g)
    /\ UNCHANGED <<inMpi, groups, informed, blockedBy, blocking_count, phase>>

(* it is queued again when the count is 0 already, *)
Requeued(p, g) ==
    /\ AboutToWait(p, g)
    /\ blocking_count[g] = 0
    /\ \A t \in Tasks : /\ state'[t] = IF t = p THEN "Runnable" ELSE state[t]
                      /\ pc'[t] = IF t = p THEN "queued" ELSE pc[t]
    /\ blockedTask' = blockedTask

(* and parked otherwise. *)
Parked(p, g) ==
    /\ AboutToWait(p, g)
    /\ blocking_count[g] > 0
    /\ state' = state
    /\ \A t \in Tasks : pc'[t] = IF t = p THEN "parked" ELSE pc[t]
    /\ \A h \in Groups : blockedTask'[h] = IF h = g THEN p ELSE blockedTask[h]

(***************************************************************************)
(* informDone() decrements the count of a group that was counting the      *)
(* registration: the count was positive before.                            *)
(***************************************************************************)
LEMMA DecrementFacts ==
  ASSUME IInv, NEW p \in Tasks, Decrement(p)
  PROVE  \E g \in Groups : DecrementOf(p, g) /\ <<p, informed[p] + 1>> \in Pending(g)
<1> DEFINE i == informed[p] + 1
           g == groups[p][i]
<1>1. /\ groups[p] \in Seq(Groups) /\ informed[p] \in Nat
      /\ i <= Len(groups[p]) /\ Len(groups[p]) < MaxGroups
  BY DEF Decrement, IInv, TypeOK
<1>2. g \in Groups /\ i \in 1..MaxGroups /\ i \in (informed[p] + 1)..Len(groups[p])
  BY <1>1, ClientAssumption
<1>3. <<p, i>> \in Pending(g)
  BY <1>2 DEF Pending
<1>4. blocking_count[g] > 0
  <2>1. IsFiniteSet(Pending(g))
    BY PendingFinite DEF IInv
  <2>2. Cardinality(Pending(g)) \in Nat /\ Cardinality(Pending(g)) # 0
    BY <1>3, <2>1, FS_CardinalityType, FS_EmptySet
  <2>3. QED
    BY <1>2, <2>2 DEF IInv, CountExact
<1>5. /\ pc[p] = "terminating" /\ ~GroupLocked(g)
      /\ blocking_count' = [blocking_count EXCEPT ![g] = @ - 1]
      /\ pc' = [pc EXCEPT ![p] = IF blocking_count[g] = 1 THEN "deciding" ELSE "unlocking"]
      /\ informed' = [informed EXCEPT ![p] = @ + 1]
      /\ UNCHANGED <<state, inMpi, groups, blockedBy, blockedTask, phase>>
  BY DEF Decrement
<1>6. /\ pc \in [Tasks -> Control] /\ informed \in [Tasks -> Nat]
      /\ blocking_count \in [Groups -> Int]
  BY DEF IInv, TypeOK
<1> HIDE DEF g
<1>7. DecrementOf(p, g)
  <2>1. g = groups[p][informed[p] + 1]
    BY DEF g
  <2>2. \A h \in Groups :
          blocking_count'[h] = IF h = g THEN blocking_count[h] - 1 ELSE blocking_count[h]
    BY <1>2, <1>5, <1>6
  <2>3. /\ pc'[p] = IF blocking_count[g] = 1 THEN "deciding" ELSE "unlocking"
        /\ \A t \in Tasks : t # p => pc'[t] = pc[t]
    BY <1>5, <1>6
  <2>4. \A t \in Tasks : informed'[t] = IF t = p THEN informed[t] + 1 ELSE informed[t]
    BY <1>5, <1>6
  <2>5. QED
    BY <1>1, <1>4, <1>5, <2>1, <2>2, <2>3, <2>4 DEF DecrementOf
<1>8. QED
  BY <1>2, <1>3, <1>7

(***************************************************************************)
(* What informDone() finds in blockedTask when the count is 0: nothing, or *)
(* the parked owner of the group, never a task that runs.                  *)
(***************************************************************************)
LEMMA ReleaseFacts ==
  ASSUME IInv, NEW p \in Tasks, Release(p)
  PROVE  \E g \in Groups : ReleaseNobody(p, g) \/ \E w \in Tasks : ReleaseTask(p, g, w)
<1> DEFINE g == groups[p][informed[p]]
<1>1. g \in Groups
  <2>1. /\ groups[p] \in Seq(Groups) /\ informed[p] \in Nat /\ informed[p] > 0
        /\ informed[p] <= Len(groups[p])
    BY DEF IInv, TypeOK, EndInv, Release
  <2>2. QED
    BY <2>1
<1>2. pc[p] = "deciding" /\ Informing(p, g)
  BY DEF Release, Informing
<1>3. UNCHANGED <<inMpi, groups, informed, blockedBy, blocking_count, phase>>
  BY DEF Release
<1>4. CASE blockedTask[g] = NULL
  <2>1. /\ blockedTask' = [blockedTask EXCEPT ![g] = NULL]
        /\ pc' = [pc EXCEPT ![p] = "unlocking"]
        /\ UNCHANGED state
    BY <1>4 DEF Release
  <2>2. blockedTask' = blockedTask
    BY <1>1, <1>4, <2>1 DEF IInv, TypeOK
  <2>3. QED
    BY <1>1, <1>2, <1>3, <1>4, <2>1, <2>2 DEF ReleaseNobody
<1>5. CASE blockedTask[g] # NULL
  <2> DEFINE w == blockedTask[g]
  <2>1. w \in Tasks
    BY <1>1, <1>5 DEF IInv, TypeOK
  <2>2. pc[w] = "parked" /\ blockedBy[w] = g /\ blocking_count[g] = 0
    BY <1>1, <1>2, <1>5 DEF IInv, BlockedInv
  <2>3. state[w] = "GroupWait"
    BY <2>1, <2>2 DEF IInv, NoLostWakeup
  <2>4. Owner[g] = w /\ phase[g] = "waiting"
    BY <2>1, <2>2, <2>3 DEF IInv, ParkInv
  <2>5. w # p
    BY <1>2, <2>2
  <2>6. /\ blockedTask' = [blockedTask EXCEPT ![g] = NULL]
        /\ pc' = [pc EXCEPT ![p] = "unlocking", ![w] = "queued"]
        /\ state' = [state EXCEPT ![w] = "Runnable"]
    BY <1>5 DEF Release
  <2>7. /\ pc \in [Tasks -> Control] /\ state \in [Tasks -> TaskState]
        /\ blockedTask \in [Groups -> Tasks \cup {NULL}]
    BY DEF IInv, TypeOK
  <2>8. ReleaseTask(p, g, w)
    BY <1>1, <1>2, <1>3, <2>1, <2>2, <2>3, <2>4, <2>5, <2>6, <2>7 DEF ReleaseTask
  <2>9. QED
    BY <1>1, <2>1, <2>8
<1>6. QED
  BY <1>4, <1>5

(***************************************************************************)
(* What resumeIfNothingToWait() finds: a task that waits for a group of    *)
(* its own, whose count is 0 or positive, never negative.                  *)
(***************************************************************************)
LEMMA HandleGroupWaitFacts ==
  ASSUME IInv, NEW p \in Tasks, HandleGroupWait(p)
  PROVE  \E g \in Groups : Requeued(p, g) \/ Parked(p, g)
<1> DEFINE g == blockedBy[p]
<1>1. g \in Groups /\ Owner[g] = p /\ phase[g] = "waiting"
  BY DEF HandleGroupWait, IInv, ParkInv
<1>2. blocking_count[g] \in Nat
  <2>1. Cardinality(Pending(g)) \in Nat
    BY PendingFinite, FS_CardinalityType DEF IInv
  <2>2. QED
    BY <1>1, <2>1 DEF IInv, CountExact
<1>3. /\ pc \in [Tasks -> Control] /\ state \in [Tasks -> TaskState]
      /\ blockedTask \in [Groups -> Tasks \cup {NULL}]
  BY DEF IInv, TypeOK
<1>4. AboutToWait(p, g)
  BY <1>1 DEF HandleGroupWait, AboutToWait
<1>5. CASE blocking_count[g] = 0
  BY <1>1, <1>3, <1>4, <1>5 DEF HandleGroupWait, Requeued
<1>6. CASE blocking_count[g] # 0
  BY <1>1, <1>2, <1>3, <1>4, <1>6 DEF HandleGroupWait, Parked
<1>7. QED
  BY <1>1, <1>5, <1>6

(* Only terminate() makes a task Terminated and informs its groups. *)
LEMMA EndStep == IInv /\ [Next]_vars => EndInv'
<1> SUFFICES ASSUME IInv, [Next]_vars PROVE EndInv'
  OBVIOUS
<1> USE ClientAssumption
<1>0. TypeOK /\ EndInv /\ informed \in [Tasks -> Nat]
  BY DEF IInv, TypeOK
<1>1. ASSUME NEW p \in Tasks, NEW t \in Tasks, Go(p, t) PROVE EndInv'
  BY <1>0, <1>1 DEF Go, EndInv, TypeOK, Active
<1>2. ASSUME NEW p \in Tasks, NEW t \in Tasks, NEW g \in Groups, Registe(p, t, g) PROVE EndInv'
  BY <1>0, <1>2 DEF Registe, EndInv, TypeOK, Active
<1>3. ASSUME NEW p \in Tasks, NEW g \in Groups, Wait(p, g) PROVE EndInv'
  <2>1. /\ pc[p] = "running" /\ informed' = informed
        /\ \/ UNCHANGED <<state, pc>>
           \/ /\ state' = [state EXCEPT ![p] = "GroupWait"]
              /\ pc' = [pc EXCEPT ![p] = "switched"]
    BY <1>3 DEF Wait, Active
  <2>2. state[p] # "Terminated" /\ informed[p] = 0
    BY <1>0, <2>1 DEF EndInv
  <2>3. QED
    BY <1>0, <2>1, <2>2 DEF EndInv, TypeOK
<1>4. ASSUME NEW p \in Tasks, Yield(p) PROVE EndInv'
  BY <1>0, <1>4 DEF Yield, EndInv, TypeOK, Active
<1>5. ASSUME NEW p \in Tasks, MpiCall(p) PROVE EndInv'
  BY <1>0, <1>5 DEF MpiCall, EndInv, TypeOK, Active
<1>6. ASSUME NEW p \in Tasks, MpiComplete(p) PROVE EndInv'
  BY <1>0, <1>6 DEF MpiComplete, EndInv, TypeOK, Active
<1>7. ASSUME NEW p \in Tasks, MpiPending(p) PROVE EndInv'
  BY <1>0, <1>7 DEF MpiPending, EndInv, TypeOK, Active
<1>8. ASSUME NEW p \in Tasks, MpiError(p) PROVE EndInv'
  BY <1>0, <1>8 DEF MpiError, EndInv, TypeOK, Active
<1>9. ASSUME NEW p \in Tasks, Finish(p) PROVE EndInv'
  BY <1>0, <1>9 DEF Finish, EndInv, TypeOK, Active
<1>10. ASSUME NEW p \in Tasks, Decrement(p) PROVE EndInv'
  <2>1. PICK g \in Groups : DecrementOf(p, g)
    BY <1>10, DecrementFacts
  <2>2. QED
    BY <1>0, <2>1 DEF DecrementOf, EndInv, Informing
<1>11. ASSUME NEW p \in Tasks, Release(p) PROVE EndInv'
  <2>1. PICK g \in Groups : ReleaseNobody(p, g) \/ \E w \in Tasks : ReleaseTask(p, g, w)
    BY <1>11, ReleaseFacts
  <2>2. CASE ReleaseNobody(p, g)
    BY <1>0, <2>2 DEF ReleaseNobody, EndInv, Informing
  <2>3. ASSUME NEW w \in Tasks, ReleaseTask(p, g, w) PROVE EndInv'
    BY <1>0, <2>3 DEF ReleaseTask, EndInv, Informing
  <2>4. QED
    BY <2>1, <2>2, <2>3
<1>12. ASSUME NEW p \in Tasks, Unlock(p) PROVE EndInv'
  BY <1>0, <1>12 DEF Unlock, EndInv, TypeOK, Active
<1>13. ASSUME NEW p \in Tasks, Terminated(p) PROVE EndInv'
  BY <1>0, <1>13 DEF Terminated, EndInv, TypeOK, Active
<1>14. ASSUME NEW p \in Tasks, HandleRunnable(p) PROVE EndInv'
  BY <1>0, <1>14 DEF HandleRunnable, EndInv, TypeOK, Active
<1>15. ASSUME NEW p \in Tasks, HandleMpi(p) PROVE EndInv'
  BY <1>0, <1>15 DEF HandleMpi, EndInv, TypeOK, Active
<1>16. ASSUME NEW p \in Tasks, HandleGroupWait(p) PROVE EndInv'
  <2>1. PICK g \in Groups : Requeued(p, g) \/ Parked(p, g)
    BY <1>16, HandleGroupWaitFacts
  <2>2. CASE Requeued(p, g)
    BY <1>0, <2>2 DEF Requeued, AboutToWait, EndInv, Informing
  <2>3. CASE Parked(p, g)
    BY <1>0, <2>3 DEF Parked, AboutToWait, EndInv, Informing
  <2>4. QED
    BY <2>1, <2>2, <2>3
<1>17. ASSUME NEW p \in Tasks, Dispatch(p) PROVE EndInv'
  BY <1>0, <1>17 DEF Dispatch, EndInv, TypeOK, Active
<1>18. ASSUME NEW p \in Tasks, Poll(p) PROVE EndInv'
  BY <1>0, <1>18 DEF Poll, EndInv, TypeOK, Active
<1>19. CASE UNCHANGED vars
  BY <1>0, <1>19 DEF vars, EndInv, TypeOK, Active
<1>20. QED
  BY <1>1, <1>2, <1>3, <1>4, <1>5, <1>6, <1>7, <1>8, <1>9, <1>10, <1>11, <1>12, <1>13, <1>14, <1>15, <1>16, <1>17, <1>18, <1>19 DEF Next, Client, System, AllDone

(***************************************************************************)
(* While the owner is in TaskGroup::wait() nobody loses track of it, and   *)
(* the count of a group that is joined stays 0.                            *)
(***************************************************************************)
LEMMA WaitStep == IInv /\ [Next]_vars => WaitInv'
<1> SUFFICES ASSUME IInv, [Next]_vars PROVE WaitInv'
  OBVIOUS
<1> USE ClientAssumption
<1>0. TypeOK /\ CountExact /\ WaitInv
  BY DEF IInv
<1>1. ASSUME NEW p \in Tasks, NEW t \in Tasks, Go(p, t) PROVE WaitInv'
  BY <1>0, <1>1 DEF Go, WaitInv, TypeOK, Active
<1>2. ASSUME NEW p \in Tasks, NEW t \in Tasks, NEW g \in Groups, Registe(p, t, g) PROVE WaitInv'
  BY <1>0, <1>2 DEF Registe, WaitInv, TypeOK, Active
<1>3. ASSUME NEW p \in Tasks, NEW g \in Groups, Wait(p, g) PROVE WaitInv'
  BY <1>0, <1>3 DEF Wait, WaitInv, TypeOK, Active
<1>4. ASSUME NEW p \in Tasks, Yield(p) PROVE WaitInv'
  BY <1>0, <1>4 DEF Yield, WaitInv, TypeOK, Active
<1>5. ASSUME NEW p \in Tasks, MpiCall(p) PROVE WaitInv'
  BY <1>0, <1>5 DEF MpiCall, WaitInv, TypeOK, Active
<1>6. ASSUME NEW p \in Tasks, MpiComplete(p) PROVE WaitInv'
  BY <1>0, <1>6 DEF MpiComplete, WaitInv, TypeOK, Active
<1>7. ASSUME NEW p \in Tasks, MpiPending(p) PROVE WaitInv'
  BY <1>0, <1>7 DEF MpiPending, WaitInv, TypeOK, Active
<1>8. ASSUME NEW p \in Tasks, MpiError(p) PROVE WaitInv'
  BY <1>0, <1>8 DEF MpiError, WaitInv, TypeOK, Active
<1>9. ASSUME NEW p \in Tasks, Finish(p) PROVE WaitInv'
  BY <1>0, <1>9 DEF Finish, WaitInv, TypeOK, Active
<1>10. ASSUME NEW p \in Tasks, Decrement(p) PROVE WaitInv'
  <2>1. PICK g \in Groups : DecrementOf(p, g)
    BY <1>10, DecrementFacts
  <2>2. QED
    BY <1>0, <2>1 DEF DecrementOf, WaitInv
<1>11. ASSUME NEW p \in Tasks, Release(p) PROVE WaitInv'
  <2>1. PICK g \in Groups : ReleaseNobody(p, g) \/ \E w \in Tasks : ReleaseTask(p, g, w)
    BY <1>11, ReleaseFacts
  <2>2. CASE ReleaseNobody(p, g)
    BY <1>0, <2>2 DEF ReleaseNobody, WaitInv
  <2>3. ASSUME NEW w \in Tasks, ReleaseTask(p, g, w) PROVE WaitInv'
    BY <1>0, <2>3 DEF ReleaseTask, WaitInv
  <2>4. QED
    BY <2>1, <2>2, <2>3
<1>12. ASSUME NEW p \in Tasks, Unlock(p) PROVE WaitInv'
  BY <1>0, <1>12 DEF Unlock, WaitInv, TypeOK, Active
<1>13. ASSUME NEW p \in Tasks, Terminated(p) PROVE WaitInv'
  BY <1>0, <1>13 DEF Terminated, WaitInv, TypeOK, Active
<1>14. ASSUME NEW p \in Tasks, HandleRunnable(p) PROVE WaitInv'
  BY <1>0, <1>14 DEF HandleRunnable, WaitInv, TypeOK, Active
<1>15. ASSUME NEW p \in Tasks, HandleMpi(p) PROVE WaitInv'
  BY <1>0, <1>15 DEF HandleMpi, WaitInv, TypeOK, Active
<1>16. ASSUME NEW p \in Tasks, HandleGroupWait(p) PROVE WaitInv'
  <2>1. PICK g \in Groups : Requeued(p, g) \/ Parked(p, g)
    BY <1>16, HandleGroupWaitFacts
  <2>2. CASE Requeued(p, g)
    BY <1>0, <2>2 DEF Requeued, AboutToWait, WaitInv
  <2>3. CASE Parked(p, g)
    BY <1>0, <2>3 DEF Parked, AboutToWait, WaitInv
  <2>4. QED
    BY <2>1, <2>2, <2>3
<1>17. ASSUME NEW p \in Tasks, Dispatch(p) PROVE WaitInv'
  BY <1>0, <1>17 DEF Dispatch, WaitInv, TypeOK, Active
<1>18. ASSUME NEW p \in Tasks, Poll(p) PROVE WaitInv'
  BY <1>0, <1>18 DEF Poll, WaitInv, TypeOK, Active
<1>19. CASE UNCHANGED vars
  BY <1>0, <1>19 DEF vars, WaitInv, TypeOK, Active
<1>20. QED
  BY <1>1, <1>2, <1>3, <1>4, <1>5, <1>6, <1>7, <1>8, <1>9, <1>10, <1>11, <1>12, <1>13, <1>14, <1>15, <1>16, <1>17, <1>18, <1>19 DEF Next, Client, System, AllDone

(* A task in state GroupWait is held by the group it owns and waits for. *)
LEMMA ParkStep == IInv /\ [Next]_vars => ParkInv'
<1> SUFFICES ASSUME IInv, [Next]_vars PROVE ParkInv'
  OBVIOUS
<1> USE ClientAssumption
<1>0. TypeOK /\ EndInv /\ WaitInv /\ ParkInv
  BY DEF IInv
<1>1. ASSUME NEW p \in Tasks, NEW t \in Tasks, Go(p, t) PROVE ParkInv'
  BY <1>0, <1>1 DEF Go, ParkInv, TypeOK, Active, EndInv, WaitInv
<1>2. ASSUME NEW p \in Tasks, NEW t \in Tasks, NEW g \in Groups, Registe(p, t, g) PROVE ParkInv'
  BY <1>0, <1>2 DEF Registe, ParkInv, TypeOK, Active, EndInv, WaitInv
<1>3. ASSUME NEW p \in Tasks, NEW g \in Groups, Wait(p, g) PROVE ParkInv'
  BY <1>0, <1>3 DEF Wait, ParkInv, TypeOK, Active, EndInv, WaitInv
<1>4. ASSUME NEW p \in Tasks, Yield(p) PROVE ParkInv'
  BY <1>0, <1>4 DEF Yield, ParkInv, TypeOK, Active, EndInv, WaitInv
<1>5. ASSUME NEW p \in Tasks, MpiCall(p) PROVE ParkInv'
  BY <1>0, <1>5 DEF MpiCall, ParkInv, TypeOK, Active, EndInv, WaitInv
<1>6. ASSUME NEW p \in Tasks, MpiComplete(p) PROVE ParkInv'
  BY <1>0, <1>6 DEF MpiComplete, ParkInv, TypeOK, Active, EndInv, WaitInv
<1>7. ASSUME NEW p \in Tasks, MpiPending(p) PROVE ParkInv'
  BY <1>0, <1>7 DEF MpiPending, ParkInv, TypeOK, Active, EndInv, WaitInv
<1>8. ASSUME NEW p \in Tasks, MpiError(p) PROVE ParkInv'
  BY <1>0, <1>8 DEF MpiError, ParkInv, TypeOK, Active, EndInv, WaitInv
<1>9. ASSUME NEW p \in Tasks, Finish(p) PROVE ParkInv'
  BY <1>0, <1>9 DEF Finish, ParkInv, TypeOK, Active, EndInv, WaitInv
<1>10. ASSUME NEW p \in Tasks, Decrement(p) PROVE ParkInv'
  <2>1. PICK g \in Groups : DecrementOf(p, g)
    BY <1>10, DecrementFacts
  <2>2. QED
    BY <1>0, <2>1 DEF DecrementOf, ParkInv
<1>11. ASSUME NEW p \in Tasks, Release(p) PROVE ParkInv'
  <2>1. PICK g \in Groups : ReleaseNobody(p, g) \/ \E w \in Tasks : ReleaseTask(p, g, w)
    BY <1>11, ReleaseFacts
  <2>2. CASE ReleaseNobody(p, g)
    BY <1>0, <2>2 DEF ReleaseNobody, ParkInv
  <2>3. ASSUME NEW w \in Tasks, ReleaseTask(p, g, w) PROVE ParkInv'
    BY <1>0, <2>3 DEF ReleaseTask, ParkInv
  <2>4. QED
    BY <2>1, <2>2, <2>3
<1>12. ASSUME NEW p \in Tasks, Unlock(p) PROVE ParkInv'
  BY <1>0, <1>12 DEF Unlock, ParkInv, TypeOK, Active, EndInv, WaitInv
<1>13. ASSUME NEW p \in Tasks, Terminated(p) PROVE ParkInv'
  BY <1>0, <1>13 DEF Terminated, ParkInv, TypeOK, Active, EndInv, WaitInv
<1>14. ASSUME NEW p \in Tasks, HandleRunnable(p) PROVE ParkInv'
  BY <1>0, <1>14 DEF HandleRunnable, ParkInv, TypeOK, Active, EndInv, WaitInv
<1>15. ASSUME NEW p \in Tasks, HandleMpi(p) PROVE ParkInv'
  BY <1>0, <1>15 DEF HandleMpi, ParkInv, TypeOK, Active, EndInv, WaitInv
<1>16. ASSUME NEW p \in Tasks, HandleGroupWait(p) PROVE ParkInv'
  <2>1. PICK g \in Groups : Requeued(p, g) \/ Parked(p, g)
    BY <1>16, HandleGroupWaitFacts
  <2>2. CASE Requeued(p, g)
    BY <1>0, <2>2 DEF Requeued, AboutToWait, ParkInv
  <2>3. CASE Parked(p, g)
    BY <1>0, <2>3 DEF Parked, AboutToWait, ParkInv
  <2>4. QED
    BY <2>1, <2>2, <2>3
<1>17. ASSUME NEW p \in Tasks, Dispatch(p) PROVE ParkInv'
  BY <1>0, <1>17 DEF Dispatch, ParkInv, TypeOK, Active, EndInv, WaitInv
<1>18. ASSUME NEW p \in Tasks, Poll(p) PROVE ParkInv'
  BY <1>0, <1>18 DEF Poll, ParkInv, TypeOK, Active, EndInv, WaitInv
<1>19. CASE UNCHANGED vars
  BY <1>0, <1>19 DEF vars, ParkInv, TypeOK, Active, EndInv, WaitInv
<1>20. QED
  BY <1>1, <1>2, <1>3, <1>4, <1>5, <1>6, <1>7, <1>8, <1>9, <1>10, <1>11, <1>12, <1>13, <1>14, <1>15, <1>16, <1>17, <1>18, <1>19 DEF Next, Client, System, AllDone

(***************************************************************************)
(* TaskGroup::blockedTask holds the parked owner or nothing, and whoever   *)
(* is about to take it out saw a count of 0 that is still 0.               *)
(***************************************************************************)
LEMMA BlockedStep == IInv /\ [Next]_vars => BlockedInv'
<1> SUFFICES ASSUME IInv, [Next]_vars PROVE BlockedInv'
  OBVIOUS
<1> USE ClientAssumption
<1>0. TypeOK /\ EndInv /\ WaitInv /\ ParkInv /\ BlockedInv /\ NoLostWakeup /\ informed \in [Tasks -> Nat]
  BY DEF IInv, TypeOK
<1>1. ASSUME NEW p \in Tasks, NEW t \in Tasks, Go(p, t) PROVE BlockedInv'
  BY <1>0, <1>1 DEF Go, BlockedInv, ParkInv, NoLostWakeup, Informing, GroupLocked, TypeOK, Active, EndInv, WaitInv
<1>2. ASSUME NEW p \in Tasks, NEW t \in Tasks, NEW g \in Groups, Registe(p, t, g) PROVE BlockedInv'
  <2>1. \A h \in Groups : blockedTask[h] # NULL => phase[h] = "waiting"
    BY <1>0 DEF TypeOK, BlockedInv, NoLostWakeup, ParkInv
  <2>2. \A h \in Groups : phase[h] = "waiting" => blocking_count'[h] = blocking_count[h]
    BY <1>0, <1>2 DEF Registe, TypeOK
  <2>3. \A q \in Tasks, h \in Groups : Informing(q, h)' => Informing(q, h)
    BY <1>0, <1>2 DEF Registe, TypeOK, Informing, TaskLocked
  <2>4. UNCHANGED <<pc, blockedBy, blockedTask>>
    BY <1>2 DEF Registe
  <2>5. QED
    BY <1>0, <2>1, <2>2, <2>3, <2>4 DEF BlockedInv
<1>3. ASSUME NEW p \in Tasks, NEW g \in Groups, Wait(p, g) PROVE BlockedInv'
  <2>1. UNCHANGED <<groups, informed, blocking_count, blockedTask>>
    BY <1>3 DEF Wait
  <2>2. \A q \in Tasks : pc[q] = "parked" =>
          pc'[q] = "parked" /\ state'[q] = state[q] /\ blockedBy'[q] = blockedBy[q]
    BY <1>0, <1>3 DEF Wait, Active, TypeOK
  <2>3. \A q \in Tasks : pc'[q] # pc[q] => pc[q] = "running" /\ pc'[q] = "switched"
    BY <1>0, <1>3 DEF Wait, Active, TypeOK
  <2>4. \A q \in Tasks, h \in Groups :
          (pc[q] = "deciding" /\ Informing(q, h)) <=> (pc'[q] = "deciding" /\ Informing(q, h)')
    BY <2>1, <2>3 DEF Informing
  <2>5. \A h \in Groups : blockedTask[h] # NULL => blockedTask[h] \in Tasks
    BY <1>0 DEF TypeOK
  <2>6. QED
    BY <1>0, <2>1, <2>2, <2>4, <2>5 DEF BlockedInv
<1>4. ASSUME NEW p \in Tasks, Yield(p) PROVE BlockedInv'
  BY <1>0, <1>4 DEF Yield, BlockedInv, ParkInv, NoLostWakeup, Informing, GroupLocked, TypeOK, Active, EndInv, WaitInv
<1>5. ASSUME NEW p \in Tasks, MpiCall(p) PROVE BlockedInv'
  BY <1>0, <1>5 DEF MpiCall, BlockedInv, ParkInv, NoLostWakeup, Informing, GroupLocked, TypeOK, Active, EndInv, WaitInv
<1>6. ASSUME NEW p \in Tasks, MpiComplete(p) PROVE BlockedInv'
  BY <1>0, <1>6 DEF MpiComplete, BlockedInv, ParkInv, NoLostWakeup, Informing, GroupLocked, TypeOK, Active, EndInv, WaitInv
<1>7. ASSUME NEW p \in Tasks, MpiPending(p) PROVE BlockedInv'
  BY <1>0, <1>7 DEF MpiPending, BlockedInv, ParkInv, NoLostWakeup, Informing, GroupLocked, TypeOK, Active, EndInv, WaitInv
<1>8. ASSUME NEW p \in Tasks, MpiError(p) PROVE BlockedInv'
  BY <1>0, <1>8 DEF MpiError, BlockedInv, ParkInv, NoLostWakeup, Informing, GroupLocked, TypeOK, Active, EndInv, WaitInv
<1>9. ASSUME NEW p \in Tasks, Finish(p) PROVE BlockedInv'
  BY <1>0, <1>9 DEF Finish, BlockedInv, ParkInv, NoLostWakeup, Informing, GroupLocked, TypeOK, Active, EndInv, WaitInv
<1>10. ASSUME NEW p \in Tasks, Decrement(p) PROVE BlockedInv'
  <2>1. PICK g \in Groups : DecrementOf(p, g)
    BY <1>10, DecrementFacts
  <2>2. \A q \in Tasks : pc[q] = "parked" => pc'[q] = "parked"
    BY <2>1 DEF DecrementOf
  <2>3. ASSUME NEW q \in Tasks, NEW h \in Groups, pc'[q] = "deciding", Informing(q, h)'
        PROVE  \/ h = g /\ blocking_count'[g] = 0
               \/ h # g /\ pc[q] = "deciding" /\ Informing(q, h)
    <3>1. CASE q = p
      BY <1>0, <2>1, <2>3, <3>1 DEF DecrementOf, Informing
    <3>2. CASE q # p
      BY <2>1, <2>3, <3>2 DEF DecrementOf, Informing, GroupLocked
    <3>3. QED
      BY <3>1, <3>2
  <2>4. \A h \in Groups : h # g => blocking_count'[h] = blocking_count[h]
    BY <2>1 DEF DecrementOf
  <2>5. UNCHANGED <<blockedBy, blockedTask>>
    BY <2>1 DEF DecrementOf
  <2>6. \A h \in Groups : blockedTask[h] # NULL => blockedTask[h] \in Tasks
    BY <1>0 DEF TypeOK
  <2>7. QED
    BY <1>0, <2>2, <2>3, <2>4, <2>5, <2>6 DEF BlockedInv
<1>11. ASSUME NEW p \in Tasks, Release(p) PROVE BlockedInv'
  <2>1. PICK g \in Groups : ReleaseNobody(p, g) \/ \E w \in Tasks : ReleaseTask(p, g, w)
    BY <1>11, ReleaseFacts
  <2>2. CASE ReleaseNobody(p, g)
    BY <1>0, <2>2 DEF ReleaseNobody, BlockedInv, Informing, GroupLocked
  <2>3. ASSUME NEW w \in Tasks, ReleaseTask(p, g, w) PROVE BlockedInv'
    <3>1. \A h \in Groups : blockedTask'[h] # NULL =>
            blockedTask'[h] = blockedTask[h] /\ blockedTask[h] \in Tasks \ {p, w}
      BY <1>0, <2>3 DEF ReleaseTask, BlockedInv, TypeOK
    <3>2. \A q \in Tasks : /\ pc'[q] = "deciding" => pc[q] = "deciding"
                           /\ q \notin {p, w} => pc'[q] = pc[q]
      BY <2>3 DEF ReleaseTask
    <3>3. UNCHANGED <<groups, informed, blockedBy, blocking_count>>
      BY <2>3 DEF ReleaseTask
    <3>4. QED
      BY <1>0, <3>1, <3>2, <3>3 DEF BlockedInv, Informing
  <2>4. QED
    BY <2>1, <2>2, <2>3
<1>12. ASSUME NEW p \in Tasks, Unlock(p) PROVE BlockedInv'
  BY <1>0, <1>12 DEF Unlock, BlockedInv, ParkInv, NoLostWakeup, Informing, GroupLocked, TypeOK, Active, EndInv, WaitInv
<1>13. ASSUME NEW p \in Tasks, Terminated(p) PROVE BlockedInv'
  BY <1>0, <1>13 DEF Terminated, BlockedInv, ParkInv, NoLostWakeup, Informing, GroupLocked, TypeOK, Active, EndInv, WaitInv
<1>14. ASSUME NEW p \in Tasks, HandleRunnable(p) PROVE BlockedInv'
  BY <1>0, <1>14 DEF HandleRunnable, BlockedInv, ParkInv, NoLostWakeup, Informing, GroupLocked, TypeOK, Active, EndInv, WaitInv
<1>15. ASSUME NEW p \in Tasks, HandleMpi(p) PROVE BlockedInv'
  BY <1>0, <1>15 DEF HandleMpi, BlockedInv, ParkInv, NoLostWakeup, Informing, GroupLocked, TypeOK, Active, EndInv, WaitInv
<1>16. ASSUME NEW p \in Tasks, HandleGroupWait(p) PROVE BlockedInv'
  <2>1. PICK g \in Groups : Requeued(p, g) \/ Parked(p, g)
    BY <1>16, HandleGroupWaitFacts
  <2>2. CASE Requeued(p, g)
    <3>1. UNCHANGED <<groups, informed, blockedBy, blocking_count, blockedTask>>
      BY <2>2 DEF Requeued, AboutToWait
    <3>2. \A q \in Tasks : pc'[q] = IF q = p THEN "queued" ELSE pc[q]
      BY <2>2 DEF Requeued
    <3>3. \A h \in Groups : blockedTask[h] # NULL => blockedTask[h] \in Tasks \ {p}
      BY <1>0, <2>2 DEF TypeOK, BlockedInv, Requeued, AboutToWait
    <3>4. QED
      BY <1>0, <3>1, <3>2, <3>3 DEF BlockedInv, Informing
  <2>3. CASE Parked(p, g)
    <3>1. UNCHANGED <<groups, informed, blockedBy, blocking_count>>
      BY <2>3 DEF Parked, AboutToWait
    <3>2. \A q \in Tasks : pc'[q] = IF q = p THEN "parked" ELSE pc[q]
      BY <2>3 DEF Parked
    <3>3. blockedTask'[g] = p /\ blockedBy[p] = g /\ ~GroupLocked(g)
      BY <2>3 DEF Parked, AboutToWait
    <3>4. \A h \in Groups : h # g => blockedTask'[h] = blockedTask[h]
      BY <2>3 DEF Parked
    <3>5. \A h \in Groups : blockedTask[h] # NULL => blockedTask[h] \in Tasks \ {p}
      BY <1>0, <2>3 DEF TypeOK, BlockedInv, Parked, AboutToWait
    <3>6. \A q \in Tasks : pc'[q] = "deciding" => pc[q] = "deciding" /\ ~Informing(q, g)
      BY <3>2, <3>3 DEF GroupLocked
    <3>7. QED
      BY <1>0, <3>1, <3>2, <3>3, <3>4, <3>5, <3>6 DEF BlockedInv, Informing
  <2>4. QED
    BY <2>1, <2>2, <2>3
<1>17. ASSUME NEW p \in Tasks, Dispatch(p) PROVE BlockedInv'
  BY <1>0, <1>17 DEF Dispatch, BlockedInv, ParkInv, NoLostWakeup, Informing, GroupLocked, TypeOK, Active, EndInv, WaitInv
<1>18. ASSUME NEW p \in Tasks, Poll(p) PROVE BlockedInv'
  BY <1>0, <1>18 DEF Poll, BlockedInv, ParkInv, NoLostWakeup, Informing, GroupLocked, TypeOK, Active, EndInv, WaitInv
<1>19. CASE UNCHANGED vars
  BY <1>0, <1>19 DEF vars, BlockedInv, ParkInv, NoLostWakeup, Informing, GroupLocked, TypeOK, Active, EndInv, WaitInv
<1>20. QED
  BY <1>1, <1>2, <1>3, <1>4, <1>5, <1>6, <1>7, <1>8, <1>9, <1>10, <1>11, <1>12, <1>13, <1>14, <1>15, <1>16, <1>17, <1>18, <1>19 DEF Next, Client, System, AllDone

(***************************************************************************)
(* No step loses a wakeup: the second check of resumeIfNothingToWait() and *)
(* the decrement of informDone() exclude one another by the group's mut_.  *)
(***************************************************************************)
LEMMA LostStep == IInv /\ [Next]_vars => NoLostWakeup'
<1> SUFFICES ASSUME IInv, [Next]_vars PROVE NoLostWakeup'
  OBVIOUS
<1> USE ClientAssumption
<1>0. TypeOK /\ EndInv /\ CountExact /\ WaitInv /\ ParkInv /\ BlockedInv /\ NoLostWakeup
  BY DEF IInv
<1>1. ASSUME NEW p \in Tasks, NEW t \in Tasks, Go(p, t) PROVE NoLostWakeup'
  BY <1>0, <1>1 DEF Go, NoLostWakeup, Informing, GroupLocked, TypeOK, Active, EndInv, WaitInv, ParkInv
<1>2. ASSUME NEW p \in Tasks, NEW t \in Tasks, NEW g \in Groups, Registe(p, t, g) PROVE NoLostWakeup'
  BY <1>0, <1>2 DEF Registe, NoLostWakeup, Informing, GroupLocked, TypeOK, Active, EndInv, WaitInv, ParkInv
<1>3. ASSUME NEW p \in Tasks, NEW g \in Groups, Wait(p, g) PROVE NoLostWakeup'
  <2>1. UNCHANGED <<groups, informed, blocking_count, blockedTask>>
    BY <1>3 DEF Wait
  <2>2. \A q \in Tasks : pc[q] = "parked" =>
          pc'[q] = "parked" /\ state'[q] = state[q] /\ blockedBy'[q] = blockedBy[q]
    BY <1>0, <1>3 DEF Wait, Active, TypeOK
  <2>3. \A q \in Tasks : pc'[q] # pc[q] => pc[q] = "running" /\ pc'[q] = "switched"
    BY <1>0, <1>3 DEF Wait, Active, TypeOK
  <2>4. \A q \in Tasks, h \in Groups :
          (pc[q] = "deciding" /\ Informing(q, h)) <=> (pc'[q] = "deciding" /\ Informing(q, h)')
    BY <2>1, <2>3 DEF Informing
  <2>5. \A q \in Tasks : pc'[q] = "parked" => pc[q] = "parked"
    BY <2>3
  <2>6. QED
    BY <1>0, <2>1, <2>2, <2>4, <2>5 DEF NoLostWakeup
<1>4. ASSUME NEW p \in Tasks, Yield(p) PROVE NoLostWakeup'
  BY <1>0, <1>4 DEF Yield, NoLostWakeup, Informing, GroupLocked, TypeOK, Active, EndInv, WaitInv, ParkInv
<1>5. ASSUME NEW p \in Tasks, MpiCall(p) PROVE NoLostWakeup'
  BY <1>0, <1>5 DEF MpiCall, NoLostWakeup, Informing, GroupLocked, TypeOK, Active, EndInv, WaitInv, ParkInv
<1>6. ASSUME NEW p \in Tasks, MpiComplete(p) PROVE NoLostWakeup'
  BY <1>0, <1>6 DEF MpiComplete, NoLostWakeup, Informing, GroupLocked, TypeOK, Active, EndInv, WaitInv, ParkInv
<1>7. ASSUME NEW p \in Tasks, MpiPending(p) PROVE NoLostWakeup'
  BY <1>0, <1>7 DEF MpiPending, NoLostWakeup, Informing, GroupLocked, TypeOK, Active, EndInv, WaitInv, ParkInv
<1>8. ASSUME NEW p \in Tasks, MpiError(p) PROVE NoLostWakeup'
  BY <1>0, <1>8 DEF MpiError, NoLostWakeup, Informing, GroupLocked, TypeOK, Active, EndInv, WaitInv, ParkInv
<1>9. ASSUME NEW p \in Tasks, Finish(p) PROVE NoLostWakeup'
  BY <1>0, <1>9 DEF Finish, NoLostWakeup, Informing, GroupLocked, TypeOK, Active, EndInv, WaitInv, ParkInv
<1>10. ASSUME NEW p \in Tasks, Decrement(p) PROVE NoLostWakeup'
  <2>1. PICK g \in Groups : DecrementOf(p, g)
    BY <1>10, DecrementFacts
  <2>2. \A q \in Tasks : q # p => pc'[q] = pc[q] /\ informed'[q] = informed[q]
    BY <2>1 DEF DecrementOf
  <2>3. pc[p] = "terminating" /\ pc'[p] \in {"deciding", "unlocking"}
    BY <2>1 DEF DecrementOf
  <2>4. \/ blocking_count'[g] > 0
        \/ pc'[p] = "deciding" /\ Informing(p, g)'
    <3>1. blocking_count[g] \in Int /\ informed[p] \in Nat
      BY <1>0 DEF TypeOK
    <3>2. blocking_count'[g] = blocking_count[g] - 1 /\ informed'[p] = informed[p] + 1
      BY <2>1 DEF DecrementOf
    <3>3. blocking_count[g] = 1 => pc'[p] = "deciding" /\ Informing(p, g)'
      BY <2>1, <3>2 DEF DecrementOf, Informing
    <3>4. QED
      BY <2>1, <3>1, <3>2, <3>3 DEF DecrementOf
  <2>5. \A h \in Groups : h # g => blocking_count'[h] = blocking_count[h]
    BY <2>1 DEF DecrementOf
  <2>6. UNCHANGED <<state, groups, blockedBy, blockedTask>>
    BY <2>1 DEF DecrementOf
  <2>7. QED
    BY <1>0, <2>2, <2>3, <2>4, <2>5, <2>6 DEF NoLostWakeup, Informing
<1>11. ASSUME NEW p \in Tasks, Release(p) PROVE NoLostWakeup'
  <2>1. PICK g \in Groups : ReleaseNobody(p, g) \/ \E w \in Tasks : ReleaseTask(p, g, w)
    BY <1>11, ReleaseFacts
  <2>2. CASE ReleaseNobody(p, g)
    BY <1>0, <2>2 DEF ReleaseNobody, NoLostWakeup, BlockedInv, Informing, GroupLocked
  <2>3. ASSUME NEW w \in Tasks, ReleaseTask(p, g, w) PROVE NoLostWakeup'
    BY <1>0, <2>3 DEF ReleaseTask, NoLostWakeup, BlockedInv, Informing, GroupLocked
  <2>4. QED
    BY <2>1, <2>2, <2>3
<1>12. ASSUME NEW p \in Tasks, Unlock(p) PROVE NoLostWakeup'
  BY <1>0, <1>12 DEF Unlock, NoLostWakeup, Informing, GroupLocked, TypeOK, Active, EndInv, WaitInv, ParkInv
<1>13. ASSUME NEW p \in Tasks, Terminated(p) PROVE NoLostWakeup'
  BY <1>0, <1>13 DEF Terminated, NoLostWakeup, Informing, GroupLocked, TypeOK, Active, EndInv, WaitInv, ParkInv
<1>14. ASSUME NEW p \in Tasks, HandleRunnable(p) PROVE NoLostWakeup'
  BY <1>0, <1>14 DEF HandleRunnable, NoLostWakeup, Informing, GroupLocked, TypeOK, Active, EndInv, WaitInv, ParkInv
<1>15. ASSUME NEW p \in Tasks, HandleMpi(p) PROVE NoLostWakeup'
  BY <1>0, <1>15 DEF HandleMpi, NoLostWakeup, Informing, GroupLocked, TypeOK, Active, EndInv, WaitInv, ParkInv
<1>16. ASSUME NEW p \in Tasks, HandleGroupWait(p) PROVE NoLostWakeup'
  <2>1. PICK g \in Groups : Requeued(p, g) \/ Parked(p, g)
    BY <1>16, HandleGroupWaitFacts
  <2>2. CASE Requeued(p, g)
    BY <1>0, <2>2 DEF Requeued, AboutToWait, NoLostWakeup, Informing, GroupLocked
  <2>3. CASE Parked(p, g)
    <3>1. UNCHANGED <<state, groups, informed, blockedBy, blocking_count>>
      BY <2>3 DEF Parked, AboutToWait
    <3>2. \A q \in Tasks : pc'[q] = IF q = p THEN "parked" ELSE pc[q]
      BY <2>3 DEF Parked
    <3>3. blockedTask'[g] = p /\ blockedBy[p] = g /\ state[p] = "GroupWait" /\ blocking_count[g] > 0
      BY <2>3 DEF Parked, AboutToWait
    <3>4. \A h \in Groups : h # g => blockedTask'[h] = blockedTask[h]
      BY <2>3 DEF Parked
    <3>5. \A q \in Tasks : pc[q] = "parked" => Owner[blockedBy[q]] = q
      BY <1>0 DEF NoLostWakeup, ParkInv
    <3>6. pc[p] = "switched" /\ Owner[g] = p
      BY <2>3 DEF Parked, AboutToWait
    <3>7. QED
      BY <1>0, <3>1, <3>2, <3>3, <3>4, <3>5, <3>6 DEF NoLostWakeup, Informing
  <2>4. QED
    BY <2>1, <2>2, <2>3
<1>17. ASSUME NEW p \in Tasks, Dispatch(p) PROVE NoLostWakeup'
  BY <1>0, <1>17 DEF Dispatch, NoLostWakeup, Informing, GroupLocked, TypeOK, Active, EndInv, WaitInv, ParkInv
<1>18. ASSUME NEW p \in Tasks, Poll(p) PROVE NoLostWakeup'
  BY <1>0, <1>18 DEF Poll, NoLostWakeup, Informing, GroupLocked, TypeOK, Active, EndInv, WaitInv, ParkInv
<1>19. CASE UNCHANGED vars
  BY <1>0, <1>19 DEF vars, NoLostWakeup, Informing, GroupLocked, TypeOK, Active, EndInv, WaitInv, ParkInv
<1>20. QED
  BY <1>1, <1>2, <1>3, <1>4, <1>5, <1>6, <1>7, <1>8, <1>9, <1>10, <1>11, <1>12, <1>13, <1>14, <1>15, <1>16, <1>17, <1>18, <1>19 DEF Next, Client, System, AllDone

(***************************************************************************)
(* The count stays exact: addToGroup adds a registration to the count and  *)
(* to the pending ones, informDone() takes it from both, and no other step *)
(* touches either.                                                         *)
(***************************************************************************)
LEMMA CountStep == IInv /\ [Next]_vars => CountExact'
<1> SUFFICES ASSUME IInv, [Next]_vars PROVE CountExact'
  OBVIOUS
<1>0. /\ TypeOK /\ CountExact
      /\ groups \in [Tasks -> Seq(Groups)] /\ informed \in [Tasks -> Nat]
      /\ blocking_count \in [Groups -> Int]
      /\ \A t \in Tasks : Len(groups[t]) < MaxGroups /\ informed[t] <= Len(groups[t])
      /\ \A g \in Groups : IsFiniteSet(Pending(g))
  BY PendingFinite DEF IInv, TypeOK
<1>1. ASSUME NEW p \in Tasks, NEW t \in Tasks, NEW g \in Groups, Registe(p, t, g)
      PROVE  CountExact'
  <2> DEFINE r == <<t, Len(groups[t]) + 1>>
  <2>1. /\ groups' = [groups EXCEPT ![t] = Append(@, g)]
        /\ blocking_count' = [blocking_count EXCEPT ![g] = @ + 1]
        /\ informed' = informed /\ Len(groups[t]) + 1 < MaxGroups
    BY <1>1 DEF Registe
  <2>2. Pending(g)' = Pending(g) \cup {r}
    <3>1. /\ groups'[t] = Append(groups[t], g)
          /\ \A u \in Tasks : u # t => groups'[u] = groups[u]
      BY <1>0, <2>1
    <3>2. /\ Len(groups'[t]) = Len(groups[t]) + 1
          /\ groups'[t][Len(groups[t]) + 1] = g
          /\ \A i \in 1..Len(groups[t]) : groups'[t][i] = groups[t][i]
      BY <1>0, <3>1
    <3>3. r \in Pending(g)'
      BY <1>0, <2>1, <3>2, ClientAssumption DEF Pending
    <3>4. ASSUME NEW u \in Tasks, NEW i \in 1..MaxGroups, <<u, i>> # r
          PROVE  <<u, i>> \in Pending(g)' <=> <<u, i>> \in Pending(g)
      <4>1. CASE u = t
        BY <1>0, <2>1, <3>2, <3>4, <4>1 DEF Pending
      <4>2. CASE u # t
        BY <2>1, <3>1, <4>2 DEF Pending
      <4>3. QED
        BY <4>1, <4>2
    <3>5. QED
      BY <3>3, <3>4 DEF Pending
  <2>3. r \notin Pending(g)
    BY <1>0 DEF Pending
  <2>4. ASSUME NEW h \in Groups, h # g PROVE Pending(h)' = Pending(h)
    BY <1>0, <2>1, <2>4, SMTT(60) DEF Pending
  <2>5. Cardinality(Pending(g))' = Cardinality(Pending(g)) + 1
    <3> HIDE DEF r
    <3>1. Cardinality(Pending(g) \cup {r}) = Cardinality(Pending(g)) + 1
      BY <1>0, <2>3, FS_AddElement
    <3>2. QED
      BY <2>2, <3>1
  <2>6. QED
    BY <1>0, <2>1, <2>4, <2>5 DEF CountExact
<1>2. ASSUME NEW p \in Tasks, Decrement(p) PROVE CountExact'
  <2>1. PICK g \in Groups : DecrementOf(p, g) /\ <<p, informed[p] + 1>> \in Pending(g)
    BY <1>2, DecrementFacts
  <2> DEFINE r == <<p, informed[p] + 1>>
  <2>2. /\ groups' = groups /\ g = groups[p][informed[p] + 1]
        /\ \A t \in Tasks : informed'[t] = IF t = p THEN informed[t] + 1 ELSE informed[t]
        /\ \A h \in Groups :
            blocking_count'[h] = IF h = g THEN blocking_count[h] - 1 ELSE blocking_count[h]
    BY <2>1 DEF DecrementOf
  <2>3. Pending(g)' = Pending(g) \ {r}
    BY <1>0, <2>2, SMTT(60) DEF Pending
  <2>4. ASSUME NEW h \in Groups, h # g PROVE Pending(h)' = Pending(h)
    <3>1. ASSUME NEW u \in Tasks, NEW i \in 1..MaxGroups
          PROVE  <<u, i>> \in Pending(h)' <=> <<u, i>> \in Pending(h)
      <4>1. CASE u = p
        <5>1. /\ informed'[p] = informed[p] + 1 /\ informed[p] \in Nat
              /\ groups' = groups /\ Len(groups[p]) \in Nat
          BY <1>0, <2>2
        <5>2. CASE i = informed[p] + 1
          BY <2>2, <2>4, <4>1, <5>1, <5>2 DEF Pending
        <5>3. CASE i # informed[p] + 1
          BY <4>1, <5>1, <5>3 DEF Pending
        <5>4. QED
          BY <5>2, <5>3
      <4>2. CASE u # p
        BY <2>2, <4>2 DEF Pending
      <4>3. QED
        BY <4>1, <4>2
    <3>2. QED
      BY <3>1 DEF Pending
  <2>5. Cardinality(Pending(g))' = Cardinality(Pending(g)) - 1
    <3> HIDE DEF r
    <3>1. Cardinality(Pending(g) \ {r}) = Cardinality(Pending(g)) - 1
      <4>1. r \in Pending(g)
        BY <2>1 DEF r
      <4>2. QED
        BY <1>0, <4>1, FS_RemoveElement
    <3>2. QED
      BY <2>3, <3>1
  <2>6. QED
    BY <1>0, <2>2, <2>4, <2>5 DEF CountExact
<1>3. CASE UNCHANGED <<groups, informed, blocking_count>>
  BY <1>0, <1>3 DEF CountExact, Pending
<1>4. QED
  BY <1>1, <1>2, <1>3 DEF Next, Client, System, AllDone, vars, Go, Wait, Yield,
     MpiCall, MpiComplete, MpiPending, MpiError, Finish, Release, Unlock, Terminated,
     HandleRunnable, HandleMpi, HandleGroupWait, Dispatch, Poll

(* The invariant holds when main() has spawned the root task. *)
LEMMA InitIInv == Init => IInv
<1> SUFFICES ASSUME Init PROVE IInv
  OBVIOUS
<1> USE ClientAssumption
<1>1. TypeOK
  BY DEF Init, TypeOK, TaskState, Control, Phase
<1>2. \A g \in Groups : Pending(g) = {}
  BY DEF Init, Pending
<1>3. CountExact
  BY <1>2, FS_EmptySet DEF Init, CountExact
<1>4. EndInv /\ WaitInv /\ ParkInv /\ BlockedInv /\ NoLostWakeup
  BY DEF Init, EndInv, WaitInv, ParkInv, BlockedInv, NoLostWakeup
<1>5. QED
  BY <1>1, <1>3, <1>4 DEF IInv

(***************************************************************************)
(* Type correctness of Task.cc and TaskGroup.cc: terminate() informs each  *)
(* entry of a task's array of groups at most once, and no call within the  *)
(* bound of Task.cc:123 writes past that array.                            *)
(***************************************************************************)
THEOREM TypeCorrect == Spec => []TypeOK
<1>1. Init => TypeOK
  BY InitIInv DEF IInv
<1>2. QED
  BY <1>1, TypeStep, PTL DEF Spec

(***************************************************************************)
(* The inductive invariant of the join protocol (Task.cc, TaskGroup.cc)    *)
(* holds in every reachable state.                                         *)
(***************************************************************************)
THEOREM Invariant == Spec => []IInv
<1>1. IInv /\ [Next]_vars => IInv'
  BY TypeStep, EndStep, CountStep, WaitStep, ParkStep, BlockedStep, LostStep DEF IInv
<1>2. QED
  BY InitIInv, <1>1, PTL DEF Spec

(***************************************************************************)
(* blocking_count is the number of registrations that informDone() has not *)
(* answered yet, however registe() and terminate() interleave.             *)
(***************************************************************************)
THEOREM CountCorrect == Spec => []CountExact
<1>1. IInv => CountExact
  BY DEF IInv
<1>2. QED
  BY Invariant, <1>1, PTL

(***************************************************************************)
(* A task that is parked in a group always has somebody who is going to    *)
(* wake it: no interleaving of wait(), resumeIfNothingToWait() and         *)
(* informDone() loses the wakeup.                                          *)
(***************************************************************************)
THEOREM WakeupCorrect == Spec => []NoLostWakeup
<1>1. IInv => NoLostWakeup
  BY DEF IInv
<1>2. QED
  BY Invariant, <1>1, PTL

(* Where the count is 0 everybody has reported. *)
LEMMA ZeroDone ==
  ASSUME IInv, NEW g \in Groups, blocking_count[g] = 0, NEW t \in Members(g)
  PROVE  state[t] = "Terminated"
<1>1. /\ t \in Tasks /\ groups[t] \in Seq(Groups) /\ informed[t] \in Nat
      /\ Len(groups[t]) < MaxGroups /\ informed[t] <= Len(groups[t])
  BY DEF IInv, TypeOK, Members
<1>2. PICK i \in 1..Len(groups[t]) : groups[t][i] = g
  BY DEF Members
<1>3. Cardinality(Pending(g)) = 0
  BY DEF IInv, CountExact
<1>4. Pending(g) = {}
  BY <1>3, PendingFinite, FS_EmptySet DEF IInv
<1>5. ~(i > informed[t])
  <2>1. SUFFICES ASSUME i > informed[t] PROVE FALSE
    OBVIOUS
  <2>2. i \in 1..MaxGroups /\ i \in (informed[t] + 1)..Len(groups[t])
    BY <1>1, <2>1, ClientAssumption
  <2>3. <<t, i>> \in Pending(g)
    BY <1>1, <1>2, <2>2 DEF Pending
  <2>4. QED
    BY <1>4, <2>3
<1>6. informed[t] > 0
  BY <1>1, <1>2, <1>5
<1>7. QED
  BY <1>1, <1>6 DEF IInv, EndInv

(* When wait() has returned, the count is 0. *)
LEMMA JoinedDone == IInv => JoinSafe
<1> SUFFICES ASSUME IInv, NEW g \in Groups, phase[g] = "joined", NEW t \in Members(g)
             PROVE  state[t] = "Terminated"
  BY DEF JoinSafe
<1>1. blocking_count[g] = 0
  BY DEF IInv, WaitInv
<1>2. QED
  BY <1>1, ZeroDone

(***************************************************************************)
(* When TaskGroup::wait() has returned, every task registered with the     *)
(* group has terminated.                                                   *)
(***************************************************************************)
THEOREM JoinCorrect == Spec => []JoinSafe
<1>1. QED
  BY Invariant, JoinedDone, PTL

(* No assignment to Task::state touches a terminated task. *)
LEMMA StateStep ==
  ASSUME IInv, Next, NEW t \in Tasks, state[t] = "Terminated"
  PROVE  state'[t] = "Terminated"
<1> USE ClientAssumption DEF IInv, TypeOK, EndInv, Active
<1>1. ASSUME NEW p \in Tasks, NEW g \in Groups, Wait(p, g) PROVE state'[t] = "Terminated"
  <2>1. p # t /\ (state' = state \/ state' = [state EXCEPT ![p] = "GroupWait"])
    BY <1>1 DEF Wait
  <2>2. QED
    BY <2>1
<1>2. ASSUME NEW p \in Tasks, MpiCall(p) PROVE state'[t] = "Terminated"
  BY <1>2 DEF MpiCall
<1>3. ASSUME NEW p \in Tasks, MpiComplete(p) PROVE state'[t] = "Terminated"
  BY <1>3 DEF MpiComplete
<1>4. ASSUME NEW p \in Tasks, Finish(p) PROVE state'[t] = "Terminated"
  BY <1>4 DEF Finish
<1>5. ASSUME NEW p \in Tasks, Release(p) PROVE state'[t] = "Terminated"
  <2>1. PICK g \in Groups : ReleaseNobody(p, g) \/ \E w \in Tasks : ReleaseTask(p, g, w)
    BY <1>5, ReleaseFacts
  <2>2. QED
    BY <2>1 DEF ReleaseNobody, ReleaseTask
<1>6. ASSUME NEW p \in Tasks, HandleGroupWait(p) PROVE state'[t] = "Terminated"
  <2>1. PICK g \in Groups : Requeued(p, g) \/ Parked(p, g)
    BY <1>6, HandleGroupWaitFacts
  <2>2. QED
    BY <2>1 DEF Requeued, Parked, AboutToWait
<1>7. ASSUME NEW p \in Tasks, Dispatch(p) PROVE state'[t] = "Terminated"
  BY <1>7 DEF Dispatch
<1>8. CASE UNCHANGED state
  BY <1>8
<1>9. QED
  BY <1>1, <1>2, <1>3, <1>4, <1>5, <1>6, <1>7, <1>8 DEF Next, Client, System, AllDone,
     vars, Go, Registe, Yield, MpiPending, MpiError, Decrement, Unlock, Terminated,
     HandleRunnable, HandleMpi, Poll

(***************************************************************************)
(* A terminated task is never made runnable, queued or run again by any    *)
(* TaskPtr that a group or a queue still holds.                            *)
(***************************************************************************)
THEOREM TerminatedIsFinal == Spec => NoResurrection
<1>1. IInv /\ [Next]_vars => [NoReturn]_vars
  <2> SUFFICES ASSUME IInv, Next, NEW t \in Tasks, state[t] = "Terminated"
               PROVE  state'[t] = "Terminated" /\ pc'[t] \notin {"queued", "running"}
    BY DEF NoReturn
  <2>1. EndInv'
    BY EndStep
  <2>2. state'[t] = "Terminated"
    BY StateStep
  <2>3. QED
    BY <2>1, <2>2 DEF EndInv
<1>2. QED
  BY Invariant, <1>1, PTL DEF Spec, NoResurrection
===============================================================================
