----------------------------- MODULE Join_proofs -----------------------------
(***************************************************************************)
(* Module TaskGroup implements module Join, for every set of tasks and     *)
(* groups: each step of a task or of the library is, seen through the      *)
(* states of the tasks and the phases of the groups, a step of Join or     *)
(* changes nothing there.  (That the waits return is left to TLC.)         *)
(***************************************************************************)
EXTENDS TaskGroup_proofs

(* What Join sees of the tasks. *)
Finished == {t \in Tasks : state[t] = "Terminated"}

(* The tasks registered with each group. *)
MembersOf == [g \in Groups |-> Members(g)]

(* A step in which Join sees nothing. *)
Unseen == UNCHANGED <<Finished, MembersOf, phase>>

(* Where no group gets a task and no task ends or comes back ... *)
LEMMA SameFinished ==
  ASSUME \A t \in Tasks : (state[t] = "Terminated") = (state'[t] = "Terminated")
  PROVE  Finished' = Finished
<1>1. QED
  BY DEF Finished

(* ... and where no task is registered, the members stay. *)
LEMMA SameMembers ==
  ASSUME UNCHANGED groups
  PROVE  MembersOf' = MembersOf
<1>1. \A g \in Groups : Members(g)' = Members(g)
  BY DEF Members
<1>2. QED
  BY <1>1 DEF MembersOf

(* The steps that change nothing but where the control of a task is. *)
LEMMA ControlOnly ==
  ASSUME UNCHANGED <<state, groups, phase>>
  PROVE  Unseen
<1>1. Finished' = Finished
  BY SameFinished
<1>2. QED
  BY <1>1, SameMembers DEF Unseen

----------------------------------------------------------------------------

(* registe(): the group gets the task, which is alive. *)
LEMMA RegisteStep ==
  ASSUME IInv, NEW p \in Tasks, NEW t \in Tasks, NEW g \in Groups, Registe(p, t, g)
  PROVE  J!Registe(g, t)
<1>1. /\ groups \in [Tasks -> Seq(Groups)] /\ phase \in [Groups -> Phase]
      /\ groups' = [groups EXCEPT ![t] = Append(@, g)]
      /\ state' = state /\ state[t] # "Terminated"
      /\ phase[g] \in {"open", "joined"} /\ phase' = [phase EXCEPT ![g] = "open"]
  BY DEF IInv, TypeOK, Registe
<1>2. Finished' = Finished
  BY <1>1, SameFinished
<1>3. t \notin Finished
  BY <1>1 DEF Finished
<1>4. ASSUME NEW h \in Groups
      PROVE  Members(h)' = IF h = g THEN Members(h) \cup {t} ELSE Members(h)
  <2>1. groups'[t] = Append(groups[t], g) /\ Len(groups'[t]) = Len(groups[t]) + 1 /\ Len(groups[t]) \in Nat
    BY <1>1
  <2>2. \A i \in 1..Len(groups'[t]) : groups'[t][i] = IF i = Len(groups[t]) + 1 THEN g ELSE groups[t][i]
    BY <1>1, <2>1
  <2>3. (\E i \in 1..Len(groups'[t]) : groups'[t][i] = h)
        <=> ((\E i \in 1..Len(groups[t]) : groups[t][i] = h) \/ h = g)
    BY <2>1, <2>2
  <2>4. \A u \in Tasks \ {t} : groups'[u] = groups[u]
    BY <1>1
  <2>5. QED
    BY <2>3, <2>4 DEF Members
<1>5. MembersOf' = [MembersOf EXCEPT ![g] = @ \cup {t}]
  BY <1>4 DEF MembersOf
<1>6. QED
  BY <1>1, <1>2, <1>3, <1>5 DEF J!Registe, Finished, MembersOf

(* wait(): with a count of 0 it returns, otherwise it begins. *)
LEMMA WaitJoins ==
  ASSUME IInv, NEW p \in Tasks, NEW g \in Groups, Wait(p, g)
  PROVE  J!BeginWait(g) \/ J!Return(g) \/ Unseen
<1>1. /\ state \in [Tasks -> TaskState] /\ phase \in [Groups -> Phase]
      /\ pc[p] = "running" /\ state[p] # "Terminated" /\ phase[g] \in {"open", "joined"}
      /\ UNCHANGED groups
  BY DEF IInv, TypeOK, EndInv, Wait, Active
<1>2. Finished' = Finished
  BY <1>1, SameFinished DEF Wait
<1>3. MembersOf' = MembersOf
  BY <1>1, SameMembers
<1>4. CASE blocking_count[g] = 0
  <2>1. phase' = [phase EXCEPT ![g] = "joined"]
    BY <1>4 DEF Wait
  <2>2. Members(g) \subseteq Finished
    BY <1>4, ZeroDone DEF Finished, Members
  <2>3. CASE phase[g] = "open"
    BY <1>2, <1>3, <2>1, <2>2, <2>3 DEF J!Return, Finished, MembersOf
  <2>4. CASE phase[g] = "joined"
    BY <1>1, <1>2, <1>3, <2>1, <2>4 DEF Unseen
  <2>5. QED
    BY <1>1, <2>3, <2>4
<1>5. CASE blocking_count[g] # 0
  <2>1. phase' = [phase EXCEPT ![g] = "waiting"]
    BY <1>5 DEF Wait
  <2>2. QED
    BY <1>1, <1>2, <1>3, <2>1 DEF J!BeginWait, Finished, MembersOf
<1>6. QED
  BY <1>4, <1>5

(* The end of a callback: no group of its frame has a wait in it. *)
LEMMA FinishStep ==
  ASSUME IInv, NEW p \in Tasks, Finish(p)
  PROVE  J!Finish(p)
<1>1. /\ state \in [Tasks -> TaskState] /\ phase \in [Groups -> Phase]
      /\ pc[p] = "running" /\ state[p] # "Terminated"
      /\ state' = [state EXCEPT ![p] = "Terminated"] /\ UNCHANGED groups
      /\ phase' = [g \in Groups |-> IF Scoped /\ Owner[g] = p THEN "dead" ELSE phase[g]]
  BY DEF IInv, TypeOK, EndInv, Finish, Active
<1>2. p \notin Finished /\ Finished' = Finished \cup {p}
  BY <1>1 DEF Finished
<1>3. MembersOf' = MembersOf
  BY <1>1, SameMembers
<1> DEFINE D == {g \in Groups : Scoped /\ Owner[g] = p /\ phase[g] # "dead"}
<1>4. \A g \in D : phase[g] \in {"open", "joined"}
  BY <1>1 DEF IInv, WaitInv, Phase
<1>5. phase' = [g \in Groups |-> IF g \in D THEN "dead" ELSE phase[g]]
  <2>1. \A g \in Groups : (IF Scoped /\ Owner[g] = p THEN "dead" ELSE phase[g])
                          = (IF g \in D THEN "dead" ELSE phase[g])
    OBVIOUS
  <2>2. QED
    BY <1>1, <2>1
<1>6. D \in SUBSET Groups
  OBVIOUS
<1>7. \E E \in SUBSET Groups :
        /\ \A g \in E : phase[g] \in {"open", "joined"}
        /\ phase' = [g \in Groups |-> IF g \in E THEN "dead" ELSE phase[g]]
  BY <1>4, <1>5, <1>6
<1>8. QED
  BY <1>2, <1>3, <1>7 DEF J!Finish, Finished, MembersOf

(* A task that had given up its thread in wait() returns from it. *)
LEMMA DispatchStep ==
  ASSUME IInv, NEW p \in Tasks, Dispatch(p)
  PROVE  (\E g \in Groups : J!Return(g)) \/ Unseen
<1>1. /\ state \in [Tasks -> TaskState] /\ phase \in [Groups -> Phase]
      /\ pc[p] = "queued" /\ UNCHANGED groups
      /\ phase' = [g \in Groups |-> IF Owner[g] = p /\ phase[g] = "waiting" THEN "joined" ELSE phase[g]]
  BY DEF IInv, TypeOK, Dispatch
<1>2. Finished' = Finished
  BY <1>1, SameFinished DEF Dispatch
<1>3. MembersOf' = MembersOf
  BY <1>1, SameMembers
<1>4. CASE \A g \in Groups : ~(Owner[g] = p /\ phase[g] = "waiting")
  <2>1. phase' = phase
    BY <1>1, <1>4
  <2>2. QED
    BY <1>2, <1>3, <2>1 DEF Unseen
<1>5. ASSUME NEW g \in Groups, Owner[g] = p, phase[g] = "waiting"
      PROVE  J!Return(g)
  <2>1. blockedBy[p] = g /\ blocking_count[g] = 0
    BY <1>1, <1>5 DEF IInv, WaitInv
  <2>2. \A h \in Groups : Owner[h] = p /\ phase[h] = "waiting" => h = g
    BY <2>1 DEF IInv, WaitInv
  <2>3. phase' = [phase EXCEPT ![g] = "joined"]
    BY <1>1, <1>5, <2>2
  <2>4. Members(g) \subseteq Finished
    BY <2>1, ZeroDone DEF Finished, Members
  <2>5. QED
    BY <1>2, <1>3, <1>5, <2>3, <2>4 DEF J!Return, Finished, MembersOf
<1>6. QED
  BY <1>4, <1>5

(* The steps that make a task runnable, or put it away. *)
LEMMA StateOnly ==
  ASSUME IInv, NEW p \in Tasks,
         MpiCall(p) \/ MpiComplete(p) \/ Release(p) \/ HandleGroupWait(p)
  PROVE  Unseen
<1>1. /\ state \in [Tasks -> TaskState]
      /\ \A t \in Tasks : pc[t] = "running" => state[t] # "Terminated"
      /\ UNCHANGED <<groups, phase>>
  BY DEF IInv, TypeOK, EndInv, MpiCall, MpiComplete, Release, HandleGroupWait
<1>2. CASE MpiCall(p) \/ MpiComplete(p)
  <2>1. \A t \in Tasks : (state[t] = "Terminated") = (state'[t] = "Terminated")
    BY <1>1, <1>2 DEF MpiCall, MpiComplete, Active
  <2>2. QED
    BY <1>1, <2>1, SameFinished, SameMembers DEF Unseen
<1>3. CASE Release(p)
  <2>1. PICK g \in Groups : ReleaseNobody(p, g) \/ \E w \in Tasks : ReleaseTask(p, g, w)
    BY <1>3, ReleaseFacts
  <2>2. \A t \in Tasks : (state[t] = "Terminated") = (state'[t] = "Terminated")
    BY <2>1 DEF ReleaseNobody, ReleaseTask
  <2>3. QED
    BY <1>1, <2>2, SameFinished, SameMembers DEF Unseen
<1>4. CASE HandleGroupWait(p)
  <2>1. PICK g \in Groups : Requeued(p, g) \/ Parked(p, g)
    BY <1>4, HandleGroupWaitFacts
  <2>2. \A t \in Tasks : (state[t] = "Terminated") = (state'[t] = "Terminated")
    BY <2>1 DEF Requeued, Parked, AboutToWait
  <2>3. QED
    BY <1>1, <2>2, SameFinished, SameMembers DEF Unseen
<1>5. QED
  BY <1>2, <1>3, <1>4

----------------------------------------------------------------------------

(* Every step is one of Join or unseen. *)
LEMMA JoinStep == IInv /\ [Next]_vars => J!Next \/ Unseen
<1> SUFFICES ASSUME IInv, [Next]_vars PROVE J!Next \/ Unseen
  OBVIOUS
<1>1. ASSUME NEW p \in Tasks, NEW t \in Tasks, NEW g \in Groups, Registe(p, t, g) PROVE J!Next
  BY <1>1, RegisteStep DEF J!Next
<1>2. ASSUME NEW p \in Tasks, NEW g \in Groups, Wait(p, g) PROVE J!Next \/ Unseen
  BY <1>2, WaitJoins DEF J!Next
<1>3. ASSUME NEW p \in Tasks, Finish(p) PROVE J!Next
  BY <1>3, FinishStep DEF J!Next
<1>4. ASSUME NEW p \in Tasks, Dispatch(p) PROVE J!Next \/ Unseen
  BY <1>4, DispatchStep DEF J!Next
<1>5. ASSUME NEW p \in Tasks, MpiCall(p) \/ MpiComplete(p) \/ Release(p) \/ HandleGroupWait(p)
      PROVE  Unseen
  BY <1>5, StateOnly
<1>6. CASE UNCHANGED <<state, groups, phase>>
  BY <1>6, ControlOnly
<1>7. QED
  BY <1>1, <1>2, <1>3, <1>4, <1>5, <1>6 DEF Next, Client, System, AllDone, vars, Go, Yield,
     MpiPending, MpiError, Decrement, Unlock, Terminated, HandleRunnable, HandleMpi, Poll

(***************************************************************************)
(* The join protocol of tasks and groups implements the abstract join: a   *)
(* group collects living tasks, and wait() returns only after all of them  *)
(* have finished, whatever the interleaving.                               *)
(***************************************************************************)
THEOREM ImplementsJoin == Spec => JoinSpec
<1>1. Init => J!Init
  <2> SUFFICES ASSUME Init PROVE J!Init
    OBVIOUS
  <2>1. \A t \in Tasks : state[t] = "Initial" /\ groups[t] = <<>>
    BY DEF Init
  <2>2. \A g \in Groups : Members(g) = {}
    BY <2>1 DEF Members
  <2>3. {t \in Tasks : state[t] = "Terminated"} = {}
    BY <2>1
  <2>4. QED
    BY <2>2, <2>3 DEF Init, J!Init
<1>2. IInv /\ [Next]_vars => [J!Next]_(J!vars)
  BY JoinStep DEF Unseen, J!vars, Finished, MembersOf
<1>3. QED
  BY Invariant, <1>1, <1>2, PTL DEF Spec, JoinSpec, J!Spec
==============================================================================
