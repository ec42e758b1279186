---------------------------- MODULE TaskLife_proofs ----------------------------
(***************************************************************************)
(* Proofs about module TaskLife, for every set of tasks and groups and any *)
(* number of threads: the count of every task is the number of TaskPtrs to *)
(* it, a task is deleted when it is done and nobody can touch it any more, *)
(* and in the end every task that ran is.                                  *)
(*                                                                         *)
(* What happens to the tasks themselves is TaskGroup, and its invariant    *)
(* holds here too (ImplementsTaskGroup).  With it every group's reference  *)
(* is that to its parked owner, so that where a task is says how many      *)
(* references it has from queues, groups and informDone(); the others are  *)
(* counted pointer by pointer.                                             *)
(***************************************************************************)
EXTENDS TaskLife, TaskGroup_proofs

(* The control of a task that a worker, or the task itself, is busy with. *)
Busy == {"running", "switched", "terminating", "deciding", "unlocking"}

(***************************************************************************)
(* Where references can be: a thread has a task from run_runnable() until  *)
(* it has handed it on, nowCanRun is a local of informDone(), and a task   *)
(* that is not spawned yet has no reference and nothing bound to it.       *)
(***************************************************************************)
PlaceInv ==
    \A t \in Tasks :
        /\ t \in current => pc[t] \in Busy \cup {"done"}
        /\ pc[t] \in Busy => t \in current
        /\ nowCanRun[t] # NULL => pc[t] = "unlocking" /\ nowCanRun[t] # t
        /\ pc[t] = "new" => counter[t] = 0 /\ bound[t] = {}

(* The deleted tasks are those whose count has come back to 0. *)
DeadInv == \A t \in Tasks : t \in deleted <=> pc[t] # "new" /\ counter[t] = 0

(***************************************************************************)
(* What is bound to a callback was spawned before: in every set of tasks   *)
(* there is one, the youngest, that is bound to none of the others.        *)
(***************************************************************************)
AcyclicInv ==
    \A X \in SUBSET Tasks : X # {} => \E u \in X : \A v \in X : u \notin bound[v]

(* What counts as one reference. *)
Flag(b) == IF b THEN 1 ELSE 0

(* The one that a queue, the group's blockedTask or informDone() has. *)
Placed(t) == Flag(pc[t] \in {"queued", "polled", "parked", "deciding", "unlocking"})

(* The tasks in whose variables f a TaskPtr to t is. *)
Wakers(f, t) == {p \in Tasks : f[p] = t}

(* The tasks in whose sets of handles f there is one to t. *)
Keepers(f, t) == {p \in Tasks : t \in f[p]}

(* References, by where the task is. *)
Count(t) ==
    Placed(t) + 2 * Flag(t \in current) + letting[t] + Cardinality(Wakers(nowCanRun, t))
    + Cardinality(Keepers(frame, t)) + Cardinality(Keepers(bound, t))

(* Every count is the number of references. *)
CountInv == \A t \in Tasks : counter[t] = Count(t)

(* The inductive invariant; that of the tasks is IInv. *)
LifeInv == LifeTypeOK /\ CountInv /\ PlaceInv /\ DeadInv /\ AcyclicInv

----------------------------------------------------------------------------
(* The tasks *)

(* Every step is a step of TaskGroup, or none. *)
LEMMA LifeStepIsStep == [LifeNext]_lifeVars => [Next]_vars
<1> SUFFICES ASSUME LifeNext PROVE Next \/ UNCHANGED vars
  BY DEF lifeVars
<1>1. ASSUME NEW p \in Tasks, NEW t \in Tasks, Spawn(p, t) PROVE Next
  BY <1>1 DEF Spawn, Next, Client
<1>2. ASSUME NEW p \in Tasks, Call(p) PROVE Next
  <2>1. ASSUME NEW t, NEW g \in Groups, Registe(p, t, g) PROVE t \in Tasks
    BY <2>1, ClientAssumption DEF Registe
  <2>2. Client(p) \/ System(p)
    BY <1>2, <2>1 DEF Call, Client, System
  <2>3. QED
    BY <2>2 DEF Next
<1>3. ASSUME NEW p \in Tasks,
             Inform(p) \/ Resume(p) \/ InformEnd(p) \/ Run(p) \/ HandOn(p) \/ KeepEntry(p)
      PROVE  Next
  <2>1. System(p)
    BY <1>3 DEF Inform, Resume, InformEnd, Run, HandOn, KeepEntry, System
  <2>2. QED
    BY <2>1 DEF Next
<1>4. ASSUME NEW p \in Tasks, DropHandle(p) \/ Retire(p) \/ LetGo(p) \/ DropBound(p)
      PROVE  UNCHANGED vars
  BY <1>4 DEF DropHandle, Retire, LetGo, DropBound
<1>5. CASE Destroyed
  BY <1>5 DEF Destroyed, Next
<1>6. QED
  BY <1>1, <1>2, <1>3, <1>4, <1>5 DEF LifeNext, Library

(***************************************************************************)
(* Counting references changes nothing in what the tasks do, so everything *)
(* proved of TaskGroup holds here.                                         *)
(***************************************************************************)
THEOREM ImplementsTaskGroup == LifeSpec => Spec
<1>1. LifeInit => Init
  BY DEF LifeInit
<1>2. QED
  BY <1>1, LifeStepIsStep, PTL DEF LifeSpec, Spec

----------------------------------------------------------------------------
(* Counting *)

(* Sets of tasks are finite; one that has an element is not empty. *)
LEMMA Counted ==
  \A S : S \subseteq Tasks =>
    /\ IsFiniteSet(S)
    /\ Cardinality(S) \in Nat
    /\ S # {} => Cardinality(S) > 0
    /\ S = {} => Cardinality(S) = 0
<1> SUFFICES ASSUME NEW S, S \subseteq Tasks
             PROVE  /\ IsFiniteSet(S)
                    /\ Cardinality(S) \in Nat
                    /\ S # {} => Cardinality(S) > 0
                    /\ S = {} => Cardinality(S) = 0
  OBVIOUS
<1>1. IsFiniteSet(S)
  BY FS_Subset, ClientAssumption
<1>2. Cardinality(S) \in Nat /\ (Cardinality(S) = 0 <=> S = {})
  BY <1>1, FS_CardinalityType, FS_EmptySet
<1>3. QED
  BY <1>1, <1>2

(* Two sets of tasks that differ in p at most. *)
LEMMA OneChanges ==
  \A S, T : \A p \in Tasks :
    S \subseteq Tasks /\ T \subseteq Tasks /\ (\A q \in Tasks : q = p \/ (q \in S <=> q \in T)) =>
      Cardinality(T) = Cardinality(S) - Flag(p \in S) + Flag(p \in T)
<1> SUFFICES ASSUME NEW S, NEW T, NEW p \in Tasks, S \subseteq Tasks, T \subseteq Tasks,
                    \A q \in Tasks : q = p \/ (q \in S <=> q \in T)
             PROVE  Cardinality(T) = Cardinality(S) - Flag(p \in S) + Flag(p \in T)
  OBVIOUS
<1> DEFINE R == S \ {p}
<1>1. IsFiniteSet(R) /\ Cardinality(R) \in Nat /\ p \notin R
  <2>1. R \subseteq Tasks
    OBVIOUS
  <2>2. QED
    BY <2>1, Counted
<1>2. Cardinality(R \cup {p}) = Cardinality(R) + 1
  BY <1>1, FS_AddElement
<1>3. /\ p \in S => S = R \cup {p}
      /\ p \notin S => S = R
      /\ p \in T => T = R \cup {p}
      /\ p \notin T => T = R
  OBVIOUS
<1> HIDE DEF R
<1>4. Cardinality(S) = IF p \in S THEN Cardinality(R) + 1 ELSE Cardinality(R)
  BY <1>2, <1>3
<1>5. Cardinality(T) = IF p \in T THEN Cardinality(R) + 1 ELSE Cardinality(R)
  BY <1>2, <1>3
<1>6. QED
  BY <1>1, <1>4, <1>5 DEF Flag

(* An assignment to the nowCanRun of one informDone(). *)
LEMMA WakersChange ==
  \A f, g, t : \A p \in Tasks : (\A q \in Tasks : q = p \/ g[q] = f[q]) =>
    Cardinality(Wakers(g, t)) = Cardinality(Wakers(f, t)) - Flag(f[p] = t) + Flag(g[p] = t)
<1> SUFFICES ASSUME NEW f, NEW g, NEW t, NEW p \in Tasks, \A q \in Tasks : q = p \/ g[q] = f[q]
             PROVE  Cardinality(Wakers(g, t)) =
                      Cardinality(Wakers(f, t)) - Flag(f[p] = t) + Flag(g[p] = t)
  OBVIOUS
<1>1. /\ Wakers(f, t) \subseteq Tasks /\ Wakers(g, t) \subseteq Tasks
      /\ \A q \in Tasks : q = p \/ (q \in Wakers(f, t) <=> q \in Wakers(g, t))
  BY DEF Wakers
<1>2. Cardinality(Wakers(g, t)) =
        Cardinality(Wakers(f, t)) - Flag(p \in Wakers(f, t)) + Flag(p \in Wakers(g, t))
  BY <1>1, OneChanges
<1>3. (p \in Wakers(f, t) <=> f[p] = t) /\ (p \in Wakers(g, t) <=> g[p] = t)
  BY DEF Wakers
<1>4. QED
  BY <1>2, <1>3 DEF Flag

(* A change of the handles of one frame, or of what is bound to one callback. *)
LEMMA KeepersChange ==
  \A f, g, t : \A p \in Tasks : (\A q \in Tasks : q = p \/ g[q] = f[q]) =>
    Cardinality(Keepers(g, t)) = Cardinality(Keepers(f, t)) - Flag(t \in f[p]) + Flag(t \in g[p])
<1> SUFFICES ASSUME NEW f, NEW g, NEW t, NEW p \in Tasks, \A q \in Tasks : q = p \/ g[q] = f[q]
             PROVE  Cardinality(Keepers(g, t)) =
                      Cardinality(Keepers(f, t)) - Flag(t \in f[p]) + Flag(t \in g[p])
  OBVIOUS
<1>1. /\ Keepers(f, t) \subseteq Tasks /\ Keepers(g, t) \subseteq Tasks
      /\ \A q \in Tasks : q = p \/ (q \in Keepers(f, t) <=> q \in Keepers(g, t))
  BY DEF Keepers
<1>2. Cardinality(Keepers(g, t)) =
        Cardinality(Keepers(f, t)) - Flag(p \in Keepers(f, t)) + Flag(p \in Keepers(g, t))
  BY <1>1, OneChanges
<1>3. (p \in Keepers(f, t) <=> t \in f[p]) /\ (p \in Keepers(g, t) <=> t \in g[p])
  BY DEF Keepers
<1>4. QED
  BY <1>2, <1>3 DEF Flag

(***************************************************************************)
(* The groups' references are those to their parked owners, at most one to *)
(* each task: Count counts what References counts.                         *)
(***************************************************************************)
LEMMA CountIsReferences ==
  ASSUME IInv, LifeTypeOK, NEW t \in Tasks
  PROVE  References(t) = Count(t)
<1> DEFINE G == {g \in Groups : blockedTask[g] = t}
           n == Cardinality(G)
           Wn == Cardinality(Wakers(nowCanRun, t))
           Fn == Cardinality(Keepers(frame, t))
           Bn == Cardinality(Keepers(bound, t))
<1>1. n = Flag(pc[t] = "parked")
  <2>1. CASE pc[t] = "parked"
    <3>1. blockedBy[t] \in Groups /\ blockedTask[blockedBy[t]] = t
      BY <2>1 DEF IInv, NoLostWakeup
    <3>2. \A g \in G : blockedBy[t] = g
      BY ClientAssumption DEF IInv, BlockedInv
    <3>3. G = {blockedBy[t]}
      BY <3>1, <3>2
    <3>4. QED
      BY <2>1, <3>3, FS_Singleton DEF Flag
  <2>2. CASE pc[t] # "parked"
    <3>1. G = {}
      BY <2>2, ClientAssumption DEF IInv, BlockedInv
    <3>2. QED
      BY <2>2, <3>1, FS_EmptySet DEF Flag
  <2>3. QED
    BY <2>1, <2>2
<1>2. Wn \in Nat /\ Fn \in Nat /\ Bn \in Nat /\ letting[t] \in Nat
  BY Counted DEF Wakers, Keepers, LifeTypeOK
<1>3. References(t) =
        (IF pc[t] \in {"queued", "polled"} THEN 1 ELSE 0)
        + (IF t \in current THEN 2 ELSE 0)
        + (IF pc[t] \in {"deciding", "unlocking"} THEN 1 ELSE 0)
        + letting[t] + n + Wn + Fn + Bn
  BY DEF References, Wakers, Keepers
<1>4. Count(t) = Placed(t) + 2 * Flag(t \in current) + letting[t] + Wn + Fn + Bn
  BY DEF Count
<1> HIDE DEF n, Wn, Fn, Bn
<1>5. Placed(t) = (IF pc[t] \in {"queued", "polled"} THEN 1 ELSE 0)
                  + (IF pc[t] \in {"deciding", "unlocking"} THEN 1 ELSE 0) + n
  BY <1>1 DEF Placed, Flag
<1>6. 2 * Flag(t \in current) = IF t \in current THEN 2 ELSE 0
  BY DEF Flag
<1>7. n \in Nat /\ Placed(t) \in Nat
  BY <1>1 DEF Flag, Placed
<1>8. QED
  BY <1>2, <1>3, <1>4, <1>5, <1>6, <1>7

----------------------------------------------------------------------------
(* The actions, task by task *)

(* The control of p goes on from one of a set of places to one of another. *)
Moves(p, from, to) ==
    /\ pc[p] \in from /\ pc'[p] \in to
    /\ \A t \in Tasks : t # p => pc'[t] = pc[t]

(***************************************************************************)
(* The parts of a count are natural numbers, so that whoever has a pointer *)
(* to a task knows that its count is positive; a thread has two.           *)
(***************************************************************************)
LEMMA HeldIsCounted ==
  ASSUME LifeTypeOK, CountInv, NEW t \in Tasks
  PROVE  /\ counter[t] \in Nat /\ letting[t] \in Nat
         /\ Cardinality(Wakers(nowCanRun, t)) \in Nat
         /\ Cardinality(Keepers(frame, t)) \in Nat
         /\ Cardinality(Keepers(bound, t)) \in Nat
         /\ t \in current => counter[t] >= 2
         /\ letting[t] > 0 => counter[t] > 0
         /\ pc[t] \in {"queued", "polled", "parked"} => counter[t] > 0
         /\ \A p \in Tasks : /\ nowCanRun[p] = t => counter[t] > 0
                             /\ t \in frame[p] => counter[t] > 0
                             /\ t \in bound[p] => counter[t] > 0
<1> DEFINE Wn == Cardinality(Wakers(nowCanRun, t))
           Fn == Cardinality(Keepers(frame, t))
           Bn == Cardinality(Keepers(bound, t))
<1>1. /\ Wakers(nowCanRun, t) \subseteq Tasks
      /\ Keepers(frame, t) \subseteq Tasks
      /\ Keepers(bound, t) \subseteq Tasks
  BY DEF Wakers, Keepers
<1>2. Wn \in Nat /\ Fn \in Nat /\ Bn \in Nat
  BY <1>1, Counted
<1>3. ASSUME NEW p \in Tasks
      PROVE  /\ nowCanRun[p] = t => Wn > 0
             /\ t \in frame[p] => Fn > 0
             /\ t \in bound[p] => Bn > 0
  <2>1. /\ nowCanRun[p] = t => Wakers(nowCanRun, t) # {}
        /\ t \in frame[p] => Keepers(frame, t) # {}
        /\ t \in bound[p] => Keepers(bound, t) # {}
    BY DEF Wakers, Keepers
  <2>2. QED
    BY <1>1, <2>1, Counted
<1>4. counter[t] = Placed(t) + 2 * Flag(t \in current) + letting[t] + Wn + Fn + Bn
  BY DEF CountInv, Count
<1>5. /\ counter[t] \in Nat /\ letting[t] \in Nat
      /\ Placed(t) \in Nat /\ Flag(t \in current) \in Nat
      /\ t \in current => Flag(t \in current) = 1
      /\ pc[t] \in {"queued", "polled", "parked"} => Placed(t) = 1
  BY DEF LifeTypeOK, Placed, Flag
<1> HIDE DEF Wn, Fn, Bn
<1>6. /\ t \in current => counter[t] >= 2
      /\ letting[t] > 0 => counter[t] > 0
      /\ pc[t] \in {"queued", "polled", "parked"} => counter[t] > 0
  BY <1>2, <1>4, <1>5
<1>7. ASSUME Wn > 0 \/ Fn > 0 \/ Bn > 0 PROVE counter[t] > 0
  BY <1>2, <1>4, <1>5, <1>7
<1>8. \A p \in Tasks : /\ nowCanRun[p] = t => counter[t] > 0
                       /\ t \in frame[p] => counter[t] > 0
                       /\ t \in bound[p] => counter[t] > 0
  BY <1>3, <1>7
<1>9. QED
  BY <1>2, <1>5, <1>6, <1>8 DEF Wn, Fn, Bn

(* Who has no reference at all has none of each kind. *)
LEMMA NoneHeld ==
  ASSUME LifeTypeOK, CountInv, NEW t \in Tasks, counter[t] = 0
  PROVE  /\ t \notin current /\ letting[t] = 0
         /\ \A p \in Tasks : nowCanRun[p] # t /\ t \notin frame[p] /\ t \notin bound[p]
BY HeldIsCounted

(* increase() and decrease(), task by task. *)
LEMMA Increased ==
  ASSUME LifeTypeOK, NEW S, Increase(S)
  PROVE  /\ counter' \in [Tasks -> Nat]
         /\ \A t \in Tasks : counter'[t] = counter[t] + Flag(t \in S)
BY DEF Increase, LifeTypeOK, Flag

(* decrease() deletes those whose count was 1. *)
LEMMA Decreased ==
  ASSUME LifeTypeOK, NEW S \in SUBSET Tasks, Decrease(S), \A t \in S : counter[t] > 0
  PROVE  /\ counter' \in [Tasks -> Nat]
         /\ deleted' \in SUBSET Tasks
         /\ \A t \in Tasks : counter'[t] = counter[t] - Flag(t \in S)
         /\ \A t \in Tasks : t \in deleted' <=> t \in deleted \/ (t \in S /\ counter[t] = 1)
<1>1. /\ \A t \in Tasks : counter[t] \in Nat
      /\ counter' = [t \in Tasks |-> IF t \in S THEN counter[t] - 1 ELSE counter[t]]
      /\ deleted' = deleted \cup {t \in S : counter[t] = 1}
      /\ deleted \in SUBSET Tasks
  BY DEF Decrease, LifeTypeOK
<1>2. \A t \in Tasks : counter'[t] = counter[t] - Flag(t \in S)
  BY <1>1 DEF Flag
<1>3. \A t \in Tasks : (IF t \in S THEN counter[t] - 1 ELSE counter[t]) \in Nat
  <2>1. \A n \in Nat : n > 0 => n - 1 \in Nat
    OBVIOUS
  <2>2. QED
    BY <1>1, <2>1
<1>4. counter' \in [Tasks -> Nat]
  BY <1>1, <1>3
<1>5. deleted' \in SUBSET Tasks
  BY <1>1
<1>6. \A t \in Tasks : t \in deleted' <=> t \in deleted \/ (t \in S /\ counter[t] = 1)
  BY <1>1
<1>7. QED
  BY <1>2, <1>4, <1>5, <1>6

(***************************************************************************)
(* A new task is one nobody has a reference to, so it is not among those   *)
(* bound to it, and the frame gets a handle it did not have.               *)
(***************************************************************************)
SpawnOf(p, t, S) ==
    /\ pc[p] = "running" /\ pc[t] = "new" /\ p # t
    /\ pc'[t] = "queued"
    /\ \A u \in Tasks : u # t => pc'[u] = pc[u]
    /\ S \subseteq Tasks /\ t \notin S /\ t \notin frame[p]
    /\ \A u \in S : counter[u] > 0
    /\ bound[t] = {} /\ bound'[t] = S
    /\ \A u \in Tasks : u # t => bound'[u] = bound[u]
    /\ bound' \in [Tasks -> SUBSET Tasks]
    /\ frame'[p] = frame[p] \cup {t}
    /\ \A u \in Tasks : u # p => frame'[u] = frame[u]
    /\ frame' \in [Tasks -> SUBSET Tasks]
    /\ counter[t] = 0 /\ counter'[t] = 2
    /\ \A u \in Tasks : u # t => counter'[u] = counter[u] + Flag(u \in S)
    /\ counter' \in [Tasks -> Nat]
    /\ UNCHANGED <<entry, current, letting, nowCanRun, deleted>>

(* go() and go_pure() are such a step. *)
LEMMA SpawnFacts ==
  ASSUME IInv, LifeInv, NEW p \in Tasks, NEW t \in Tasks, Spawn(p, t)
  PROVE  \E S : SpawnOf(p, t, S)
<1>1. /\ pc[p] = "running" /\ pc[t] = "new" /\ p # t
      /\ pc' = [pc EXCEPT ![t] = "queued"]
  BY DEF Spawn, Go, Active
<1>2. PICK S \in SUBSET (Held(p) \cap Handles[t]) :
        /\ bound' = [bound EXCEPT ![t] = S]
        /\ counter' = [u \in Tasks |-> IF u = t THEN 2
                                       ELSE IF u \in S THEN counter[u] + 1 ELSE counter[u]]
  BY DEF Spawn
<1>3. /\ pc \in [Tasks -> Control]
      /\ frame \in [Tasks -> SUBSET Tasks] /\ bound \in [Tasks -> SUBSET Tasks]
      /\ LifeTypeOK /\ CountInv
      /\ \A u \in Tasks : counter[u] \in Nat
  BY DEF IInv, TypeOK, LifeInv, LifeTypeOK
<1>4. counter[t] = 0 /\ bound[t] = {}
  BY <1>1 DEF LifeInv, PlaceInv
<1>5. t \notin frame[p] /\ t \notin bound[p]
  BY <1>3, <1>4, NoneHeld
<1>6. S \subseteq Tasks /\ t \notin S /\ \A u \in S : counter[u] > 0
  <2>1. S \subseteq frame[p] \cup bound[p]
    BY DEF Held
  <2>2. frame[p] \subseteq Tasks /\ bound[p] \subseteq Tasks
    BY <1>3
  <2>3. QED
    BY <1>3, <1>5, <2>1, <2>2, HeldIsCounted
<1>7. frame' = [frame EXCEPT ![p] = @ \cup {t}]
      /\ UNCHANGED <<entry, current, letting, nowCanRun, deleted>>
  BY DEF Spawn
<1>8. /\ pc'[t] = "queued"
      /\ \A u \in Tasks : u # t => pc'[u] = pc[u]
  BY <1>1, <1>3
<1>9. /\ bound'[t] = S
      /\ \A u \in Tasks : u # t => bound'[u] = bound[u]
      /\ bound' \in [Tasks -> SUBSET Tasks]
  BY <1>2, <1>3, <1>6
<1>10. /\ frame'[p] = frame[p] \cup {t}
       /\ \A u \in Tasks : u # p => frame'[u] = frame[u]
       /\ frame' \in [Tasks -> SUBSET Tasks]
  BY <1>3, <1>7
<1>11. /\ counter'[t] = 2
       /\ \A u \in Tasks : u # t => counter'[u] = counter[u] + Flag(u \in S)
       /\ counter' \in [Tasks -> Nat]
  BY <1>2, <1>3 DEF Flag
<1>12. QED
  BY <1>1, <1>4, <1>5, <1>6, <1>7, <1>8, <1>9, <1>10, <1>11 DEF SpawnOf

(* What the user's code and the library do to the control of a task. *)
LEMMA CallFacts ==
  ASSUME IInv, NEW p \in Tasks, Call(p)
  PROVE  /\ \/ Moves(p, {"running"}, {"running", "switched", "terminating"})
            \/ Moves(p, {"terminating"}, {"done"})
         /\ UNCHANGED refVars
<1>1. pc \in [Tasks -> Control]
  BY DEF IInv, TypeOK
<1>2. UNCHANGED refVars
  BY DEF Call
<1>3. CASE \E t \in Held(p), g \in Groups : Registe(p, t, g)
  BY <1>1, <1>2, <1>3 DEF Registe, Active, Moves
<1>4. CASE \E g \in Groups : Wait(p, g)
  BY <1>1, <1>2, <1>4 DEF Wait, Active, Moves
<1>5. CASE Yield(p) \/ MpiCall(p)
  BY <1>1, <1>2, <1>5 DEF Yield, MpiCall, Active, Moves
<1>6. CASE MpiComplete(p) \/ MpiPending(p) \/ MpiError(p)
  BY <1>1, <1>2, <1>6 DEF MpiComplete, MpiPending, MpiError, Moves
<1>7. CASE Finish(p)
  BY <1>1, <1>2, <1>7 DEF Finish, Active, Moves
<1>8. CASE Terminated(p)
  BY <1>1, <1>2, <1>8 DEF Terminated, Moves
<1>9. QED
  BY <1>3, <1>4, <1>5, <1>6, <1>7, <1>8 DEF Call

(* informDone() moves the task that ends from one control to the next, *)
LEMMA InformFacts ==
  ASSUME IInv, NEW p \in Tasks, Decrement(p)
  PROVE  Moves(p, {"terminating"}, {"deciding", "unlocking"})
<1>1. pc \in [Tasks -> Control] /\ pc[p] = "terminating"
  BY DEF IInv, TypeOK, Decrement
<1>2. \E x \in {"deciding", "unlocking"} : pc' = [pc EXCEPT ![p] = x]
  BY DEF Decrement
<1>3. QED
  BY <1>1, <1>2 DEF Moves

(* run_runnable() and run_mpi_blocked() make theirs run, *)
LEMMA RunFacts ==
  ASSUME IInv, NEW p \in Tasks, Dispatch(p) \/ Poll(p)
  PROVE  Moves(p, {"queued", "polled"}, {"running"})
<1>1. pc \in [Tasks -> Control]
  BY DEF IInv, TypeOK
<1>2. QED
  BY <1>1 DEF Dispatch, Poll, Moves

(* handle_after_continuationOut() hands on what has switched out, *)
LEMMA HandOnFacts ==
  ASSUME IInv, NEW p \in Tasks, HandleRunnable(p) \/ HandleGroupWait(p) \/ HandleMpi(p)
  PROVE  Moves(p, {"switched"}, {"queued", "parked", "polled"})
<1>1. pc \in [Tasks -> Control]
  BY DEF IInv, TypeOK
<1>2. QED
  BY <1>1 DEF HandleRunnable, HandleGroupWait, HandleMpi, Moves

(* and after the unlock comes the next group. *)
LEMMA UnlockFacts ==
  ASSUME IInv, NEW p \in Tasks, Unlock(p)
  PROVE  Moves(p, {"unlocking"}, {"terminating"})
<1>1. pc \in [Tasks -> Control]
  BY DEF IInv, TypeOK
<1>2. QED
  BY <1>1 DEF Unlock, Moves

(* informDone() finds nobody, or a parked task that is not the one it informs for. *)
ResumeOf(p, w) ==
    /\ w \in Tasks \cup {NULL} /\ w # p
    /\ w # NULL => pc[w] = "parked" /\ pc'[w] = "queued"
    /\ pc[p] = "deciding" /\ pc'[p] = "unlocking"
    /\ \A t \in Tasks : t # p /\ t # w => pc'[t] = pc[t]
    /\ nowCanRun'[p] = w
    /\ \A t \in Tasks : t # p => nowCanRun'[t] = nowCanRun[t]
    /\ Increase({w})
    /\ UNCHANGED <<frame, bound, entry, current, letting, deleted>>

(* The step of informDone() under the lock is such a step. *)
LEMMA ResumeFacts ==
  ASSUME IInv, LifeInv, NEW p \in Tasks, Resume(p)
  PROVE  \E w : ResumeOf(p, w)
<1> DEFINE h == groups[p][informed[p]]
           w == blockedTask[h]
<1>1. /\ Release(p) /\ Increase({w})
      /\ nowCanRun' = [nowCanRun EXCEPT ![p] = w]
      /\ UNCHANGED <<frame, bound, entry, current, letting, deleted>>
  BY DEF Resume
<1>2. /\ pc \in [Tasks -> Control] /\ blockedTask \in [Groups -> Tasks \cup {NULL}]
      /\ nowCanRun \in [Tasks -> Tasks \cup {NULL}]
      /\ pc[p] = "deciding"
  BY <1>1 DEF IInv, TypeOK, LifeInv, LifeTypeOK, Release
<1>3. h \in Groups
  <2>1. /\ groups[p] \in Seq(Groups) /\ informed[p] \in Nat /\ informed[p] > 0
        /\ informed[p] <= Len(groups[p])
    BY <1>2 DEF IInv, TypeOK, EndInv
  <2>2. QED
    BY <2>1
<1>4. w \in Tasks \cup {NULL} /\ (w # NULL => pc[w] = "parked") /\ w # p
  BY <1>2, <1>3, ClientAssumption DEF IInv, BlockedInv
<1>5. pc' = IF w = NULL THEN [pc EXCEPT ![p] = "unlocking"]
            ELSE [pc EXCEPT ![p] = "unlocking", ![w] = "queued"]
  BY <1>1 DEF Release
<1> HIDE DEF w
<1>6. /\ w # NULL => pc'[w] = "queued"
      /\ pc'[p] = "unlocking"
      /\ \A t \in Tasks : t # p /\ t # w => pc'[t] = pc[t]
  BY <1>2, <1>4, <1>5
<1>7. /\ nowCanRun'[p] = w
      /\ \A t \in Tasks : t # p => nowCanRun'[t] = nowCanRun[t]
  BY <1>1, <1>2
<1>8. QED
  BY <1>1, <1>2, <1>4, <1>6, <1>7 DEF ResumeOf

----------------------------------------------------------------------------
(* The counts *)

(***************************************************************************)
(* Every step changes the count of a task by as much as the number of its  *)
(* references: what a thread or a group hands on it does not count again,  *)
(* and what it drops it had counted.                                       *)
(***************************************************************************)
LEMMA RefStep == IInv /\ LifeInv /\ [LifeNext]_lifeVars => CountInv'
<1> SUFFICES ASSUME IInv, LifeInv, [LifeNext]_lifeVars, NEW t \in Tasks
             PROVE  counter'[t] = Count(t)'
  BY DEF CountInv, Count, Placed
<1> DEFINE P == Placed(t)
           C == Flag(t \in current)
           W == Cardinality(Wakers(nowCanRun, t))
           F == Cardinality(Keepers(frame, t))
           B == Cardinality(Keepers(bound, t))
           Pn == Placed(t)'
           Cn == Flag(t \in current')
           Wn == Cardinality(Wakers(nowCanRun', t))
           Fn == Cardinality(Keepers(frame', t))
           Bn == Cardinality(Keepers(bound', t))
           Goal == counter'[t] = Pn + 2 * Cn + letting'[t] + Wn + Fn + Bn
<1>t. /\ LifeTypeOK /\ CountInv
      /\ pc \in [Tasks -> Control]
      /\ letting \in [Tasks -> Nat]
      /\ current \subseteq Tasks
      /\ nowCanRun \in [Tasks -> Tasks \cup {NULL}]
      /\ frame \in [Tasks -> SUBSET Tasks]
      /\ bound \in [Tasks -> SUBSET Tasks]
  BY DEF IInv, TypeOK, LifeInv, LifeTypeOK
<1>n. /\ P \in Nat /\ C \in Nat /\ W \in Nat /\ F \in Nat /\ B \in Nat
      /\ letting[t] \in Nat
      /\ counter[t] = P + 2 * C + letting[t] + W + F + B
  <2>1. P \in Nat /\ C \in Nat
    BY DEF Placed, Flag
  <2>2. QED
    BY <2>1, <1>t, HeldIsCounted DEF CountInv, Count
<1>g. Goal => counter'[t] = Count(t)'
  BY DEF Count
<1>s. /\ nowCanRun' = nowCanRun => Wn = W
      /\ frame' = frame => Fn = F
      /\ bound' = bound => Bn = B
      /\ current' = current => Cn = C
      /\ pc' = pc => Pn = P
  BY DEF Placed
<1>p. ASSUME pc'[t] = pc[t] PROVE Pn = P
  BY <1>p DEF Placed
<1>c. /\ pc[t] \in {"queued", "polled", "parked", "deciding", "unlocking"} => P = 1
      /\ pc[t] \in {"new", "running", "switched", "terminating", "done"} => P = 0
      /\ pc'[t] \in {"queued", "polled", "parked", "deciding", "unlocking"} => Pn = 1
      /\ pc'[t] \in {"new", "running", "switched", "terminating", "done"} => Pn = 0
  BY DEF Placed, Flag
<1>d. ASSUME NEW S \in SUBSET Tasks, Decrease(S), \A u \in S : counter[u] > 0
      PROVE  counter'[t] = counter[t] - Flag(t \in S)
  BY <1>d, <1>t, Decreased
<1>i. ASSUME NEW S, Increase(S) PROVE counter'[t] = counter[t] + Flag(t \in S)
  BY <1>i, <1>t, Increased
<1> HIDE DEF P, C, W, F, B, Pn, Cn, Wn, Fn, Bn
<1>1. ASSUME NEW p \in Tasks, NEW u \in Tasks, Spawn(p, u) PROVE Goal
  <2>1. PICK S : SpawnOf(p, u, S)
    BY <1>1, SpawnFacts
  <2>2. Fn = F - Flag(t \in frame[p]) + Flag(t \in frame'[p])
    <3>1. \A q \in Tasks : q = p \/ frame'[q] = frame[q]
      BY <2>1 DEF SpawnOf
    <3>2. QED
      BY <3>1, KeepersChange, ZenonT(60) DEF F, Fn
  <2>3. Bn = B - Flag(t \in bound[u]) + Flag(t \in bound'[u])
    <3>1. \A q \in Tasks : q = u \/ bound'[q] = bound[q]
      BY <2>1 DEF SpawnOf
    <3>2. QED
      BY <3>1, KeepersChange, ZenonT(60) DEF B, Bn
  <2>4. Wn = W /\ Cn = C /\ letting'[t] = letting[t]
    BY <2>1, <1>s DEF SpawnOf
  <2>5. CASE t = u
    <3>1. P = 0 /\ Pn = 1
      BY <2>1, <2>5, <1>c DEF SpawnOf
    <3>2. Fn = F + 1 /\ Bn = B
      <4>1. t \notin frame[p] /\ t \in frame'[p] /\ t \notin bound[u] /\ t \notin bound'[u]
        BY <2>1, <2>5 DEF SpawnOf
      <4>2. QED
        BY <4>1, <2>2, <2>3, <1>n DEF Flag
    <3>3. counter[t] = 0 /\ counter'[t] = 2
      BY <2>1, <2>5 DEF SpawnOf
    <3>4. QED
      BY <3>1, <3>2, <3>3, <2>4, <1>n
  <2>6. CASE t # u
    <3>1. Pn = P
      BY <2>1, <2>6, <1>p DEF SpawnOf
    <3>2. Fn = F
      <4>1. t \in frame[p] <=> t \in frame'[p]
        BY <2>1, <2>6 DEF SpawnOf
      <4>2. QED
        BY <4>1, <2>2, <1>n DEF Flag
    <3>3. Bn = B + Flag(t \in S)
      <4>1. t \notin bound[u] /\ bound'[u] = S
        BY <2>1 DEF SpawnOf
      <4>2. QED
        BY <4>1, <2>3, <1>n DEF Flag
    <3>4. counter'[t] = counter[t] + Flag(t \in S)
      BY <2>1, <2>6 DEF SpawnOf
    <3>5. Flag(t \in S) \in {0, 1}
      BY DEF Flag
    <3>6. QED
      BY <3>1, <3>2, <3>3, <3>4, <3>5, <2>4, <1>n
  <2>7. QED
    BY <2>5, <2>6
<1>2. ASSUME NEW p \in Tasks, DropHandle(p) PROVE Goal
  <2>1. PICK u \in frame[p] : Decrease({u}) /\ frame' = [frame EXCEPT ![p] = @ \ {u}]
    BY <1>2 DEF DropHandle
  <2>2. u \in Tasks /\ counter[u] > 0
    BY <2>1, <1>t, HeldIsCounted
  <2>3. counter'[t] = counter[t] - Flag(t \in {u})
    BY <2>1, <2>2, <1>d
  <2>4. /\ frame'[p] = frame[p] \ {u}
        /\ \A q \in Tasks : q = p \/ frame'[q] = frame[q]
    BY <2>1, <1>t
  <2>5. Fn = F - Flag(t \in frame[p]) + Flag(t \in frame'[p])
    BY <2>4, KeepersChange DEF F, Fn
  <2>6. Fn = F - Flag(t \in {u})
    <3>1. CASE t = u
      <4>1. t \in frame[p] /\ t \notin frame'[p] /\ t \in {u}
        BY <2>1, <2>4, <3>1
      <4>2. QED
        BY <4>1, <2>5, <1>n DEF Flag
    <3>2. CASE t # u
      <4>1. (t \in frame[p] <=> t \in frame'[p]) /\ t \notin {u}
        BY <2>4, <3>2
      <4>2. QED
        BY <4>1, <2>5, <1>n DEF Flag
    <3>3. QED
      BY <3>1, <3>2
  <2>7. Pn = P /\ Cn = C /\ Wn = W /\ Bn = B /\ letting'[t] = letting[t]
    BY <1>2, <1>s DEF DropHandle, vars
  <2>8. QED
    BY <2>3, <2>6, <2>7, <1>n DEF Flag
<1>3. ASSUME NEW p \in Tasks, Call(p) PROVE Goal
  <2>1. UNCHANGED refVars /\ Pn = P
    <3>1. /\ \/ Moves(p, {"running"}, {"running", "switched", "terminating"})
             \/ Moves(p, {"terminating"}, {"done"})
          /\ UNCHANGED refVars
      BY <1>3, CallFacts
    <3>2. CASE t = p
      BY <3>1, <3>2, <1>c DEF Moves
    <3>3. CASE t # p
      BY <3>1, <3>3, <1>p DEF Moves
    <3>4. QED
      BY <3>1, <3>2, <3>3
  <2>2. QED
    BY <2>1, <1>s, <1>n DEF refVars
<1>4. ASSUME NEW p \in Tasks, Inform(p) PROVE Goal
  <2>1. Moves(p, {"terminating"}, {"deciding", "unlocking"})
    BY <1>4, InformFacts DEF Inform
  <2>2. counter'[t] = counter[t] + Flag(t \in {p})
    BY <1>4, <1>i DEF Inform
  <2>3. Wn = W /\ Cn = C /\ Fn = F /\ Bn = B /\ letting'[t] = letting[t]
    BY <1>4, <1>s DEF Inform
  <2>4. Pn = P + Flag(t \in {p})
    <3>1. CASE t = p
      BY <2>1, <3>1, <1>c DEF Moves, Flag
    <3>2. CASE t # p
      BY <2>1, <3>2, <1>p, <1>n DEF Moves, Flag
    <3>3. QED
      BY <3>1, <3>2
  <2>5. QED
    BY <2>2, <2>3, <2>4, <1>n DEF Flag
<1>5. ASSUME NEW p \in Tasks, Resume(p) PROVE Goal
  <2>1. PICK w : ResumeOf(p, w)
    BY <1>5, ResumeFacts
  <2>2. counter'[t] = counter[t] + Flag(t \in {w})
    BY <2>1, <1>i DEF ResumeOf
  <2>3. Cn = C /\ Fn = F /\ Bn = B /\ letting'[t] = letting[t]
    BY <2>1, <1>s DEF ResumeOf
  <2>4. Wn = W + Flag(t \in {w})
    <3>1. Wn = W - Flag(nowCanRun[p] = t) + Flag(nowCanRun'[p] = t)
      BY <2>1, WakersChange DEF ResumeOf, W, Wn
    <3>2. nowCanRun[p] # t
      <4>1. nowCanRun[p] = NULL
        BY <2>1 DEF ResumeOf, LifeInv, PlaceInv
      <4>2. QED
        BY <4>1, ClientAssumption
    <3>3. nowCanRun'[p] = t <=> t \in {w}
      BY <2>1 DEF ResumeOf
    <3>4. QED
      BY <3>1, <3>2, <3>3, <1>n DEF Flag
  <2>5. Pn = P
    <3>1. CASE t = p \/ t = w
      <4>1. pc[t] \in {"deciding", "parked"} /\ pc'[t] \in {"unlocking", "queued"}
        BY <2>1, <3>1, ClientAssumption DEF ResumeOf
      <4>2. QED
        BY <4>1, <1>c
    <3>2. CASE t # p /\ t # w
      BY <2>1, <3>2, <1>p DEF ResumeOf
    <3>3. QED
      BY <3>1, <3>2
  <2>6. QED
    BY <2>2, <2>3, <2>4, <2>5, <1>n DEF Flag
<1>6. ASSUME NEW p \in Tasks, InformEnd(p) PROVE Goal
  <2> DEFINE w == nowCanRun[p]
             S == {p, w} \ {NULL}
  <2>1. Moves(p, {"unlocking"}, {"terminating"})
    BY <1>6, UnlockFacts DEF InformEnd
  <2>2. S \in SUBSET Tasks /\ w # p
    BY <1>t, ClientAssumption DEF LifeInv, PlaceInv
  <2>3. \A u \in S : counter[u] > 0
    <3>1. p \in current
      BY <2>1 DEF Moves, LifeInv, PlaceInv, Busy
    <3>2. counter[p] > 0
      BY <3>1, <1>t, HeldIsCounted
    <3>3. \A u \in Tasks : w = u => counter[u] > 0
      BY <1>t, HeldIsCounted
    <3>4. QED
      BY <2>2, <3>2, <3>3
  <2>4. counter'[t] = counter[t] - Flag(t \in S)
    BY <1>6, <2>2, <2>3, <1>d DEF InformEnd
  <2>5. Cn = C /\ Fn = F /\ Bn = B /\ letting'[t] = letting[t]
    BY <1>6, <1>s DEF InformEnd
  <2>6. Wn = W - Flag(w = t)
    <3>1. /\ nowCanRun'[p] = NULL
          /\ \A q \in Tasks : q = p \/ nowCanRun'[q] = nowCanRun[q]
      BY <1>6, <1>t DEF InformEnd
    <3>2. Wn = W - Flag(nowCanRun[p] = t) + Flag(nowCanRun'[p] = t)
      BY <3>1, WakersChange DEF W, Wn
    <3>3. nowCanRun'[p] # t
      BY <3>1, ClientAssumption
    <3>4. QED
      BY <3>2, <3>3, <1>n DEF Flag
  <2>7. Pn = P - Flag(t = p)
    <3>1. CASE t = p
      BY <2>1, <3>1, <1>c DEF Moves, Flag
    <3>2. CASE t # p
      BY <2>1, <3>2, <1>p, <1>n DEF Moves, Flag
    <3>3. QED
      BY <3>1, <3>2
  <2>8. Flag(t \in S) = Flag(t = p) + Flag(w = t)
    <3>1. t \in S <=> t = p \/ w = t
      BY ClientAssumption
    <3>2. ~(t = p /\ w = t)
      BY <2>2
    <3>3. QED
      BY <3>1, <3>2 DEF Flag
  <2>9. Flag(t = p) \in {0, 1} /\ Flag(w = t) \in {0, 1}
    BY DEF Flag
  <2> HIDE DEF S, w
  <2>10. QED
    BY <2>4, <2>5, <2>6, <2>7, <2>8, <2>9, <1>n
<1>7. ASSUME NEW p \in Tasks, Run(p) PROVE Goal
  <2>1. Moves(p, {"queued", "polled"}, {"running"})
    BY <1>7, RunFacts DEF Run
  <2>2. counter'[t] = counter[t] + Flag(t \in {p})
    BY <1>7, <1>i DEF Run
  <2>3. Wn = W /\ Fn = F /\ Bn = B /\ letting'[t] = letting[t]
    BY <1>7, <1>s DEF Run
  <2>4. Pn = P - Flag(t \in {p}) /\ Cn = C + Flag(t \in {p})
    <3>1. CASE t = p
      <4>1. t \notin current /\ t \in current'
        BY <1>7, <2>1, <3>1 DEF Run, Moves, LifeInv, PlaceInv, Busy
      <4>2. P = 1 /\ Pn = 0
        BY <2>1, <3>1, <1>c DEF Moves
      <4>3. C = 0 /\ Cn = 1
        BY <4>1 DEF C, Cn, Flag
      <4>4. QED
        BY <4>2, <4>3, <3>1 DEF Flag
    <3>2. CASE t # p
      <4>1. t \in current <=> t \in current'
        BY <1>7, <3>2 DEF Run
      <4>2. Pn = P
        BY <2>1, <3>2, <1>p DEF Moves
      <4>3. Cn = C
        BY <4>1 DEF C, Cn, Flag
      <4>4. QED
        BY <4>2, <4>3, <3>2, <1>n DEF Flag
    <3>3. QED
      BY <3>1, <3>2
  <2>5. QED
    BY <2>2, <2>3, <2>4, <1>n DEF Flag
<1>8. ASSUME NEW p \in Tasks, HandOn(p) PROVE Goal
  <2>1. Moves(p, {"switched"}, {"queued", "parked", "polled"})
    BY <1>8, HandOnFacts DEF HandOn
  <2>2. counter' = counter /\ Wn = W /\ Fn = F /\ Bn = B
    BY <1>8, <1>s DEF HandOn
  <2>3. /\ p \in current /\ current' = current \ {p}
        /\ letting' = [letting EXCEPT ![p] = @ + 1]
    BY <1>8 DEF HandOn
  <2>4. CASE t = p
    <3>1. P = 0 /\ Pn = 1
      BY <2>1, <2>4, <1>c DEF Moves
    <3>2. C = 1 /\ Cn = 0
      BY <2>3, <2>4 DEF C, Cn, Flag
    <3>3. letting'[t] = letting[t] + 1
      BY <2>3, <2>4, <1>t
    <3>4. QED
      BY <2>2, <3>1, <3>2, <3>3, <1>n
  <2>5. CASE t # p
    <3>1. Pn = P
      BY <2>1, <2>5, <1>p DEF Moves
    <3>2. Cn = C /\ letting'[t] = letting[t]
      BY <2>3, <2>5, <1>t DEF C, Cn, Flag
    <3>3. QED
      BY <2>2, <3>1, <3>2, <1>n
  <2>6. QED
    BY <2>4, <2>5
<1>9. ASSUME NEW p \in Tasks, KeepEntry(p) PROVE Goal
  <2>1. Moves(p, {"switched"}, {"queued", "parked", "polled"})
    BY <1>9, HandOnFacts DEF KeepEntry
  <2>2. Wn = W /\ Fn = F /\ Bn = B /\ letting'[t] = letting[t]
    BY <1>9, <1>s DEF KeepEntry
  <2>3. p \in current /\ current' = current \ {p}
    BY <1>9 DEF KeepEntry
  <2>4. counter[p] > 0
    BY <2>3, <1>t, HeldIsCounted
  <2>5. counter'[t] = counter[t] - Flag(t \in {p})
    BY <1>9, <2>4, <1>d DEF KeepEntry
  <2>6. CASE t = p
    <3>1. P = 0 /\ Pn = 1
      BY <2>1, <2>6, <1>c DEF Moves
    <3>2. C = 1 /\ Cn = 0 /\ Flag(t \in {p}) = 1
      BY <2>3, <2>6 DEF C, Cn, Flag
    <3>3. QED
      BY <2>2, <2>5, <3>1, <3>2, <1>n
  <2>7. CASE t # p
    <3>1. Pn = P
      BY <2>1, <2>7, <1>p DEF Moves
    <3>2. Cn = C /\ Flag(t \in {p}) = 0
      BY <2>3, <2>7 DEF C, Cn, Flag
    <3>3. QED
      BY <2>2, <2>5, <3>1, <3>2, <1>n
  <2>8. QED
    BY <2>6, <2>7
<1>10. ASSUME NEW p \in Tasks, Retire(p) PROVE Goal
  <2>1. Pn = P /\ Wn = W /\ Fn = F /\ Bn = B
    BY <1>10, <1>s DEF Retire, vars
  <2>2. /\ p \in current /\ current' = current \ {p}
        /\ letting' = [letting EXCEPT ![p] = @ + 1]
    BY <1>10 DEF Retire
  <2>3. counter[p] > 0
    BY <2>2, <1>t, HeldIsCounted
  <2>4. counter'[t] = counter[t] - Flag(t \in {p})
    BY <1>10, <2>3, <1>d DEF Retire
  <2>5. CASE t = p
    <3>1. C = 1 /\ Cn = 0 /\ Flag(t \in {p}) = 1
      BY <2>2, <2>5 DEF C, Cn, Flag
    <3>2. letting'[t] = letting[t] + 1
      BY <2>2, <2>5, <1>t
    <3>3. QED
      BY <2>1, <2>4, <3>1, <3>2, <1>n
  <2>6. CASE t # p
    <3>1. Cn = C /\ Flag(t \in {p}) = 0 /\ letting'[t] = letting[t]
      BY <2>2, <2>6, <1>t DEF C, Cn, Flag
    <3>2. QED
      BY <2>1, <2>4, <3>1, <1>n
  <2>7. QED
    BY <2>5, <2>6
<1>11. ASSUME NEW p \in Tasks, LetGo(p) PROVE Goal
  <2>1. Pn = P /\ Cn = C /\ Wn = W /\ Fn = F /\ Bn = B
    BY <1>11, <1>s DEF LetGo, vars
  <2>2. letting[p] > 0 /\ letting' = [letting EXCEPT ![p] = @ - 1]
    BY <1>11 DEF LetGo
  <2>3. counter[p] > 0
    BY <2>2, <1>t, HeldIsCounted
  <2>4. counter'[t] = counter[t] - Flag(t \in {p})
    BY <1>11, <2>3, <1>d DEF LetGo
  <2>5. letting'[t] = letting[t] - Flag(t \in {p})
    BY <2>2, <1>t DEF Flag
  <2>6. QED
    BY <2>1, <2>4, <2>5, <1>n DEF Flag
<1>12. ASSUME NEW p \in Tasks, DropBound(p) PROVE Goal
  <2>1. PICK u \in bound[p] : Decrease({u}) /\ bound' = [bound EXCEPT ![p] = @ \ {u}]
    BY <1>12 DEF DropBound
  <2>2. u \in Tasks /\ counter[u] > 0
    BY <2>1, <1>t, HeldIsCounted
  <2>3. counter'[t] = counter[t] - Flag(t \in {u})
    BY <2>1, <2>2, <1>d
  <2>4. /\ bound'[p] = bound[p] \ {u}
        /\ \A q \in Tasks : q = p \/ bound'[q] = bound[q]
    BY <2>1, <1>t
  <2>5. Bn = B - Flag(t \in bound[p]) + Flag(t \in bound'[p])
    BY <2>4, KeepersChange DEF B, Bn
  <2>6. Bn = B - Flag(t \in {u})
    <3>1. CASE t = u
      <4>1. t \in bound[p] /\ t \notin bound'[p] /\ t \in {u}
        BY <2>1, <2>4, <3>1
      <4>2. QED
        BY <4>1, <2>5, <1>n DEF Flag
    <3>2. CASE t # u
      <4>1. (t \in bound[p] <=> t \in bound'[p]) /\ t \notin {u}
        BY <2>4, <3>2
      <4>2. QED
        BY <4>1, <2>5, <1>n DEF Flag
    <3>3. QED
      BY <3>1, <3>2
  <2>7. Pn = P /\ Cn = C /\ Wn = W /\ Fn = F /\ letting'[t] = letting[t]
    BY <1>12, <1>s DEF DropBound, vars
  <2>8. QED
    BY <2>3, <2>6, <2>7, <1>n DEF Flag
<1>13. CASE Destroyed \/ UNCHANGED lifeVars
  <2>1. UNCHANGED <<vars, refVars>>
    BY <1>13 DEF Destroyed, AllDone, lifeVars
  <2>2. /\ Pn = P /\ Cn = C /\ Wn = W /\ Fn = F /\ Bn = B
        /\ counter'[t] = counter[t] /\ letting'[t] = letting[t]
    BY <2>1, <1>s DEF vars, refVars
  <2>3. QED
    BY <2>2, <1>n, <1>g
<1>14. QED
  BY <1>1, <1>2, <1>3, <1>4, <1>5, <1>6, <1>7, <1>8, <1>9, <1>10, <1>11, <1>12, <1>13, <1>g
  DEF LifeNext, Library

----------------------------------------------------------------------------
(* The life of a task *)

(***************************************************************************)
(* But for the spawning of a task, only counts that are positive change,   *)
(* all up by one or all down by one.                                       *)
(***************************************************************************)
Counts(S) ==
    /\ \A t \in S : counter[t] > 0
    /\ (Increase(S) /\ deleted' = deleted) \/ Decrease(S)
    /\ \A t \in Tasks : pc'[t] = "new" <=> pc[t] = "new"
    /\ bound' = bound \/ \E p \in Tasks : \E u : bound' = [bound EXCEPT ![p] = @ \ {u}]

(* Every step creates a task or changes counts in one of these ways. *)
LEMMA CountsFacts ==
  ASSUME IInv, LifeInv, [LifeNext]_lifeVars
  PROVE  \/ \E p, t \in Tasks : \E S : SpawnOf(p, t, S)
         \/ \E S \in SUBSET Tasks : Counts(S)
<1>t. /\ LifeTypeOK /\ CountInv
      /\ counter \in [Tasks -> Nat]
      /\ nowCanRun \in [Tasks -> Tasks \cup {NULL}]
      /\ frame \in [Tasks -> SUBSET Tasks]
      /\ bound \in [Tasks -> SUBSET Tasks]
  BY DEF LifeInv, LifeTypeOK
<1>n. ASSUME counter' = counter, deleted' = deleted, bound' = bound,
             \A t \in Tasks : pc'[t] = "new" <=> pc[t] = "new"
      PROVE  Counts({})
  BY <1>n, <1>t DEF Counts, Increase
<1>c. \A t \in current : t \in Tasks /\ counter[t] > 0
  BY <1>t, HeldIsCounted DEF LifeTypeOK
<1>1. ASSUME NEW p \in Tasks, NEW t \in Tasks, Spawn(p, t) PROVE \E S : SpawnOf(p, t, S)
  BY <1>1, SpawnFacts
<1>2. ASSUME NEW p \in Tasks, DropHandle(p) PROVE \E S \in SUBSET Tasks : Counts(S)
  <2>1. PICK u \in frame[p] : Decrease({u})
    BY <1>2 DEF DropHandle
  <2>2. u \in Tasks /\ counter[u] > 0
    BY <2>1, <1>t, HeldIsCounted
  <2>3. Counts({u})
    BY <1>2, <2>1, <2>2 DEF Counts, DropHandle, vars
  <2>4. QED
    BY <2>2, <2>3
<1>3. ASSUME NEW p \in Tasks, Call(p) PROVE Counts({})
  <2>1. /\ \/ Moves(p, {"running"}, {"running", "switched", "terminating"})
           \/ Moves(p, {"terminating"}, {"done"})
        /\ UNCHANGED refVars
    BY <1>3, CallFacts
  <2>2. QED
    BY <2>1, <1>n DEF Moves, refVars
<1>4. ASSUME NEW p \in Tasks, Inform(p) PROVE Counts({p})
  <2>1. Moves(p, {"terminating"}, {"deciding", "unlocking"})
    BY <1>4, InformFacts DEF Inform
  <2>2. p \in current
    BY <2>1 DEF Moves, LifeInv, PlaceInv, Busy
  <2>3. QED
    BY <1>4, <1>c, <2>1, <2>2 DEF Counts, Inform, Moves
<1>5. ASSUME NEW p \in Tasks, Resume(p) PROVE \E S \in SUBSET Tasks : Counts(S)
  <2>1. PICK w : ResumeOf(p, w)
    BY <1>5, ResumeFacts
  <2>2. CASE w = NULL
    <3>1. counter' = counter
      BY <2>1, <2>2, <1>t, ClientAssumption DEF ResumeOf, Increase
    <3>2. QED
      BY <2>1, <2>2, <3>1, <1>n, ClientAssumption DEF ResumeOf
  <2>3. CASE w \in Tasks
    <3>1. pc[w] = "parked" /\ pc'[w] = "queued" /\ counter[w] > 0
      BY <2>1, <2>3, <1>t, HeldIsCounted, ClientAssumption DEF ResumeOf
    <3>2. QED
      BY <2>1, <2>3, <3>1 DEF ResumeOf, Counts
  <2>4. QED
    BY <2>1, <2>2, <2>3 DEF ResumeOf
<1>6. ASSUME NEW p \in Tasks, InformEnd(p) PROVE \E S \in SUBSET Tasks : Counts(S)
  <2> DEFINE S == {p, nowCanRun[p]} \ {NULL}
  <2>1. Moves(p, {"unlocking"}, {"terminating"})
    BY <1>6, UnlockFacts DEF InformEnd
  <2>2. counter[p] > 0
    BY <2>1, <1>c DEF Moves, LifeInv, PlaceInv, Busy
  <2>3. S \in SUBSET Tasks /\ \A u \in S : counter[u] > 0
    BY <2>2, <1>t, HeldIsCounted
  <2>4. Counts(S)
    BY <1>6, <2>1, <2>3 DEF InformEnd, Counts, Moves
  <2>5. QED
    BY <2>3, <2>4
<1>7. ASSUME NEW p \in Tasks, Run(p) PROVE Counts({p})
  <2>1. Moves(p, {"queued", "polled"}, {"running"})
    BY <1>7, RunFacts DEF Run
  <2>2. counter[p] > 0
    BY <2>1, <1>t, HeldIsCounted DEF Moves
  <2>3. QED
    BY <1>7, <2>1, <2>2 DEF Counts, Run, Moves
<1>8. ASSUME NEW p \in Tasks, HandOn(p) PROVE Counts({})
  <2>1. Moves(p, {"switched"}, {"queued", "parked", "polled"})
    BY <1>8, HandOnFacts DEF HandOn
  <2>2. QED
    BY <1>8, <2>1, <1>n DEF HandOn, Moves
<1>9. ASSUME NEW p \in Tasks, KeepEntry(p) PROVE Counts({p})
  <2>1. Moves(p, {"switched"}, {"queued", "parked", "polled"})
    BY <1>9, HandOnFacts DEF KeepEntry
  <2>2. QED
    BY <1>9, <2>1, <1>c DEF KeepEntry, Moves, Counts
<1>10. ASSUME NEW p \in Tasks, Retire(p) PROVE Counts({p})
  BY <1>10, <1>c DEF Retire, Counts, vars
<1>11. ASSUME NEW p \in Tasks, LetGo(p) PROVE Counts({p})
  <2>1. counter[p] > 0
    BY <1>11, <1>t, HeldIsCounted DEF LetGo
  <2>2. QED
    BY <1>11, <2>1 DEF LetGo, Counts, vars
<1>12. ASSUME NEW p \in Tasks, DropBound(p) PROVE \E S \in SUBSET Tasks : Counts(S)
  <2>1. PICK u \in bound[p] : Decrease({u}) /\ bound' = [bound EXCEPT ![p] = @ \ {u}]
    BY <1>12 DEF DropBound
  <2>2. u \in Tasks /\ counter[u] > 0
    BY <2>1, <1>t, HeldIsCounted
  <2>3. Counts({u})
    BY <1>12, <2>1, <2>2 DEF Counts, DropBound, vars
  <2>4. QED
    BY <2>2, <2>3
<1>13. CASE Destroyed \/ UNCHANGED lifeVars
  <2>1. UNCHANGED <<vars, refVars>>
    BY <1>13 DEF Destroyed, AllDone, lifeVars
  <2>2. QED
    BY <2>1, <1>n DEF vars, refVars
<1>14. QED
  BY <1>1, <1>2, <1>3, <1>4, <1>5, <1>6, <1>7, <1>8, <1>9, <1>10, <1>11, <1>12, <1>13
  DEF LifeNext, Library

(* Deleted are those whose count came back to 0, and no others. *)
LEMMA DeadStep == IInv /\ LifeInv /\ [LifeNext]_lifeVars => DeadInv'
<1> SUFFICES ASSUME IInv, LifeInv, [LifeNext]_lifeVars, NEW t \in Tasks
             PROVE  t \in deleted' <=> pc'[t] # "new" /\ counter'[t] = 0
  BY DEF DeadInv
<1>1. LifeTypeOK /\ counter[t] \in Nat /\ (t \in deleted <=> pc[t] # "new" /\ counter[t] = 0)
  BY DEF LifeInv, LifeTypeOK, DeadInv
<1>2. ASSUME NEW p \in Tasks, NEW u \in Tasks, NEW S, SpawnOf(p, u, S)
      PROVE  t \in deleted' <=> pc'[t] # "new" /\ counter'[t] = 0
  BY <1>1, <1>2 DEF SpawnOf, Flag
<1>3. ASSUME NEW S \in SUBSET Tasks, Counts(S)
      PROVE  t \in deleted' <=> pc'[t] # "new" /\ counter'[t] = 0
  <2>1. /\ \A u \in S : counter[u] > 0
        /\ pc'[t] = "new" <=> pc[t] = "new"
    BY <1>3 DEF Counts
  <2>2. CASE Increase(S) /\ deleted' = deleted
    <3>1. counter'[t] = counter[t] + Flag(t \in S)
      BY <2>2, <1>1, Increased
    <3>2. CASE t \in S
      BY <1>1, <2>1, <2>2, <3>1, <3>2 DEF Flag
    <3>3. CASE t \notin S
      BY <1>1, <2>1, <2>2, <3>1, <3>3 DEF Flag
    <3>4. QED
      BY <3>2, <3>3
  <2>3. CASE Decrease(S)
    <3>1. /\ counter'[t] = counter[t] - Flag(t \in S)
          /\ t \in deleted' <=> t \in deleted \/ (t \in S /\ counter[t] = 1)
      BY <2>1, <2>3, <1>1, Decreased
    <3>2. CASE t \in S
      <4>1. pc[t] # "new"
        BY <2>1, <3>2, <1>1 DEF LifeInv, PlaceInv
      <4>2. counter[t] > 0 /\ counter'[t] = counter[t] - 1
        BY <2>1, <3>1, <3>2 DEF Flag
      <4>3. QED
        BY <1>1, <2>1, <3>1, <3>2, <4>1, <4>2
    <3>3. CASE t \notin S
      BY <1>1, <2>1, <3>1, <3>3 DEF Flag
    <3>4. QED
      BY <3>2, <3>3
  <2>4. QED
    BY <1>3, <2>2, <2>3 DEF Counts
<1>4. QED
  BY <1>2, <1>3, CountsFacts

(***************************************************************************)
(* What is bound to a new task was there before it: the new one is the     *)
(* youngest of every set that it is in.                                    *)
(***************************************************************************)
LEMMA AcyclicStep == IInv /\ LifeInv /\ [LifeNext]_lifeVars => AcyclicInv'
<1> SUFFICES ASSUME IInv, LifeInv, [LifeNext]_lifeVars, NEW X \in SUBSET Tasks, X # {}
             PROVE  \E u \in X : \A v \in X : u \notin bound'[v]
  BY DEF AcyclicInv
<1>1. LifeTypeOK /\ CountInv /\ bound \in [Tasks -> SUBSET Tasks]
  BY DEF LifeInv, LifeTypeOK
<1>2. PICK y \in X : \A v \in X : y \notin bound[v]
  BY DEF LifeInv, AcyclicInv
<1>3. ASSUME NEW p \in Tasks, NEW t \in Tasks, NEW S, SpawnOf(p, t, S)
      PROVE  \E u \in X : \A v \in X : u \notin bound'[v]
  <2>1. /\ bound'[t] = S /\ t \notin S /\ counter[t] = 0
        /\ \A v \in Tasks : v # t => bound'[v] = bound[v]
    BY <1>3 DEF SpawnOf
  <2>2. CASE t \in X
    <3>1. \A v \in Tasks : t \notin bound[v]
      BY <1>1, <2>1, NoneHeld
    <3>2. QED
      BY <2>1, <2>2, <3>1
  <2>3. CASE t \notin X
    BY <1>2, <2>1, <2>3
  <2>4. QED
    BY <2>2, <2>3
<1>4. ASSUME NEW S \in SUBSET Tasks, Counts(S)
      PROVE  \E u \in X : \A v \in X : u \notin bound'[v]
  <2>1. \A v \in Tasks : bound'[v] \subseteq bound[v]
    BY <1>1, <1>4 DEF Counts
  <2>2. QED
    BY <1>2, <2>1
<1>5. QED
  BY <1>3, <1>4, CountsFacts

(* No count goes below zero, and every other variable keeps its type. *)
LEMMA LifeTypeStep == IInv /\ LifeInv /\ [LifeNext]_lifeVars => LifeTypeOK'
<1> SUFFICES ASSUME IInv, LifeInv, [LifeNext]_lifeVars PROVE LifeTypeOK'
  OBVIOUS
<1>t. /\ LifeTypeOK
      /\ letting \in [Tasks -> Nat]
      /\ current \in SUBSET Tasks
      /\ nowCanRun \in [Tasks -> Tasks \cup {NULL}]
      /\ frame \in [Tasks -> SUBSET Tasks]
      /\ bound \in [Tasks -> SUBSET Tasks]
      /\ entry \in [Tasks -> BOOLEAN]
      /\ deleted \in SUBSET Tasks
  BY DEF LifeInv, LifeTypeOK
<1>1. counter' \in [Tasks -> Nat] /\ deleted' \in SUBSET Tasks /\ bound' \in [Tasks -> SUBSET Tasks]
  <2>1. ASSUME NEW p \in Tasks, NEW t \in Tasks, NEW S, SpawnOf(p, t, S)
        PROVE  counter' \in [Tasks -> Nat] /\ deleted' \in SUBSET Tasks /\ bound' \in [Tasks -> SUBSET Tasks]
    BY <2>1, <1>t DEF SpawnOf
  <2>2. ASSUME NEW S \in SUBSET Tasks, Counts(S)
        PROVE  counter' \in [Tasks -> Nat] /\ deleted' \in SUBSET Tasks
    <3>1. CASE Increase(S) /\ deleted' = deleted
      BY <3>1, <1>t, Increased
    <3>2. CASE Decrease(S)
      BY <2>2, <3>2, <1>t, Decreased DEF Counts
    <3>3. QED
      BY <2>2, <3>1, <3>2 DEF Counts
  <2>3. ASSUME NEW S \in SUBSET Tasks, Counts(S) PROVE bound' \in [Tasks -> SUBSET Tasks]
    BY <2>3, <1>t DEF Counts
  <2>4. QED
    BY <2>1, <2>2, <2>3, CountsFacts
<1>2. frame' \in [Tasks -> SUBSET Tasks]
  <2>1. ASSUME NEW p \in Tasks, NEW t \in Tasks, Spawn(p, t) PROVE frame' \in [Tasks -> SUBSET Tasks]
    BY <2>1, <1>t DEF Spawn
  <2>2. ASSUME NEW p \in Tasks, DropHandle(p) PROVE frame' \in [Tasks -> SUBSET Tasks]
    BY <2>2, <1>t DEF DropHandle
  <2>3. CASE frame' = frame
    BY <2>3, <1>t
  <2>4. QED
    BY <2>1, <2>2, <2>3 DEF LifeNext, Library, Call, Inform, Resume, InformEnd, Run, HandOn,
       KeepEntry, Retire, LetGo, DropBound, Destroyed, lifeVars, refVars
<1>3. entry' \in [Tasks -> BOOLEAN]
  <2>1. ASSUME NEW p \in Tasks, NEW x \in BOOLEAN, entry' = [entry EXCEPT ![p] = x]
        PROVE  entry' \in [Tasks -> BOOLEAN]
    BY <2>1, <1>t
  <2>2. CASE entry' = entry
    BY <2>2, <1>t
  <2>3. (\E p \in Tasks, x \in BOOLEAN : entry' = [entry EXCEPT ![p] = x]) \/ entry' = entry
    <3>1. ASSUME NEW p \in Tasks, HandOn(p) PROVE \E x \in BOOLEAN : entry' = [entry EXCEPT ![p] = x]
      <4>1. (state[p] = "MPIBlocked") \in BOOLEAN
        OBVIOUS
      <4>2. entry' = [entry EXCEPT ![p] = state[p] = "MPIBlocked"]
        BY <3>1 DEF HandOn
      <4>3. QED
        BY <4>1, <4>2
    <3>2. ASSUME NEW p \in Tasks, Retire(p) PROVE \E x \in BOOLEAN : entry' = [entry EXCEPT ![p] = x]
      BY <3>2 DEF Retire
    <3>3. QED
      BY <3>1, <3>2 DEF LifeNext, Library, Spawn, DropHandle, Call, Inform, Resume, InformEnd, Run,
         KeepEntry, LetGo, DropBound, Destroyed, lifeVars, refVars
  <2>4. QED
    BY <2>1, <2>2, <2>3
<1>4. current' \in SUBSET Tasks
  BY <1>t DEF LifeNext, Library, Spawn, DropHandle, Call, Inform, Resume, InformEnd, Run, HandOn,
     KeepEntry, Retire, LetGo, DropBound, Destroyed, lifeVars, refVars
<1>5. letting' \in [Tasks -> Nat]
  <2>1. ASSUME NEW p \in Tasks, HandOn(p) \/ Retire(p) PROVE letting' \in [Tasks -> Nat]
    BY <2>1, <1>t DEF HandOn, Retire
  <2>2. ASSUME NEW p \in Tasks, LetGo(p) PROVE letting' \in [Tasks -> Nat]
    <3>1. letting[p] \in Nat /\ letting[p] > 0 /\ letting' = [letting EXCEPT ![p] = letting[p] - 1]
      BY <2>2, <1>t DEF LetGo
    <3>2. letting[p] - 1 \in Nat
      BY <3>1
    <3>3. QED
      BY <3>1, <3>2, <1>t
  <2>3. CASE letting' = letting
    BY <2>3, <1>t
  <2>4. QED
    BY <2>1, <2>2, <2>3 DEF LifeNext, Library, Spawn, DropHandle, Call, Inform, Resume, InformEnd, Run,
       KeepEntry, DropBound, Destroyed, lifeVars, refVars
<1>6. nowCanRun' \in [Tasks -> Tasks \cup {NULL}]
  <2>1. ASSUME NEW p \in Tasks, Resume(p) PROVE nowCanRun' \in [Tasks -> Tasks \cup {NULL}]
    <3>1. PICK w : ResumeOf(p, w)
      BY <2>1, ResumeFacts
    <3>2. \E x : nowCanRun' = [nowCanRun EXCEPT ![p] = x]
      BY <2>1 DEF Resume
    <3>3. QED
      BY <3>1, <3>2, <1>t DEF ResumeOf
  <2>2. ASSUME NEW p \in Tasks, InformEnd(p) PROVE nowCanRun' \in [Tasks -> Tasks \cup {NULL}]
    BY <2>2, <1>t DEF InformEnd
  <2>3. CASE nowCanRun' = nowCanRun
    BY <2>3, <1>t
  <2>4. QED
    BY <2>1, <2>2, <2>3 DEF LifeNext, Library, Spawn, DropHandle, Call, Inform, Run, HandOn,
       KeepEntry, Retire, LetGo, DropBound, Destroyed, lifeVars, refVars
<1>7. QED
  BY <1>1, <1>2, <1>3, <1>4, <1>5, <1>6 DEF LifeTypeOK

(***************************************************************************)
(* A thread has the task from the dispatch to the hand-over, nowCanRun is  *)
(* set and reset within informDone(), and new tasks stay untouched.        *)
(***************************************************************************)
LEMMA PlaceStep == IInv /\ LifeInv /\ [LifeNext]_lifeVars => PlaceInv'
<1> SUFFICES ASSUME IInv, LifeInv, [LifeNext]_lifeVars, NEW t \in Tasks
             PROVE  /\ t \in current' => pc'[t] \in Busy \cup {"done"}
                    /\ pc'[t] \in Busy => t \in current'
                    /\ nowCanRun'[t] # NULL => pc'[t] = "unlocking" /\ nowCanRun'[t] # t
                    /\ pc'[t] = "new" => counter'[t] = 0 /\ bound'[t] = {}
  BY DEF PlaceInv
<1>t. /\ LifeTypeOK /\ bound \in [Tasks -> SUBSET Tasks] /\ current \subseteq Tasks
      /\ nowCanRun \in [Tasks -> Tasks \cup {NULL}]
      /\ counter[t] \in Nat
      /\ t \in current => pc[t] \in Busy \cup {"done"}
      /\ pc[t] \in Busy => t \in current
      /\ nowCanRun[t] # NULL => pc[t] = "unlocking" /\ nowCanRun[t] # t
      /\ pc[t] = "new" => counter[t] = 0 /\ bound[t] = {}
  BY DEF LifeInv, LifeTypeOK, PlaceInv
<1>n. pc'[t] = "new" => counter'[t] = 0 /\ bound'[t] = {}
  <2>1. ASSUME NEW p \in Tasks, NEW u \in Tasks, NEW S, SpawnOf(p, u, S), pc'[t] = "new"
        PROVE  counter'[t] = 0 /\ bound'[t] = {}
    BY <2>1, <1>t DEF SpawnOf, Flag
  <2>2. ASSUME NEW S \in SUBSET Tasks, Counts(S), pc'[t] = "new"
        PROVE  counter'[t] = 0 /\ bound'[t] = {}
    <3>1. pc[t] = "new" /\ counter[t] = 0 /\ bound[t] = {} /\ t \notin S
      BY <2>2, <1>t DEF Counts
    <3>2. counter'[t] = 0
      BY <2>2, <3>1 DEF Counts, Increase, Decrease
    <3>3. bound'[t] = {}
      BY <2>2, <3>1, <1>t DEF Counts
    <3>4. QED
      BY <3>2, <3>3
  <2>3. QED
    BY <2>1, <2>2, CountsFacts
<1> DEFINE Goal == /\ t \in current' => pc'[t] \in Busy \cup {"done"}
                   /\ pc'[t] \in Busy => t \in current'
                   /\ nowCanRun'[t] # NULL => pc'[t] = "unlocking" /\ nowCanRun'[t] # t
<1>s. ASSUME pc'[t] = pc[t], current' = current, nowCanRun' = nowCanRun PROVE Goal
  BY <1>s, <1>t
<1> USE DEF Busy
<1>1. ASSUME NEW p \in Tasks, NEW u \in Tasks, Spawn(p, u) PROVE Goal
  <2>1. PICK S : SpawnOf(p, u, S)
    BY <1>1, SpawnFacts
  <2>2. QED
    BY <2>1, <1>t DEF SpawnOf
<1>2. ASSUME NEW p \in Tasks, DropHandle(p) \/ LetGo(p) \/ DropBound(p) PROVE Goal
  BY <1>2, <1>s DEF DropHandle, LetGo, DropBound, vars
<1>3. ASSUME NEW p \in Tasks, Call(p) PROVE Goal
  <2>1. /\ \/ Moves(p, {"running"}, {"running", "switched", "terminating"})
           \/ Moves(p, {"terminating"}, {"done"})
        /\ UNCHANGED refVars
    BY <1>3, CallFacts
  <2>2. CASE t = p
    BY <2>1, <2>2, <1>t DEF Moves, refVars
  <2>3. CASE t # p
    BY <2>1, <2>3, <1>t DEF Moves, refVars
  <2>4. QED
    BY <2>2, <2>3
<1>4. ASSUME NEW p \in Tasks, Inform(p) PROVE Goal
  <2>1. Moves(p, {"terminating"}, {"deciding", "unlocking"})
    BY <1>4, InformFacts DEF Inform
  <2>2. QED
    BY <1>4, <2>1, <1>t DEF Inform, Moves
<1>5. ASSUME NEW p \in Tasks, Resume(p) PROVE Goal
  <2>1. PICK w : ResumeOf(p, w)
    BY <1>5, ResumeFacts
  <2>2. CASE t = p
    BY <2>1, <2>2, <1>t DEF ResumeOf
  <2>3. CASE t = w
    BY <2>1, <2>3, <1>t, ClientAssumption DEF ResumeOf
  <2>4. CASE t # p /\ t # w
    BY <2>1, <2>4, <1>t DEF ResumeOf
  <2>5. QED
    BY <2>2, <2>3, <2>4
<1>6. ASSUME NEW p \in Tasks, InformEnd(p) PROVE Goal
  <2>1. Moves(p, {"unlocking"}, {"terminating"})
    BY <1>6, UnlockFacts DEF InformEnd
  <2>2. nowCanRun' = [nowCanRun EXCEPT ![p] = NULL] /\ current' = current
    BY <1>6 DEF InformEnd
  <2>3. QED
    BY <2>1, <2>2, <1>t DEF Moves
<1>7. ASSUME NEW p \in Tasks, Run(p) PROVE Goal
  <2>1. Moves(p, {"queued", "polled"}, {"running"})
    BY <1>7, RunFacts DEF Run
  <2>2. current' = current \cup {p} /\ nowCanRun' = nowCanRun
    BY <1>7 DEF Run
  <2>3. QED
    BY <2>1, <2>2, <1>t DEF Moves
<1>8. ASSUME NEW p \in Tasks, HandOn(p) \/ KeepEntry(p) PROVE Goal
  <2>1. Moves(p, {"switched"}, {"queued", "parked", "polled"})
    BY <1>8, HandOnFacts DEF HandOn, KeepEntry
  <2>2. current' = current \ {p} /\ nowCanRun' = nowCanRun
    BY <1>8 DEF HandOn, KeepEntry
  <2>3. QED
    BY <2>1, <2>2, <1>t DEF Moves
<1>9. ASSUME NEW p \in Tasks, Retire(p) PROVE Goal
  <2>1. pc[p] = "done" /\ pc' = pc /\ current' = current \ {p} /\ nowCanRun' = nowCanRun
    BY <1>9 DEF Retire, vars
  <2>2. QED
    BY <2>1, <1>t
<1>10. ASSUME Destroyed \/ UNCHANGED lifeVars PROVE Goal
  <2>1. UNCHANGED <<vars, refVars>>
    BY <1>10 DEF Destroyed, AllDone, lifeVars
  <2>2. pc'[t] = pc[t] /\ current' = current /\ nowCanRun' = nowCanRun
    BY <2>1 DEF vars, refVars
  <2>3. QED
    BY <2>2, <1>s
<1>11. Goal
  BY <1>1, <1>2, <1>3, <1>4, <1>5, <1>6, <1>7, <1>8, <1>9, <1>10 DEF LifeNext, Library
<1>12. QED
  BY <1>n, <1>11

----------------------------------------------------------------------------
(* The theorems *)

(* main() has spawned the root and let go of it. *)
LEMMA InitLifeInv == LifeInit => LifeInv
<1> SUFFICES ASSUME LifeInit PROVE LifeInv
  OBVIOUS
<1>1. LifeTypeOK
  BY ClientAssumption DEF LifeInit, LifeTypeOK
<1>2. PlaceInv
  BY ClientAssumption DEF LifeInit, Init, PlaceInv, Busy
<1>3. DeadInv
  BY ClientAssumption DEF LifeInit, Init, DeadInv
<1>4. AcyclicInv
  BY DEF LifeInit, AcyclicInv
<1>5. ASSUME NEW t \in Tasks PROVE counter[t] = Count(t)
  <2>1. Wakers(nowCanRun, t) = {} /\ Keepers(frame, t) = {} /\ Keepers(bound, t) = {}
    BY ClientAssumption DEF LifeInit, Wakers, Keepers
  <2>2. Cardinality({}) = 0
    BY FS_EmptySet
  <2>3. Placed(t) = (IF t = Root THEN 1 ELSE 0)
    BY DEF LifeInit, Init, Placed, Flag
  <2>4. Flag(t \in current) = 0 /\ letting[t] = 0 /\ counter[t] = IF t = Root THEN 1 ELSE 0
    BY DEF LifeInit, Flag
  <2>5. QED
    BY <2>1, <2>2, <2>3, <2>4 DEF Count
<1>6. QED
  BY <1>1, <1>2, <1>3, <1>4, <1>5 DEF LifeInv, CountInv

(* The parts of the invariant hold in every reachable state. *)
THEOREM LifeInvariant == LifeSpec => [](IInv /\ LifeInv)
<1>1. IInv /\ LifeInv /\ [LifeNext]_lifeVars => LifeInv'
  BY LifeTypeStep, RefStep, PlaceStep, DeadStep, AcyclicStep DEF LifeInv
<1>2. QED
  BY InitLifeInv, ImplementsTaskGroup, Invariant, <1>1, PTL DEF LifeSpec

(* What is counted is well typed: no count is negative. *)
THEOREM LifeTypeCorrect == LifeSpec => []LifeTypeOK
<1>1. LifeInv => LifeTypeOK
  BY DEF LifeInv
<1>2. QED
  BY <1>1, LifeInvariant, PTL

(***************************************************************************)
(* The count of every task is the number of TaskPtrs to it (util.hh:64).   *)
(***************************************************************************)
THEOREM RefCorrect == LifeSpec => []RefExact
<1>1. IInv /\ LifeInv => RefExact
  BY CountIsReferences DEF LifeInv, CountInv, RefExact
<1>2. QED
  BY <1>1, LifeInvariant, PTL

(***************************************************************************)
(* A task that is deleted (Task.hh:42) is done, and nothing refers to it:  *)
(* as long as it is queued, run, parked or terminating, somebody does.     *)
(***************************************************************************)
THEOREM DeleteCorrect == LifeSpec => []NoUseAfterDelete
<1>1. IInv /\ LifeInv => NoUseAfterDelete
  <2> SUFFICES ASSUME IInv, LifeInv, NEW t \in deleted
               PROVE  pc[t] = "done" /\ References(t) = 0
    BY DEF NoUseAfterDelete
  <2>1. t \in Tasks /\ LifeTypeOK /\ CountInv /\ pc[t] \in Control
    BY DEF LifeInv, LifeTypeOK, IInv, TypeOK
  <2>2. pc[t] # "new" /\ counter[t] = 0
    BY <2>1 DEF LifeInv, DeadInv
  <2>3. References(t) = 0
    BY <2>1, <2>2, CountIsReferences DEF CountInv
  <2>4. pc[t] \notin Busy
    BY <2>1, <2>2, NoneHeld DEF LifeInv, PlaceInv
  <2>5. pc[t] \notin {"queued", "polled", "parked"}
    BY <2>1, <2>2, HeldIsCounted
  <2>6. QED
    BY <2>1, <2>2, <2>3, <2>4, <2>5 DEF Busy, Control
<1>2. QED
  BY <1>1, LifeInvariant, PTL

(***************************************************************************)
(* No leak: a task that is done and not deleted would be bound to another  *)
(* such task, and that one to a third, without end.                        *)
(***************************************************************************)
THEOREM ReclaimCorrect == LifeSpec => []AllReclaimed
<1>1. IInv /\ LifeInv => AllReclaimed
  <2> SUFFICES ASSUME IInv, LifeInv, current = {},
                      \A t \in Tasks : /\ pc[t] \in {"new", "done"}
                                       /\ frame[t] = {} /\ letting[t] = 0,
                      \A t \in deleted : bound[t] = {}
               PROVE  \A t \in Tasks : pc[t] = "done" => t \in deleted
    BY DEF AllReclaimed
  <2> DEFINE X == {t \in Tasks : pc[t] = "done" /\ t \notin deleted}
  <2>1. SUFFICES ASSUME X # {} PROVE FALSE
    OBVIOUS
  <2>2. PICK u \in X : \A v \in X : u \notin bound[v]
    BY <2>1 DEF LifeInv, AcyclicInv
  <2>3. \A v \in Tasks : u \notin bound[v]
    <3>1. \A v \in Tasks : v \notin X => v \in deleted \/ pc[v] = "new"
      OBVIOUS
    <3>2. \A v \in Tasks : pc[v] = "new" => bound[v] = {}
      BY DEF LifeInv, PlaceInv
    <3>3. QED
      BY <2>2, <3>1, <3>2
  <2>4. \A v \in Tasks : nowCanRun[v] # u
    BY ClientAssumption DEF LifeInv, PlaceInv
  <2>5. Wakers(nowCanRun, u) = {} /\ Keepers(frame, u) = {} /\ Keepers(bound, u) = {}
    BY <2>3, <2>4 DEF Wakers, Keepers
  <2>6. Cardinality({}) = 0
    BY FS_EmptySet
  <2>7. u \in Tasks /\ pc[u] = "done"
    OBVIOUS
  <2>8. Placed(u) = 0 /\ Flag(u \in current) = 0 /\ letting[u] = 0
    BY <2>7 DEF Placed, Flag
  <2>9. Count(u) = 0
    BY <2>5, <2>6, <2>8 DEF Count
  <2>10. QED
    BY <2>7, <2>9 DEF LifeInv, CountInv, DeadInv
<1>2. QED
  BY <1>1, LifeInvariant, PTL

(* wait() keeps its promise here as well. *)
THEOREM JoinInLife == LifeSpec => []JoinSafe
BY ImplementsTaskGroup, JoinCorrect, PTL
================================================================================
