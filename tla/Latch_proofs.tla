----------------------------- MODULE Latch_proofs -----------------------------
(***************************************************************************)
(* Proofs about module Latch, for every finite set of tasks that call      *)
(* down() and every set of tasks that call wait(): no wait() returns       *)
(* before the last down(), and none is woken twice.                        *)
(*                                                                         *)
(* As long as a down() is outstanding nobody has touched the group but the *)
(* waiters (OpenInv), so that the count of the group is the number of      *)
(* registrations, and a waiter that is past its own one finds it above 0   *)
(* (RegisteredInv).                                                        *)
(***************************************************************************)
EXTENDS Latch, TLAPS, FiniteSetTheorems

(* The users that have not called down(). *)
Outstanding == {d \in Downers : pc[d] = "start"}

(* The types, without the bounds that are proved of them below. *)
Typed ==
    /\ counter \in Nat
    /\ fini \in BOOLEAN
    /\ cur_groups \in Nat
    /\ blocking_count \in Int
    /\ blockedTask \in Waiters \cup {NULL}
    /\ pc \in [Downers \cup Waiters -> DownerControl \cup WaiterControl]

(* The counter of the latch counts the calls that are outstanding, *)
CounterInv == counter = Cardinality(Outstanding)

(* the group is untouched but by registrations while there are any, *)
OpenInv ==
    Outstanding # {} =>
        /\ ~fini
        /\ blocking_count = cur_groups
        /\ \A d \in Downers : pc[d] \in {"start", "done"}

(* a registered waiter is counted until the latch is finished, *)
RegisteredInv ==
    \A w \in Waiters : pc[w] \in {"registered", "switched", "parked"} => fini \/ cur_groups > 0

(* and who is in blockedTask is parked. *)
ParkedInv == \A w \in Waiters : blockedTask = w => pc[w] = "parked"

(* The inductive invariant. *)
LInv == Typed /\ CounterInv /\ OpenInv /\ RegisteredInv /\ ParkedInv /\ LatchSafe

----------------------------------------------------------------------------

(* Only Down() makes a user one that has called. *)
LEMMA CounterKept ==
  ASSUME CounterInv, UNCHANGED counter,
         \A d \in Downers : (pc[d] = "start") = (pc'[d] = "start")
  PROVE  CounterInv' /\ Outstanding' = Outstanding
<1>1. Outstanding' = Outstanding
  BY DEF Outstanding
<1>2. QED
  BY <1>1 DEF CounterInv

(* The counter reaches 0 in the call of the last user. *)
LEMMA CounterDown ==
  ASSUME LInv, NEW d \in Downers, Down(d)
  PROVE  /\ CounterInv' /\ counter' \in Nat
         /\ Outstanding' = Outstanding \ {d}
         /\ counter' = 0 => Outstanding' = {}
<1>1. Outstanding' = Outstanding \ {d} /\ d \in Outstanding
  BY DEF LInv, Typed, Down, Goto, Outstanding
<1>2. IsFiniteSet(Outstanding)
  <2>1. Outstanding \subseteq Downers
    BY DEF Outstanding
  <2>2. QED
    BY <2>1, FS_Subset, LatchAssumption
<1>3. IsFiniteSet(Outstanding') /\ Cardinality(Outstanding') = Cardinality(Outstanding) - 1
  BY <1>1, <1>2, FS_RemoveElement
<1>4. Cardinality(Outstanding') \in Nat
  BY <1>3, FS_CardinalityType
<1>5. counter' = Cardinality(Outstanding')
  BY <1>3 DEF LInv, CounterInv, Down
<1>6. QED
  BY <1>1, <1>3, <1>4, <1>5, FS_EmptySet DEF CounterInv

(* A step of down() preserves the invariant. *)
LEMMA DownerKeeps ==
  ASSUME LInv, NEW d \in Downers, DownerStep(d)
  PROVE  LInv'
<1> USE LatchAssumption DEF LInv, Typed, DownerControl, WaiterControl, Goto
<1>0. d \notin Waiters
  OBVIOUS
<1>1. CASE Down(d)
  <2>1. CounterInv' /\ counter' \in Nat /\ Outstanding' = Outstanding \ {d}
        /\ (counter' = 0 => Outstanding' = {})
    BY <1>1, CounterDown
  <2>2. Typed'
    BY <1>1, <2>1 DEF Down
  <2>3. OpenInv'
    <3> SUFFICES ASSUME Outstanding' # {} PROVE OpenInv'
      BY DEF OpenInv
    <3>1. Outstanding # {} /\ counter' # 0
      BY <2>1
    <3>2. pc'[d] = "done" /\ \A e \in Downers : e # d => pc'[e] = pc[e]
      BY <1>1, <3>1 DEF Down
    <3>3. QED
      BY <1>1, <3>1, <3>2 DEF Down, OpenInv
  <2>4. \A w \in Waiters : pc'[w] = pc[w]
    BY <1>0, <1>1 DEF Down
  <2>5. RegisteredInv' /\ ParkedInv'
    BY <1>1, <2>4 DEF Down, RegisteredInv, ParkedInv
  <2>6. LatchSafe'
    BY <1>1, <2>4 DEF Down, LatchSafe
  <2>7. QED
    BY <2>1, <2>2, <2>3, <2>5, <2>6
<1>2. CASE SetTerminated(d) \/ Inform(d) \/ Unlock(d)
  <2>1. CounterInv' /\ Outstanding' = Outstanding
    BY <1>2, CounterKept DEF SetTerminated, Inform, Unlock
  <2>2. Typed'
    <3>1. PICK x \in DownerControl : pc' = [pc EXCEPT ![d] = x]
      BY <1>2 DEF SetTerminated, Inform, Unlock
    <3>2. pc' \in [Downers \cup Waiters -> DownerControl \cup WaiterControl]
      BY <3>1
    <3>3. fini' \in BOOLEAN
      BY <1>2 DEF SetTerminated, Inform, Unlock
    <3>4. counter' \in Nat /\ cur_groups' \in Nat /\ blocking_count' \in Int /\ blockedTask' \in Waiters \cup {NULL}
      BY <1>2 DEF SetTerminated, Inform, Unlock
    <3>5. QED
      BY <3>2, <3>3, <3>4
  <2>3. Outstanding = {}
    BY <1>2 DEF SetTerminated, Inform, Unlock, OpenInv
  <2>4. OpenInv'
    BY <2>1, <2>3 DEF OpenInv
  <2>5. \A w \in Waiters : pc'[w] = pc[w]
    BY <1>0, <1>2 DEF SetTerminated, Inform, Unlock
  <2>6. RegisteredInv' /\ ParkedInv'
    BY <1>2, <2>5 DEF SetTerminated, Inform, Unlock, RegisteredInv, ParkedInv
  <2>7. LatchSafe'
    BY <2>1, <2>3 DEF LatchSafe, Outstanding
  <2>8. QED
    BY <2>1, <2>2, <2>4, <2>6, <2>7
<1>3. CASE Release(d)
  <2>1. blockedTask # d
    OBVIOUS
  <2>2. \A e \in Downers : pc'[e] = IF e = d THEN "unlocking" ELSE pc[e]
    BY <1>3, <2>1 DEF Release
  <2>3. \A w \in Waiters : pc'[w] = IF w = blockedTask THEN "queued" ELSE pc[w]
    BY <1>0, <1>3 DEF Release
  <2>4. CounterInv' /\ Outstanding' = Outstanding
    BY <1>3, <2>2, CounterKept DEF Release
  <2>5. Typed'
    BY <1>3 DEF Release
  <2>6. Outstanding = {}
    BY <1>3 DEF Release, OpenInv
  <2>7. OpenInv' /\ LatchSafe'
    BY <2>4, <2>6 DEF OpenInv, LatchSafe, Outstanding
  <2>8. RegisteredInv' /\ ParkedInv'
    BY <1>3, <2>3 DEF Release, RegisteredInv, ParkedInv
  <2>9. QED
    BY <2>4, <2>5, <2>7, <2>8
<1>4. QED
  BY <1>1, <1>2, <1>3 DEF DownerStep

(* While a down() is outstanding, a registered waiter finds a count above 0. *)
LEMMA CountedIn ==
  ASSUME LInv, NEW w \in Waiters, pc[w] \in {"registered", "switched"}, Outstanding # {}
  PROVE  blocking_count # 0
<1>1. QED
  BY DEF LInv, Typed, OpenInv, RegisteredInv

(* A step of wait() preserves the invariant. *)
LEMMA WaiterKeeps ==
  ASSUME LInv, NEW w \in Waiters, WaiterStep(w)
  PROVE  LInv'
<1> USE LatchAssumption DEF LInv, Typed, DownerControl, WaiterControl, Goto
<1>0. w \notin Downers /\ w # NULL
  OBVIOUS
<1>1. CounterInv' /\ Outstanding' = Outstanding /\ \A d \in Downers : pc'[d] = pc[d]
  <2>1. UNCHANGED counter /\ \A d \in Downers : pc'[d] = pc[d]
    BY <1>0 DEF WaiterStep, Registe, Wait, HandleGroupWait, Dispatch
  <2>2. QED
    BY <2>1, CounterKept
<1>2. Typed'
  BY DEF WaiterStep, Registe, Wait, HandleGroupWait, Dispatch
<1>3. OpenInv'
  BY <1>1 DEF WaiterStep, Registe, Wait, HandleGroupWait, Dispatch, OpenInv
<1>4. RegisteredInv'
  BY DEF WaiterStep, Registe, Wait, HandleGroupWait, Dispatch, RegisteredInv
<1>5. ParkedInv'
  BY DEF WaiterStep, Registe, Wait, HandleGroupWait, Dispatch, ParkedInv
<1>6. LatchSafe'
  <2>1. ASSUME NEW v \in Waiters, pc'[v] \in {"queued", "returned"}
        PROVE  Outstanding = {}
    <3>1. CASE pc[v] \in {"queued", "returned"}
      BY <3>1 DEF LatchSafe, Outstanding
    <3>2. CASE pc[v] \notin {"queued", "returned"}
      <4>1. v = w /\ pc[w] \in {"registered", "switched"} /\ blocking_count = 0
        BY <2>1, <3>2 DEF WaiterStep, Registe, Wait, HandleGroupWait, Dispatch
      <4>2. QED
        BY <4>1, CountedIn
    <3>3. QED
      BY <3>1, <3>2
  <2>2. QED
    BY <1>1, <2>1 DEF LatchSafe, Outstanding
<1>7. QED
  BY <1>1, <1>2, <1>3, <1>4, <1>5, <1>6

----------------------------------------------------------------------------

(* The parts hold together in every reachable state. *)
THEOREM LatchInvariant == Spec => []LInv
<1>1. Init => LInv
  <2> SUFFICES ASSUME Init PROVE LInv
    OBVIOUS
  <2> USE LatchAssumption
  <2>1. Outstanding = Downers
    BY DEF Init, Outstanding
  <2>2. CounterInv
    BY <2>1 DEF Init, CounterInv
  <2>3. Typed
    <3>1. counter \in Nat
      BY FS_CardinalityType DEF Init
    <3>2. pc \in [Downers \cup Waiters -> DownerControl \cup WaiterControl]
      BY DEF Init, DownerControl, WaiterControl
    <3>3. fini \in BOOLEAN
      BY DEF Init
    <3>4. cur_groups \in Nat /\ blocking_count \in Int /\ blockedTask \in Waiters \cup {NULL}
      BY DEF Init
    <3>5. QED
      BY <3>1, <3>2, <3>3, <3>4 DEF Typed
  <2>4. OpenInv /\ RegisteredInv /\ ParkedInv /\ LatchSafe
    BY DEF Init, OpenInv, RegisteredInv, ParkedInv, LatchSafe
  <2>5. QED
    BY <2>2, <2>3, <2>4 DEF LInv
<1>2. LInv /\ [Next]_vars => LInv'
  <2> SUFFICES ASSUME LInv, [Next]_vars PROVE LInv'
    OBVIOUS
  <2>1. CASE UNCHANGED vars
    BY <2>1 DEF vars, LInv, Typed, CounterInv, OpenInv, RegisteredInv, ParkedInv, LatchSafe, Outstanding
  <2>2. QED
    BY <2>1, DownerKeeps, WaiterKeeps DEF Next, Quiet
<1>3. QED
  BY <1>1, <1>2, PTL DEF Spec

(* wait() of a latch returns only after every down() (co_user.hh:84). *)
THEOREM LatchCorrect == Spec => []LatchSafe
<1>1. LInv => LatchSafe
  BY DEF LInv
<1>2. QED
  BY <1>1, LatchInvariant, PTL

(* A waiter that is in a queue or has returned is not in blockedTask (co_user.hh:81). *)
THEOREM WokenCorrect == Spec => []WokenOnce
<1>1. LInv => WokenOnce
  BY DEF LInv, ParkedInv, WokenOnce
<1>2. QED
  BY <1>1, LatchInvariant, PTL

----------------------------------------------------------------------------
(* The type invariant of the module, with its bounds. *)

(* The controls of down() after the last decrement. *)
Last == {"last", "inform", "deciding", "unlocking"}

(* The waiters that are past registe(). *)
Registered == {w \in Waiters : pc[w] # "start"}

(***************************************************************************)
(* One user makes the last call, which takes one from the group's count,   *)
(* once; the rest of that count are registrations, one per waiter.         *)
(***************************************************************************)
BoundInv ==
    /\ \A d, e \in Downers : pc[d] \in Last /\ pc[e] \in Last => d = e
    /\ (\E d \in Downers : pc[d] \in {"last", "inform"}) => blocking_count = cur_groups
    /\ blocking_count = cur_groups \/ blocking_count = cur_groups - 1
    /\ cur_groups <= Cardinality(Registered)

(* Sets of waiters and of users can be counted. *)
LEMMA Countable ==
    /\ IsFiniteSet(Registered) /\ IsFiniteSet(Outstanding)
    /\ Cardinality(Registered) \in Nat /\ Cardinality(Waiters) \in Nat
    /\ Cardinality(Downers) \in Nat
    /\ Cardinality(Registered) <= Cardinality(Waiters)
    /\ Cardinality(Outstanding) <= Cardinality(Downers)
<1>1. Registered \in SUBSET Waiters /\ Outstanding \in SUBSET Downers
  BY DEF Registered, Outstanding
<1>2. /\ IsFiniteSet(Registered) /\ IsFiniteSet(Outstanding)
      /\ Cardinality(Registered) <= Cardinality(Waiters)
      /\ Cardinality(Outstanding) <= Cardinality(Downers)
  BY <1>1, FS_Subset, LatchAssumption
<1>3. QED
  BY <1>2, FS_CardinalityType, LatchAssumption

(* A step of down() keeps the bounds. *)
LEMMA DownerBounded ==
  ASSUME LInv, BoundInv, NEW d \in Downers, DownerStep(d)
  PROVE  BoundInv'
<1> USE DEF Last, Goto
<1>0. /\ pc \in [Downers \cup Waiters -> DownerControl \cup WaiterControl]
      /\ cur_groups \in Nat /\ blocking_count \in Int /\ d \notin Waiters
  BY LatchAssumption DEF LInv, Typed
<1>1. ASSUME NEW place \in DownerControl, pc' = [pc EXCEPT ![d] = place]
      PROVE  Registered' = Registered
  BY <1>0, <1>1 DEF Registered
<1>2. CASE Down(d)
  <2>1. PICK place \in {"last", "done"} : pc' = [pc EXCEPT ![d] = place]
    BY <1>2 DEF Down
  <2>2. Registered' = Registered /\ blocking_count' = blocking_count /\ cur_groups' = cur_groups
    BY <1>1, <1>2, <2>1 DEF Down, DownerControl
  <2>3. Outstanding # {}
    BY <1>2 DEF Down, Outstanding
  <2>4. /\ blocking_count = cur_groups /\ \A e \in Downers : pc[e] \notin Last
    BY <2>3 DEF LInv, OpenInv
  <2>5. \A e \in Downers : e # d => pc'[e] = pc[e]
    BY <1>0, <2>1
  <2>6. QED
    BY <2>2, <2>4, <2>5 DEF BoundInv
<1>3. CASE SetTerminated(d)
  <2>1. /\ pc[d] = "last" /\ pc' = [pc EXCEPT ![d] = "inform"]
        /\ blocking_count' = blocking_count /\ cur_groups' = cur_groups
    BY <1>3 DEF SetTerminated
  <2>2. Registered' = Registered
    BY <1>1, <2>1 DEF DownerControl
  <2>3. QED
    BY <1>0, <2>1, <2>2 DEF BoundInv
<1>4. CASE Inform(d)
  <2>1. PICK place \in {"deciding", "unlocking"} : pc' = [pc EXCEPT ![d] = place]
    BY <1>4 DEF Inform
  <2>2. pc[d] = "inform" /\ blocking_count' = blocking_count - 1 /\ cur_groups' = cur_groups
    BY <1>4 DEF Inform
  <2>3. Registered' = Registered
    BY <1>1, <2>1 DEF DownerControl
  <2>4. blocking_count = cur_groups /\ \A e \in Downers : pc'[e] \in Last => e = d
    BY <1>0, <2>1, <2>2 DEF BoundInv
  <2>5. \A e \in Downers : pc'[e] \notin {"last", "inform"}
    BY <1>0, <2>1, <2>4
  <2>6. QED
    BY <2>2, <2>3, <2>4, <2>5 DEF BoundInv
<1>5. CASE Release(d)
  <2>1. /\ pc[d] = "deciding" /\ blocking_count' = blocking_count /\ cur_groups' = cur_groups
        /\ pc' = [t \in DOMAIN pc |-> IF t = d THEN "unlocking"
                                      ELSE IF t = blockedTask THEN "queued" ELSE pc[t]]
    BY <1>5 DEF Release
  <2>2. ParkedInv /\ blockedTask \in Waiters \cup {NULL} /\ NULL \notin Downers /\ Downers \cap Waiters = {}
    BY LatchAssumption DEF LInv, Typed
  <2>3. Registered' = Registered
    <3>1. \A w \in Waiters : pc'[w] = IF w = blockedTask THEN "queued" ELSE pc[w]
      BY <1>0, <2>1
    <3>2. \A w \in Waiters : w = blockedTask => pc[w] = "parked"
      BY <2>2 DEF ParkedInv
    <3>3. QED
      BY <3>1, <3>2 DEF Registered
  <2>4. \A e \in Downers : pc'[e] = IF e = d THEN "unlocking" ELSE pc[e]
    BY <1>0, <2>1, <2>2
  <2>5. QED
    BY <2>1, <2>3, <2>4 DEF BoundInv
<1>6. CASE Unlock(d)
  <2>1. /\ pc' = [pc EXCEPT ![d] = "done"]
        /\ blocking_count' = blocking_count /\ cur_groups' = cur_groups
    BY <1>6 DEF Unlock
  <2>2. Registered' = Registered
    BY <1>1, <2>1 DEF DownerControl
  <2>3. QED
    BY <1>0, <2>1, <2>2 DEF BoundInv
<1>7. QED
  BY <1>2, <1>3, <1>4, <1>5, <1>6 DEF DownerStep

(* A step of wait() keeps the bounds: a waiter registers once. *)
LEMMA WaiterBounded ==
  ASSUME LInv, BoundInv, NEW w \in Waiters, WaiterStep(w)
  PROVE  BoundInv'
<1> USE DEF Last, Goto
<1>0. /\ pc \in [Downers \cup Waiters -> DownerControl \cup WaiterControl]
      /\ cur_groups \in Nat /\ blocking_count \in Int /\ w \notin Downers /\ fini \in BOOLEAN
  BY LatchAssumption DEF LInv, Typed
<1>1. CASE Registe(w)
  <2>1. pc[w] = "start" /\ pc' = [pc EXCEPT ![w] = "registered"]
    BY <1>1 DEF Registe
  <2>2. \A e \in Downers : pc'[e] = pc[e]
    BY <1>0, <2>1
  <2>3. Registered' = Registered \cup {w} /\ w \notin Registered
    BY <1>0, <2>1 DEF Registered
  <2>4. Cardinality(Registered') = Cardinality(Registered) + 1
    BY <2>3, Countable, FS_AddElement
  <2>5. \/ cur_groups' = cur_groups /\ blocking_count' = blocking_count
        \/ cur_groups' = cur_groups + 1 /\ blocking_count' = blocking_count + 1
    BY <1>1 DEF Registe
  <2>6. cur_groups' <= Cardinality(Registered')
    <3>1. cur_groups <= Cardinality(Registered)
      BY DEF BoundInv
    <3>2. Cardinality(Registered) \in Nat
      BY Countable
    <3>3. QED
      BY <1>0, <2>4, <2>5, <3>1, <3>2
  <2>7. /\ blocking_count' = cur_groups' \/ blocking_count' = cur_groups' - 1
        /\ blocking_count = cur_groups => blocking_count' = cur_groups'
    BY <1>0, <2>5 DEF BoundInv
  <2>8. QED
    BY <2>2, <2>6, <2>7 DEF BoundInv
<1>2. CASE Wait(w) \/ HandleGroupWait(w) \/ Dispatch(w)
  <2>1. /\ blocking_count' = blocking_count /\ cur_groups' = cur_groups
        /\ \E place \in {"switched", "returned", "queued", "parked"} : pc' = [pc EXCEPT ![w] = place]
        /\ pc[w] # "start"
    BY <1>2 DEF Wait, HandleGroupWait, Dispatch
  <2>2. Registered' = Registered /\ \A e \in Downers : pc'[e] = pc[e]
    BY <1>0, <2>1 DEF Registered
  <2>3. QED
    BY <2>1, <2>2 DEF BoundInv
<1>3. QED
  BY <1>1, <1>2 DEF WaiterStep

(***************************************************************************)
(* The counter of the latch and the count of its group stay within their   *)
(* bounds, the latter down to -1, and one user at most is past the last    *)
(* decrement.                                                              *)
(***************************************************************************)
THEOREM LatchTypeCorrect == Spec => []TypeOK
<1>1. Init => BoundInv
  <2> SUFFICES ASSUME Init PROVE BoundInv
    OBVIOUS
  <2>1. \A d \in Downers : pc[d] \notin Last
    BY DEF Init, Last
  <2>2. 0 <= Cardinality(Registered) /\ cur_groups = 0 /\ blocking_count = 0
    BY Countable DEF Init
  <2>3. QED
    BY <2>1, <2>2 DEF BoundInv, Last
<1>2. LInv /\ BoundInv /\ [Next]_vars => BoundInv'
  <2>1. LInv /\ BoundInv /\ UNCHANGED vars => BoundInv'
    BY DEF vars, BoundInv, Registered
  <2>2. QED
    BY <2>1, DownerBounded, WaiterBounded DEF Next, Quiet
<1>3. LInv /\ BoundInv => TypeOK
  <2> SUFFICES ASSUME LInv, BoundInv PROVE TypeOK
    OBVIOUS
  <2>1. counter \in 0 .. Cardinality(Downers)
    BY Countable DEF LInv, Typed, CounterInv
  <2>2. cur_groups \in 0 .. Cardinality(Waiters) /\ blocking_count \in -1 .. Cardinality(Waiters)
    <3>1. cur_groups \in Nat /\ cur_groups <= Cardinality(Waiters) /\ Cardinality(Waiters) \in Nat
      BY Countable DEF LInv, Typed, BoundInv
    <3>2. blocking_count = cur_groups \/ blocking_count = cur_groups - 1
      BY DEF BoundInv
    <3>3. QED
      BY <3>1, <3>2
  <2>3. Cardinality({d \in Downers : pc[d] \in DownerControl \ {"start", "done"}}) <= 1
    <3> DEFINE S == {d \in Downers : pc[d] \in DownerControl \ {"start", "done"}}
    <3>1. \A d, e \in S : d = e
      BY DEF BoundInv, Last, DownerControl
    <3> HIDE DEF S
    <3>2. CASE S = {}
      BY <3>2, FS_EmptySet DEF S
    <3>3. CASE S # {}
      <4>1. PICK d : d \in S
        BY <3>3
      <4>2. S = {d}
        BY <3>1, <4>1
      <4>3. Cardinality(S) = 1
        BY <4>2, FS_Singleton
      <4>4. QED
        BY <4>3 DEF S
    <3>4. QED
      BY <3>2, <3>3
  <2>4. /\ fini \in BOOLEAN /\ blockedTask \in Waiters \cup {NULL}
        /\ pc \in [Downers \cup Waiters -> DownerControl \cup WaiterControl]
    BY DEF LInv, Typed
  <2>5. QED
    BY <2>1, <2>2, <2>3, <2>4 DEF TypeOK
<1>4. QED
  BY <1>1, <1>2, <1>3, LatchInvariant, PTL DEF Spec
===============================================================================
