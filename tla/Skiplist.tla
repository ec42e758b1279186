------------------------------ MODULE Skiplist ------------------------------
(***************************************************************************)
(* The runnable_queue: Skiplist.hh.  A linked list of tasks with, above    *)
(* it, NLayers layers of skip nodes.  A node stands for SkipGap nodes of   *)
(* the layer below, so that dequeue_half() finds the middle of the list    *)
(* without walking through it.                                             *)
(*                                                                         *)
(* The list of tasks and the layers keep the same fields and follow the    *)
(* same rules: level 0 is the list (head, tail, candidate, head_off,       *)
(* tail_off), level i is layers[i - 1].  Every operation holds mut_ from   *)
(* end to end and is one step.                                             *)
(***************************************************************************)
EXTENDS Integers, Sequences, SequencesExt

CONSTANTS
    Queues,     \* the runnable_queues of the threads
    SkipGap,    \* how many nodes a node of the next level stands for
    NLayers,    \* the number of layers of skip nodes
    MaxTasks,   \* bound: how many tasks are enqueued in a run
    NULL        \* nullptr

ASSUME SkiplistAssumption ==
    /\ SkipGap \in Nat \ {0, 1}
    /\ NLayers \in Nat
    /\ MaxTasks \in Nat

VARIABLES
    list,       \* list[q]: the Skiplist q, a function of its levels
    loot,       \* loot[q]: what dequeue_half() returned to the thief q, or NoList
    enqueued    \* how many tasks have been enqueued; each has its number as name

vars == <<list, loot, enqueued>>

Levels == 0 .. NLayers

(* What a level has as nodes: tasks, or SkipNodes (downNode, lastDownNode). *)
AnyNode[i \in Levels] ==
    IF i = 0 THEN 1 .. MaxTasks ELSE [down : AnyNode[i - 1], last : AnyNode[i - 1]]

ASSUME NullAssumption == \A i \in Levels : NULL \notin AnyNode[i]

(* A level: its nodes from head to tail, its offsets and its candidate, the *)
(* first node of the group at the tail that is not complete yet.            *)
EmptyLevel == [nodes |-> <<>>, head_off |-> 0, tail_off |-> 0, candidate |-> NULL]

Empty == [i \in Levels |-> EmptyLevel]

Size(lv) == lv.tail_off - lv.head_off

(* A null unique_ptr<Skiplist>: a function without levels. *)
NoList == <<>>

(* A SkipNode: downNode and lastDownNode. *)
Node(first, last) == [down |-> first, last |-> last]

----------------------------------------------------------------------------
(* enqueue() *)

(* Slip: the next level gets its node when the group is one node short. *)
CompletesEarly(lv) == lv.candidate # NULL /\ (lv.tail_off + 2) % SkipGap = 0

(* A new node at the tail of a level completes the candidate's group. *)
Completes(lv) == lv.candidate # NULL /\ (lv.tail_off + 1) % SkipGap = 0

AddTail(lv, n) ==
    [nodes |-> Append(lv.nodes, n),
     head_off |-> lv.head_off,
     tail_off |-> lv.tail_off + 1,
     candidate |-> IF Completes(lv) THEN NULL
                   ELSE IF (lv.tail_off + 1) % SkipGap = 1 THEN n
                   ELSE lv.candidate]

(* _update_after_enque(): a complete group gets a node in the next level. *)
Enqueued(l, t) ==
    LET new[i \in Levels] ==
            IF i = 0 THEN t
            ELSE IF new[i - 1] # NULL /\ Completes(l[i - 1])
                 THEN Node(l[i - 1].candidate, new[i - 1])
                 ELSE NULL
    IN [i \in Levels |-> IF new[i] = NULL THEN l[i] ELSE AddTail(l[i], new[i])]

----------------------------------------------------------------------------
(* dequeue() *)

(* Slip: the candidate outlives the node it points to. *)
DropHeadStale(lv) ==
    [nodes |-> Tail(lv.nodes), head_off |-> lv.head_off + 1,
     tail_off |-> lv.tail_off, candidate |-> lv.candidate]

DropHead(lv) ==
    [nodes |-> Tail(lv.nodes),
     head_off |-> lv.head_off + 1,
     tail_off |-> lv.tail_off,
     candidate |-> IF lv.candidate = Head(lv.nodes) THEN NULL ELSE lv.candidate]

(* The first task of a group takes the node that stands for it along. *)
Dequeued(l) ==
    LET drops[i \in Levels] ==
            \/ i = 0
            \/ /\ drops[i - 1]
               /\ (l[i - 1].head_off + 1) % SkipGap = 1
               /\ l[i].nodes # <<>>
    IN [i \in Levels |-> IF drops[i] THEN DropHead(l[i]) ELSE l[i]]

----------------------------------------------------------------------------
(* dequeue_half() *)

(* The level that is split: the highest with two nodes, or the list itself. *)
SplitLevel(l) ==
    LET wide == {i \in Levels : Size(l[i]) > 1} IN
    IF wide = {} THEN 0 ELSE CHOOSE i \in wide : \A j \in wide : j <= i

(* The levels above it that have one node. *)
Singles(l) == {i \in Levels : i > SplitLevel(l) /\ Size(l[i]) = 1}

(* "tricky situation": the whole group of that node is in the first half. *)
SinglePreserved(l, i) ==
    /\ Head(l[i].nodes).down = Head(l[i - 1].nodes)
    /\ Size(l[i - 1]) = 2 * SkipGap - 1

(* Layer::cleanup(), and what _handleMove() leaves behind. *)
CleanedUp(lv) ==
    [nodes |-> <<>>, head_off |-> lv.tail_off, tail_off |-> lv.tail_off, candidate |-> NULL]

(* Slip: rounded down. *)
HalfDown(lv) == IF Size(lv) = 1 THEN 1 ELSE Size(lv) \div 2

Half(lv) == (Size(lv) + 1) \div 2

(* With no single node above, the candidate goes with the half that has it. *)
CandidateStolen(lv) ==
    LET candpos == lv.tail_off - (lv.tail_off % SkipGap) IN
    /\ lv.tail_off % SkipGap # 0
    /\ lv.head_off <= candpos
    /\ lv.head_off + Half(lv) > candpos

(* Slip: an aligned level gives one group too many. *)
GiveAwayUnaligned(l) ==
    LET s == SplitLevel(l)
        give[k \in 0 .. s] ==
            IF k = 0 THEN Half(l[s])
            ELSE (1 + give[k - 1]) * SkipGap - (l[s - k].head_off % SkipGap)
    IN [i \in 0 .. s |-> give[s - i]]

(* toGiveAway of each level from the split level down, lowest first. *)
GiveAway(l) ==
    LET s == SplitLevel(l)
        give[k \in 0 .. s] ==      \* k levels below s
            IF k = 0 THEN Half(l[s])
            ELSE (1 + give[k - 1]) * SkipGap
                 - ((l[s - k].head_off + SkipGap - 1) % SkipGap) - 1
    IN [i \in 0 .. s |-> give[s - i]]

(* The last node of each level to be given away: the lastDownNode chain. *)
LastGiven(l) ==
    LET s == SplitLevel(l)
        last[k \in 0 .. s] ==
            IF k = 0 THEN l[s].nodes[Half(l[s])] ELSE last[k - 1].last
    IN [i \in 0 .. s |-> last[s - i]]

(* What the thief gets and what is left: <<given, kept>>. *)
Halved(l) ==
    LET s == SplitLevel(l)
        single == CHOOSE i \in Singles(l) : \A j \in Singles(l) : i <= j
        stolen == Singles(l) = {} /\ CandidateStolen(l[s])
        give == GiveAway(l)
        last == LastGiven(l)
        cut == [i \in 0 .. s |-> CHOOSE k \in 1 .. Len(l[i].nodes) : l[i].nodes[k] = last[i]]
        Given(i) ==
            IF i > s
            THEN IF i \in Singles(l) /\ SinglePreserved(l, i) THEN l[i] ELSE EmptyLevel
            ELSE [nodes |-> SubSeq(l[i].nodes, 1, cut[i]),
                  head_off |-> l[i].head_off,
                  tail_off |-> l[i].head_off + give[i],
                  candidate |->
                      IF i # s THEN NULL
                      ELSE IF stolen THEN l[s].candidate
                      ELSE IF Singles(l) # {} /\ ~SinglePreserved(l, single)
                           THEN Head(l[single].nodes).down
                      ELSE NULL]
        Kept(i) ==
            IF i > s
            THEN IF i \in Singles(l) THEN CleanedUp(l[i]) ELSE l[i]
            ELSE [nodes |-> SubSeq(l[i].nodes, cut[i] + 1, Len(l[i].nodes)),
                  head_off |-> l[i].head_off + give[i],
                  tail_off |-> l[i].tail_off,
                  candidate |-> IF i = s /\ stolen THEN NULL ELSE l[i].candidate]
    IN <<[i \in Levels |-> Given(i)], [i \in Levels |-> Kept(i)]>>

----------------------------------------------------------------------------

Init ==
    /\ list = [q \in Queues |-> Empty]
    /\ loot = [q \in Queues |-> NoList]
    /\ enqueued = 0

Enqueue(q) ==
    /\ enqueued < MaxTasks
    /\ loot[q] = NoList
    /\ enqueued' = enqueued + 1
    /\ list' = [list EXCEPT ![q] = Enqueued(@, enqueued')]
    /\ UNCHANGED loot

Dequeue(q) ==
    /\ list[q][0].nodes # <<>>
    /\ list' = [list EXCEPT ![q] = Dequeued(@)]
    /\ UNCHANGED <<loot, enqueued>>

(* A thread with an empty queue of its own takes the half of another's. *)
DequeueHalf(thief, victim) ==
    /\ thief # victim
    /\ loot[thief] = NoList
    /\ list[thief][0].nodes = <<>>
    /\ list[victim][0].nodes # <<>>
    /\ loot' = [loot EXCEPT ![thief] = Halved(list[victim])[1]]
    /\ list' = [list EXCEPT ![victim] = Halved(list[victim])[2]]
    /\ UNCHANGED enqueued

(* Slip: what was stolen stays in the hands of the thief. *)
ReplaceCopies(q) ==
    /\ loot[q] # NoList
    /\ list' = [list EXCEPT ![q] = loot[q]]
    /\ UNCHANGED <<loot, enqueued>>

Replace(q) ==
    /\ loot[q] # NoList
    /\ list' = [list EXCEPT ![q] = loot[q]]
    /\ loot' = [loot EXCEPT ![q] = NoList]
    /\ UNCHANGED enqueued

Done ==
    /\ enqueued = MaxTasks
    /\ \A q \in Queues : list[q][0].nodes = <<>> /\ loot[q] = NoList
    /\ UNCHANGED vars

Next ==
    \/ \E q \in Queues : Enqueue(q) \/ Dequeue(q) \/ Replace(q)
    \/ \E thief, victim \in Queues : DequeueHalf(thief, victim)
    \/ Done

Spec == Init /\ [][Next]_vars

----------------------------------------------------------------------------

(* Every Skiplist there is. *)
Lists == {list[q] : q \in Queues} \cup ({loot[q] : q \in Queues} \ {NoList})

(***************************************************************************)
(* The offsets, from which dequeue_half() computes where to cut, agree     *)
(* with the pointers it follows: at each level they delimit the nodes that *)
(* are there.                                                              *)
(***************************************************************************)
OffsetsExact ==
    \A l \in Lists : \A i \in Levels :
        l[i].head_off >= 0 /\ Size(l[i]) = Len(l[i].nodes)

(* The nodes a level should have: one for each full group of the one below. *)
GroupsOf(lv) ==
    LET skip == (SkipGap - (lv.head_off % SkipGap)) % SkipGap   \* rest of a cut group
        n == (Len(lv.nodes) - skip) \div SkipGap
    IN [j \in 1 .. (IF Len(lv.nodes) < skip THEN 0 ELSE n) |->
            Node(lv.nodes[skip + (j - 1) * SkipGap + 1], lv.nodes[skip + j * SkipGap])]

(***************************************************************************)
(* Skiplist.hh:407, "invariant: every SkipNode is full", and no full group *)
(* is without its node: after any sequence of enqueues, dequeues, splits   *)
(* and replacements a level is the list of the full groups below it.       *)
(***************************************************************************)
EveryNodeFull ==
    \A l \in Lists : \A i \in Levels \ {0} : l[i].nodes = GroupsOf(l[i - 1])

(***************************************************************************)
(* The candidate of a level is the first node of the group at its tail, as *)
(* long as that group is not complete and has not lost its first node: the *)
(* next group to be completed gets a node that starts in the same list.    *)
(* (The highest level has no next one and no use for its candidate.)       *)
(***************************************************************************)
CandidateRight ==
    \A l \in Lists : \A i \in Levels \ {NLayers} :
        LET behind == l[i].tail_off % SkipGap IN
        l[i].candidate = IF behind # 0 /\ behind <= Len(l[i].nodes)
                         THEN l[i].nodes[Len(l[i].nodes) - behind + 1] ELSE NULL

(***************************************************************************)
(* What work stealing asks of dequeue_half(): the thief gets the tasks     *)
(* that waited longest, and neither of the two is left without work when   *)
(* there were two tasks: of fewer than 2 * SkipGap exactly half, rounded   *)
(* up, of more at least a third and at most three quarters.                *)
(***************************************************************************)
FairShare ==
    [][\A q \in Queues : loot[q] = NoList /\ loot'[q] # NoList =>
          \E v \in Queues :
             LET all == list[v][0].nodes
                 got == Len(loot'[q][0].nodes) IN
             /\ all = loot'[q][0].nodes \o list'[v][0].nodes
             /\ got \in 1 .. Len(all)
             /\ IF Len(all) < 2 * SkipGap THEN got = (Len(all) + 1) \div 2
                ELSE 3 * got >= Len(all) /\ 4 * got <= 3 * Len(all)]_vars

(***************************************************************************)
(* Whatever the layers above it look like, a Skiplist is a queue to those  *)
(* who use it: first in, first out, no task lost, in two queues, or        *)
(* overwritten by replace(), and a thief gets the front of what there is.  *)
(***************************************************************************)
Q == INSTANCE TaskQueues WITH
        Tasks <- 1 .. MaxTasks,
        queue <- [q \in Queues |-> list[q][0].nodes],
        stolen <- [q \in Queues |-> IF loot[q] = NoList THEN <<>> ELSE loot[q][0].nodes]

QueuesSpec == Q!Spec
=============================================================================
