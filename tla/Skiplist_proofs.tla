--------------------------- MODULE Skiplist_proofs ---------------------------
(***************************************************************************)
(* Proofs about the runnable_queue, for every gap, any number of layers    *)
(* and any number of queues and tasks: after every sequence of operations  *)
(* the offsets are exact, the layers index the list, the candidates are    *)
(* right, the tasks are in order and in one queue, and what a thief takes  *)
(* is a fair share.                                                        *)
(*                                                                         *)
(* The tool is the shape of a level (Shape): the rest of a group whose     *)
(* first node has left, a number of whole groups, and less than a group.   *)
(* GroupsOf and the candidate are functions of the shape, so that a list   *)
(* is good (Good) when every level fits the one above it, which each       *)
(* operation is shown to preserve level by level, by induction over the    *)
(* levels that its recursion passes.  dequeue_half() cuts nodes where      *)
(* lastDownNode points and offsets where arithmetic says: GiveAwayStep     *)
(* says that both are the end of a group.                                  *)
(***************************************************************************)
EXTENDS Skiplist, SequenceTheorems, WellFoundedInduction, TLAPS

(* A nonempty set of natural numbers has a least element. *)
LEMMA LeastNumber ==
    ASSUME NEW S \in SUBSET Nat, S # {}
    PROVE  \E n \in S : \A m \in S : n <= m
<1>1. PICK n \in S : \A y \in S : ~ (<<y, n>> \in OpToRel(<, Nat))
  BY NatLessThanWellFounded, WFMin
<1>2. \A y \in S : ~ (<<y, n>> \in {p \in Nat \X Nat : p[1] < p[2]})
  BY <1>1, Zenon DEF OpToRel
<1>3. n \in Nat
  OBVIOUS
<1>4. ASSUME NEW y \in S
      PROVE  n <= y
  <2>1. y \in Nat
    OBVIOUS
  <2>2. ~ (<<y, n>> \in {p \in Nat \X Nat : p[1] < p[2]})
    BY <1>2
  <2> QED BY <2>1, <2>2, <1>3
<1> QED BY <1>4

(* A set that has 0, and n + 1 with every n, has all the natural numbers. *)
LEMMA NatSetInduction ==
    ASSUME NEW S, 0 \in S, \A n \in Nat : n \in S => n + 1 \in S
    PROVE  \A n \in Nat : n \in S
<1> SUFFICES ASSUME Nat \ S # {}
             PROVE  FALSE
  OBVIOUS
<1>1. PICK n \in Nat \ S : \A m \in Nat \ S : n <= m
  BY LeastNumber
<1>2. n # 0 /\ n \in Nat
  BY <1>1
<1>3. n - 1 \in Nat /\ n = (n - 1) + 1 /\ ~ (n <= n - 1)
  BY <1>2
<1>4. n - 1 \in S
  BY <1>1, <1>3
<1> QED BY <1>1, <1>3, <1>4

(* Multiples of SkipGap that are apart are at least SkipGap apart. *)
LEMMA Apart ==
    ASSUME NEW g \in Nat, NEW a \in Int, NEW b \in Int, a < b
    PROVE  g * a + g <= g * b
<1>1. PICK d \in Nat : b = a + 1 + d
  <2>1. b - a - 1 \in Nat /\ b = a + 1 + (b - a - 1)
    OBVIOUS
  <2> QED BY <2>1
<1>2. g * b = g * a + g + g * d
  BY <1>1
<1>3. g * d \in Nat
  OBVIOUS
<1> QED BY <1>2, <1>3

(* Quotient and remainder of a natural number. *)
LEMMA ModFacts ==
    ASSUME NEW g \in Nat, g > 0, NEW n \in Nat
    PROVE  n \div g \in Nat /\ n % g \in 0 .. g - 1 /\ n = g * (n \div g) + (n % g)
<1>1. n % g \in 0 .. g - 1
  OBVIOUS
<1>2. n \div g \in Int
  OBVIOUS
<1>3. n = g * (n \div g) + (n % g)
  OBVIOUS
<1>4. n \div g \in Nat
  <2> DEFINE q == n \div g
  <2> DEFINE m == n % g
  <2>1. q \in Int /\ m \in 0 .. g - 1 /\ n = g * q + m
    BY <1>1, <1>2, <1>3
  <2> HIDE DEF q, m
  <2>2. CASE q < 0
    <3>1. g * q + g <= g * 0
      BY <2>2, <2>1, Apart
    <3> QED BY <3>1, <2>1
  <2>3. q \in Nat
    BY <2>1, <2>2
  <2> QED BY <2>3 DEF q
<1> QED BY <1>1, <1>3, <1>4

(* ... which are the only such pair. *)
LEMMA ModIs ==
    ASSUME NEW g \in Nat, NEW n \in Nat, NEW a \in Int, NEW r \in 0 .. g - 1, n = g * a + r
    PROVE  n \div g = a /\ n % g = r
<1>1. n \div g \in Nat /\ n % g \in 0 .. g - 1 /\ n = g * (n \div g) + (n % g)
  <2>1. g > 0
    OBVIOUS
  <2> QED BY <2>1, ModFacts
<1> DEFINE q == n \div g
<1> DEFINE m == n % g
<1>2. q \in Nat /\ m \in 0 .. g - 1 /\ n = g * q + m
  BY <1>1
<1> HIDE DEF q, m
<1>3. q = a
  <2>1. CASE q < a
    <3>1. g * q + g <= g * a
      BY <2>1, <1>2, Apart
    <3> QED BY <3>1, <1>2
  <2>2. CASE a < q
    <3>1. g * a + g <= g * q
      BY <2>2, <1>2, Apart
    <3> QED BY <3>1, <1>2
  <2> QED BY <2>1, <2>2, <1>2
<1>4. m = r
  BY <1>2, <1>3
<1> QED BY <1>3, <1>4 DEF q, m

(* The numbers. *)
LEMMA GapFacts == SkipGap \in Nat /\ SkipGap >= 2 /\ NLayers \in Nat /\ MaxTasks \in Nat
BY SkiplistAssumption

----------------------------------------------------------------------------
(* The groups of a level *)

(***************************************************************************)
(* A level with n nodes that starts at offset h: the first k are the rest  *)
(* of a group whose first node has left, m whole groups follow, the first  *)
(* of them being group number a, and after them less than a group.         *)
(***************************************************************************)
Shape(h, n, k, a, m) ==
    /\ k \in 0 .. SkipGap - 1 /\ a \in Nat /\ m \in Nat
    /\ h + k = SkipGap * a
    /\ m = 0 \/ k + SkipGap * m <= n
    /\ n < k + SkipGap * m + SkipGap

(* Every level has a shape. *)
LEMMA ShapeExists ==
    ASSUME NEW h \in Nat, NEW n \in Nat
    PROVE  \E k, a, m \in Nat : Shape(h, n, k, a, m)
<1>1. SkipGap \in Nat /\ SkipGap > 0
  BY GapFacts
<1>2. PICK k \in Nat, a \in Nat : k \in 0 .. SkipGap - 1 /\ h + k = SkipGap * a
  <2>1. h \div SkipGap \in Nat /\ h % SkipGap \in 0 .. SkipGap - 1
        /\ h = SkipGap * (h \div SkipGap) + (h % SkipGap)
    BY <1>1, ModFacts
  <2>2. CASE h % SkipGap = 0
    <3>1. h + 0 = SkipGap * (h \div SkipGap) /\ 0 \in 0 .. SkipGap - 1
      BY <2>1, <2>2, <1>1
    <3> QED BY <3>1, <2>1
  <2>3. CASE h % SkipGap # 0
    <3> DEFINE q == h \div SkipGap
    <3> DEFINE r == h % SkipGap
    <3>1. q \in Nat /\ r \in 1 .. SkipGap - 1 /\ h = SkipGap * q + r
      BY <2>1, <2>3
    <3> HIDE DEF q, r
    <3>2. h + (SkipGap - r) = SkipGap * (q + 1) /\ SkipGap - r \in 0 .. SkipGap - 1
      BY <3>1, <1>1
    <3>3. SkipGap - r \in Nat /\ q + 1 \in Nat
      BY <3>1, <1>1
    <3> QED BY <3>2, <3>3
  <2> QED BY <2>2, <2>3
<1>3. CASE n < k
  <2>1. SkipGap * 0 = 0
    BY <1>1
  <2>2. Shape(h, n, k, a, 0)
    BY <1>1, <1>2, <1>3, <2>1 DEF Shape
  <2> QED BY <2>2
<1>4. CASE k <= n
  <2>1. n - k \in Nat
    BY <1>4
  <2>2. (n - k) \div SkipGap \in Nat /\ (n - k) % SkipGap \in 0 .. SkipGap - 1
        /\ n - k = SkipGap * ((n - k) \div SkipGap) + ((n - k) % SkipGap)
    BY <1>1, <2>1, ModFacts
  <2> DEFINE m == (n - k) \div SkipGap
  <2> DEFINE r == (n - k) % SkipGap
  <2>3. m \in Nat /\ r \in 0 .. SkipGap - 1 /\ n - k = SkipGap * m + r
    BY <2>2
  <2> HIDE DEF m, r
  <2>4. Shape(h, n, k, a, m)
    BY <1>1, <1>2, <2>3 DEF Shape
  <2> QED BY <2>3, <2>4
<1> QED BY <1>3, <1>4

(* The nodes for m groups of s, after the first k. *)
GroupSeq(s, k, m) ==
    [j \in 1 .. m |-> Node(s[k + (j - 1) * SkipGap + 1], s[k + j * SkipGap])]

(* What GroupsOf computes, in terms of the shape. *)
LEMMA ShapeGroups ==
    ASSUME NEW lv, NEW h \in Nat, NEW n \in Nat, lv.head_off = h, Len(lv.nodes) = n,
           NEW k, NEW a, NEW m, Shape(h, n, k, a, m)
    PROVE  GroupsOf(lv) = GroupSeq(lv.nodes, k, m)
<1>1. SkipGap \in Nat /\ SkipGap > 1
  BY GapFacts
<1>2. k \in 0 .. SkipGap - 1 /\ a \in Nat /\ m \in Nat /\ h + k = SkipGap * a
  BY DEF Shape
<1>3. (SkipGap - (h % SkipGap)) % SkipGap = k
  <2>1. CASE k = 0
    <3>1. h = SkipGap * a + 0 /\ 0 \in 0 .. SkipGap - 1
      BY <2>1, <1>1, <1>2
    <3>2. h % SkipGap = 0
      <4>1. a \in Int /\ 0 \in 0 .. SkipGap - 1 /\ h = SkipGap * a + 0
        BY <3>1, <1>2
      <4> QED BY <4>1, <1>1, ModIs
    <3>3. SkipGap = SkipGap * 1 + 0
      BY <1>1
    <3>4. SkipGap % SkipGap = 0
      BY <3>1, <3>3, <1>1, ModIs
    <3> QED BY <2>1, <3>2, <3>4, <1>1
  <2>2. CASE k # 0
    <3>1. h = SkipGap * (a - 1) + (SkipGap - k) /\ SkipGap - k \in 0 .. SkipGap - 1 /\ a - 1 \in Int
      BY <2>2, <1>1, <1>2
    <3>2. h % SkipGap = SkipGap - k
      BY <3>1, <1>1, ModIs
    <3>3. k = SkipGap * 0 + k /\ k \in Nat
      BY <1>1, <1>2
    <3>4. k % SkipGap = k
      <4>1. 0 \in Int /\ k \in 0 .. SkipGap - 1
        BY <1>2
      <4> QED BY <4>1, <3>3, <1>1, ModIs
    <3>5. SkipGap - (SkipGap - k) = k
      BY <1>1, <1>2
    <3> QED BY <3>2, <3>4, <3>5
  <2> QED BY <2>1, <2>2
<1>4. (IF n < k THEN 0 ELSE (n - k) \div SkipGap) = m
  <2>1. CASE n < k
    <3>1. SkipGap * m >= 0
      BY <1>1, <1>2
    <3> QED BY <2>1, <3>1, <1>1, <1>2 DEF Shape
  <2>2. CASE k <= n
    <3>1. n - k - SkipGap * m \in 0 .. SkipGap - 1
      <4>1. m = 0 => SkipGap * m = 0
        BY <1>1
      <4>2. SkipGap * m \in Nat
        BY <1>1, <1>2
      <4> QED BY <2>2, <1>1, <1>2, <4>1, <4>2 DEF Shape
    <3>2. n - k = SkipGap * m + (n - k - SkipGap * m) /\ n - k \in Nat
      BY <2>2, <1>1, <1>2
    <3>3. (n - k) \div SkipGap = m
      <4> DEFINE r == n - k - SkipGap * m
      <4>1. m \in Int /\ r \in 0 .. SkipGap - 1 /\ n - k = SkipGap * m + r
        BY <3>1, <3>2, <1>2
      <4> HIDE DEF r
      <4> QED BY <4>1, <3>2, <1>1, ModIs
    <3> QED BY <2>2, <3>3, <1>2
  <2> QED BY <2>1, <2>2, <1>2
<1>5. GroupsOf(lv) = [j \in 1 .. (IF n < k THEN 0 ELSE (n - k) \div SkipGap) |->
                        Node(lv.nodes[k + (j - 1) * SkipGap + 1], lv.nodes[k + j * SkipGap])]
  BY <1>3, Zenon DEF GroupsOf
<1> QED BY <1>4, <1>5 DEF GroupSeq

(* The candidate that CandidateRight asks for. *)
CandidateOf(lv) ==
    LET behind == lv.tail_off % SkipGap IN
    IF behind # 0 /\ behind <= Len(lv.nodes)
    THEN lv.nodes[Len(lv.nodes) - behind + 1] ELSE NULL

(* It is the first node after the whole groups, if there is one. *)
LEMMA ShapeCandidate ==
    ASSUME NEW lv, NEW h \in Nat, NEW n \in Nat, lv.tail_off = h + n, Len(lv.nodes) = n,
           NEW k, NEW a, NEW m, Shape(h, n, k, a, m)
    PROVE  CandidateOf(lv) = IF n > k + SkipGap * m THEN lv.nodes[k + SkipGap * m + 1] ELSE NULL
<1>1. SkipGap \in Nat /\ SkipGap > 1
  BY GapFacts
<1>2. k \in 0 .. SkipGap - 1 /\ a \in Nat /\ m \in Nat /\ h + k = SkipGap * a
  BY DEF Shape
<1>3. SkipGap * m \in Nat /\ SkipGap * a \in Nat
  BY <1>1, <1>2
<1>4. CASE n < k
  <2>1. m = 0
    BY <1>2, <1>3, <1>4 DEF Shape
  <2>2. h + n = SkipGap * (a - 1) + (SkipGap - (k - n)) /\ SkipGap - (k - n) \in 0 .. SkipGap - 1
    BY <1>1, <1>2, <1>4
  <2>3. h + n \in Nat /\ a - 1 \in Int
    BY <1>2
  <2>4. (h + n) % SkipGap = SkipGap - (k - n)
    BY <2>2, <2>3, <1>1, ModIs
  <2>5. ~ ((h + n) % SkipGap <= n)
    BY <2>4, <1>1, <1>2, <1>4
  <2>6. ~ (n > k + SkipGap * m)
    BY <1>2, <1>3, <1>4
  <2> QED BY <2>5, <2>6 DEF CandidateOf
<1>5. CASE k <= n
  <2> DEFINE r == n - k - SkipGap * m
  <2>1. r \in 0 .. SkipGap - 1
    <3>1. m = 0 => SkipGap * m = 0
      BY <1>1
    <3> QED BY <1>1, <1>2, <1>3, <1>5, <3>1 DEF Shape
  <2>2. h + n = SkipGap * (a + m) + r /\ h + n \in Nat /\ a + m \in Int
    BY <1>1, <1>2
  <2>3. (h + n) % SkipGap = r
    <3> HIDE DEF r
    <3> QED BY <2>1, <2>2, <1>1, ModIs
  <2>4. r <= n /\ n - r + 1 = k + SkipGap * m + 1 /\ (r # 0 <=> n > k + SkipGap * m)
    BY <1>2, <1>3, <2>1, SMTT(60)
  <2> HIDE DEF r
  <2> QED BY <2>3, <2>4 DEF CandidateOf
<1> QED BY <1>2, <1>4, <1>5

----------------------------------------------------------------------------
(* Recursion over the levels *)

(* What a level has as nodes, from what the level below it has. *)
SkipNodesOver(S) == [down : S, last : S]

(* AnyNode is what its recursive definition says. *)
AnyNodeUpto(n, f) ==
    f = [i \in 0 .. n |-> IF i = 0 THEN 1 .. MaxTasks ELSE SkipNodesOver(f[i - 1])]

(* The definition is by recursion over the levels; the solution exists at every depth. *)
LEMMA AnyNodeDef ==
    /\ AnyNode[0] = 1 .. MaxTasks
    /\ \A i \in Levels : i # 0 => AnyNode[i] = SkipNodesOver(AnyNode[i - 1])
<1> DEFINE S == {n \in Nat : \E f : AnyNodeUpto(n, f)}
<1>1. 0 \in S
  <2> DEFINE f == [i \in 0 .. 0 |-> 1 .. MaxTasks]
  <2>1. AnyNodeUpto(0, f)
    BY DEF AnyNodeUpto
  <2> QED BY <2>1
<1>2. ASSUME NEW n \in Nat, n \in S
      PROVE  n + 1 \in S
  <2>1. PICK f : AnyNodeUpto(n, f)
    BY <1>2
  <2> DEFINE g == [i \in 0 .. n + 1 |->
                    IF i = 0 THEN 1 .. MaxTasks ELSE SkipNodesOver(f[i - 1])]
  <2>2. \A i \in 0 .. n : g[i] = f[i]
    BY <2>1 DEF AnyNodeUpto
  <2>3. \A i \in 0 .. n + 1 : i # 0 => i - 1 \in 0 .. n
    OBVIOUS
  <2>4. g = [i \in 0 .. n + 1 |->
                IF i = 0 THEN 1 .. MaxTasks ELSE SkipNodesOver(g[i - 1])]
    BY <2>2, <2>3
  <2>5. AnyNodeUpto(n + 1, g)
    BY <2>4 DEF AnyNodeUpto
  <2> QED BY <2>5
<1>3. \A n \in Nat : n \in S
  <2> HIDE DEF S
  <2> QED BY <1>1, <1>2, NatSetInduction
<1>4. \E f : AnyNodeUpto(NLayers, f)
  BY <1>3, GapFacts
<1>5. AnyNode = [i \in Levels |->
                    IF i = 0 THEN 1 .. MaxTasks ELSE SkipNodesOver(AnyNode[i - 1])]
  BY <1>4, Zenon DEF AnyNodeUpto, AnyNode, Levels, SkipNodesOver
<1>6. 0 \in Levels
  BY GapFacts DEF Levels
<1> QED BY <1>5, <1>6

(* enqueue(): the new node of each level, or NULL. *)
NewNodes(l, t, n, f) ==
    f = [i \in 0 .. n |->
            IF i = 0 THEN t
            ELSE IF f[i - 1] # NULL /\ Completes(l[i - 1])
                 THEN Node(l[i - 1].candidate, f[i - 1])
                 ELSE NULL]

(* What enqueue() makes of the list, with the new nodes as its recursion defines them. *)
LEMMA EnqueuedDef ==
    ASSUME NEW l, NEW t
    PROVE  \E new : /\ NewNodes(l, t, NLayers, new)
                    /\ Enqueued(l, t) = [i \in Levels |->
                            IF new[i] = NULL THEN l[i] ELSE AddTail(l[i], new[i])]
<1> DEFINE S == {n \in Nat : \E f : NewNodes(l, t, n, f)}
<1>1. 0 \in S
  <2> DEFINE f == [i \in 0 .. 0 |-> t]
  <2>1. NewNodes(l, t, 0, f)
    BY DEF NewNodes
  <2> QED BY <2>1
<1>2. ASSUME NEW n \in Nat, n \in S
      PROVE  n + 1 \in S
  <2>1. PICK f : NewNodes(l, t, n, f)
    BY <1>2
  <2> DEFINE g == [i \in 0 .. n + 1 |->
                    IF i = 0 THEN t
                    ELSE IF f[i - 1] # NULL /\ Completes(l[i - 1])
                         THEN Node(l[i - 1].candidate, f[i - 1])
                         ELSE NULL]
  <2>2. \A i \in 0 .. n : g[i] = f[i]
    BY <2>1 DEF NewNodes
  <2>3. \A i \in 0 .. n + 1 : i # 0 => i - 1 \in 0 .. n
    OBVIOUS
  <2>4. g = [i \in 0 .. n + 1 |->
                IF i = 0 THEN t
                ELSE IF g[i - 1] # NULL /\ Completes(l[i - 1])
                     THEN Node(l[i - 1].candidate, g[i - 1])
                     ELSE NULL]
    BY <2>2, <2>3
  <2>5. NewNodes(l, t, n + 1, g)
    BY <2>4 DEF NewNodes
  <2> QED BY <2>5
<1>3. \A n \in Nat : n \in S
  <2> HIDE DEF S
  <2> QED BY <1>1, <1>2, NatSetInduction
<1>4. \E f : NewNodes(l, t, NLayers, f)
  BY <1>3, GapFacts
<1> DEFINE new == CHOOSE f : NewNodes(l, t, NLayers, f)
<1>5. NewNodes(l, t, NLayers, new)
  BY <1>4
<1>6. Enqueued(l, t) = [i \in Levels |->
                            IF new[i] = NULL THEN l[i] ELSE AddTail(l[i], new[i])]
  BY Zenon DEF Enqueued, NewNodes, Levels
<1> QED BY <1>5, <1>6

(* dequeue(): the levels that lose their head. *)
Drops(l, n, f) ==
    f = [i \in 0 .. n |->
            \/ i = 0
            \/ /\ f[i - 1]
               /\ (l[i - 1].head_off + 1) % SkipGap = 1
               /\ l[i].nodes # <<>>]

(* The recursion has a solution at every depth, *)
LEMMA DropsExists ==
    ASSUME NEW l
    PROVE  \A n \in Nat : \E f : Drops(l, n, f)
<1> DEFINE S == {n \in Nat : \E f : Drops(l, n, f)}
<1>1. 0 \in S
  <2> DEFINE f == [i \in 0 .. 0 |-> TRUE]
  <2>1. \A i \in 0 .. 0 : i = 0
    OBVIOUS
  <2>2. f = [i \in 0 .. 0 |->
            \/ i = 0
            \/ /\ f[i - 1]
               /\ (l[i - 1].head_off + 1) % SkipGap = 1
               /\ l[i].nodes # <<>>]
    BY <2>1, Zenon
  <2>3. Drops(l, 0, f)
    BY <2>2, Zenon DEF Drops
  <2> QED BY <2>3
<1>2. ASSUME NEW n \in Nat, n \in S
      PROVE  n + 1 \in S
  <2>1. PICK f : Drops(l, n, f)
    BY <1>2
  <2> DEFINE g == [i \in 0 .. n + 1 |->
            \/ i = 0
            \/ /\ f[i - 1]
               /\ (l[i - 1].head_off + 1) % SkipGap = 1
               /\ l[i].nodes # <<>>]
  <2>2. \A i \in 0 .. n : g[i] = f[i]
    <3>1. \A i \in 0 .. n : i \in 0 .. n + 1
      OBVIOUS
    <3> QED BY <2>1, <3>1, Zenon DEF Drops
  <2>3. \A i \in 0 .. n + 1 : i # 0 => i - 1 \in 0 .. n
    OBVIOUS
  <2>4. g = [i \in 0 .. n + 1 |->
            \/ i = 0
            \/ /\ g[i - 1]
               /\ (l[i - 1].head_off + 1) % SkipGap = 1
               /\ l[i].nodes # <<>>]
    BY <2>2, <2>3
  <2>5. Drops(l, n + 1, g)
    BY <2>4 DEF Drops
  <2> QED BY <2>5
<1>3. \A n \in Nat : n \in S
  <2> HIDE DEF S
  <2> QED BY <1>1, <1>2, NatSetInduction
<1> QED BY <1>3

(* so this is what dequeue() makes of the list. *)
LEMMA DequeuedDef ==
    ASSUME NEW l
    PROVE  \E drops : /\ Drops(l, NLayers, drops)
                      /\ Dequeued(l) = [i \in Levels |-> IF drops[i] THEN DropHead(l[i]) ELSE l[i]]
<1>1. \E f : Drops(l, NLayers, f)
  BY DropsExists, GapFacts
<1> DEFINE drops == CHOOSE f : Drops(l, NLayers, f)
<1>2. Drops(l, NLayers, drops)
  BY <1>1
<1>3. Dequeued(l) = [i \in Levels |-> IF drops[i] THEN DropHead(l[i]) ELSE l[i]]
  BY Zenon DEF Dequeued, Drops, Levels
<1> QED BY <1>2, <1>3

(* dequeue_half(): how many nodes each level gives away, from level s down. *)
Gives(l, s, n, f) ==
    f = [i \in 0 .. n |-> IF i = 0 THEN Half(l[s])
                         ELSE (1 + f[i - 1]) * SkipGap
                              - ((l[s - i].head_off + SkipGap - 1) % SkipGap) - 1]

(* The recursion has a solution at every depth, *)
LEMMA GivesExists ==
    ASSUME NEW l, NEW s
    PROVE  \A n \in Nat : \E f : Gives(l, s, n, f)
<1> DEFINE S == {n \in Nat : \E f : Gives(l, s, n, f)}
<1>1. 0 \in S
  <2> DEFINE f == [i \in 0 .. 0 |-> Half(l[s])]
  <2>1. Gives(l, s, 0, f)
    BY DEF Gives
  <2> QED BY <2>1
<1>2. ASSUME NEW n \in Nat, n \in S
      PROVE  n + 1 \in S
  <2>1. PICK f : Gives(l, s, n, f)
    BY <1>2
  <2> DEFINE g == [i \in 0 .. n + 1 |-> IF i = 0 THEN Half(l[s])
                         ELSE (1 + f[i - 1]) * SkipGap
                              - ((l[s - i].head_off + SkipGap - 1) % SkipGap) - 1]
  <2>2. \A i \in 0 .. n : g[i] = f[i]
    BY <2>1 DEF Gives
  <2>3. \A i \in 0 .. n + 1 : i # 0 => i - 1 \in 0 .. n
    OBVIOUS
  <2>4. g = [i \in 0 .. n + 1 |-> IF i = 0 THEN Half(l[s])
                         ELSE (1 + g[i - 1]) * SkipGap
                              - ((l[s - i].head_off + SkipGap - 1) % SkipGap) - 1]
    BY <2>2, <2>3
  <2>5. Gives(l, s, n + 1, g)
    BY <2>4 DEF Gives
  <2> QED BY <2>5
<1>3. \A n \in Nat : n \in S
  <2> HIDE DEF S
  <2> QED BY <1>1, <1>2, NatSetInduction
<1> QED BY <1>3

(* so toGiveAway is half at the level that is split, and computed from level to level below it. *)
LEMMA GiveAwayDef ==
    ASSUME NEW l, NEW s \in Levels, s = SplitLevel(l)
    PROVE  /\ GiveAway(l)[s] = Half(l[s])
           /\ \A i \in 0 .. s : i < s => GiveAway(l)[i] =
                (1 + GiveAway(l)[i + 1]) * SkipGap - ((l[i].head_off + SkipGap - 1) % SkipGap) - 1
<1>1. s \in Nat
  BY DEF Levels
<1>2. \E f : Gives(l, s, s, f)
  BY <1>1, GivesExists
<1> DEFINE give == CHOOSE f : Gives(l, s, s, f)
<1>3. Gives(l, s, s, give)
  BY <1>2
<1>4. GiveAway(l) = [i \in 0 .. s |-> give[s - i]]
  <2>1. GiveAway(l) = [i \in 0 .. SplitLevel(l) |->
            (CHOOSE f : Gives(l, SplitLevel(l), SplitLevel(l), f))[SplitLevel(l) - i]]
    BY Zenon DEF GiveAway, Gives
  <2> QED BY <2>1
<1> HIDE DEF give
<1>5. give[0] = Half(l[s])
  BY <1>1, <1>3 DEF Gives
<1>6. ASSUME NEW k \in 1 .. s
      PROVE  give[k] = (1 + give[k - 1]) * SkipGap
                        - ((l[s - k].head_off + SkipGap - 1) % SkipGap) - 1
  BY <1>1, <1>3 DEF Gives
<1>7. ASSUME NEW i \in 0 .. s, i < s
      PROVE  GiveAway(l)[i] = (1 + GiveAway(l)[i + 1]) * SkipGap
                                - ((l[i].head_off + SkipGap - 1) % SkipGap) - 1
  <2>1. s - i \in 1 .. s /\ s - (s - i) = i /\ (s - i) - 1 = s - (i + 1) /\ i + 1 \in 0 .. s
    BY <1>1, <1>7
  <2>2. give[s - i] = (1 + give[s - (i + 1)]) * SkipGap
                        - ((l[i].head_off + SkipGap - 1) % SkipGap) - 1
    BY <2>1, <1>6
  <2>3. GiveAway(l)[i] = give[s - i] /\ GiveAway(l)[i + 1] = give[s - (i + 1)]
    BY <2>1, <1>4
  <2> QED BY <2>2, <2>3
<1>8. s \in 0 .. s /\ s - s = 0
  BY <1>1
<1> QED BY <1>4, <1>5, <1>7, <1>8

(* The last node that each level gives away. *)
Lasts(l, s, n, f) ==
    f = [i \in 0 .. n |-> IF i = 0 THEN l[s].nodes[Half(l[s])] ELSE f[i - 1].last]

(* The recursion has a solution at every depth, *)
LEMMA LastsExists ==
    ASSUME NEW l, NEW s
    PROVE  \A n \in Nat : \E f : Lasts(l, s, n, f)
<1> DEFINE S == {n \in Nat : \E f : Lasts(l, s, n, f)}
<1>1. 0 \in S
  <2> DEFINE f == [i \in 0 .. 0 |-> l[s].nodes[Half(l[s])]]
  <2>1. Lasts(l, s, 0, f)
    BY DEF Lasts
  <2> QED BY <2>1
<1>2. ASSUME NEW n \in Nat, n \in S
      PROVE  n + 1 \in S
  <2>1. PICK f : Lasts(l, s, n, f)
    BY <1>2
  <2> DEFINE g == [i \in 0 .. n + 1 |-> IF i = 0 THEN l[s].nodes[Half(l[s])] ELSE f[i - 1].last]
  <2>2. \A i \in 0 .. n : g[i] = f[i]
    BY <2>1 DEF Lasts
  <2>3. \A i \in 0 .. n + 1 : i # 0 => i - 1 \in 0 .. n
    OBVIOUS
  <2>4. g = [i \in 0 .. n + 1 |-> IF i = 0 THEN l[s].nodes[Half(l[s])] ELSE g[i - 1].last]
    BY <2>2, <2>3
  <2>5. Lasts(l, s, n + 1, g)
    BY <2>4 DEF Lasts
  <2> QED BY <2>5
<1>3. \A n \in Nat : n \in S
  <2> HIDE DEF S
  <2> QED BY <1>1, <1>2, NatSetInduction
<1> QED BY <1>3

(* so the last node given away is found by following lastDownNode. *)
LEMMA LastGivenDef ==
    ASSUME NEW l, NEW s \in Levels, s = SplitLevel(l)
    PROVE  /\ LastGiven(l)[s] = l[s].nodes[Half(l[s])]
           /\ \A i \in 0 .. s : i < s => LastGiven(l)[i] = LastGiven(l)[i + 1].last
<1>1. s \in Nat
  BY DEF Levels
<1>2. \E f : Lasts(l, s, s, f)
  BY <1>1, LastsExists
<1> DEFINE last == CHOOSE f : Lasts(l, s, s, f)
<1>3. Lasts(l, s, s, last)
  BY <1>2
<1>4. LastGiven(l) = [i \in 0 .. s |-> last[s - i]]
  <2>1. LastGiven(l) = [i \in 0 .. SplitLevel(l) |->
            (CHOOSE f : Lasts(l, SplitLevel(l), SplitLevel(l), f))[SplitLevel(l) - i]]
    BY Zenon DEF LastGiven, Lasts
  <2> QED BY <2>1
<1> HIDE DEF last
<1>5. last[0] = l[s].nodes[Half(l[s])]
  BY <1>1, <1>3 DEF Lasts
<1>6. ASSUME NEW k \in 1 .. s
      PROVE  last[k] = last[k - 1].last
  BY <1>1, <1>3 DEF Lasts
<1>7. ASSUME NEW i \in 0 .. s, i < s
      PROVE  LastGiven(l)[i] = LastGiven(l)[i + 1].last
  <2>1. s - i \in 1 .. s /\ (s - i) - 1 = s - (i + 1) /\ i + 1 \in 0 .. s
    BY <1>1, <1>7
  <2>2. last[s - i] = last[s - (i + 1)].last
    BY <2>1, <1>6
  <2>3. LastGiven(l)[i] = last[s - i] /\ LastGiven(l)[i + 1] = last[s - (i + 1)]
    BY <2>1, <1>4
  <2> QED BY <2>2, <2>3
<1>8. s \in 0 .. s /\ s - s = 0
  BY <1>1
<1> QED BY <1>4, <1>5, <1>7, <1>8

----------------------------------------------------------------------------
(* Levels that fit *)

(* A level of nodes from S whose offsets delimit its nodes. *)
Level(lv, S) ==
    /\ lv.nodes \in Seq(S)
    /\ lv.head_off \in Nat
    /\ lv.tail_off = lv.head_off + Len(lv.nodes)

(* The level above has the nodes it should have, and so has the candidate. *)
Fits(lv, up) == up.nodes = GroupsOf(lv) /\ lv.candidate = CandidateOf(lv)

(* The first node after m groups, if there is one. *)
CandidateAt(s, k, m) == IF Len(s) > k + SkipGap * m THEN s[k + SkipGap * m + 1] ELSE NULL

(* The tasks are in the order of their numbers. *)
Sorted(s) == \A x, y \in 1 .. Len(s) : x < y => s[x] < s[y]

(* No node is twice in the sequence. *)
OneToOne(s) == \A x, y \in 1 .. Len(s) : s[x] = s[y] => x = y

(***************************************************************************)
(* The invariant of one Skiplist: each level fits the next.                *)
(***************************************************************************)
Good(l) ==
    /\ \A i \in Levels : Level(l[i], AnyNode[i])
    /\ \A i \in Levels : i # NLayers => Fits(l[i], l[i + 1])
    /\ Sorted(l[0].nodes)

(* What Level gives. *)
LEMMA LevelFacts ==
    ASSUME NEW lv, NEW S, Level(lv, S)
    PROVE  /\ Len(lv.nodes) \in Nat /\ lv.head_off \in Nat
           /\ lv.tail_off = lv.head_off + Len(lv.nodes)
           /\ lv.nodes \in [1 .. Len(lv.nodes) -> S]
           /\ Size(lv) = Len(lv.nodes)
<1>1. lv.nodes \in Seq(S) /\ Len(lv.nodes) \in Nat /\ lv.nodes \in [1 .. Len(lv.nodes) -> S]
  BY DEF Level
<1>2. lv.head_off \in Nat /\ lv.tail_off = lv.head_off + Len(lv.nodes)
  BY DEF Level
<1>3. Size(lv) = Len(lv.nodes)
  BY <1>1, <1>2 DEF Size
<1> QED BY <1>1, <1>2, <1>3

(* To fit, in terms of the shape. *)
LEMMA ShapeOfFit ==
    ASSUME NEW lv, NEW S, Level(lv, S), NEW up, Fits(lv, up),
           NEW s, lv.nodes = s, NEW h \in Nat, lv.head_off = h, NEW n \in Nat, Len(s) = n,
           NEW k, NEW a, NEW m, Shape(h, n, k, a, m)
    PROVE  up.nodes = GroupSeq(s, k, m) /\ lv.candidate = CandidateAt(s, k, m)
<1>1. n \in Nat /\ h \in Nat /\ lv.tail_off = h + n
  BY LevelFacts
<1>2. GroupsOf(lv) = GroupSeq(lv.nodes, k, m)
  BY <1>1, ShapeGroups
<1>3. CandidateOf(lv) = CandidateAt(lv.nodes, k, m)
  BY <1>1, ShapeCandidate DEF CandidateAt
<1> QED BY <1>2, <1>3 DEF Fits

(* The shape is enough to tell that two levels fit. *)
LEMMA FitOfShape ==
    ASSUME NEW lv, NEW S, Level(lv, S), NEW up,
           NEW s, lv.nodes = s, NEW h, lv.head_off = h, NEW n, Len(s) = n,
           NEW k, NEW a, NEW m, Shape(h, n, k, a, m),
           up.nodes = GroupSeq(s, k, m), lv.candidate = CandidateAt(s, k, m)
    PROVE  Fits(lv, up)
<1>1. n \in Nat /\ h \in Nat /\ lv.tail_off = h + n
  BY LevelFacts
<1>2. GroupsOf(lv) = GroupSeq(lv.nodes, k, m)
  BY <1>1, ShapeGroups
<1>3. CandidateOf(lv) = CandidateAt(lv.nodes, k, m)
  BY <1>1, ShapeCandidate DEF CandidateAt
<1> QED BY <1>2, <1>3 DEF Fits

(* The nodes of a group are there. *)
LEMMA GroupIndex ==
    ASSUME NEW h \in Nat, NEW n \in Nat, NEW k, NEW a, NEW m, Shape(h, n, k, a, m), NEW j \in 1 .. m
    PROVE  k + (j - 1) * SkipGap + 1 \in 1 .. n /\ k + j * SkipGap \in 1 .. n
<1>1. SkipGap \in Nat /\ SkipGap > 1
  BY GapFacts
<1>2. k \in Nat /\ m \in Nat /\ k + SkipGap * m <= n
  BY <1>1 DEF Shape
<1>3. SkipGap * j <= SkipGap * m
  <2>1. CASE j = m
    BY <2>1, <1>1, <1>2
  <2>2. CASE j < m
    <3>1. SkipGap * j + SkipGap <= SkipGap * m
      BY <2>2, <1>1, <1>2, Apart
    <3> QED BY <3>1, <1>1, <1>2
  <2> QED BY <2>1, <2>2, <1>2
<1>4. (j - 1) * SkipGap \in Nat
  BY <1>1
<1>5. (j - 1) * SkipGap + SkipGap = SkipGap * j /\ j * SkipGap = SkipGap * j /\ SkipGap * j \in Nat
  BY <1>1
<1> QED BY <1>1, <1>2, <1>3, <1>4, <1>5

(* What GroupSeq returns. *)
LEMMA GroupSeqFacts ==
    ASSUME NEW s, NEW k, NEW m \in Nat
    PROVE  /\ Len(GroupSeq(s, k, m)) = m
           /\ DOMAIN GroupSeq(s, k, m) = 1 .. m
           /\ \A j \in 1 .. m : /\ GroupSeq(s, k, m)[j].down = s[k + (j - 1) * SkipGap + 1]
                                /\ GroupSeq(s, k, m)[j].last = s[k + j * SkipGap]
BY DEF GroupSeq, Node

(* A level of a good list with its shape. *)
LEMMA Picture ==
    ASSUME NEW l, Good(l), NEW i \in Levels
    PROVE  \E k, a, m \in Nat :
              /\ Shape(l[i].head_off, Len(l[i].nodes), k, a, m)
              /\ i # NLayers => /\ l[i + 1].nodes = GroupSeq(l[i].nodes, k, m)
                                /\ Len(l[i + 1].nodes) = m
                                /\ l[i].candidate = CandidateAt(l[i].nodes, k, m)
<1>1. Level(l[i], AnyNode[i])
  BY DEF Good
<1>2. Len(l[i].nodes) \in Nat /\ l[i].head_off \in Nat
  BY <1>1, LevelFacts
<1>3. PICK k, a, m \in Nat : Shape(l[i].head_off, Len(l[i].nodes), k, a, m)
  BY <1>2, ShapeExists
<1>4. ASSUME i # NLayers
      PROVE  /\ l[i + 1].nodes = GroupSeq(l[i].nodes, k, m)
             /\ Len(l[i + 1].nodes) = m
             /\ l[i].candidate = CandidateAt(l[i].nodes, k, m)
  <2>1. Fits(l[i], l[i + 1])
    BY <1>4 DEF Good
  <2>2. l[i + 1].nodes = GroupSeq(l[i].nodes, k, m) /\ l[i].candidate = CandidateAt(l[i].nodes, k, m)
    BY <2>1, <1>1, <1>2, <1>3, ShapeOfFit
  <2> QED BY <2>2, GroupSeqFacts
<1> QED BY <1>3, <1>4

(* No node is twice in a level: tasks are in order, and a group has one first node. *)
LEMMA GoodOneToOne ==
    ASSUME NEW l, Good(l)
    PROVE  \A i \in Levels : OneToOne(l[i].nodes)
<1> DEFINE S == {i \in Nat : i <= NLayers => OneToOne(l[i].nodes)}
<1>1. SkipGap \in Nat /\ SkipGap > 1 /\ NLayers \in Nat
  BY GapFacts
<1>2. 0 \in S
  <2>1. Level(l[0], AnyNode[0]) /\ AnyNode[0] = 1 .. MaxTasks
    BY <1>1, AnyNodeDef DEF Good, Levels
  <2>2. l[0].nodes \in [1 .. Len(l[0].nodes) -> 1 .. MaxTasks] /\ Len(l[0].nodes) \in Nat
    BY <2>1, LevelFacts
  <2>3. Sorted(l[0].nodes)
    BY DEF Good
  <2>4. ASSUME NEW x \in 1 .. Len(l[0].nodes), NEW y \in 1 .. Len(l[0].nodes),
               l[0].nodes[x] = l[0].nodes[y]
        PROVE  x = y
    <3>1. l[0].nodes[x] \in Int /\ l[0].nodes[y] \in Int
      BY <2>2, GapFacts
    <3>2. ~ (x < y) /\ ~ (y < x)
      BY <2>3, <2>4, <3>1 DEF Sorted
    <3> QED BY <3>2, <2>2
  <2> QED BY <2>4 DEF OneToOne
<1>3. ASSUME NEW i \in Nat, i \in S
      PROVE  i + 1 \in S
  <2> SUFFICES ASSUME i + 1 <= NLayers
               PROVE  OneToOne(l[i + 1].nodes)
    OBVIOUS
  <2>1. i \in Levels /\ i # NLayers /\ OneToOne(l[i].nodes)
    BY <1>1, <1>3 DEF Levels
  <2>2. PICK k, a, m \in Nat :
            /\ Shape(l[i].head_off, Len(l[i].nodes), k, a, m)
            /\ l[i + 1].nodes = GroupSeq(l[i].nodes, k, m)
            /\ Len(l[i + 1].nodes) = m
    BY <2>1, Picture
  <2>3. Len(l[i].nodes) \in Nat /\ l[i].head_off \in Nat
    BY <2>1, LevelFacts DEF Good
  <2>4. ASSUME NEW x \in 1 .. m, NEW y \in 1 .. m, l[i + 1].nodes[x] = l[i + 1].nodes[y]
        PROVE  x = y
    <3> DEFINE g == GroupSeq(l[i].nodes, k, m)
    <3>0. g[x] = g[y]
      BY <2>2, <2>4
    <3>1. l[i].nodes[k + (x - 1) * SkipGap + 1] = l[i].nodes[k + (y - 1) * SkipGap + 1]
      <4>1. /\ g[x].down = l[i].nodes[k + (x - 1) * SkipGap + 1]
            /\ g[y].down = l[i].nodes[k + (y - 1) * SkipGap + 1]
        BY GroupSeqFacts
      <4> QED BY <4>1, <3>0
    <3>2. /\ k + (x - 1) * SkipGap + 1 \in 1 .. Len(l[i].nodes)
          /\ k + (y - 1) * SkipGap + 1 \in 1 .. Len(l[i].nodes)
      BY <2>2, <2>3, GroupIndex
    <3>3. k + (x - 1) * SkipGap + 1 = k + (y - 1) * SkipGap + 1
      BY <2>1, <3>1, <3>2 DEF OneToOne
    <3>4. SkipGap * x = SkipGap * y
      BY <3>3, <1>1
    <3>5. CASE x < y
      <4>1. SkipGap * x + SkipGap <= SkipGap * y
        BY <3>5, <1>1, Apart
      <4> QED BY <4>1, <3>4, <1>1
    <3>6. CASE y < x
      <4>1. SkipGap * y + SkipGap <= SkipGap * x
        BY <3>6, <1>1, Apart
      <4> QED BY <4>1, <3>4, <1>1
    <3> QED BY <3>5, <3>6
  <2> QED BY <2>2, <2>4 DEF OneToOne
<1>4. \A i \in Nat : i \in S
  <2> HIDE DEF S
  <2> QED BY <1>2, <1>3, NatSetInduction
<1> QED BY <1>1, <1>4 DEF Levels

----------------------------------------------------------------------------
(* A node more at the tail *)

(* The sequence that Append returns, element by element. *)
LEMMA AppendFacts ==
    ASSUME NEW S, NEW s \in Seq(S), NEW n \in S
    PROVE  /\ Append(s, n) \in Seq(S) /\ Len(Append(s, n)) = Len(s) + 1
           /\ \A j \in 1 .. Len(s) : Append(s, n)[j] = s[j]
           /\ Append(s, n)[Len(s) + 1] = n
OBVIOUS

(* A sequence is the function of its elements, *)
LEMMA SeqIsFunction ==
    ASSUME NEW S, NEW s \in Seq(S)
    PROVE  s = [j \in 1 .. Len(s) |-> s[j]]
OBVIOUS

(* and a function of 1 .. m is a sequence. *)
LEMMA FunctionIsSeq ==
    ASSUME NEW m \in Nat, NEW f, f = [j \in 1 .. m |-> f[j]]
    PROVE  f \in Seq({f[j] : j \in 1 .. m}) /\ Len(f) = m
OBVIOUS

(* A new node at the tail leaves the offsets right. *)
LEMMA AddTailLevel ==
    ASSUME NEW lv, NEW S, Level(lv, S), NEW n \in S
    PROVE  /\ Level(AddTail(lv, n), S)
           /\ AddTail(lv, n).nodes = Append(lv.nodes, n)
           /\ AddTail(lv, n).head_off = lv.head_off
<1>1. lv.nodes \in Seq(S) /\ lv.head_off \in Nat /\ lv.tail_off = lv.head_off + Len(lv.nodes)
  BY DEF Level
<1>2. Append(lv.nodes, n) \in Seq(S) /\ Len(Append(lv.nodes, n)) = Len(lv.nodes) + 1
      /\ Len(lv.nodes) \in Nat
  BY <1>1, AppendFacts
<1>3. /\ AddTail(lv, n).nodes = Append(lv.nodes, n)
      /\ AddTail(lv, n).head_off = lv.head_off
      /\ AddTail(lv, n).tail_off = lv.tail_off + 1
  BY DEF AddTail
<1> QED BY <1>1, <1>2, <1>3 DEF Level

(* The groups of two sequences with the same nodes in the same places. *)
LEMMA GroupSeqEqual ==
    ASSUME NEW s, NEW s2, NEW k, NEW k2, NEW m,
           \A j \in 1 .. m : /\ s[k + (j - 1) * SkipGap + 1] = s2[k2 + (j - 1) * SkipGap + 1]
                             /\ s[k + j * SkipGap] = s2[k2 + j * SkipGap]
    PROVE  GroupSeq(s, k, m) = GroupSeq(s2, k2, m)
BY DEF GroupSeq

(* What enqueue() does to the groups of a level and to its candidate. *)
LEMMA AddTailFits ==
    ASSUME NEW lv, NEW S, Level(lv, S), NULL \notin S, NEW up, Fits(lv, up), NEW n \in S, NEW u,
           u.nodes = IF Completes(lv) THEN Append(up.nodes, Node(lv.candidate, n)) ELSE up.nodes
    PROVE  /\ Fits(AddTail(lv, n), u)
           /\ Completes(lv) => lv.candidate \in S
<1> DEFINE s == lv.nodes
<1> DEFINE s2 == Append(lv.nodes, n)
<1> DEFINE h == lv.head_off
<1> DEFINE c == Len(lv.nodes)
<1> DEFINE lv2 == AddTail(lv, n)
<1>1. SkipGap \in Nat /\ SkipGap > 1
  BY GapFacts
<1>2. c \in Nat /\ h \in Nat /\ lv.tail_off = h + c /\ s \in [1 .. c -> S] /\ s \in Seq(S)
  BY LevelFacts DEF Level
<1>3. Len(s2) = c + 1 /\ (\A j \in 1 .. c : s2[j] = s[j]) /\ s2[c + 1] = n
  BY <1>2, AppendFacts
<1>4. Level(lv2, S) /\ lv2.nodes = s2 /\ lv2.head_off = h
  BY AddTailLevel
<1>5. PICK k, a, m \in Nat : Shape(h, c, k, a, m)
  BY <1>2, ShapeExists
<1>6. up.nodes = GroupSeq(s, k, m) /\ lv.candidate = CandidateAt(s, k, m)
  BY <1>2, <1>5, ShapeOfFit
<1>7. k \in 0 .. SkipGap - 1 /\ h + k = SkipGap * a /\ SkipGap * m \in Nat /\ SkipGap * a \in Nat
  <2>1. k \in 0 .. SkipGap - 1 /\ h + k = SkipGap * a
    BY <1>5 DEF Shape
  <2>2. SkipGap * m \in Nat /\ SkipGap * a \in Nat
    BY <1>1, <1>5
  <2> QED BY <2>1, <2>2
<1>8. lv2.candidate = IF Completes(lv) THEN NULL
                      ELSE IF (lv.tail_off + 1) % SkipGap = 1 THEN n ELSE lv.candidate
  BY DEF AddTail
<1>9. GroupSeq(s2, k, m) = GroupSeq(s, k, m)
  <2>1. \A j \in 1 .. m : k + (j - 1) * SkipGap + 1 \in 1 .. c /\ k + j * SkipGap \in 1 .. c
    BY <1>2, <1>5, GroupIndex
  <2>2. \A j \in 1 .. m : /\ s2[k + (j - 1) * SkipGap + 1] = s[k + (j - 1) * SkipGap + 1]
                          /\ s2[k + j * SkipGap] = s[k + j * SkipGap]
    BY <2>1, <1>3
  <2> HIDE DEF s, s2
  <2> QED BY <2>2, GroupSeqEqual
<1> HIDE DEF s, s2, h, c, lv2
<1>10. CASE c < k
  <2>1. m = 0 /\ SkipGap * m = 0
    <3>1. m = 0
      <4>1. c \in Nat /\ k \in Nat /\ SkipGap * m \in Nat /\ (m = 0 \/ k + SkipGap * m <= c)
        BY <1>2, <1>5, <1>7 DEF Shape
      <4> QED BY <4>1, <1>10
    <3> QED BY <3>1, <1>1
  <2>2. lv.candidate = NULL
    BY <1>6, <1>2, <2>1, <1>7, <1>10 DEF CandidateAt, s, c
  <2>3. (lv.tail_off + 1) % SkipGap # 1
    <3>1. CASE c + 1 = k
      <4>1. h + c + 1 = SkipGap * a + 0 /\ 0 \in 0 .. SkipGap - 1 /\ a \in Int /\ h + c + 1 \in Nat
        BY <3>1, <1>1, <1>2, <1>7
      <4>2. (h + c + 1) % SkipGap = 0
        BY <4>1, <1>1, ModIs
      <4> QED BY <4>2, <1>2
    <3>2. CASE c + 1 < k
      <4> DEFINE r == SkipGap - (k - c - 1)
      <4>1. r \in 2 .. SkipGap - 1 /\ h + c + 1 = SkipGap * (a - 1) + r
        BY <3>2, <1>1, <1>2, <1>7
      <4> HIDE DEF r
      <4>2. r \in 0 .. SkipGap - 1 /\ a - 1 \in Int /\ h + c + 1 \in Nat
        BY <4>1, <1>2
      <4>3. (h + c + 1) % SkipGap = r
        BY <4>1, <4>2, <1>1, ModIs
      <4> QED BY <4>1, <4>3, <1>2
    <3> QED BY <3>1, <3>2, <1>2, <1>7, <1>10
  <2>4. ~Completes(lv)
    BY <2>2 DEF Completes
  <2>5. lv2.candidate = NULL /\ u.nodes = GroupSeq(s2, k, m)
    BY <2>2, <2>3, <2>4, <1>6, <1>8, <1>9
  <2>6. CandidateAt(s2, k, m) = NULL
    BY <2>1, <1>2, <1>3, <1>7, <1>10 DEF CandidateAt
  <2>7. Shape(h, c + 1, k, a, m)
    BY <1>1, <1>2, <1>5, <1>7, <1>10, <2>1 DEF Shape
  <2>8. Fits(lv2, u)
    BY <1>3, <1>4, <2>5, <2>6, <2>7, FitOfShape
  <2> QED BY <2>4, <2>8 DEF lv2
<1>11. CASE k <= c
  <2> DEFINE r == c - k - SkipGap * m
  <2>1. r \in 0 .. SkipGap - 1
    <3>1. m = 0 => SkipGap * m = 0
      BY <1>1
    <3> QED BY <1>1, <1>2, <1>5, <1>7, <1>11, <3>1 DEF Shape
  <2>2. h + c + 1 = SkipGap * (a + m) + (r + 1) /\ h + c + 1 \in Nat
    BY <1>1, <1>2, <1>7
  <2>3. c = k + SkipGap * m + r
    BY <1>2, <1>7
  <2> HIDE DEF r
  <2>4. CASE r + 1 < SkipGap
    <3>1. (h + c + 1) % SkipGap = r + 1
      <4>1. r + 1 \in 0 .. SkipGap - 1 /\ a + m \in Int
        BY <2>1, <2>4, <1>1
      <4> QED BY <4>1, <2>2, <1>1, ModIs
    <3>2. (lv.tail_off + 1) % SkipGap = r + 1
      BY <3>1, <1>2
    <3>3. ~Completes(lv)
      BY <3>2, <2>1 DEF Completes
    <3>4. u.nodes = GroupSeq(s2, k, m)
      BY <3>3, <1>6, <1>9
    <3>5. Shape(h, c + 1, k, a, m)
      BY <1>1, <1>2, <1>5, <1>7, <2>1, <2>3, <2>4 DEF Shape
    <3>6. CandidateAt(s2, k, m) = s2[k + SkipGap * m + 1]
      BY <1>2, <1>3, <1>7, <2>1, <2>3, SMTT(60) DEF CandidateAt
    <3>7. lv2.candidate = CandidateAt(s2, k, m)
      <4>1. CASE r = 0
        <5>1. lv2.candidate = n
          BY <4>1, <3>2, <3>3, <1>8
        <5>2. k + SkipGap * m + 1 = c + 1
          BY <4>1, <2>3, <1>7
        <5> QED BY <5>1, <5>2, <3>6, <1>3
      <4>2. CASE r # 0
        <5>1. lv2.candidate = lv.candidate
          BY <4>2, <2>1, <3>2, <3>3, <1>8
        <5>2. k + SkipGap * m + 1 \in 1 .. c /\ c > k + SkipGap * m
          BY <4>2, <2>1, <2>3, <1>2, <1>7, SMTT(60)
        <5>3. lv.candidate = s[k + SkipGap * m + 1]
          BY <5>2, <1>6 DEF CandidateAt, s, c
        <5> QED BY <5>1, <5>2, <5>3, <3>6, <1>3
      <4> QED BY <4>1, <4>2
    <3>8. Fits(lv2, u)
      BY <1>3, <1>4, <3>4, <3>5, <3>7, FitOfShape
    <3> QED BY <3>3, <3>8 DEF lv2
  <2>5. CASE r + 1 = SkipGap
    <3>1. (h + c + 1) % SkipGap = 0
      <4>1. h + c + 1 = SkipGap * (a + m + 1) + 0 /\ 0 \in 0 .. SkipGap - 1 /\ a + m + 1 \in Int
        BY <2>2, <2>5, <1>1
      <4> QED BY <4>1, <2>2, <1>1, ModIs
    <3>2. k + SkipGap * m + 1 \in 1 .. c /\ c > k + SkipGap * m
      <4>1. c \in Nat /\ k \in Nat /\ SkipGap * m \in Nat /\ r \in Nat /\ r >= 1
        BY <2>1, <2>5, <1>1, <1>2, <1>7
      <4> QED BY <4>1, <2>3
    <3>3. lv.candidate = s[k + SkipGap * m + 1] /\ lv.candidate \in S
      <4>1. lv.candidate = s[k + SkipGap * m + 1]
        BY <3>2, <1>6 DEF CandidateAt, s, c
      <4> QED BY <4>1, <3>2, <1>2
    <3>4. Completes(lv)
      BY <3>1, <3>3, <1>2 DEF Completes
    <3>5. k + SkipGap * (m + 1) = c + 1 /\ SkipGap * (m + 1) \in Nat
      <4>1. SkipGap * (m + 1) = SkipGap * m + SkipGap
        BY <1>1
      <4>2. k \in Nat /\ SkipGap * m \in Nat /\ r \in Nat
        BY <2>1, <1>7
      <4> QED BY <4>1, <4>2, <2>3, <2>5, <1>1
    <3>6. Shape(h, c + 1, k, a, m + 1)
      BY <3>5, <1>1, <1>2, <1>7 DEF Shape
    <3>7. CandidateAt(s2, k, m + 1) = NULL
      BY <3>5, <1>2, <1>3 DEF CandidateAt
    <3>8. u.nodes = GroupSeq(s2, k, m + 1)
      <4> DEFINE g == GroupSeq(s, k, m)
      <4> DEFINE x == Node(lv.candidate, n)
      <4> DEFINE g2 == GroupSeq(s2, k, m + 1)
      <4>1. u.nodes = Append(g, x)
        BY <3>4, <1>6
      <4>2. g \in Seq({g[j] : j \in 1 .. m} \cup {x}) /\ Len(g) = m
        BY DEF GroupSeq
      <4>3. /\ Append(g, x) \in Seq({g[j] : j \in 1 .. m} \cup {x})
            /\ Len(Append(g, x)) = m + 1
            /\ (\A j \in 1 .. m : Append(g, x)[j] = g[j])
            /\ Append(g, x)[m + 1] = x
        <5>1. x \in {g[j] : j \in 1 .. m} \cup {x}
          OBVIOUS
        <5> HIDE DEF g, x
        <5> QED BY <4>2, <5>1, AppendFacts
      <4>4. \A j \in 1 .. m : g2[j] = g[j]
        <5>1. \A j \in 1 .. m : GroupSeq(s2, k, m)[j] = g2[j]
          BY DEF GroupSeq
        <5> QED BY <5>1, <1>9
      <4>5. g2[m + 1] = x
        <5>1. g2[m + 1] = Node(s2[k + ((m + 1) - 1) * SkipGap + 1], s2[k + (m + 1) * SkipGap])
          BY DEF GroupSeq
        <5>2. ((m + 1) - 1) * SkipGap = SkipGap * m /\ (m + 1) * SkipGap = SkipGap * (m + 1)
          BY <1>1
        <5>3. k + ((m + 1) - 1) * SkipGap + 1 = k + SkipGap * m + 1 /\ k + (m + 1) * SkipGap = c + 1
          BY <5>2, <3>5
        <5>4. s2[k + SkipGap * m + 1] = lv.candidate /\ s2[c + 1] = n
          BY <3>2, <3>3, <1>3
        <5> QED BY <5>1, <5>3, <5>4
      <4>6. g2 = [j \in 1 .. m + 1 |-> g2[j]]
        BY DEF GroupSeq
      <4>7. \A j \in 1 .. m + 1 : Append(g, x)[j] = g2[j]
        <5>1. \A j \in 1 .. m + 1 : j \in 1 .. m \/ j = m + 1
          OBVIOUS
        <5> QED BY <5>1, <4>3, <4>4, <4>5
      <4> HIDE DEF g, x, g2
      <4>8. Append(g, x) = [j \in 1 .. m + 1 |-> Append(g, x)[j]]
        BY <4>3, SeqIsFunction
      <4> QED BY <4>1, <4>6, <4>7, <4>8 DEF g2
    <3>9. lv2.candidate = NULL
      BY <3>4, <1>8
    <3>10. Fits(lv2, u)
      BY <1>3, <1>4, <3>6, <3>7, <3>8, <3>9, FitOfShape
    <3> QED BY <3>3, <3>10 DEF lv2
  <2> QED BY <1>1, <2>1, <2>4, <2>5
<1> QED BY <1>2, <1>7, <1>10, <1>11

----------------------------------------------------------------------------
(* A node less at the head *)

(* The sequence that Tail returns, element by element. *)
LEMMA TailFacts ==
    ASSUME NEW S, NEW s \in Seq(S), s # <<>>
    PROVE  /\ Len(s) \in Nat /\ Len(s) > 0 /\ Head(s) = s[1]
           /\ Tail(s) \in Seq(S) /\ Len(Tail(s)) = Len(s) - 1
           /\ \A j \in 1 .. Len(s) - 1 : Tail(s)[j] = s[j + 1]
OBVIOUS

(* So does the loss of the head. *)
LEMMA DropHeadLevel ==
    ASSUME NEW lv, NEW S, Level(lv, S), lv.nodes # <<>>
    PROVE  /\ Level(DropHead(lv), S)
           /\ DropHead(lv).nodes = Tail(lv.nodes)
           /\ DropHead(lv).head_off = lv.head_off + 1
<1>1. lv.nodes \in Seq(S) /\ lv.head_off \in Nat /\ lv.tail_off = lv.head_off + Len(lv.nodes)
  BY DEF Level
<1>2. Tail(lv.nodes) \in Seq(S) /\ Len(Tail(lv.nodes)) = Len(lv.nodes) - 1 /\ Len(lv.nodes) \in Nat
  BY <1>1, TailFacts
<1>3. /\ DropHead(lv).nodes = Tail(lv.nodes)
      /\ DropHead(lv).head_off = lv.head_off + 1
      /\ DropHead(lv).tail_off = lv.tail_off
  BY DEF DropHead
<1> QED BY <1>1, <1>2, <1>3 DEF Level

(* When a level starts with a whole group. *)
LEMMA AtGroupStart ==
    ASSUME NEW h \in Nat, NEW n, NEW k, NEW a, NEW m, Shape(h, n, k, a, m)
    PROVE  (h + 1) % SkipGap = 1 <=> k = 0
<1>1. SkipGap \in Nat /\ SkipGap > 1
  BY GapFacts
<1>2. k \in 0 .. SkipGap - 1 /\ h + k = SkipGap * a /\ a \in Nat
  BY DEF Shape
<1>3. h + 1 \in Nat /\ SkipGap * a \in Nat
  BY <1>1, <1>2
<1>4. CASE k = 0
  <2>1. h + 1 = SkipGap * a + 1 /\ 1 \in 0 .. SkipGap - 1 /\ a \in Int
    BY <1>1, <1>2, <1>4
  <2>2. (h + 1) % SkipGap = 1
    BY <2>1, <1>1, <1>3, ModIs
  <2> QED BY <2>2, <1>4
<1>5. CASE k = 1
  <2>1. h + 1 = SkipGap * a + 0 /\ 0 \in 0 .. SkipGap - 1 /\ a \in Int
    BY <1>1, <1>2, <1>5
  <2>2. (h + 1) % SkipGap = 0
    BY <2>1, <1>1, <1>3, ModIs
  <2> QED BY <2>2, <1>5
<1>6. CASE k > 1
  <2> DEFINE r == SkipGap - k + 1
  <2>1. h + 1 = SkipGap * (a - 1) + r /\ r \in 2 .. SkipGap - 1
    BY <1>1, <1>2, <1>6
  <2> HIDE DEF r
  <2>2. r \in 0 .. SkipGap - 1 /\ a - 1 \in Int
    BY <2>1, <1>1, <1>2
  <2>3. (h + 1) % SkipGap = r
    BY <2>1, <2>2, <1>1, <1>3, ModIs
  <2> QED BY <2>1, <2>3, <1>6
<1> QED BY <1>1, <1>2, <1>4, <1>5, <1>6

(* What dequeue() does to the groups of a level and to its candidate. *)
LEMMA DropHeadFits ==
    ASSUME NEW lv, NEW S, Level(lv, S), NULL \notin S, lv.nodes # <<>>, OneToOne(lv.nodes),
           NEW up, Fits(lv, up), NEW u,
           u.nodes = IF (lv.head_off + 1) % SkipGap = 1 /\ up.nodes # <<>>
                     THEN Tail(up.nodes) ELSE up.nodes
    PROVE  Fits(DropHead(lv), u)
<1> DEFINE s == lv.nodes
<1> DEFINE s2 == Tail(lv.nodes)
<1> DEFINE h == lv.head_off
<1> DEFINE c == Len(lv.nodes)
<1> DEFINE lv2 == DropHead(lv)
<1>1. SkipGap \in Nat /\ SkipGap > 1
  BY GapFacts
<1>2. c \in Nat /\ h \in Nat /\ lv.tail_off = h + c /\ s \in [1 .. c -> S] /\ s \in Seq(S)
  BY LevelFacts DEF Level
<1>3. /\ c > 0 /\ Head(s) = s[1] /\ Len(s2) = c - 1
      /\ \A j \in 1 .. c - 1 : s2[j] = s[j + 1]
  BY <1>2, TailFacts
<1>4. Level(lv2, S) /\ lv2.nodes = s2 /\ lv2.head_off = h + 1
  BY DropHeadLevel
<1>5. lv2.candidate = IF lv.candidate = s[1] THEN NULL ELSE lv.candidate
  <2>1. lv2.candidate = IF lv.candidate = Head(s) THEN NULL ELSE lv.candidate
    BY DEF DropHead
  <2> QED BY <2>1, <1>3
<1>6. PICK k, a, m \in Nat : Shape(h, c, k, a, m)
  BY <1>2, ShapeExists
<1>7. lv.nodes = s /\ lv.head_off = h /\ Len(lv.nodes) = c /\ Len(s) = c
  OBVIOUS
<1>8. OneToOne(s)
  OBVIOUS
<1> HIDE DEF s, s2, h, c, lv2
<1>9. up.nodes = GroupSeq(s, k, m) /\ lv.candidate = CandidateAt(s, k, m)
  BY <1>2, <1>6, <1>7, ShapeOfFit
<1>10. k \in 0 .. SkipGap - 1 /\ h + k = SkipGap * a /\ SkipGap * m \in Nat /\ SkipGap * a \in Nat
  <2>1. k \in 0 .. SkipGap - 1 /\ h + k = SkipGap * a
    BY <1>6 DEF Shape
  <2>2. SkipGap * m \in Nat /\ SkipGap * a \in Nat
    BY <1>1, <1>6
  <2> QED BY <2>1, <2>2
<1>11. (m = 0 \/ k + SkipGap * m <= c) /\ c < k + SkipGap * m + SkipGap
  BY <1>6 DEF Shape
<1>12. (lv.head_off + 1) % SkipGap = 1 <=> k = 0
  BY <1>2, <1>6, <1>7, AtGroupStart
<1>13. up.nodes # <<>> <=> m # 0
  <2>1. Len(up.nodes) = m
    BY <1>9, <1>6, GroupSeqFacts
  <2>2. m = 0 => up.nodes = <<>>
    <3>1. ASSUME m = 0
          PROVE  GroupSeq(s, k, m) = <<>>
      BY <3>1 DEF GroupSeq
    <3> QED BY <3>1, <1>9
  <2>3. Len(<<>>) = 0
    OBVIOUS
  <2> QED BY <2>1, <2>2, <2>3
<1>14. \A j \in 1 .. m : k + (j - 1) * SkipGap + 1 \in 1 .. c /\ k + j * SkipGap \in 1 .. c
  BY <1>2, <1>6, GroupIndex
<1>15. CASE k # 0
  <2>1. u.nodes = up.nodes
    BY <1>12, <1>15, <1>7
  <2>2. Shape(h + 1, c - 1, k - 1, a, m)
    BY <1>1, <1>2, <1>3, <1>6, <1>10, <1>11, <1>15 DEF Shape
  <2>3. GroupSeq(s, k, m) = GroupSeq(s2, k - 1, m)
    <3>1. ASSUME NEW j \in 1 .. m
          PROVE  /\ s[k + (j - 1) * SkipGap + 1] = s2[(k - 1) + (j - 1) * SkipGap + 1]
                 /\ s[k + j * SkipGap] = s2[(k - 1) + j * SkipGap]
      <4> DEFINE x == (j - 1) * SkipGap
      <4> DEFINE y == j * SkipGap
      <4>1. x \in Nat /\ y \in Nat
        BY <1>1, <1>6
      <4>2. k + x + 1 \in 1 .. c /\ k + y \in 1 .. c
        BY <1>14
      <4>3. y > 0
        BY <1>1
      <4> HIDE DEF x, y
      <4>4. (k - 1) + x + 1 \in 1 .. c - 1 /\ (k - 1) + y \in 1 .. c - 1
        <5>1. k \in Nat /\ k >= 1 /\ c \in Nat
          BY <1>1, <1>2, <1>10, <1>15
        <5> QED BY <5>1, <4>1, <4>2, <4>3
      <4>5. ((k - 1) + x + 1) + 1 = k + x + 1 /\ ((k - 1) + y) + 1 = k + y
        BY <4>1, <1>10
      <4>6. s[k + x + 1] = s2[(k - 1) + x + 1] /\ s[k + y] = s2[(k - 1) + y]
        BY <4>4, <4>5, <1>3
      <4> QED BY <4>6 DEF x, y
    <3> QED BY <3>1, GroupSeqEqual
  <2>4. lv2.candidate = CandidateAt(s2, k - 1, m)
    <3> DEFINE p == k + SkipGap * m + 1
    <3>1. p \in Nat /\ p > 1 /\ (k - 1) + SkipGap * m + 1 = p - 1
      BY <1>10, <1>15
    <3>2. CandidateAt(s, k, m) = IF c >= p THEN s[p] ELSE NULL
      BY <1>2, <1>7, <1>10 DEF CandidateAt
    <3>3. CandidateAt(s2, k - 1, m) = IF c >= p THEN s2[p - 1] ELSE NULL
      BY <1>2, <1>3, <1>10, <3>1, SMTT(60) DEF CandidateAt
    <3> HIDE DEF p
    <3>4. CASE c >= p
      <4>1. p \in 1 .. c /\ 1 \in 1 .. c /\ p - 1 \in 1 .. c - 1 /\ (p - 1) + 1 = p
        BY <3>1, <3>4, <1>2
      <4>2. s[p] # s[1]
        BY <4>1, <3>1, <1>7, <1>8 DEF OneToOne
      <4>3. s2[p - 1] = s[p]
        BY <4>1, <1>3
      <4> QED BY <4>2, <4>3, <3>2, <3>3, <3>4, <1>5, <1>9
    <3>5. CASE ~ (c >= p)
      BY <3>2, <3>3, <3>5, <1>5, <1>9
    <3> QED BY <3>4, <3>5
  <2>5. Len(s2) = c - 1
    BY <1>3
  <2>6. u.nodes = GroupSeq(s2, k - 1, m)
    BY <1>9, <2>1, <2>3
  <2>7. Fits(lv2, u)
    BY <1>4, <2>2, <2>4, <2>5, <2>6, FitOfShape
  <2> QED BY <2>7 DEF lv2
<1>16. CASE k = 0 /\ m = 0
  <2>1. u.nodes = up.nodes
    BY <1>13, <1>16
  <2>2. SkipGap * m = 0 /\ SkipGap * (a + 1) = h + 1 + (SkipGap - 1)
    BY <1>1, <1>2, <1>6, <1>10, <1>16
  <2>3. Shape(h + 1, c - 1, SkipGap - 1, a + 1, m)
    BY <1>1, <1>2, <1>3, <1>6, <1>11, <1>16, <2>2 DEF Shape
  <2>4. GroupSeq(s, k, m) = GroupSeq(s2, SkipGap - 1, m)
    BY <1>16, GroupSeqEqual
  <2>5. lv.candidate = s[1]
    BY <1>2, <1>3, <1>7, <1>9, <1>16, <2>2 DEF CandidateAt
  <2>6. lv2.candidate = NULL
    BY <2>5, <1>5
  <2>7. CandidateAt(s2, SkipGap - 1, m) = NULL
    BY <1>1, <1>2, <1>3, <1>11, <1>16, <2>2 DEF CandidateAt
  <2>8. Len(s2) = c - 1
    BY <1>3
  <2>9. u.nodes = GroupSeq(s2, SkipGap - 1, m)
    BY <1>9, <2>1, <2>4
  <2>10. Fits(lv2, u)
    BY <1>4, <2>3, <2>6, <2>7, <2>8, <2>9, FitOfShape
  <2> QED BY <2>10 DEF lv2
<1>17. CASE k = 0 /\ m # 0
  <2>1. u.nodes = Tail(up.nodes)
    BY <1>12, <1>13, <1>17
  <2>2. m - 1 \in Nat /\ SkipGap * (m - 1) = SkipGap * m - SkipGap
        /\ SkipGap * (a + 1) = h + 1 + (SkipGap - 1)
    BY <1>1, <1>2, <1>6, <1>10, <1>17
  <2>3. Shape(h + 1, c - 1, SkipGap - 1, a + 1, m - 1)
    BY <1>1, <1>2, <1>3, <1>6, <1>10, <1>11, <1>17, <2>2 DEF Shape
  <2>4. Tail(up.nodes) = GroupSeq(s2, SkipGap - 1, m - 1)
    <3> DEFINE g == GroupSeq(s, k, m)
    <3> DEFINE g2 == GroupSeq(s2, SkipGap - 1, m - 1)
    <3>1. g \in Seq({g[j] : j \in 1 .. m}) /\ Len(g) = m
      <4>1. g = [j \in 1 .. m |-> g[j]] /\ m \in Nat
        BY <1>6 DEF GroupSeq
      <4> HIDE DEF g
      <4> QED BY <4>1
    <3>2. g # <<>>
      BY <1>9, <1>13, <1>17
    <3>3. /\ Tail(g) = [j \in 1 .. m - 1 |-> Tail(g)[j]]
          /\ \A j \in 1 .. m - 1 : Tail(g)[j] = g[j + 1]
      <4> HIDE DEF g
      <4>1. Tail(g) \in Seq({g[j] : j \in 1 .. m}) /\ Len(Tail(g)) = m - 1
            /\ \A j \in 1 .. m - 1 : Tail(g)[j] = g[j + 1]
        BY <3>1, <3>2, TailFacts
      <4> QED BY <4>1, SeqIsFunction
    <3>4. g2 = [j \in 1 .. m - 1 |-> g2[j]]
      BY DEF GroupSeq
    <3>5. ASSUME NEW j \in 1 .. m - 1
          PROVE  g[j + 1] = g2[j]
      <4> DEFINE x == j * SkipGap
      <4>1. j + 1 \in 1 .. m /\ x \in Nat
        BY <1>1, <1>6
      <4>2. ((j + 1) - 1) * SkipGap = x /\ (j + 1) * SkipGap = x + SkipGap
            /\ (j - 1) * SkipGap = x - SkipGap
        BY <1>1
      <4>3. g[j + 1] = Node(s[k + ((j + 1) - 1) * SkipGap + 1], s[k + (j + 1) * SkipGap])
        BY <4>1 DEF GroupSeq
      <4>4. g2[j] = Node(s2[SkipGap - 1 + (j - 1) * SkipGap + 1], s2[SkipGap - 1 + j * SkipGap])
        BY DEF GroupSeq
      <4>5. /\ k + ((j + 1) - 1) * SkipGap + 1 \in 1 .. c
            /\ k + (j + 1) * SkipGap \in 1 .. c
        BY <4>1, <1>14
      <4>6. /\ k + ((j + 1) - 1) * SkipGap + 1 = x + 1
            /\ k + (j + 1) * SkipGap = x + SkipGap
            /\ SkipGap - 1 + (j - 1) * SkipGap + 1 = x
            /\ SkipGap - 1 + j * SkipGap = x + SkipGap - 1
        BY <4>1, <4>2, <1>1, <1>17
      <4>7. x >= SkipGap
        <5>1. SkipGap * 1 <= SkipGap * j
          <6>1. CASE j = 1
            BY <6>1, <1>1
          <6>2. CASE 1 < j
            BY <6>2, <1>1, Apart
          <6> QED BY <6>1, <6>2
        <5> QED BY <5>1, <1>1
      <4> HIDE DEF x
      <4>8. x \in 1 .. c - 1 /\ x + SkipGap - 1 \in 1 .. c - 1 /\ (x + SkipGap - 1) + 1 = x + SkipGap
        BY <4>1, <4>5, <4>6, <4>7, <1>1, <1>2
      <4>9. s2[x] = s[x + 1] /\ s2[x + SkipGap - 1] = s[x + SkipGap]
        BY <4>8, <1>3
      <4> QED BY <4>3, <4>4, <4>6, <4>9
    <3> HIDE DEF g2
    <3>6. Tail(g) = g2
      <4> HIDE DEF g
      <4> QED BY <3>3, <3>4, <3>5
    <3> QED BY <3>6, <1>9 DEF g2
  <2>5. lv2.candidate = CandidateAt(s2, SkipGap - 1, m - 1)
    <3> DEFINE p == SkipGap * m
    <3>1. p \in Nat /\ SkipGap - 1 + SkipGap * (m - 1) = p - 1 /\ p <= c
      BY <2>2, <1>1, <1>10, <1>11, <1>17
    <3>2. p > 0
      BY <1>1, <1>6, <1>17
    <3>3. CandidateAt(s, k, m) = IF c > p THEN s[p + 1] ELSE NULL
      <4>1. k + SkipGap * m = p
        BY <1>17, <1>10
      <4> QED BY <4>1, <1>7 DEF CandidateAt
    <3>4. CandidateAt(s2, SkipGap - 1, m - 1) = IF c - 1 > p - 1 THEN s2[p] ELSE NULL
      <4>1. (SkipGap - 1 + SkipGap * (m - 1)) + 1 = p
        BY <3>1
      <4> QED BY <4>1, <3>1, <1>3 DEF CandidateAt
    <3> HIDE DEF p
    <3>5. CASE c > p
      <4>1. p + 1 \in 1 .. c /\ 1 \in 1 .. c /\ p \in 1 .. c - 1 /\ c - 1 > p - 1
        BY <3>1, <3>2, <3>5, <1>2
      <4>2. s[p + 1] # s[1]
        BY <4>1, <3>1, <3>2, <1>7, <1>8 DEF OneToOne
      <4>3. s2[p] = s[p + 1]
        BY <4>1, <1>3
      <4> QED BY <4>1, <4>2, <4>3, <3>3, <3>4, <3>5, <1>5, <1>9
    <3>6. CASE ~ (c > p)
      <4>1. ~ (c - 1 > p - 1)
        BY <3>1, <3>6, <1>2
      <4> QED BY <4>1, <3>3, <3>4, <3>6, <1>5, <1>9
    <3> QED BY <3>5, <3>6
  <2>6. Len(s2) = c - 1
    BY <1>3
  <2>7. u.nodes = GroupSeq(s2, SkipGap - 1, m - 1)
    BY <2>1, <2>4
  <2>8. Fits(lv2, u)
    BY <1>4, <2>3, <2>5, <2>6, <2>7, FitOfShape
  <2> QED BY <2>8 DEF lv2
<1> QED BY <1>15, <1>16, <1>17

----------------------------------------------------------------------------
(* enqueue() and dequeue() on a good list *)

(* What can be a node. *)
LEMMA NodeFacts ==
    /\ 0 \in Levels /\ NLayers \in Levels
    /\ \A i \in Levels : NULL \notin AnyNode[i]
    /\ \A i \in Levels : i # NLayers =>
        /\ i \in Nat /\ i + 1 \in Levels /\ i + 1 # 0 /\ (i + 1) - 1 = i
        /\ \A x, y \in AnyNode[i] : Node(x, y) \in AnyNode[i + 1]
<1>1. 0 \in Levels /\ NLayers \in Levels
  BY GapFacts DEF Levels
<1>2. \A i \in Levels : NULL \notin AnyNode[i]
  BY NullAssumption
<1>3. ASSUME NEW i \in Levels, i # NLayers
      PROVE  /\ i \in Nat /\ i + 1 \in Levels /\ i + 1 # 0 /\ (i + 1) - 1 = i
             /\ \A x, y \in AnyNode[i] : Node(x, y) \in AnyNode[i + 1]
  <2>1. i \in Nat /\ i + 1 \in Levels /\ i + 1 # 0 /\ (i + 1) - 1 = i
    BY <1>3, GapFacts DEF Levels
  <2>2. AnyNode[i + 1] = SkipNodesOver(AnyNode[i])
    BY <2>1, AnyNodeDef
  <2> QED BY <2>1, <2>2 DEF SkipNodesOver, Node
<1> QED BY <1>1, <1>2, <1>3

(* The candidate of a level that completes a group is a node of the level. *)
LEMMA CandidateType ==
    ASSUME NEW lv, NEW S, Level(lv, S), NULL \notin S, NEW up, Fits(lv, up), NEW n \in S, Completes(lv)
    PROVE  lv.candidate \in S
<1> DEFINE x == IF Completes(lv) THEN Append(up.nodes, Node(lv.candidate, n)) ELSE up.nodes
<1> DEFINE u == [nodes |-> x]
<1>1. u.nodes = x
  OBVIOUS
<1> HIDE DEF u
<1> QED BY <1>1, AddTailFits

(* enqueue() keeps a list good: the groups that it completes, and no others, get their node. *)
LEMMA EnqueuedGood ==
    ASSUME NEW l, Good(l), NEW t \in 1 .. MaxTasks, \A x \in 1 .. Len(l[0].nodes) : l[0].nodes[x] < t
    PROVE  Good(Enqueued(l, t)) /\ Enqueued(l, t)[0].nodes = Append(l[0].nodes, t)
<1>1. PICK new : /\ NewNodes(l, t, NLayers, new)
                 /\ Enqueued(l, t) = [i \in Levels |->
                        IF new[i] = NULL THEN l[i] ELSE AddTail(l[i], new[i])]
  BY EnqueuedDef
<1>2. /\ NLayers \in Nat /\ 0 \in Levels
      /\ \A i \in Levels : NULL \notin AnyNode[i] /\ Level(l[i], AnyNode[i])
      /\ \A i \in Levels : i # NLayers => Fits(l[i], l[i + 1])
  BY NodeFacts, GapFacts DEF Good
<1>3. new[0] = t /\ t \in AnyNode[0] /\ new[0] # NULL
  <2>1. new[0] = t
    BY <1>1, <1>2 DEF NewNodes, Levels
  <2> QED BY <2>1, <1>2, AnyNodeDef
<1>4. \A i \in Levels : i # NLayers =>
        new[i + 1] = IF new[i] # NULL /\ Completes(l[i])
                     THEN Node(l[i].candidate, new[i]) ELSE NULL
  <2> TAKE i \in Levels
  <2> HAVE i # NLayers
  <2>1. i + 1 \in 0 .. NLayers /\ i + 1 # 0 /\ (i + 1) - 1 = i
    BY NodeFacts DEF Levels
  <2> QED BY <1>1, <2>1 DEF NewNodes
<1>5. \A i \in Levels : new[i] # NULL => new[i] \in AnyNode[i]
  <2> DEFINE S == {i \in Nat : i <= NLayers => (new[i] # NULL => new[i] \in AnyNode[i])}
  <2>1. 0 \in S
    BY <1>3
  <2>2. ASSUME NEW i \in Nat, i \in S
        PROVE  i + 1 \in S
    <3> SUFFICES ASSUME i + 1 <= NLayers, new[i + 1] # NULL
                 PROVE  new[i + 1] \in AnyNode[i + 1]
      OBVIOUS
    <3>1. i \in Levels /\ i # NLayers /\ i <= NLayers
      BY <1>2 DEF Levels
    <3>2. new[i] # NULL /\ Completes(l[i]) /\ new[i + 1] = Node(l[i].candidate, new[i])
      BY <1>4, <3>1
    <3>3. new[i] \in AnyNode[i]
      BY <2>2, <3>1, <3>2
    <3>4. l[i].candidate \in AnyNode[i]
      BY <1>2, <3>1, <3>2, <3>3, CandidateType
    <3> QED BY <3>1, <3>2, <3>3, <3>4, NodeFacts
  <2>3. \A i \in Nat : i \in S
    <3> HIDE DEF S
    <3> QED BY <2>1, <2>2, NatSetInduction
  <2> QED BY <2>3, <1>2 DEF Levels
<1> DEFINE l2 == Enqueued(l, t)
<1>6. \A i \in Levels : l2[i] = IF new[i] = NULL THEN l[i] ELSE AddTail(l[i], new[i])
  BY <1>1
<1> HIDE DEF l2
<1>7. \A i \in Levels : Level(l2[i], AnyNode[i])
  <2> TAKE i \in Levels
  <2>1. CASE new[i] = NULL
    BY <2>1, <1>2, <1>6
  <2>2. CASE new[i] # NULL
    <3>1. l2[i] = AddTail(l[i], new[i]) /\ new[i] \in AnyNode[i]
      BY <2>2, <1>5, <1>6
    <3> QED BY <3>1, <1>2, AddTailLevel
  <2> QED BY <2>1, <2>2
<1>8. \A i \in Levels : i # NLayers => Fits(l2[i], l2[i + 1])
  <2> SUFFICES ASSUME NEW i \in Levels, i # NLayers
               PROVE  Fits(l2[i], l2[i + 1])
    OBVIOUS
  <2>1. i + 1 \in Levels
    BY NodeFacts
  <2>2. CASE new[i] = NULL
    <3>1. new[i + 1] = NULL
      BY <2>2, <1>4
    <3>2. l2[i] = l[i] /\ l2[i + 1] = l[i + 1]
      BY <2>1, <2>2, <3>1, <1>6
    <3> QED BY <3>2, <1>2
  <2>3. CASE new[i] # NULL
    <3>1. l2[i] = AddTail(l[i], new[i]) /\ new[i] \in AnyNode[i]
      BY <2>3, <1>5, <1>6
    <3>2. CASE Completes(l[i])
      <4>1. new[i + 1] = Node(l[i].candidate, new[i])
        BY <2>3, <3>2, <1>4
      <4>2. l[i].candidate \in AnyNode[i]
        BY <1>2, <3>1, <3>2, CandidateType
      <4>3. new[i + 1] \in AnyNode[i + 1] /\ new[i + 1] # NULL
        BY <4>1, <4>2, <3>1, <2>1, NodeFacts
      <4>4. l2[i + 1] = AddTail(l[i + 1], new[i + 1])
        BY <4>3, <2>1, <1>6
      <4>5. l2[i + 1].nodes = Append(l[i + 1].nodes, new[i + 1])
        BY <4>3, <4>4, <2>1, <1>2, AddTailLevel
      <4>6. l2[i + 1].nodes = IF Completes(l[i])
                              THEN Append(l[i + 1].nodes, Node(l[i].candidate, new[i]))
                              ELSE l[i + 1].nodes
        BY <4>1, <4>5, <3>2
      <4>7. Fits(AddTail(l[i], new[i]), l2[i + 1])
        BY <4>6, <3>1, <1>2, AddTailFits
      <4> QED BY <4>7, <3>1
    <3>3. CASE ~Completes(l[i])
      <4>1. new[i + 1] = NULL
        BY <3>3, <1>4
      <4>2. l2[i + 1] = l[i + 1]
        BY <4>1, <2>1, <1>6
      <4>3. l2[i + 1].nodes = IF Completes(l[i])
                              THEN Append(l[i + 1].nodes, Node(l[i].candidate, new[i]))
                              ELSE l[i + 1].nodes
        BY <4>2, <3>3
      <4>4. Fits(AddTail(l[i], new[i]), l2[i + 1])
        BY <4>3, <3>1, <1>2, AddTailFits
      <4> QED BY <4>4, <3>1
    <3> QED BY <3>2, <3>3
  <2> QED BY <2>2, <2>3
<1>9. l2[0].nodes = Append(l[0].nodes, t)
  <2>1. l2[0] = AddTail(l[0], t)
    BY <1>2, <1>3, <1>6
  <2> QED BY <2>1, <1>2, <1>3, AddTailLevel
<1>10. Sorted(l2[0].nodes)
  <2> DEFINE s == l[0].nodes
  <2> DEFINE s2 == Append(s, t)
  <2>1. s \in Seq(AnyNode[0]) /\ Len(s) \in Nat
    BY <1>2, LevelFacts DEF Level
  <2>2. Len(s2) = Len(s) + 1 /\ (\A j \in 1 .. Len(s) : s2[j] = s[j]) /\ s2[Len(s) + 1] = t
    BY <2>1, <1>3, AppendFacts
  <2>3. Sorted(s) /\ \A x \in 1 .. Len(s) : s[x] < t
    BY DEF Good
  <2> HIDE DEF s, s2
  <2>4. ASSUME NEW x \in 1 .. Len(s2), NEW y \in 1 .. Len(s2), x < y
        PROVE  s2[x] < s2[y]
    <3>1. x \in 1 .. Len(s)
      BY <2>1, <2>2, <2>4
    <3>2. CASE y = Len(s) + 1
      BY <3>1, <3>2, <2>2, <2>3
    <3>3. CASE y \in 1 .. Len(s)
      BY <3>1, <3>3, <2>2, <2>3, <2>4 DEF Sorted
    <3> QED BY <3>2, <3>3, <2>1, <2>2
  <2> QED BY <2>4, <1>9 DEF Sorted, s, s2
<1> QED BY <1>7, <1>8, <1>9, <1>10 DEF Good, l2

(* dequeue() keeps a list good: a level loses its head when the group below loses its first node. *)
LEMMA DequeuedGood ==
    ASSUME NEW l, Good(l), l[0].nodes # <<>>
    PROVE  Good(Dequeued(l)) /\ Dequeued(l)[0].nodes = Tail(l[0].nodes)
<1>1. PICK drops : /\ Drops(l, NLayers, drops)
                   /\ Dequeued(l) = [i \in Levels |-> IF drops[i] THEN DropHead(l[i]) ELSE l[i]]
  BY DequeuedDef
<1>2. /\ NLayers \in Nat /\ 0 \in Levels
      /\ \A i \in Levels : NULL \notin AnyNode[i] /\ Level(l[i], AnyNode[i])
      /\ \A i \in Levels : i # NLayers => Fits(l[i], l[i + 1])
      /\ \A i \in Levels : OneToOne(l[i].nodes)
  BY NodeFacts, GapFacts, GoodOneToOne DEF Good
<1>3. drops[0]
  BY <1>1, <1>2, Zenon DEF Drops, Levels
<1>4. \A i \in Levels : i # NLayers =>
        (drops[i + 1] <=> /\ drops[i]
                          /\ (l[i].head_off + 1) % SkipGap = 1
                          /\ l[i + 1].nodes # <<>>)
  <2> TAKE i \in Levels
  <2> HAVE i # NLayers
  <2>1. i + 1 \in 0 .. NLayers /\ i + 1 # 0 /\ (i + 1) - 1 = i
    BY NodeFacts DEF Levels
  <2> DEFINE j == i + 1
  <2>2. j \in 0 .. NLayers /\ j # 0 /\ j - 1 = i
    BY <2>1
  <2> HIDE DEF j
  <2>3. drops[j] <=> /\ drops[j - 1]
                     /\ (l[j - 1].head_off + 1) % SkipGap = 1
                     /\ l[j].nodes # <<>>
    BY <1>1, <2>2, Zenon DEF Drops
  <2>4. drops[j] <=> /\ drops[i]
                     /\ (l[i].head_off + 1) % SkipGap = 1
                     /\ l[j].nodes # <<>>
    BY <2>2, <2>3, Zenon
  <2> QED BY <2>4 DEF j
<1>5. \A i \in Levels : drops[i] => l[i].nodes # <<>>
  <2> TAKE i \in Levels
  <2>1. CASE i = 0
    BY <2>1
  <2>2. CASE i # 0
    <3>1. i - 1 \in Levels /\ i - 1 # NLayers /\ (i - 1) + 1 = i
      BY <2>2, <1>2 DEF Levels
    <3> QED BY <3>1, <1>4
  <2> QED BY <2>1, <2>2
<1> DEFINE l2 == Dequeued(l)
<1>6. \A i \in Levels : l2[i] = IF drops[i] THEN DropHead(l[i]) ELSE l[i]
  BY <1>1
<1> HIDE DEF l2
<1>7. \A i \in Levels : Level(l2[i], AnyNode[i])
  <2> TAKE i \in Levels
  <2>1. CASE ~drops[i]
    BY <2>1, <1>2, <1>6
  <2>2. CASE drops[i]
    <3>1. l2[i] = DropHead(l[i]) /\ l[i].nodes # <<>>
      BY <2>2, <1>5, <1>6
    <3> QED BY <3>1, <1>2, DropHeadLevel
  <2> QED BY <2>1, <2>2
<1>8. \A i \in Levels : i # NLayers => Fits(l2[i], l2[i + 1])
  <2> SUFFICES ASSUME NEW i \in Levels, i # NLayers
               PROVE  Fits(l2[i], l2[i + 1])
    OBVIOUS
  <2>1. i + 1 \in Levels
    BY NodeFacts
  <2>2. CASE ~drops[i]
    <3>1. ~drops[i + 1]
      BY <2>2, <1>4
    <3>2. l2[i] = l[i] /\ l2[i + 1] = l[i + 1]
      BY <2>1, <2>2, <3>1, <1>6
    <3> QED BY <3>2, <1>2
  <2>3. CASE drops[i]
    <3>1. l2[i] = DropHead(l[i]) /\ l[i].nodes # <<>>
      BY <2>3, <1>5, <1>6
    <3>2. l2[i + 1].nodes = IF (l[i].head_off + 1) % SkipGap = 1 /\ l[i + 1].nodes # <<>>
                            THEN Tail(l[i + 1].nodes) ELSE l[i + 1].nodes
      <4>1. CASE drops[i + 1]
        <5>1. l2[i + 1] = DropHead(l[i + 1]) /\ l[i + 1].nodes # <<>>
          BY <4>1, <2>1, <1>5, <1>6
        <5>2. l2[i + 1].nodes = Tail(l[i + 1].nodes)
          BY <5>1, <2>1, <1>2, DropHeadLevel
        <5> QED BY <5>2, <4>1, <1>4
      <4>2. CASE ~drops[i + 1]
        <5>1. l2[i + 1] = l[i + 1]
          BY <4>2, <2>1, <1>6
        <5>2. ~ ((l[i].head_off + 1) % SkipGap = 1 /\ l[i + 1].nodes # <<>>)
          BY <4>2, <2>3, <1>4
        <5> QED BY <5>1, <5>2
      <4> QED BY <4>1, <4>2
    <3>3. Fits(DropHead(l[i]), l2[i + 1])
      BY <3>1, <3>2, <1>2, DropHeadFits
    <3> QED BY <3>1, <3>3
  <2> QED BY <2>2, <2>3
<1>9. l2[0].nodes = Tail(l[0].nodes)
  <2>1. l2[0] = DropHead(l[0])
    BY <1>2, <1>3, <1>6
  <2> QED BY <2>1, <1>2, DropHeadLevel
<1>10. Sorted(l2[0].nodes)
  <2> DEFINE s == l[0].nodes
  <2> DEFINE s2 == Tail(s)
  <2>1. s \in Seq(AnyNode[0])
    BY <1>2 DEF Level
  <2>2. Len(s) \in Nat /\ Len(s2) = Len(s) - 1 /\ \A j \in 1 .. Len(s) - 1 : s2[j] = s[j + 1]
    BY <2>1, TailFacts
  <2>3. Sorted(s)
    BY DEF Good
  <2> HIDE DEF s, s2
  <2>4. ASSUME NEW x \in 1 .. Len(s2), NEW y \in 1 .. Len(s2), x < y
        PROVE  s2[x] < s2[y]
    <3>1. x + 1 \in 1 .. Len(s) /\ y + 1 \in 1 .. Len(s) /\ x + 1 < y + 1
      BY <2>2, <2>4
    <3>2. s[x + 1] < s[y + 1]
      BY <3>1, <2>3 DEF Sorted
    <3> QED BY <3>2, <2>2
  <2> QED BY <2>4, <1>9 DEF Sorted, s, s2
<1> QED BY <1>7, <1>8, <1>9, <1>10 DEF Good, l2

----------------------------------------------------------------------------
(* A level cut in two *)

(* The first g nodes of a sequence and the rest, element by element. *)
LEMMA CutFacts ==
    ASSUME NEW S, NEW s \in Seq(S), NEW n, n = Len(s), NEW g \in 0 .. n
    PROVE  /\ n \in Nat
           /\ SubSeq(s, 1, g) \in Seq(S) /\ Len(SubSeq(s, 1, g)) = g
           /\ \A j \in 1 .. g : SubSeq(s, 1, g)[j] = s[j]
           /\ SubSeq(s, g + 1, n) \in Seq(S) /\ Len(SubSeq(s, g + 1, n)) = n - g
           /\ \A j \in 1 .. n - g : SubSeq(s, g + 1, n)[j] = s[g + j]
<1>1. n \in Nat /\ g \in Nat /\ g <= n
  OBVIOUS
<1>2. SubSeq(s, 1, g) \in Seq(S) /\ Len(SubSeq(s, 1, g)) = g
      /\ \A j \in 1 .. g : SubSeq(s, 1, g)[j] = s[j]
  BY <1>1
<1>3. SubSeq(s, g + 1, n) \in Seq(S) /\ Len(SubSeq(s, g + 1, n)) = n - g
      /\ \A j \in 1 .. n - g : SubSeq(s, g + 1, n)[j] = s[g + j]
  BY <1>1
<1> QED BY <1>1, <1>2, <1>3

(* lv1 has the first g nodes of lv, lv2 has the rest. *)
Cut(lv, g, lv1, lv2) ==
    /\ lv1.nodes = SubSeq(lv.nodes, 1, g)
    /\ lv1.head_off = lv.head_off
    /\ lv1.tail_off = lv.head_off + g
    /\ lv2.nodes = SubSeq(lv.nodes, g + 1, Len(lv.nodes))
    /\ lv2.head_off = lv.head_off + g
    /\ lv2.tail_off = lv.tail_off

(* Offsets and nodes of both parts agree. *)
LEMMA CutLevels ==
    ASSUME NEW lv, NEW S, Level(lv, S), NEW g \in 0 .. Len(lv.nodes), NEW lv1, NEW lv2, Cut(lv, g, lv1, lv2)
    PROVE  /\ Level(lv1, S) /\ Len(lv1.nodes) = g
           /\ Level(lv2, S) /\ Len(lv2.nodes) = Len(lv.nodes) - g
           /\ \A j \in 1 .. g : lv1.nodes[j] = lv.nodes[j]
           /\ \A j \in 1 .. Len(lv.nodes) - g : lv2.nodes[j] = lv.nodes[g + j]
<1>1. lv.nodes \in Seq(S) /\ lv.head_off \in Nat /\ lv.tail_off = lv.head_off + Len(lv.nodes)
  BY DEF Level
<1> DEFINE s == lv.nodes
<1> DEFINE n == Len(s)
<1>2. /\ n \in Nat
      /\ SubSeq(s, 1, g) \in Seq(S) /\ Len(SubSeq(s, 1, g)) = g
      /\ \A j \in 1 .. g : SubSeq(s, 1, g)[j] = s[j]
      /\ SubSeq(s, g + 1, n) \in Seq(S) /\ Len(SubSeq(s, g + 1, n)) = n - g
      /\ \A j \in 1 .. n - g : SubSeq(s, g + 1, n)[j] = s[g + j]
  BY <1>1, CutFacts, SMTT(60)
<1>3. lv1.nodes = SubSeq(s, 1, g) /\ lv2.nodes = SubSeq(s, g + 1, n)
  BY DEF Cut
<1>4. Level(lv1, S)
  BY <1>1, <1>2, <1>3 DEF Cut, Level
<1>5. Level(lv2, S)
  BY <1>1, <1>2, <1>3, SMTT(60) DEF Cut, Level
<1> QED BY <1>2, <1>3, <1>4, <1>5

(* A level without nodes fits a level without nodes. *)
LEMMA EmptyFits ==
    ASSUME NEW lv, NEW S, Level(lv, S), lv.nodes = <<>>, lv.candidate = NULL, NEW up, up.nodes = <<>>
    PROVE  Fits(lv, up)
<1> DEFINE h == lv.head_off
<1>1. h \in Nat /\ Len(lv.nodes) = 0 /\ SkipGap \in Nat
  BY LevelFacts, GapFacts
<1>2. PICK k, a, m \in Nat : Shape(h, 0, k, a, m)
  BY <1>1, ShapeExists
<1>3. SkipGap * m \in Nat /\ k \in Nat
  BY <1>1, <1>2
<1>4. m = 0
  <2>1. m = 0 \/ k + SkipGap * m <= 0
    BY <1>2 DEF Shape
  <2>2. m # 0 => SkipGap * m > 0
    BY <1>2, GapFacts
  <2> QED BY <2>1, <2>2, <1>3
<1>5. GroupSeq(<<>>, k, m) = <<>>
  BY <1>4 DEF GroupSeq
<1>6. CandidateAt(<<>>, k, m) = NULL
  BY <1>3 DEF CandidateAt
<1>7. h = lv.head_off
  OBVIOUS
<1> HIDE DEF h
<1> QED BY <1>1, <1>2, <1>5, <1>6, <1>7, FitOfShape

(* Below the level that is split: the cut is between two groups. *)
LEMMA CutFits ==
    ASSUME NEW lv, NEW S, Level(lv, S), NEW up, Fits(lv, up),
           NEW k, NEW a, NEW m, Shape(lv.head_off, Len(lv.nodes), k, a, m),
           NEW gu \in 1 .. m, NEW g \in Nat, g = k + SkipGap * gu,
           NEW lv1, NEW lv2, Cut(lv, g, lv1, lv2), lv1.candidate = NULL, lv2.candidate = lv.candidate,
           NEW up1, up1.nodes = SubSeq(up.nodes, 1, gu),
           NEW up2, up2.nodes = SubSeq(up.nodes, gu + 1, Len(up.nodes))
    PROVE  Fits(lv1, up1) /\ Fits(lv2, up2)
<1> DEFINE s == lv.nodes
<1> DEFINE h == lv.head_off
<1> DEFINE n == Len(lv.nodes)
<1> DEFINE s1 == lv1.nodes
<1> DEFINE s2 == lv2.nodes
<1>1. SkipGap \in Nat /\ SkipGap > 1
  BY GapFacts
<1>2. n \in Nat /\ h \in Nat /\ Shape(h, n, k, a, m)
  BY LevelFacts
<1>3. k \in 0 .. SkipGap - 1 /\ a \in Nat /\ m \in Nat /\ h + k = SkipGap * a
      /\ n < k + SkipGap * m + SkipGap
  BY <1>2 DEF Shape
<1>4. k + SkipGap * m <= n
  BY <1>2 DEF Shape
<1>5. SkipGap * gu \in Nat /\ SkipGap * m \in Nat /\ SkipGap * gu <= SkipGap * m /\ SkipGap * gu >= SkipGap
  <2>1. SkipGap * gu <= SkipGap * m
    <3>1. CASE gu = m
      BY <3>1, <1>1, <1>3
    <3>2. CASE gu < m
      <4>1. SkipGap * gu + SkipGap <= SkipGap * m
        BY <3>2, <1>1, <1>3, Apart
      <4> QED BY <4>1, <1>1, <1>3
    <3> QED BY <3>1, <3>2, <1>3
  <2>2. SkipGap * 0 + SkipGap <= SkipGap * gu
    BY <1>1, Apart
  <2> QED BY <2>1, <2>2, <1>1, <1>3
<1>6. g \in 1 .. n /\ g \in 0 .. n
  <2> DEFINE x == SkipGap * gu
  <2> DEFINE y == SkipGap * m
  <2>1. x \in Nat /\ y \in Nat /\ x <= y /\ x > 0 /\ k + y <= n /\ k \in Nat /\ g = k + x
    BY <1>1, <1>3, <1>4, <1>5
  <2> HIDE DEF x, y
  <2> QED BY <2>1, <1>2
<1>7. /\ Level(lv1, S) /\ Len(s1) = g
      /\ Level(lv2, S) /\ Len(s2) = n - g
      /\ \A j \in 1 .. g : s1[j] = s[j]
      /\ \A j \in 1 .. n - g : s2[j] = s[g + j]
  <2>1. g \in 0 .. Len(lv.nodes) /\ Cut(lv, g, lv1, lv2) /\ Level(lv, S)
    BY <1>6
  <2>2. /\ Level(lv1, S) /\ Len(lv1.nodes) = g
        /\ Level(lv2, S) /\ Len(lv2.nodes) = Len(lv.nodes) - g
        /\ \A j \in 1 .. g : lv1.nodes[j] = lv.nodes[j]
        /\ \A j \in 1 .. Len(lv.nodes) - g : lv2.nodes[j] = lv.nodes[g + j]
    BY <2>1, CutLevels, SMTT(60)
  <2> QED BY <2>2
<1>8. lv1.head_off = h /\ lv2.head_off = h + g
  BY DEF Cut
<1>9. lv.nodes = s /\ lv.head_off = h /\ Len(s) = n /\ lv1.nodes = s1 /\ lv2.nodes = s2
  OBVIOUS
<1> HIDE DEF s, h, n, s1, s2
<1>10. up.nodes = GroupSeq(s, k, m) /\ lv.candidate = CandidateAt(s, k, m)
  BY <1>2, <1>9, ShapeOfFit
<1> DEFINE gs == GroupSeq(s, k, m)
<1>11. gs \in Seq({gs[j] : j \in 1 .. m}) /\ Len(gs) = m
  <2>1. gs = [j \in 1 .. m |-> gs[j]]
    BY DEF GroupSeq
  <2>2. m \in Nat
    BY <1>3
  <2> HIDE DEF gs
  <2> QED BY <2>1, <2>2, FunctionIsSeq
<1>12. /\ up1.nodes = [j \in 1 .. gu |-> gs[j]]
       /\ up2.nodes = [j \in 1 .. m - gu |-> gs[gu + j]]
  <2> HIDE DEF gs
  <2>1. up1.nodes = SubSeq(gs, 1, gu) /\ up2.nodes = SubSeq(gs, gu + 1, m)
    BY <1>10, <1>11 DEF gs
  <2>2. gu \in 0 .. m /\ m = Len(gs) /\ m \in Nat
    BY <1>3, <1>11
  <2> DEFINE T == {gs[j] : j \in 1 .. m}
  <2>3. /\ SubSeq(gs, 1, gu) \in Seq(T) /\ Len(SubSeq(gs, 1, gu)) = gu
        /\ \A j \in 1 .. gu : SubSeq(gs, 1, gu)[j] = gs[j]
        /\ SubSeq(gs, gu + 1, m) \in Seq(T) /\ Len(SubSeq(gs, gu + 1, m)) = m - gu
        /\ \A j \in 1 .. m - gu : SubSeq(gs, gu + 1, m)[j] = gs[gu + j]
    <3>1. gs \in Seq(T)
      BY <1>11
    <3> HIDE DEF T
    <3> QED BY <2>2, <3>1, CutFacts
  <2> HIDE DEF T
  <2>4. SubSeq(gs, 1, gu) = [j \in 1 .. gu |-> SubSeq(gs, 1, gu)[j]]
    BY <2>3, SeqIsFunction
  <2>5. SubSeq(gs, gu + 1, m) = [j \in 1 .. m - gu |-> SubSeq(gs, gu + 1, m)[j]]
    BY <2>3, SeqIsFunction
  <2> QED BY <2>1, <2>3, <2>4, <2>5
<1>13. \A j \in 1 .. m : /\ k + (j - 1) * SkipGap + 1 \in 1 .. n
                         /\ k + j * SkipGap \in 1 .. n
                         /\ gs[j] = Node(s[k + (j - 1) * SkipGap + 1], s[k + j * SkipGap])
  <2>1. \A j \in 1 .. m : k + (j - 1) * SkipGap + 1 \in 1 .. n /\ k + j * SkipGap \in 1 .. n
    BY <1>2, GroupIndex
  <2> QED BY <2>1 DEF GroupSeq
<1>14. Fits(lv1, up1)
  <2>1. Shape(h, g, k, a, gu)
    BY <1>1, <1>3, <1>5, <1>6 DEF Shape
  <2>2. CandidateAt(s1, k, gu) = NULL
    BY <1>6, <1>7 DEF CandidateAt
  <2>3. up1.nodes = GroupSeq(s1, k, gu)
    <3>1. ASSUME NEW j \in 1 .. gu
          PROVE  gs[j] = Node(s1[k + (j - 1) * SkipGap + 1], s1[k + j * SkipGap])
      <4>1. k + (j - 1) * SkipGap + 1 \in 1 .. g /\ k + j * SkipGap \in 1 .. g
        BY <2>1, <1>2, <1>6, GroupIndex
      <4>2. j \in 1 .. m
        BY <1>3
      <4>3. /\ s1[k + (j - 1) * SkipGap + 1] = s[k + (j - 1) * SkipGap + 1]
            /\ s1[k + j * SkipGap] = s[k + j * SkipGap]
        BY <4>1, <1>7
      <4>4. gs[j] = Node(s[k + (j - 1) * SkipGap + 1], s[k + j * SkipGap])
        BY <4>2, <1>13
      <4> HIDE DEF gs
      <4> QED BY <4>3, <4>4
    <3> HIDE DEF gs
    <3> QED BY <3>1, <1>12 DEF GroupSeq
  <2>4. lv1.nodes = s1 /\ lv1.head_off = h /\ Len(s1) = g
    BY <1>7, <1>8, <1>9
  <2>5. Level(lv1, S) /\ lv1.candidate = CandidateAt(s1, k, gu)
    BY <1>7, <2>2
  <2> HIDE DEF gs
  <2> QED BY <2>1, <2>3, <2>4, <2>5, FitOfShape, Zenon
<1>15. Fits(lv2, up2)
  <2>1. SkipGap * (a + gu) = h + g /\ SkipGap * (m - gu) = SkipGap * m - SkipGap * gu
        /\ m - gu \in Nat /\ a + gu \in Nat
    <3>1. gu \in Nat /\ a \in Nat /\ m \in Nat /\ k \in Nat /\ h \in Nat
      BY <1>1, <1>2, <1>3
    <3>2. SkipGap * (a + gu) = SkipGap * a + SkipGap * gu
      BY <3>1, <1>1
    <3>3. SkipGap * (m - gu) = SkipGap * m - SkipGap * gu
      BY <3>1, <1>1
    <3>4. SkipGap * (a + gu) = h + g
      BY <3>1, <3>2, <1>1, <1>3, <1>5
    <3>5. m - gu \in Nat /\ a + gu \in Nat
      BY <3>1
    <3> QED BY <3>3, <3>4, <3>5
  <2>2. Shape(h + g, n - g, 0, a + gu, m - gu)
    <3>1. h + g + 0 = SkipGap * (a + gu) /\ 0 \in 0 .. SkipGap - 1
      BY <2>1, <1>1, <1>2, <1>6, SMTT(60)
    <3>2. 0 + SkipGap * (m - gu) <= n - g
      <4> DEFINE x == SkipGap * gu
      <4> DEFINE y == SkipGap * m
      <4>1. x \in Nat /\ y \in Nat /\ k + y <= n /\ k \in Nat /\ g = k + x
        BY <1>1, <1>3, <1>4, <1>5
      <4>2. SkipGap * (m - gu) = y - x
        BY <2>1
      <4> HIDE DEF x, y
      <4> QED BY <4>1, <4>2, <1>2
    <3>3. n - g < 0 + SkipGap * (m - gu) + SkipGap
      BY <2>1, <1>1, <1>2, <1>3, <1>5, <1>6
    <3> QED BY <2>1, <3>1, <3>2, <3>3 DEF Shape
  <2>3. lv2.candidate = CandidateAt(s2, 0, m - gu)
    <3> DEFINE p == k + SkipGap * m
    <3>1. p \in Nat /\ p - g \in Nat /\ SkipGap * (m - gu) = p - g /\ p <= n
      <4> DEFINE x == SkipGap * gu
      <4> DEFINE y == SkipGap * m
      <4>1. x \in Nat /\ y \in Nat /\ x <= y /\ k + y <= n /\ k \in Nat /\ g = k + x /\ p = k + y
        BY <1>1, <1>3, <1>4, <1>5
      <4>2. SkipGap * (m - gu) = y - x
        BY <2>1
      <4> HIDE DEF x, y, p
      <4>3. p \in Nat /\ p <= n /\ p - g = y - x /\ y - x \in Nat
        BY <4>1, <1>2, SMTT(60)
      <4> QED BY <4>2, <4>3
    <3>2. CandidateAt(s, k, m) = IF n > p THEN s[p + 1] ELSE NULL
      BY <1>9 DEF CandidateAt
    <3>3. CandidateAt(s2, 0, m - gu) = IF n - g > p - g THEN s2[(p - g) + 1] ELSE NULL
      <4>1. 0 + SkipGap * (m - gu) = p - g
        BY <3>1
      <4> HIDE DEF p
      <4> QED BY <4>1, <1>7 DEF CandidateAt
    <3> HIDE DEF p
    <3>4. CASE n > p
      <4>1. (p - g) + 1 \in 1 .. n - g /\ g + ((p - g) + 1) = p + 1 /\ n - g > p - g
        BY <3>1, <3>4, <1>2, <1>6
      <4>2. s2[(p - g) + 1] = s[p + 1]
        BY <4>1, <1>7
      <4> QED BY <4>1, <4>2, <3>2, <3>3, <3>4, <1>10
    <3>5. CASE ~ (n > p)
      <4>1. ~ (n - g > p - g)
        BY <3>1, <3>5, <1>2, <1>6
      <4> QED BY <4>1, <3>2, <3>3, <3>5, <1>10
    <3> QED BY <3>4, <3>5
  <2>4. up2.nodes = GroupSeq(s2, 0, m - gu)
    <3>1. ASSUME NEW j \in 1 .. m - gu
          PROVE  gs[gu + j] = Node(s2[0 + (j - 1) * SkipGap + 1], s2[0 + j * SkipGap])
      <4>1. 0 + (j - 1) * SkipGap + 1 \in 1 .. n - g /\ 0 + j * SkipGap \in 1 .. n - g
        <5>1. h + g \in Nat /\ n - g \in Nat
          BY <1>2, <1>6
        <5> QED BY <2>2, <5>1, GroupIndex
      <4>2. gu + j \in 1 .. m
        BY <1>3
      <4>3. /\ s2[0 + (j - 1) * SkipGap + 1] = s[g + (0 + (j - 1) * SkipGap + 1)]
            /\ s2[0 + j * SkipGap] = s[g + (0 + j * SkipGap)]
        BY <4>1, <1>7
      <4>4. /\ g + (0 + (j - 1) * SkipGap + 1) = k + ((gu + j) - 1) * SkipGap + 1
            /\ g + (0 + j * SkipGap) = k + (gu + j) * SkipGap
        BY <1>1, <1>3
      <4>5. gs[gu + j] = Node(s[k + ((gu + j) - 1) * SkipGap + 1], s[k + (gu + j) * SkipGap])
        BY <4>2, <1>13
      <4> HIDE DEF gs
      <4> QED BY <4>3, <4>4, <4>5
    <3> HIDE DEF gs
    <3> QED BY <3>1, <1>12 DEF GroupSeq
  <2> DEFINE hh == h + g
  <2> DEFINE nn == n - g
  <2>5. lv2.nodes = s2 /\ lv2.head_off = hh /\ Len(s2) = nn
    BY <1>7, <1>8, <1>9
  <2>6. hh \in Nat /\ nn \in Nat /\ Shape(hh, nn, 0, a + gu, m - gu)
    BY <1>2, <1>6, <2>2
  <2>7. Level(lv2, S)
    BY <1>7
  <2> HIDE DEF hh, nn, gs
  <2> QED BY <2>3, <2>4, <2>5, <2>6, <2>7, FitOfShape, Zenon
<1> QED BY <1>14, <1>15

(* A level that has no whole group fits a level without nodes. *)
LEMMA NoGroupFits ==
    ASSUME NEW lv, NEW S, Level(lv, S), NEW up, up.nodes = <<>>,
           NEW k \in 0 .. SkipGap - 1, NEW a \in Nat, lv.head_off + k = SkipGap * a,
           Len(lv.nodes) < k + SkipGap,
           lv.candidate = IF Len(lv.nodes) > k THEN lv.nodes[k + 1] ELSE NULL
    PROVE  Fits(lv, up)
<1> DEFINE h == lv.head_off
<1> DEFINE n == Len(lv.nodes)
<1>1. SkipGap \in Nat /\ h \in Nat /\ n \in Nat /\ SkipGap * 0 = 0
  BY LevelFacts, GapFacts
<1>2. Shape(h, n, k, a, 0)
  BY <1>1 DEF Shape
<1>3. GroupSeq(lv.nodes, k, 0) = <<>>
  BY DEF GroupSeq
<1>4. lv.candidate = CandidateAt(lv.nodes, k, 0)
  <2>1. k + SkipGap * 0 = k
    BY <1>1
  <2> QED BY <2>1 DEF CandidateAt
<1>5. lv.head_off = h /\ Len(lv.nodes) = n
  OBVIOUS
<1> HIDE DEF h, n
<1> QED BY <1>1, <1>2, <1>3, <1>4, <1>5, FitOfShape

(* Half of a level. *)
LEMMA HalfFacts ==
    ASSUME NEW lv, NEW S, Level(lv, S), NEW n, n = Len(lv.nodes), n > 0
    PROVE  /\ n \in Nat /\ Half(lv) \in 1 .. n
           /\ n <= 2 * Half(lv) /\ 2 * Half(lv) <= n + 1
<1>1. n \in Nat /\ Size(lv) = n
  BY LevelFacts
<1>2. Half(lv) = (n + 1) \div 2
  BY <1>1 DEF Half
<1>3. (n + 1) \div 2 \in 1 .. n /\ n <= 2 * ((n + 1) \div 2) /\ 2 * ((n + 1) \div 2) <= n + 1
  <2> DEFINE q == (n + 1) \div 2
  <2> DEFINE r == (n + 1) % 2
  <2>1. q \in Nat /\ r \in 0 .. 1 /\ n + 1 = 2 * q + r
    <3>1. 2 \in Nat /\ 2 > 0 /\ n + 1 \in Nat
      BY <1>1
    <3>2. (n + 1) \div 2 \in Nat /\ n + 1 = 2 * ((n + 1) \div 2) + ((n + 1) % 2)
      BY <3>1, ModFacts
    <3>3. (n + 1) % 2 \in 0 .. 2 - 1
      BY <3>1, ModFacts
    <3>4. 2 - 1 = 1
      OBVIOUS
    <3>5. (n + 1) % 2 \in 0 .. 1
      BY <3>3, <3>4
    <3> QED BY <3>2, <3>5
  <2> HIDE DEF q, r
  <2>2. q \in 1 .. n /\ n <= 2 * q /\ 2 * q <= n + 1
    BY <2>1, <1>1
  <2> QED BY <2>2 DEF q
<1> QED BY <1>1, <1>2, <1>3

(***************************************************************************)
(* The level that is split, when no node is above it: the candidate goes   *)
(* with the half that has it.                                              *)
(***************************************************************************)
LEMMA TopFitsAlone ==
    ASSUME NEW lv, NEW S, Level(lv, S), NULL \notin S, NEW up, Fits(lv, up), up.nodes = <<>>,
           lv.nodes # <<>>, NEW lv1, NEW lv2, Cut(lv, Half(lv), lv1, lv2),
           lv1.candidate = IF CandidateStolen(lv) THEN lv.candidate ELSE NULL,
           lv2.candidate = IF CandidateStolen(lv) THEN NULL ELSE lv.candidate,
           NEW up1, up1.nodes = <<>>, NEW up2, up2.nodes = <<>>
    PROVE  Fits(lv1, up1) /\ Fits(lv2, up2)
<1> DEFINE s == lv.nodes
<1> DEFINE h == lv.head_off
<1> DEFINE n == Len(lv.nodes)
<1> DEFINE g == Half(lv)
<1>1. SkipGap \in Nat /\ SkipGap > 1
  BY GapFacts
<1>2. n \in Nat /\ h \in Nat /\ lv.tail_off = h + n /\ n > 0 /\ s \in Seq(S)
  <2>1. n \in Nat /\ h \in Nat /\ lv.tail_off = h + n /\ s \in Seq(S)
    BY LevelFacts DEF Level
  <2> QED BY <2>1, TailFacts
<1>3. g \in 1 .. n /\ n <= 2 * g /\ 2 * g <= n + 1
  BY <1>2, HalfFacts
<1>4. /\ Level(lv1, S) /\ Len(lv1.nodes) = g
      /\ Level(lv2, S) /\ Len(lv2.nodes) = n - g
      /\ \A j \in 1 .. g : lv1.nodes[j] = s[j]
      /\ \A j \in 1 .. n - g : lv2.nodes[j] = s[g + j]
  <2>1. g \in 0 .. Len(lv.nodes) /\ Cut(lv, g, lv1, lv2) /\ Level(lv, S)
    BY <1>2, <1>3
  <2>2. /\ Level(lv1, S) /\ Len(lv1.nodes) = g
        /\ Level(lv2, S) /\ Len(lv2.nodes) = Len(lv.nodes) - g
        /\ \A j \in 1 .. g : lv1.nodes[j] = lv.nodes[j]
        /\ \A j \in 1 .. Len(lv.nodes) - g : lv2.nodes[j] = lv.nodes[g + j]
    <3> HIDE DEF g
    <3> QED BY <2>1, CutLevels
  <2> QED BY <2>2
<1>5. lv1.head_off = h /\ lv2.head_off = h + g
  BY DEF Cut
<1>6. PICK k, a, m \in Nat : Shape(h, n, k, a, m)
  BY <1>2, ShapeExists
<1>7. up.nodes = GroupSeq(s, k, m) /\ lv.candidate = CandidateAt(s, k, m)
  BY <1>2, <1>6, ShapeOfFit
<1>8. m = 0
  <2>1. Len(GroupSeq(s, k, m)) = m
    BY <1>6, GroupSeqFacts
  <2>2. Len(<<>>) = 0
    OBVIOUS
  <2> QED BY <1>7, <2>1, <2>2
<1>9. k \in 0 .. SkipGap - 1 /\ a \in Nat /\ h + k = SkipGap * a /\ n < k + SkipGap
  <2>1. k \in 0 .. SkipGap - 1 /\ a \in Nat /\ h + k = SkipGap * a /\ n < k + SkipGap * m + SkipGap
    BY <1>6 DEF Shape
  <2>2. SkipGap * m = 0
    BY <1>1, <1>8
  <2> QED BY <2>1, <2>2, <1>1, <1>2
<1>10. lv.candidate = IF n > k THEN s[k + 1] ELSE NULL
  <2>1. k + SkipGap * m = k
    BY <1>1, <1>6, <1>8
  <2> QED BY <2>1, <1>7 DEF CandidateAt
<1>11. CandidateStolen(lv) <=> g > k
  <2>1. CandidateStolen(lv) <=> /\ (h + n) % SkipGap # 0
                                /\ h <= (h + n) - ((h + n) % SkipGap)
                                /\ h + g > (h + n) - ((h + n) % SkipGap)
    BY <1>2, Zenon DEF CandidateStolen
  <2> HIDE DEF s, h, n, g
  <2>2. CASE n < k
    <3> DEFINE r == SkipGap - (k - n)
    <3>1. h + n = SkipGap * (a - 1) + r /\ r \in 1 .. SkipGap - 1
      BY <1>1, <1>2, <1>9, <2>2
    <3>2. r + k = n + SkipGap
      BY <1>1, <1>2, <1>9
    <3> HIDE DEF r
    <3>3. (h + n) % SkipGap = r
      <4>1. r \in 0 .. SkipGap - 1 /\ a - 1 \in Int /\ h + n \in Nat
        BY <3>1, <1>2, <1>9
      <4> QED BY <4>1, <3>1, <1>1, ModIs
    <3>4. ~ (h <= (h + n) - r)
      BY <3>1, <3>2, <1>1, <1>2, <1>9
    <3>5. ~ (g > k)
      BY <2>2, <1>2, <1>3, <1>9
    <3> QED BY <2>1, <3>3, <3>4, <3>5
  <2>3. CASE k <= n
    <3> DEFINE r == n - k
    <3>1. h + n = SkipGap * a + r /\ r \in 0 .. SkipGap - 1
      BY <1>1, <1>2, <1>9, <2>3
    <3>2. n = k + r
      BY <1>2, <1>9
    <3> HIDE DEF r
    <3>3. (h + n) % SkipGap = r
      <4>1. a \in Int /\ h + n \in Nat
        BY <1>2, <1>9
      <4> QED BY <4>1, <3>1, <1>1, ModIs
    <3>4. (h + n) - r = h + k
      BY <3>1, <3>2, <1>2, <1>9
    <3>5. g > k => r # 0
      BY <3>2, <1>2, <1>3, <1>9
    <3>6. h <= h + k /\ (h + g > h + k <=> g > k)
      BY <1>2, <1>3, <1>9
    <3> QED BY <2>1, <3>3, <3>4, <3>5, <3>6
  <2> QED BY <2>2, <2>3, <1>2, <1>9
<1>12. /\ lv1.candidate = IF g > k THEN lv.candidate ELSE NULL
       /\ lv2.candidate = IF g > k THEN NULL ELSE lv.candidate
  BY <1>11
<1> HIDE DEF s, h, n, g
<1>13. Fits(lv1, up1)
  <2>1. lv1.head_off + k = SkipGap * a
    BY <1>5, <1>9
  <2>2. Len(lv1.nodes) < k + SkipGap
    BY <1>1, <1>2, <1>3, <1>4, <1>9
  <2>3. lv1.candidate = IF Len(lv1.nodes) > k THEN lv1.nodes[k + 1] ELSE NULL
    <3>1. CASE g > k
      <4>1. k + 1 \in 1 .. g /\ n > k
        BY <3>1, <1>2, <1>3, <1>9
      <4> QED BY <4>1, <3>1, <1>4, <1>10, <1>12
    <3>2. CASE ~ (g > k)
      BY <3>2, <1>4, <1>12
    <3> QED BY <3>1, <3>2
  <2> QED BY <2>1, <2>2, <2>3, <1>4, <1>9, NoGroupFits
<1>14. CASE g > k
  <2> DEFINE k2 == SkipGap + k - g
  <2>1. k2 \in 0 .. SkipGap - 1 /\ n - g < k2 + SkipGap /\ ~ (n - g > k2)
    BY <1>1, <1>2, <1>3, <1>9, <1>14
  <2>2. lv2.head_off + k2 = SkipGap * (a + 1) /\ a + 1 \in Nat
    <3>1. SkipGap * (a + 1) = SkipGap * a + SkipGap /\ a + 1 \in Nat
      BY <1>1, <1>9
    <3>2. (h + g) + (SkipGap + k - g) = (h + k) + SkipGap
      BY <1>1, <1>2, <1>3, <1>9
    <3> QED BY <3>1, <3>2, <1>5, <1>9
  <2> HIDE DEF k2
  <2>3. lv2.candidate = IF Len(lv2.nodes) > k2 THEN lv2.nodes[k2 + 1] ELSE NULL
    BY <2>1, <1>4, <1>12, <1>14
  <2>4. Len(lv2.nodes) < k2 + SkipGap
    BY <2>1, <1>4
  <2>5. Fits(lv2, up2)
    BY <2>1, <2>2, <2>3, <2>4, <1>4, NoGroupFits
  <2> QED BY <2>5, <1>13
<1>15. CASE ~ (g > k)
  <2> DEFINE k2 == k - g
  <2>1. k2 \in 0 .. SkipGap - 1 /\ n - g < k2 + SkipGap /\ (n - g > k2 <=> n > k) /\ g + (k2 + 1) = k + 1
    BY <1>1, <1>2, <1>3, <1>9, <1>15
  <2>2. lv2.head_off + k2 = SkipGap * a
    <3>1. (h + g) + (k - g) = h + k
      BY <1>1, <1>2, <1>3, <1>9
    <3> QED BY <3>1, <1>5, <1>9
  <2> HIDE DEF k2
  <2>3. lv2.candidate = IF Len(lv2.nodes) > k2 THEN lv2.nodes[k2 + 1] ELSE NULL
    <3>1. n > k => k2 + 1 \in 1 .. n - g
      BY <2>1, <1>2, <1>3, <1>9
    <3>2. n > k => lv2.nodes[k2 + 1] = s[k + 1]
      BY <3>1, <2>1, <1>4
    <3> QED BY <3>2, <2>1, <1>4, <1>10, <1>12, <1>15
  <2>4. Len(lv2.nodes) < k2 + SkipGap
    BY <2>1, <1>4
  <2>5. Fits(lv2, up2)
    BY <2>1, <2>2, <2>3, <2>4, <1>4, <1>9, NoGroupFits
  <2> QED BY <2>5, <1>13
<1> QED BY <1>14, <1>15

(***************************************************************************)
(* When one node is above it, the tricky situation: the first half has the *)
(* whole group of that node, or the group is cut, and what is left of it   *)
(* in the first half is a candidate there.                                 *)
(***************************************************************************)
LEMMA TopFitsSingle ==
    ASSUME NEW lv, NEW S, Level(lv, S), NULL \notin S, OneToOne(lv.nodes),
           NEW up, Fits(lv, up), Len(up.nodes) = 1,
           NEW lv1, NEW lv2, Cut(lv, Half(lv), lv1, lv2),
           NEW preserved \in BOOLEAN,
           preserved <=> Head(up.nodes).down = Head(lv.nodes) /\ Size(lv) = 2 * SkipGap - 1,
           lv1.candidate = IF preserved THEN NULL ELSE Head(up.nodes).down,
           lv2.candidate = lv.candidate,
           NEW up1, up1.nodes = IF preserved THEN up.nodes ELSE <<>>, NEW up2, up2.nodes = <<>>
    PROVE  Fits(lv1, up1) /\ Fits(lv2, up2)
<1> DEFINE s == lv.nodes
<1> DEFINE h == lv.head_off
<1> DEFINE n == Len(lv.nodes)
<1> DEFINE g == Half(lv)
<1>1. SkipGap \in Nat /\ SkipGap > 1
  BY GapFacts
<1>2. n \in Nat /\ h \in Nat /\ lv.tail_off = h + n /\ s \in Seq(S) /\ Size(lv) = n
  BY LevelFacts DEF Level
<1>3. PICK k, a, m \in Nat : Shape(h, n, k, a, m)
  BY <1>2, ShapeExists
<1>4. up.nodes = GroupSeq(s, k, m) /\ lv.candidate = CandidateAt(s, k, m)
  BY <1>2, <1>3, ShapeOfFit
<1>5. m = 1
  <2>1. Len(GroupSeq(s, k, m)) = m
    BY <1>3, GroupSeqFacts
  <2> QED BY <1>4, <2>1
<1>6. /\ k \in 0 .. SkipGap - 1 /\ a \in Nat /\ h + k = SkipGap * a
      /\ k + SkipGap <= n /\ n < k + SkipGap + SkipGap
  <2>1. k \in 0 .. SkipGap - 1 /\ a \in Nat /\ h + k = SkipGap * a /\ n < k + SkipGap * m + SkipGap
        /\ k + SkipGap * m <= n
    BY <1>3, <1>5 DEF Shape
  <2>2. SkipGap * m = SkipGap
    BY <1>1, <1>5
  <2> QED BY <2>1, <2>2, <1>1, <1>2
<1>7. lv.candidate = IF n > k + SkipGap THEN s[k + SkipGap + 1] ELSE NULL
  <2>1. k + SkipGap * m = k + SkipGap
    BY <1>1, <1>3, <1>5
  <2> QED BY <2>1, <1>4 DEF CandidateAt
<1>8. /\ up.nodes = [j \in 1 .. 1 |-> Node(s[k + 1], s[k + SkipGap])]
      /\ Head(up.nodes).down = s[k + 1] /\ Head(s) = s[1]
  <2>1. up.nodes = [j \in 1 .. 1 |-> Node(s[k + (j - 1) * SkipGap + 1], s[k + j * SkipGap])]
    BY <1>4, <1>5 DEF GroupSeq
  <2>2. \A j \in 1 .. 1 : (j - 1) * SkipGap = 0 /\ j * SkipGap = SkipGap
    BY <1>1
  <2>3. \A j \in 1 .. 1 : k + (j - 1) * SkipGap + 1 = k + 1 /\ k + j * SkipGap = k + SkipGap
    BY <2>2, <1>1, <1>6
  <2>4. up.nodes = [j \in 1 .. 1 |-> Node(s[k + 1], s[k + SkipGap])]
    BY <2>1, <2>3
  <2>5. up.nodes[1].down = s[k + 1]
    BY <2>4 DEF Node
  <2>6. Head(up.nodes) = up.nodes[1]
    OBVIOUS
  <2>7. Head(s) = s[1]
    OBVIOUS
  <2> QED BY <2>4, <2>5, <2>6, <2>7
<1>9. g \in 1 .. n /\ n <= 2 * g /\ 2 * g <= n + 1
  <2>1. n > 0
    BY <1>1, <1>2, <1>6
  <2> QED BY <2>1, HalfFacts
<1>10. /\ Level(lv1, S) /\ Len(lv1.nodes) = g
       /\ Level(lv2, S) /\ Len(lv2.nodes) = n - g
       /\ \A j \in 1 .. g : lv1.nodes[j] = s[j]
       /\ \A j \in 1 .. n - g : lv2.nodes[j] = s[g + j]
  <2>1. g \in 0 .. Len(lv.nodes) /\ Cut(lv, g, lv1, lv2) /\ Level(lv, S)
    BY <1>2, <1>9
  <2>2. /\ Level(lv1, S) /\ Len(lv1.nodes) = g
        /\ Level(lv2, S) /\ Len(lv2.nodes) = Len(lv.nodes) - g
        /\ \A j \in 1 .. g : lv1.nodes[j] = lv.nodes[j]
        /\ \A j \in 1 .. Len(lv.nodes) - g : lv2.nodes[j] = lv.nodes[g + j]
    <3> HIDE DEF g
    <3> QED BY <2>1, CutLevels
  <2> QED BY <2>2
<1>11. lv1.head_off = h /\ lv2.head_off = h + g
  BY DEF Cut
<1>12. OneToOne(s)
  OBVIOUS
<1>13. g > k /\ g <= k + SkipGap /\ (g = k + SkipGap <=> k = 0 /\ n = 2 * SkipGap - 1)
  <2> HIDE DEF s, h, n, g
  <2> QED BY <1>1, <1>2, <1>6, <1>9
<1>14. preserved <=> k = 0 /\ n = 2 * SkipGap - 1
  <2>1. s[k + 1] = s[1] <=> k = 0
    <3> HIDE DEF s, h, n, g
    <3>1. k + 1 \in 1 .. n /\ 1 \in 1 .. n
      BY <1>1, <1>2, <1>6
    <3>2. s[k + 1] = s[1] => k + 1 = 1
      BY <3>1, <1>12 DEF OneToOne, s, n
    <3> QED BY <3>2, <1>6
  <2> QED BY <2>1, <1>2, <1>8
<1>15. lv1.candidate = IF preserved THEN NULL ELSE s[k + 1]
  BY <1>8
<1> HIDE DEF s, h, n, g
<1>16. CASE preserved
  <2>1. k = 0 /\ n = 2 * SkipGap - 1 /\ g = SkipGap
    BY <1>14, <1>13, <1>16, <1>1
  <2>2. Fits(lv1, up1)
    <3>1. Shape(h, g, 0, a, 1)
      BY <2>1, <1>1, <1>2, <1>6 DEF Shape
    <3>2. lv1.candidate = CandidateAt(lv1.nodes, 0, 1)
      <4>1. ~ (g > 0 + SkipGap * 1)
        BY <2>1, <1>1
      <4> QED BY <4>1, <1>10, <1>15, <1>16 DEF CandidateAt
    <3>3. up1.nodes = GroupSeq(lv1.nodes, 0, 1)
      <4>1. GroupSeq(s, 0, 1) = GroupSeq(lv1.nodes, 0, 1)
        <5>1. \A j \in 1 .. 1 : /\ s[0 + (j - 1) * SkipGap + 1] = lv1.nodes[0 + (j - 1) * SkipGap + 1]
                                /\ s[0 + j * SkipGap] = lv1.nodes[0 + j * SkipGap]
          <6>1. \A j \in 1 .. 1 : 0 + (j - 1) * SkipGap + 1 = 1 /\ 0 + j * SkipGap = SkipGap
            BY <1>1
          <6>2. 1 \in 1 .. g /\ SkipGap \in 1 .. g
            BY <2>1, <1>1
          <6> QED BY <6>1, <6>2, <1>10
        <5> QED BY <5>1, GroupSeqEqual
      <4> QED BY <4>1, <2>1, <1>4, <1>5, <1>16
    <3>4. lv1.head_off = h /\ Len(lv1.nodes) = g /\ Level(lv1, S)
      BY <1>10, <1>11
    <3> QED BY <3>1, <3>2, <3>3, <3>4, FitOfShape, Zenon
  <2>3. Fits(lv2, up2)
    <3>1. lv2.head_off + 0 = SkipGap * (a + 1) /\ a + 1 \in Nat
      <4>1. SkipGap * (a + 1) = SkipGap * a + SkipGap /\ a + 1 \in Nat
        BY <1>1, <1>6
      <4>2. h = SkipGap * a /\ h + g + 0 = h + SkipGap
        BY <2>1, <1>1, <1>2, <1>6
      <4> QED BY <4>1, <4>2, <1>11, <2>1
    <3>2. Len(lv2.nodes) < 0 + SkipGap /\ 0 \in 0 .. SkipGap - 1
      BY <2>1, <1>1, <1>10
    <3>3. lv2.candidate = IF Len(lv2.nodes) > 0 THEN lv2.nodes[0 + 1] ELSE NULL
      <4>1. n - g > 0 /\ n > k + SkipGap /\ 1 \in 1 .. n - g /\ g + 1 = k + SkipGap + 1 /\ 0 + 1 = 1
        BY <2>1, <1>1
      <4> QED BY <4>1, <1>7, <1>10
    <3> QED BY <3>1, <3>2, <3>3, <1>10, NoGroupFits
  <2> QED BY <2>2, <2>3
<1>17. CASE ~preserved
  <2>1. g > k /\ g < k + SkipGap
    <3>1. ~ (g = k + SkipGap)
      BY <1>13, <1>14, <1>17
    <3> QED BY <3>1, <1>1, <1>6, <1>9, <1>13
  <2>2. Fits(lv1, up1)
    <3>1. lv1.head_off + k = SkipGap * a
      BY <1>6, <1>11
    <3>2. Len(lv1.nodes) < k + SkipGap
      BY <2>1, <1>10
    <3>3. lv1.candidate = IF Len(lv1.nodes) > k THEN lv1.nodes[k + 1] ELSE NULL
      <4>1. k + 1 \in 1 .. g
        BY <2>1, <1>1, <1>6, <1>9
      <4> QED BY <4>1, <2>1, <1>10, <1>15, <1>17
    <3> QED BY <3>1, <3>2, <3>3, <1>6, <1>10, <1>17, NoGroupFits
  <2>3. Fits(lv2, up2)
    <3> DEFINE k2 == k + SkipGap - g
    <3>1. /\ k2 \in 0 .. SkipGap - 1 /\ n - g < k2 + SkipGap
          /\ (n - g > k2 <=> n > k + SkipGap) /\ g + (k2 + 1) = k + SkipGap + 1
      BY <2>1, <1>1, <1>2, <1>6, <1>9
    <3>2. lv2.head_off + k2 = SkipGap * (a + 1) /\ a + 1 \in Nat
      <4>1. SkipGap * (a + 1) = SkipGap * a + SkipGap /\ a + 1 \in Nat
        BY <1>1, <1>6
      <4>2. (h + g) + (k + SkipGap - g) = (h + k) + SkipGap
        BY <1>1, <1>2, <1>6, <1>9
      <4> QED BY <4>1, <4>2, <1>6, <1>11
    <3> HIDE DEF k2
    <3>3. lv2.candidate = IF Len(lv2.nodes) > k2 THEN lv2.nodes[k2 + 1] ELSE NULL
      <4>1. n > k + SkipGap => k2 + 1 \in 1 .. n - g
        BY <3>1, <1>1, <1>2, <1>6, <1>9
      <4>2. n > k + SkipGap => lv2.nodes[k2 + 1] = s[k + SkipGap + 1]
        BY <4>1, <3>1, <1>10
      <4> QED BY <4>2, <3>1, <1>7, <1>10
    <3>4. Len(lv2.nodes) < k2 + SkipGap
      BY <3>1, <1>10
    <3> QED BY <3>1, <3>2, <3>3, <3>4, <1>10, NoGroupFits
  <2> QED BY <2>2, <2>3
<1> QED BY <1>16, <1>17

----------------------------------------------------------------------------
(* The level that is split *)

(* Above a level with at most one node there is nothing. *)
LEMMA NothingAbove ==
    ASSUME NEW l, Good(l), NEW i \in Levels, i # NLayers, Len(l[i].nodes) <= 1
    PROVE  l[i + 1].nodes = <<>>
<1> DEFINE n == Len(l[i].nodes)
<1> DEFINE h == l[i].head_off
<1>1. n \in Nat /\ n <= 1
  BY LevelFacts DEF Good
<1>2. PICK k, a, m \in Nat : Shape(h, n, k, a, m) /\ l[i + 1].nodes = GroupSeq(l[i].nodes, k, m)
  BY Picture
<1> HIDE DEF n, h
<1>3. m = 0
  <2>1. k \in Nat /\ m \in Nat /\ (m = 0 \/ k + SkipGap * m <= n)
    BY <1>2 DEF Shape
  <2>2. m # 0 => SkipGap * m >= 2
    <3>1. CASE m # 0
      <4>1. SkipGap * 0 + SkipGap <= SkipGap * m
        BY <3>1, <1>2, GapFacts, Apart
      <4>2. SkipGap * m \in Nat /\ SkipGap \in Nat /\ SkipGap >= 2 /\ SkipGap * 0 = 0
        BY <1>2, GapFacts
      <4> QED BY <4>1, <4>2
    <3> QED BY <3>1
  <2>3. SkipGap * m \in Nat
    BY <1>2, GapFacts
  <2> QED BY <2>1, <2>2, <2>3, <1>1
<1> QED BY <1>2, <1>3 DEF GroupSeq

(* What SplitLevel returns. *)
LEMMA SplitFacts ==
    ASSUME NEW l, Good(l), l[0].nodes # <<>>, NEW s, s = SplitLevel(l)
    PROVE  /\ s \in Levels /\ l[s].nodes # <<>>
           /\ s # 0 => Len(l[s].nodes) > 1
           /\ \A i \in Levels : i > s => Len(l[i].nodes) \in 0 .. 1
           /\ \A i \in Levels : i > s + 1 => l[i].nodes = <<>>
<1> DEFINE wide == {i \in Levels : Size(l[i]) > 1}
<1>1. NLayers \in Nat /\ Levels = 0 .. NLayers
  BY GapFacts DEF Levels
<1>2. \A i \in Levels : Size(l[i]) = Len(l[i].nodes) /\ Len(l[i].nodes) \in Nat
  BY LevelFacts DEF Good
<1>3. s = IF wide = {} THEN 0 ELSE CHOOSE i \in wide : \A j \in wide : j <= i
  BY Zenon DEF SplitLevel
<1>4. s \in Levels /\ (s # 0 => Len(l[s].nodes) > 1) /\ \A j \in wide : j <= s
  <2>1. CASE wide = {}
    BY <2>1, <1>1, <1>3
  <2>2. CASE wide # {}
    <3> DEFINE up == {n \in 0 .. NLayers : NLayers - n \in wide}
    <3>1. up # {} /\ up \in SUBSET Nat
      <4>1. PICK i : i \in wide
        BY <2>2
      <4>2. i \in 0 .. NLayers
        BY <4>1, <1>1
      <4>3. NLayers - i \in 0 .. NLayers /\ NLayers - (NLayers - i) = i
        BY <4>2, <1>1
      <4>4. NLayers - i \in up
        BY <4>1, <4>3
      <4> QED BY <4>4
    <3>2. PICK n \in up : \A y \in up : n <= y
      <4> HIDE DEF up
      <4> QED BY <3>1, LeastNumber
    <3>3. NLayers - n \in wide /\ n \in 0 .. NLayers
      BY <3>2
    <3>4. \A j \in wide : j <= NLayers - n
      <4> SUFFICES ASSUME NEW j \in wide
                   PROVE  j <= NLayers - n
        OBVIOUS
      <4>1. j \in 0 .. NLayers
        BY <1>1
      <4>2. NLayers - j \in 0 .. NLayers /\ NLayers - (NLayers - j) = j
        BY <4>1, <1>1
      <4>3. n <= NLayers - j
        BY <4>2, <3>2
      <4> QED BY <4>1, <4>3, <3>3, <1>1
    <3>5. \E i \in wide : \A j \in wide : j <= i
      BY <3>3, <3>4
    <3>6. s \in wide /\ \A j \in wide : j <= s
      <4> HIDE DEF wide
      <4> QED BY <3>5, <2>2, <1>3, Zenon
    <3> QED BY <3>6, <1>2
  <2> QED BY <2>1, <2>2
<1>5. l[s].nodes # <<>>
  <2>1. CASE s = 0
    BY <2>1
  <2>2. CASE s # 0
    <3>1. Len(<<>>) = 0
      OBVIOUS
    <3> QED BY <2>2, <3>1, <1>4
  <2> QED BY <2>1, <2>2
<1>6. \A i \in Levels : i > s => Len(l[i].nodes) \in 0 .. 1
  <2> SUFFICES ASSUME NEW i \in Levels, i > s
               PROVE  Len(l[i].nodes) \in 0 .. 1
    OBVIOUS
  <2>1. ~ (i <= s)
    BY <1>1, <1>4
  <2>2. ~ (Size(l[i]) > 1)
    BY <2>1, <1>4
  <2> DEFINE c == Len(l[i].nodes)
  <2>3. Size(l[i]) = c /\ c \in Nat
    BY <1>2
  <2>4. c \in Nat /\ ~ (c > 1)
    BY <2>2, <2>3
  <2> HIDE DEF c
  <2>5. c \in 0 .. 1
    BY <2>4
  <2> QED BY <2>5 DEF c
<1>7. \A i \in Levels : i > s + 1 => l[i].nodes = <<>>
  <2> SUFFICES ASSUME NEW i \in Levels, i > s + 1
               PROVE  l[i].nodes = <<>>
    OBVIOUS
  <2> DEFINE j == i - 1
  <2>1. j \in Levels /\ j # NLayers /\ j > s /\ j + 1 = i
    BY <1>1, <1>4
  <2> HIDE DEF j
  <2>2. Len(l[j].nodes) <= 1
    <3> DEFINE c == Len(l[j].nodes)
    <3>1. c \in 0 .. 1
      BY <2>1, <1>6
    <3> HIDE DEF c
    <3>2. c <= 1
      BY <3>1
    <3> QED BY <3>2 DEF c
  <2>3. l[j + 1].nodes = <<>>
    BY <2>1, <2>2, NothingAbove
  <2> QED BY <2>1, <2>3
<1> QED BY <1>4, <1>5, <1>6, <1>7

(* The single nodes above it: there is one at most, on the next level. *)
LEMMA SinglesFacts ==
    ASSUME NEW l, Good(l), l[0].nodes # <<>>, NEW s, s = SplitLevel(l)
    PROVE  \/ /\ Singles(l) = {s + 1} /\ s # NLayers /\ s + 1 \in Levels
              /\ Len(l[s + 1].nodes) = 1
           \/ /\ Singles(l) = {}
              /\ s # NLayers => l[s + 1].nodes = <<>>
<1>1. /\ s \in Levels /\ l[s].nodes # <<>>
      /\ \A i \in Levels : i > s => Len(l[i].nodes) \in 0 .. 1
      /\ \A i \in Levels : i > s + 1 => l[i].nodes = <<>>
  BY SplitFacts
<1>2. NLayers \in Nat /\ Levels = 0 .. NLayers
  BY GapFacts DEF Levels
<1>3. \A i \in Levels : Size(l[i]) = Len(l[i].nodes) /\ Len(l[i].nodes) \in Nat
                        /\ l[i].nodes \in Seq(AnyNode[i])
  BY LevelFacts DEF Good, Level
<1>4. Singles(l) = {i \in Levels : i > s /\ Len(l[i].nodes) = 1}
  BY <1>3 DEF Singles
<1>5. \A i \in Levels : i > s + 1 => Len(l[i].nodes) = 0
  BY <1>1
<1>6. \A i \in Singles(l) : i = s + 1
  <2> SUFFICES ASSUME NEW i \in Levels, i > s, Len(l[i].nodes) = 1
               PROVE  i = s + 1
    BY <1>4
  <2>1. ~ (i > s + 1)
    <3>1. i > s + 1 => Len(l[i].nodes) = 0
      BY <1>5
    <3> QED BY <3>1
  <2> QED BY <2>1, <1>1, <1>2
<1>7. CASE Singles(l) = {}
  <2>1. ASSUME s # NLayers
        PROVE  l[s + 1].nodes = <<>>
    <3> DEFINE j == s + 1
    <3>1. j \in Levels /\ j > s
      BY <2>1, <1>1, <1>2
    <3> HIDE DEF j
    <3>2. Len(l[j].nodes) \in 0 .. 1 /\ Len(l[j].nodes) # 1
      BY <3>1, <1>1, <1>4, <1>7
    <3>3. l[j].nodes = <<>>
      <4>1. Len(l[j].nodes) = 0 /\ l[j].nodes \in Seq(AnyNode[j])
        BY <3>1, <3>2, <1>3
      <4> QED BY <4>1
    <3> QED BY <3>3 DEF j
  <2> QED BY <2>1, <1>7
<1>8. CASE Singles(l) # {}
  <2>1. Singles(l) = {s + 1}
    BY <1>6, <1>8
  <2>2. s + 1 \in Levels /\ Len(l[s + 1].nodes) = 1
    BY <2>1, <1>4
  <2>3. s # NLayers
    BY <2>2, <1>1, <1>2
  <2> QED BY <2>1, <2>2, <2>3
<1> QED BY <1>7, <1>8

(* How the code computes what a level at offset h gives away, from what the level above does. *)
Below(h, gu) == (1 + gu) * SkipGap - ((h + SkipGap - 1) % SkipGap) - 1

(* The last node of group gu. *)
GroupEnd(k, gu) == k + SkipGap * gu

(* From a level to the one below it: the cut is after the last group that is given away. *)
LEMMA GiveAwayStep ==
    ASSUME NEW l, Good(l), NEW i \in Levels, i # NLayers, NEW gu \in 1 .. Len(l[i + 1].nodes),
           NEW k, NEW a, NEW m, Shape(l[i].head_off, Len(l[i].nodes), k, a, m)
    PROVE  /\ m = Len(l[i + 1].nodes) /\ k \in Nat /\ m \in Nat
           /\ Below(l[i].head_off, gu) = GroupEnd(k, gu)
           /\ GroupEnd(k, gu) \in 1 .. Len(l[i].nodes)
           /\ l[i + 1].nodes[gu].last = l[i].nodes[GroupEnd(k, gu)]
<1> DEFINE h == l[i].head_off
<1> DEFINE n == Len(l[i].nodes)
<1>1. SkipGap \in Nat /\ SkipGap > 1
  BY GapFacts
<1>2. Level(l[i], AnyNode[i]) /\ Fits(l[i], l[i + 1])
  BY DEF Good
<1>3. n \in Nat /\ h \in Nat /\ Shape(h, n, k, a, m)
  BY <1>2, LevelFacts
<1>4. l[i + 1].nodes = GroupSeq(l[i].nodes, k, m)
  BY <1>2, <1>3, ShapeOfFit
<1> HIDE DEF h, n
<1>5. k \in 0 .. SkipGap - 1 /\ k \in Nat /\ a \in Nat /\ m \in Nat /\ h + k = SkipGap * a
  <2>1. k \in 0 .. SkipGap - 1 /\ a \in Nat /\ m \in Nat /\ h + k = SkipGap * a
    BY <1>3 DEF Shape
  <2> QED BY <2>1, <1>1
<1>6. m = Len(l[i + 1].nodes) /\ gu \in 1 .. m
  <2>1. m = Len(l[i + 1].nodes)
    BY <1>4, <1>5, GroupSeqFacts
  <2> QED BY <2>1
<1>7. k + gu * SkipGap \in 1 .. n /\ l[i + 1].nodes[gu].last = l[i].nodes[k + gu * SkipGap]
  <2>1. k + gu * SkipGap \in 1 .. n
    BY <1>3, <1>6, GroupIndex
  <2>2. l[i + 1].nodes[gu].last = l[i].nodes[k + gu * SkipGap]
    BY <1>4, <1>5, <1>6, GroupSeqFacts
  <2> QED BY <2>1, <2>2
<1>8. gu * SkipGap = SkipGap * gu /\ (1 + gu) * SkipGap = SkipGap + SkipGap * gu /\ SkipGap * gu \in Nat
  BY <1>1, <1>6
<1>9. (h + SkipGap - 1) % SkipGap = SkipGap - 1 - k
  <2>1. h + SkipGap - 1 = SkipGap * a + (SkipGap - 1 - k)
    BY <1>1, <1>3, <1>5
  <2> DEFINE r == SkipGap - 1 - k
  <2> DEFINE x == h + SkipGap - 1
  <2>2. r \in 0 .. SkipGap - 1 /\ x \in Nat /\ a \in Int /\ x = SkipGap * a + r
    BY <2>1, <1>1, <1>3, <1>5
  <2> HIDE DEF r, x
  <2>3. x % SkipGap = r
    BY <2>2, <1>1, ModIs
  <2> QED BY <2>3 DEF r, x
<1>10. (1 + gu) * SkipGap - (SkipGap - 1 - k) - 1 = k + SkipGap * gu
  <2> DEFINE x == SkipGap * gu
  <2>1. x \in Nat /\ (1 + gu) * SkipGap = SkipGap + x
    BY <1>8
  <2> HIDE DEF x
  <2>2. (SkipGap + x) - (SkipGap - 1 - k) - 1 = k + x
    BY <2>1, <1>1, <1>5
  <2> QED BY <2>1, <2>2 DEF x
<1>11. k + gu * SkipGap = k + SkipGap * gu
  BY <1>8
<1>12. Below(h, gu) = GroupEnd(k, gu)
  BY <1>9, <1>10 DEF Below, GroupEnd
<1>13. GroupEnd(k, gu) \in 1 .. n /\ l[i + 1].nodes[gu].last = l[i].nodes[GroupEnd(k, gu)]
  BY <1>7, <1>11 DEF GroupEnd
<1> QED BY <1>5, <1>6, <1>12, <1>13 DEF h, n

(* What each level gives away, and the node that the cut comes after. *)
LEMMA GiveAwayFacts ==
    ASSUME NEW l, Good(l), l[0].nodes # <<>>, NEW s, s = SplitLevel(l)
    PROVE  \A i \in 0 .. s : /\ i \in Levels
                             /\ GiveAway(l)[i] \in 1 .. Len(l[i].nodes)
                             /\ LastGiven(l)[i] = l[i].nodes[GiveAway(l)[i]]
<1> DEFINE Right(i) == /\ GiveAway(l)[i] \in 1 .. Len(l[i].nodes)
                       /\ LastGiven(l)[i] = l[i].nodes[GiveAway(l)[i]]
<1>1. NLayers \in Nat /\ Levels = 0 .. NLayers
  BY GapFacts DEF Levels
<1>2. s \in Levels /\ l[s].nodes # <<>> /\ s \in Nat /\ s <= NLayers
  <2>1. s \in Levels /\ l[s].nodes # <<>>
    BY SplitFacts
  <2> QED BY <2>1, <1>1
<1>3. Right(s)
  <2>1. GiveAway(l)[s] = Half(l[s]) /\ LastGiven(l)[s] = l[s].nodes[Half(l[s])]
    BY <1>2, GiveAwayDef, LastGivenDef
  <2>2. Level(l[s], AnyNode[s])
    BY <1>2 DEF Good
  <2>3. Len(l[s].nodes) > 0
    BY <2>2, <1>2, TailFacts DEF Level
  <2>4. Half(l[s]) \in 1 .. Len(l[s].nodes)
    BY <2>2, <2>3, HalfFacts
  <2> QED BY <2>1, <2>4
<1>4. ASSUME NEW i \in 0 .. s, i < s, Right(i + 1)
      PROVE  Right(i)
  <2>1. i \in Levels /\ i # NLayers /\ i + 1 \in 0 .. s
    BY <1>1, <1>2, <1>4
  <2>2. PICK k, a, m \in Nat : Shape(l[i].head_off, Len(l[i].nodes), k, a, m)
    BY <2>1, Picture
  <2> DEFINE gu == GiveAway(l)[i + 1]
  <2>3. gu \in 1 .. Len(l[i + 1].nodes) /\ LastGiven(l)[i + 1] = l[i + 1].nodes[gu]
    BY <1>4
  <2>4. GiveAway(l)[i] = Below(l[i].head_off, gu) /\ LastGiven(l)[i] = LastGiven(l)[i + 1].last
    BY <1>2, <1>4, GiveAwayDef, LastGivenDef DEF Below
  <2> HIDE DEF gu
  <2>5. /\ Below(l[i].head_off, gu) = GroupEnd(k, gu)
        /\ GroupEnd(k, gu) \in 1 .. Len(l[i].nodes)
        /\ l[i + 1].nodes[gu].last = l[i].nodes[GroupEnd(k, gu)]
    BY <2>1, <2>2, <2>3, GiveAwayStep, ZenonT(60)
  <2> QED BY <2>3, <2>4, <2>5
<1> HIDE DEF Right
<1> DEFINE S == {n \in Nat : n <= s => Right(s - n)}
<1>5. 0 \in S
  <2>1. s - 0 = s
    BY <1>2
  <2> QED BY <2>1, <1>3
<1>6. ASSUME NEW n \in Nat, n \in S
      PROVE  n + 1 \in S
  <2> SUFFICES ASSUME n + 1 <= s
               PROVE  Right(s - (n + 1))
    OBVIOUS
  <2> DEFINE i == s - (n + 1)
  <2>1. i \in 0 .. s /\ i < s /\ i + 1 = s - n /\ n <= s
    BY <1>2
  <2>2. Right(s - n)
    BY <2>1, <1>6
  <2> HIDE DEF i
  <2>3. Right(i + 1)
    BY <2>1, <2>2
  <2>4. Right(i)
    BY <2>1, <2>3, <1>4
  <2> QED BY <2>4 DEF i
<1>7. \A n \in Nat : n \in S
  <2> HIDE DEF S
  <2> QED BY <1>5, <1>6, NatSetInduction
<1>8. ASSUME NEW i \in 0 .. s
      PROVE  i \in Levels /\ Right(i)
  <2>1. s - i \in Nat /\ s - i <= s /\ s - (s - i) = i /\ i \in Levels
    BY <1>1, <1>2
  <2>2. Right(s - (s - i))
    <3> DEFINE n == s - i
    <3>1. n \in S /\ n <= s
      BY <2>1, <1>7
    <3> HIDE DEF n
    <3>2. Right(s - n)
      BY <3>1
    <3> QED BY <3>2 DEF n
  <2> QED BY <2>1, <2>2
<1> QED BY <1>8 DEF Right

----------------------------------------------------------------------------
(* dequeue_half() on a good list *)

(* Where each level is cut. *)
CutsOf(l) ==
    [i \in 0 .. SplitLevel(l) |->
        CHOOSE k \in 1 .. Len(l[i].nodes) : l[i].nodes[k] = LastGiven(l)[i]]

(* The lowest level above the split that has one node. *)
SingleOf(l) == CHOOSE i \in Singles(l) : \A j \in Singles(l) : i <= j

(* The candidates of what the thief gets and of what is left. *)
GivenCandidate(l, i) ==
    IF i # SplitLevel(l) THEN NULL
    ELSE IF Singles(l) = {} /\ CandidateStolen(l[SplitLevel(l)])
         THEN l[SplitLevel(l)].candidate
    ELSE IF Singles(l) # {} /\ ~SinglePreserved(l, SingleOf(l))
         THEN Head(l[SingleOf(l)].nodes).down
    ELSE NULL

(* The same for what is left. *)
KeptCandidate(l, i) ==
    IF i = SplitLevel(l) /\ (Singles(l) = {} /\ CandidateStolen(l[SplitLevel(l)]))
    THEN NULL ELSE l[i].candidate

(* A level of what the thief gets, *)
GivenAt(l, i) ==
    IF i > SplitLevel(l)
    THEN IF i \in Singles(l) /\ SinglePreserved(l, i) THEN l[i] ELSE EmptyLevel
    ELSE [nodes |-> SubSeq(l[i].nodes, 1, CutsOf(l)[i]),
          head_off |-> l[i].head_off,
          tail_off |-> l[i].head_off + GiveAway(l)[i],
          candidate |-> GivenCandidate(l, i)]

(* and of what is left. *)
KeptAt(l, i) ==
    IF i > SplitLevel(l)
    THEN IF i \in Singles(l) THEN CleanedUp(l[i]) ELSE l[i]
    ELSE [nodes |-> SubSeq(l[i].nodes, CutsOf(l)[i] + 1, Len(l[i].nodes)),
          head_off |-> l[i].head_off + GiveAway(l)[i],
          tail_off |-> l[i].tail_off,
          candidate |-> KeptCandidate(l, i)]

(* These are the levels of the two lists. *)
LEMMA HalvedDef ==
    ASSUME NEW l
    PROVE  \A i \in Levels : Halved(l)[1][i] = GivenAt(l, i) /\ Halved(l)[2][i] = KeptAt(l, i)
<1> DEFINE given == [i \in Levels |-> GivenAt(l, i)]
<1> DEFINE kept == [i \in Levels |-> KeptAt(l, i)]
<1>1. Halved(l) = <<given, kept>>
  BY Zenon DEF Halved, GivenAt, KeptAt, GivenCandidate, KeptCandidate, CutsOf, SingleOf
<1>2. \A i \in Levels : given[i] = GivenAt(l, i) /\ kept[i] = KeptAt(l, i)
  BY Zenon
<1> HIDE DEF given, kept
<1>3. Halved(l)[1] = given /\ Halved(l)[2] = kept
  BY <1>1
<1> QED BY <1>2, <1>3, Zenon

(* A level that is cut. *)
LEMMA HalvedUpto ==
    ASSUME NEW l, NEW i \in Levels, ~ (i > SplitLevel(l))
    PROVE  /\ Halved(l)[1][i].nodes = SubSeq(l[i].nodes, 1, CutsOf(l)[i])
           /\ Halved(l)[1][i].head_off = l[i].head_off
           /\ Halved(l)[1][i].tail_off = l[i].head_off + GiveAway(l)[i]
           /\ Halved(l)[1][i].candidate = GivenCandidate(l, i)
           /\ Halved(l)[2][i].nodes = SubSeq(l[i].nodes, CutsOf(l)[i] + 1, Len(l[i].nodes))
           /\ Halved(l)[2][i].head_off = l[i].head_off + GiveAway(l)[i]
           /\ Halved(l)[2][i].tail_off = l[i].tail_off
           /\ Halved(l)[2][i].candidate = KeptCandidate(l, i)
<1> DEFINE g == GiveAway(l)[i]
<1> DEFINE first == SubSeq(l[i].nodes, 1, CutsOf(l)[i])
<1> DEFINE rest == SubSeq(l[i].nodes, CutsOf(l)[i] + 1, Len(l[i].nodes))
<1> DEFINE h == l[i].head_off + g
<1> DEFINE given == Halved(l)[1][i]
<1> DEFINE kept == Halved(l)[2][i]
<1>1. given = [nodes |-> first, head_off |-> l[i].head_off, tail_off |-> h,
               candidate |-> GivenCandidate(l, i)]
  BY HalvedDef, Zenon DEF GivenAt
<1>2. kept = [nodes |-> rest, head_off |-> h, tail_off |-> l[i].tail_off,
              candidate |-> KeptCandidate(l, i)]
  BY HalvedDef, Zenon DEF KeptAt
<1> HIDE DEF first, rest, h, given, kept
<1>3. /\ given.nodes = first /\ given.head_off = l[i].head_off
      /\ given.tail_off = h /\ given.candidate = GivenCandidate(l, i)
  BY <1>1
<1>4. /\ kept.nodes = rest /\ kept.head_off = h
      /\ kept.tail_off = l[i].tail_off /\ kept.candidate = KeptCandidate(l, i)
  BY <1>2
<1> QED BY <1>3, <1>4, Zenon DEF first, rest, h, given, kept

(* Each level that is cut is cut where its offset says. *)
LEMMA HalvedCuts ==
    ASSUME NEW l, Good(l), l[0].nodes # <<>>, NEW s, s = SplitLevel(l), NEW i \in 0 .. s
    PROVE  /\ i \in Levels /\ GiveAway(l)[i] \in 1 .. Len(l[i].nodes)
           /\ Cut(l[i], GiveAway(l)[i], Halved(l)[1][i], Halved(l)[2][i])
<1>1. /\ i \in Levels /\ GiveAway(l)[i] \in 1 .. Len(l[i].nodes)
      /\ LastGiven(l)[i] = l[i].nodes[GiveAway(l)[i]]
  BY GiveAwayFacts
<1>2. OneToOne(l[i].nodes)
  BY <1>1, GoodOneToOne
<1>3. CutsOf(l)[i] = GiveAway(l)[i]
  <2>1. CutsOf(l)[i] = CHOOSE k \in 1 .. Len(l[i].nodes) : l[i].nodes[k] = LastGiven(l)[i]
    BY DEF CutsOf
  <2> DEFINE g == GiveAway(l)[i]
  <2>2. g \in 1 .. Len(l[i].nodes) /\ l[i].nodes[g] = LastGiven(l)[i]
    BY <1>1
  <2> HIDE DEF g
  <2> DEFINE c == CHOOSE k \in 1 .. Len(l[i].nodes) : l[i].nodes[k] = LastGiven(l)[i]
  <2>3. c \in 1 .. Len(l[i].nodes) /\ l[i].nodes[c] = LastGiven(l)[i]
    BY <2>2, Zenon
  <2> HIDE DEF c
  <2>4. c = g
    <3>1. l[i].nodes[c] = l[i].nodes[g]
      BY <2>2, <2>3
    <3> QED BY <2>2, <2>3, <3>1, <1>2, Zenon DEF OneToOne
  <2> QED BY <2>1, <2>4 DEF c, g
<1>4. ~ (i > SplitLevel(l))
  BY SplitFacts, GapFacts DEF Levels
<1>5. /\ Halved(l)[1][i].nodes = SubSeq(l[i].nodes, 1, GiveAway(l)[i])
      /\ Halved(l)[1][i].head_off = l[i].head_off
      /\ Halved(l)[1][i].tail_off = l[i].head_off + GiveAway(l)[i]
      /\ Halved(l)[2][i].nodes = SubSeq(l[i].nodes, GiveAway(l)[i] + 1, Len(l[i].nodes))
      /\ Halved(l)[2][i].head_off = l[i].head_off + GiveAway(l)[i]
      /\ Halved(l)[2][i].tail_off = l[i].tail_off
  <2> DEFINE c == CutsOf(l)[i]
  <2> DEFINE g == GiveAway(l)[i]
  <2>1. /\ Halved(l)[1][i].nodes = SubSeq(l[i].nodes, 1, c)
        /\ Halved(l)[2][i].nodes = SubSeq(l[i].nodes, c + 1, Len(l[i].nodes))
    BY <1>1, <1>4, HalvedUpto, Zenon
  <2>2. c = g
    BY <1>3
  <2> HIDE DEF c
  <2>3. /\ Halved(l)[1][i].nodes = SubSeq(l[i].nodes, 1, g)
        /\ Halved(l)[2][i].nodes = SubSeq(l[i].nodes, g + 1, Len(l[i].nodes))
    BY <2>1, <2>2, Zenon
  <2>4. /\ Halved(l)[1][i].head_off = l[i].head_off
        /\ Halved(l)[1][i].tail_off = l[i].head_off + g
        /\ Halved(l)[2][i].head_off = l[i].head_off + g
        /\ Halved(l)[2][i].tail_off = l[i].tail_off
    BY <1>1, <1>4, HalvedUpto, Zenon
  <2> QED BY <2>3, <2>4, Zenon
<1> QED BY <1>1, <1>5, Zenon DEF Cut

(* The candidates of the levels below the one that is split, *)
LEMMA HalvedBelow ==
    ASSUME NEW l, NEW i \in Levels, NEW s, s = SplitLevel(l), ~ (i > s), i # s
    PROVE  Halved(l)[1][i].candidate = NULL /\ Halved(l)[2][i].candidate = l[i].candidate
<1>1. /\ Halved(l)[1][i].candidate = GivenCandidate(l, i)
      /\ Halved(l)[2][i].candidate = KeptCandidate(l, i)
  BY HalvedUpto, Zenon
<1> QED BY <1>1 DEF GivenCandidate, KeptCandidate

(* of that level, *)
LEMMA HalvedAt ==
    ASSUME NEW l, NEW s \in Levels, s = SplitLevel(l), ~ (s > s)
    PROVE  /\ Singles(l) = {} =>
                /\ Halved(l)[1][s].candidate =
                        IF CandidateStolen(l[s]) THEN l[s].candidate ELSE NULL
                /\ Halved(l)[2][s].candidate =
                        IF CandidateStolen(l[s]) THEN NULL ELSE l[s].candidate
           /\ \A t : Singles(l) = {t} /\ t <= t =>
                /\ Halved(l)[1][s].candidate =
                        IF SinglePreserved(l, t) THEN NULL ELSE Head(l[t].nodes).down
                /\ Halved(l)[2][s].candidate = l[s].candidate
<1>1. /\ Halved(l)[1][s].candidate = GivenCandidate(l, s)
      /\ Halved(l)[2][s].candidate = KeptCandidate(l, s)
  BY HalvedUpto, Zenon
<1>2. \A t : Singles(l) = {t} /\ t <= t => SingleOf(l) = t
  BY Zenon DEF SingleOf
<1>3. /\ Halved(l)[1][s].candidate =
              IF Singles(l) = {} /\ CandidateStolen(l[s]) THEN l[s].candidate
              ELSE IF Singles(l) # {} /\ ~SinglePreserved(l, SingleOf(l))
                   THEN Head(l[SingleOf(l)].nodes).down
              ELSE NULL
      /\ Halved(l)[2][s].candidate =
              IF Singles(l) = {} /\ CandidateStolen(l[s]) THEN NULL ELSE l[s].candidate
  BY <1>1 DEF GivenCandidate, KeptCandidate
<1>4. ASSUME NEW t, Singles(l) = {t}, t <= t
      PROVE  /\ Halved(l)[1][s].candidate =
                      IF SinglePreserved(l, t) THEN NULL ELSE Head(l[t].nodes).down
             /\ Halved(l)[2][s].candidate = l[s].candidate
  <2>1. Singles(l) # {} /\ SingleOf(l) = t
    BY <1>2, <1>4
  <2> QED BY <2>1, <1>3
<1> QED BY <1>3, <1>4

(* and what becomes of the levels above it. *)
LEMMA HalvedAbove ==
    ASSUME NEW l, NEW i \in Levels, i > SplitLevel(l)
    PROVE  /\ Halved(l)[1][i] =
                    IF i \in Singles(l) /\ SinglePreserved(l, i) THEN l[i] ELSE EmptyLevel
           /\ Halved(l)[2][i] = IF i \in Singles(l) THEN CleanedUp(l[i]) ELSE l[i]
BY HalvedDef, Zenon DEF GivenAt, KeptAt

(* Levels without nodes. *)
LEMMA EmptyLevels ==
    ASSUME NEW S
    PROVE  /\ Level(EmptyLevel, S) /\ EmptyLevel.nodes = <<>> /\ EmptyLevel.candidate = NULL
           /\ \A lv : Level(lv, S) =>
                /\ Level(CleanedUp(lv), S)
                /\ CleanedUp(lv).nodes = <<>> /\ CleanedUp(lv).candidate = NULL
<1>1. <<>> \in Seq(S) /\ Len(<<>>) = 0
  OBVIOUS
<1>2. Level(EmptyLevel, S) /\ EmptyLevel.nodes = <<>> /\ EmptyLevel.candidate = NULL
  BY <1>1 DEF Level, EmptyLevel
<1>3. ASSUME NEW lv, Level(lv, S)
      PROVE  /\ Level(CleanedUp(lv), S)
             /\ CleanedUp(lv).nodes = <<>> /\ CleanedUp(lv).candidate = NULL
  <2>1. lv.tail_off \in Nat
    BY <1>3, LevelFacts
  <2>2. CleanedUp(lv).nodes = <<>> /\ CleanedUp(lv).candidate = NULL
        /\ CleanedUp(lv).head_off = lv.tail_off /\ CleanedUp(lv).tail_off = lv.tail_off
    BY DEF CleanedUp
  <2> QED BY <2>1, <2>2, <1>1 DEF Level
<1> QED BY <1>2, <1>3

(* A level fits whatever has the nodes of the level it fits. *)
LEMMA FitsNodes ==
    ASSUME NEW lv, NEW up, Fits(lv, up), NEW u, u.nodes = up.nodes
    PROVE  Fits(lv, u)
BY DEF Fits

(* What every level of a good list is. *)
LEMMA GoodFacts ==
    ASSUME NEW l, Good(l), NEW i \in Levels
    PROVE  /\ Level(l[i], AnyNode[i]) /\ NULL \notin AnyNode[i] /\ OneToOne(l[i].nodes)
           /\ i # NLayers => i + 1 \in Levels /\ Fits(l[i], l[i + 1])
BY NodeFacts, GoodOneToOne, Zenon DEF Good

(* Below the level that is split. *)
LEMMA HalvedFitsBelow ==
    ASSUME NEW l, Good(l), l[0].nodes # <<>>, NEW s, s = SplitLevel(l), NEW i \in 0 .. s, i # s
    PROVE  /\ Fits(Halved(l)[1][i], Halved(l)[1][i + 1])
           /\ Fits(Halved(l)[2][i], Halved(l)[2][i + 1])
<1> DEFINE g == GiveAway(l)[i]
<1> DEFINE gu == GiveAway(l)[i + 1]
<1>1. s \in Levels /\ NLayers \in Nat /\ Levels = 0 .. NLayers
  BY SplitFacts, GapFacts DEF Levels
<1>2. i + 1 \in 0 .. s /\ i \in Levels /\ i # NLayers /\ i < s /\ ~ (i > s)
  BY <1>1
<1>3. Cut(l[i], g, Halved(l)[1][i], Halved(l)[2][i]) /\ g \in 1 .. Len(l[i].nodes)
  BY HalvedCuts
<1>4. Cut(l[i + 1], gu, Halved(l)[1][i + 1], Halved(l)[2][i + 1]) /\ gu \in 1 .. Len(l[i + 1].nodes)
  <2> DEFINE j == i + 1
  <2>1. j \in 0 .. s
    BY <1>2
  <2> HIDE DEF j
  <2>2. /\ GiveAway(l)[j] \in 1 .. Len(l[j].nodes)
        /\ Cut(l[j], GiveAway(l)[j], Halved(l)[1][j], Halved(l)[2][j])
    BY <2>1, HalvedCuts
  <2> QED BY <2>2 DEF j
<1>5. Halved(l)[1][i].candidate = NULL /\ Halved(l)[2][i].candidate = l[i].candidate
  BY <1>2, HalvedBelow
<1>6. PICK k, a, m \in Nat : /\ Shape(l[i].head_off, Len(l[i].nodes), k, a, m)
                            /\ Len(l[i + 1].nodes) = m
  BY <1>2, Picture
<1>7. g = Below(l[i].head_off, gu)
  BY <1>1, <1>2, GiveAwayDef DEF Below
<1> HIDE DEF g, gu
<1>8. g = k + SkipGap * gu /\ m = Len(l[i + 1].nodes)
  <2>1. i \in Levels /\ i # NLayers /\ gu \in 1 .. Len(l[i + 1].nodes)
    BY <1>2, <1>4
  <2>2. Below(l[i].head_off, gu) = GroupEnd(k, gu)
    BY <2>1, <1>6, GiveAwayStep
  <2> QED BY <2>2, <1>6, <1>7 DEF GroupEnd
<1> DEFINE lv1 == Halved(l)[1][i]
<1> DEFINE lv2 == Halved(l)[2][i]
<1> DEFINE up1 == Halved(l)[1][i + 1]
<1> DEFINE up2 == Halved(l)[2][i + 1]
<1>9. /\ up1.nodes = SubSeq(l[i + 1].nodes, 1, gu)
      /\ up2.nodes = SubSeq(l[i + 1].nodes, gu + 1, Len(l[i + 1].nodes))
  BY <1>4 DEF Cut
<1>10. gu \in 1 .. m /\ g \in Nat
  BY <1>3, <1>4, <1>8
<1>11. Cut(l[i], g, lv1, lv2) /\ lv1.candidate = NULL /\ lv2.candidate = l[i].candidate
  BY <1>3, <1>5
<1>12. Level(l[i], AnyNode[i]) /\ Fits(l[i], l[i + 1])
  BY <1>2, GoodFacts
<1> HIDE DEF lv1, lv2, up1, up2
<1>13. Fits(lv1, up1) /\ Fits(lv2, up2)
  BY <1>6, <1>8, <1>9, <1>10, <1>11, <1>12, CutFits
<1> QED BY <1>13 DEF lv1, lv2, up1, up2

(* The level that is split. *)
LEMMA HalvedFitsAt ==
    ASSUME NEW l, Good(l), l[0].nodes # <<>>, NEW s, s = SplitLevel(l), s # NLayers
    PROVE  /\ Fits(Halved(l)[1][s], Halved(l)[1][s + 1])
           /\ Fits(Halved(l)[2][s], Halved(l)[2][s + 1])
<1>1. s \in Levels /\ NLayers \in Nat /\ Levels = 0 .. NLayers /\ l[s].nodes # <<>>
  BY SplitFacts, GapFacts DEF Levels
<1>2. s \in 0 .. s /\ ~ (s > s) /\ s + 1 \in Levels /\ s + 1 > s /\ s + 1 <= s + 1 /\ (s + 1) - 1 = s
  BY <1>1
<1>3. Cut(l[s], Half(l[s]), Halved(l)[1][s], Halved(l)[2][s])
  <2>1. Cut(l[s], GiveAway(l)[s], Halved(l)[1][s], Halved(l)[2][s])
    BY <1>2, HalvedCuts
  <2>2. GiveAway(l)[s] = Half(l[s])
    BY <1>1, GiveAwayDef
  <2> QED BY <2>1, <2>2
<1>4. /\ Level(l[s], AnyNode[s]) /\ NULL \notin AnyNode[s] /\ OneToOne(l[s].nodes)
      /\ Fits(l[s], l[s + 1])
  BY <1>1, GoodFacts
<1>5. Size(l[s]) = Len(l[s].nodes)
  BY <1>4, LevelFacts
<1> DEFINE lv1 == Halved(l)[1][s]
<1> DEFINE lv2 == Halved(l)[2][s]
<1> DEFINE t == s + 1
<1> DEFINE up == l[t]
<1> DEFINE up1 == Halved(l)[1][t]
<1> DEFINE up2 == Halved(l)[2][t]
<1> DEFINE preserved == SinglePreserved(l, t)
<1>6. /\ up1 = IF t \in Singles(l) /\ preserved THEN up ELSE EmptyLevel
      /\ up2 = IF t \in Singles(l) THEN CleanedUp(up) ELSE up
  BY <1>1, <1>2, HalvedAbove
<1>7. Cut(l[s], Half(l[s]), lv1, lv2) /\ Fits(l[s], up)
  BY <1>3, <1>4
<1>8. CASE Singles(l) = {} /\ up.nodes = <<>>
  <2>1. /\ lv1.candidate = IF CandidateStolen(l[s]) THEN l[s].candidate ELSE NULL
        /\ lv2.candidate = IF CandidateStolen(l[s]) THEN NULL ELSE l[s].candidate
    BY <1>1, <1>2, <1>8, HalvedAt
  <2>2. up1.nodes = <<>> /\ up2.nodes = <<>>
    BY <1>6, <1>8, EmptyLevels
  <2> HIDE DEF lv1, lv2, up, up1, up2
  <2>3. Fits(lv1, up1) /\ Fits(lv2, up2)
    BY <2>1, <2>2, <1>1, <1>4, <1>7, <1>8, TopFitsAlone
  <2> QED BY <2>3 DEF lv1, lv2, up1, up2
<1>9. CASE Singles(l) = {t} /\ Len(up.nodes) = 1
  <2>1. /\ lv1.candidate = IF preserved THEN NULL ELSE Head(up.nodes).down
        /\ lv2.candidate = l[s].candidate
    <3>1. t <= t
      BY <1>2
    <3> HIDE DEF t
    <3> QED BY <3>1, <1>1, <1>2, <1>9, HalvedAt
  <2>2. up1.nodes = (IF preserved THEN up.nodes ELSE <<>>) /\ up2.nodes = <<>>
    <3>1. Level(up, AnyNode[t])
      BY <1>2, GoodFacts
    <3>2. up1 = (IF preserved THEN up ELSE EmptyLevel) /\ up2 = CleanedUp(up)
      BY <1>6, <1>9
    <3> HIDE DEF up, up1, up2, preserved
    <3> QED BY <3>1, <3>2, EmptyLevels
  <2>3. /\ preserved \in BOOLEAN
        /\ preserved <=> /\ Head(up.nodes).down = Head(l[s].nodes)
                         /\ Size(l[s]) = 2 * SkipGap - 1
    BY <1>2 DEF SinglePreserved
  <2>4. Level(l[s], AnyNode[s])
    BY <1>4
  <2> HIDE DEF lv1, lv2, up, up1, up2, preserved
  <2>5. Fits(lv1, up1) /\ Fits(lv2, up2)
    BY <2>1, <2>2, <2>3, <1>4, <1>7, <1>9, TopFitsSingle
  <2> QED BY <2>5 DEF lv1, lv2, up1, up2
<1> QED BY <1>8, <1>9, SinglesFacts

(* The levels above it. *)
LEMMA HalvedFitsAbove ==
    ASSUME NEW l, Good(l), l[0].nodes # <<>>, NEW i \in Levels, i # NLayers, i > SplitLevel(l)
    PROVE  /\ Fits(Halved(l)[1][i], Halved(l)[1][i + 1])
           /\ Fits(Halved(l)[2][i], Halved(l)[2][i + 1])
<1> DEFINE s == SplitLevel(l)
<1>1. s \in Levels /\ NLayers \in Nat /\ Levels = 0 .. NLayers
      /\ \A j \in Levels : j > s + 1 => l[j].nodes = <<>>
  BY SplitFacts, GapFacts DEF Levels
<1>2. i + 1 \in Levels /\ i + 1 > s + 1 /\ i + 1 > s /\ i + 1 # s + 1
  BY <1>1
<1>3. i + 1 \notin Singles(l)
  <2>1. Singles(l) = {s + 1} \/ Singles(l) = {}
    BY SinglesFacts
  <2> QED BY <2>1, <1>2
<1> DEFINE up == l[i + 1]
<1> DEFINE up1 == Halved(l)[1][i + 1]
<1> DEFINE up2 == Halved(l)[2][i + 1]
<1> DEFINE lv1 == Halved(l)[1][i]
<1> DEFINE lv2 == Halved(l)[2][i]
<1>4. up1 = EmptyLevel /\ up2 = up
  BY <1>2, <1>3, HalvedAbove
<1>5. up.nodes = <<>>
  BY <1>1, <1>2
<1>6. (lv1 = l[i] \/ lv1 = EmptyLevel) /\ (lv2 = l[i] \/ lv2 = CleanedUp(l[i]))
  BY HalvedAbove
<1>7. Level(l[i], AnyNode[i]) /\ Fits(l[i], up)
  BY GoodFacts
<1>8. up1.nodes = <<>> /\ up2.nodes = <<>>
  BY <1>4, <1>5, EmptyLevels
<1> HIDE DEF up, up1, up2, lv1, lv2
<1>9. Fits(l[i], up1) /\ Fits(l[i], up2)
  BY <1>5, <1>7, <1>8, FitsNodes
<1>10. Fits(EmptyLevel, up1) /\ Fits(CleanedUp(l[i]), up2)
  <2>1. /\ Level(EmptyLevel, AnyNode[i]) /\ EmptyLevel.nodes = <<>> /\ EmptyLevel.candidate = NULL
        /\ Level(CleanedUp(l[i]), AnyNode[i])
        /\ CleanedUp(l[i]).nodes = <<>> /\ CleanedUp(l[i]).candidate = NULL
    BY <1>7, EmptyLevels
  <2> QED BY <2>1, <1>8, EmptyFits, Zenon
<1>11. Fits(lv1, up1) /\ Fits(lv2, up2)
  BY <1>6, <1>9, <1>10
<1> QED BY <1>11 DEF lv1, lv2, up1, up2

(* The two halves of the tasks. *)
Divided(s, s1, s2, g) ==
    /\ Len(s) \in Nat /\ g \in 1 .. Len(s)
    /\ Len(s1) = g /\ Len(s2) = Len(s) - g
    /\ \A j \in 1 .. g : s1[j] = s[j]
    /\ \A j \in 1 .. Len(s) - g : s2[j] = s[g + j]

(* Both halves are in order if the whole was. *)
LEMMA DividedSorted ==
    ASSUME NEW s, NEW s1, NEW s2, NEW g, Divided(s, s1, s2, g), Sorted(s)
    PROVE  Sorted(s1) /\ Sorted(s2)
<1>1. ASSUME NEW x \in 1 .. Len(s1), NEW y \in 1 .. Len(s1), x < y
      PROVE  s1[x] < s1[y]
  <2>1. x \in 1 .. Len(s) /\ y \in 1 .. Len(s) /\ s1[x] = s[x] /\ s1[y] = s[y]
    BY DEF Divided
  <2> QED BY <2>1, <1>1 DEF Sorted
<1>2. ASSUME NEW x \in 1 .. Len(s2), NEW y \in 1 .. Len(s2), x < y
      PROVE  s2[x] < s2[y]
  <2>1. g + x \in 1 .. Len(s) /\ g + y \in 1 .. Len(s) /\ g + x < g + y
        /\ s2[x] = s[g + x] /\ s2[y] = s[g + y]
    BY <1>2 DEF Divided
  <2> QED BY <2>1 DEF Sorted
<1> QED BY <1>1, <1>2 DEF Sorted

(* dequeue_half() returns and leaves behind good lists. *)
LEMMA HalvedGood ==
    ASSUME NEW l, Good(l), l[0].nodes # <<>>
    PROVE  /\ Good(Halved(l)[1]) /\ Good(Halved(l)[2])
           /\ Divided(l[0].nodes, Halved(l)[1][0].nodes, Halved(l)[2][0].nodes, GiveAway(l)[0])
<1> DEFINE s == SplitLevel(l)
<1> DEFINE l1 == Halved(l)[1]
<1> DEFINE l2 == Halved(l)[2]
<1>1. s \in Levels /\ NLayers \in Nat /\ Levels = 0 .. NLayers
  BY SplitFacts, GapFacts DEF Levels
<1>2. \A i \in Levels : Level(l1[i], AnyNode[i]) /\ Level(l2[i], AnyNode[i])
  <2> TAKE i \in Levels
  <2>0. Level(l[i], AnyNode[i])
    BY GoodFacts
  <2>1. CASE i > s
    <3>1. (l1[i] = l[i] \/ l1[i] = EmptyLevel) /\ (l2[i] = l[i] \/ l2[i] = CleanedUp(l[i]))
      BY <2>1, HalvedAbove
    <3> QED BY <2>0, <3>1, EmptyLevels
  <2>2. CASE ~ (i > s)
    <3> DEFINE g == GiveAway(l)[i]
    <3>1. i \in 0 .. s
      BY <2>2, <1>1
    <3>2. Cut(l[i], g, l1[i], l2[i]) /\ g \in 1 .. Len(l[i].nodes)
      BY <3>1, HalvedCuts
    <3> DEFINE lv1 == l1[i]
    <3> DEFINE lv2 == l2[i]
    <3> HIDE DEF g
    <3>3. Cut(l[i], g, lv1, lv2) /\ g \in 0 .. Len(l[i].nodes)
      BY <3>2
    <3> HIDE DEF lv1, lv2
    <3>4. Level(lv1, AnyNode[i]) /\ Level(lv2, AnyNode[i])
      BY <2>0, <3>3, CutLevels
    <3> QED BY <3>4 DEF lv1, lv2
  <2> QED BY <2>1, <2>2
<1>3. \A i \in Levels : i # NLayers => Fits(l1[i], l1[i + 1]) /\ Fits(l2[i], l2[i + 1])
  <2> SUFFICES ASSUME NEW i \in Levels, i # NLayers
               PROVE  Fits(l1[i], l1[i + 1]) /\ Fits(l2[i], l2[i + 1])
    OBVIOUS
  <2>1. CASE i > s
    BY <2>1, HalvedFitsAbove
  <2>2. CASE i = s
    BY <2>2, HalvedFitsAt
  <2>3. CASE ~ (i > s) /\ i # s
    <3>1. i \in 0 .. s
      BY <2>3, <1>1
    <3> QED BY <2>3, <3>1, HalvedFitsBelow
  <2> QED BY <2>1, <2>2, <2>3
<1>4. Divided(l[0].nodes, l1[0].nodes, l2[0].nodes, GiveAway(l)[0])
  <2> DEFINE g == GiveAway(l)[0]
  <2> DEFINE lv == l[0]
  <2> DEFINE lv1 == l1[0]
  <2> DEFINE lv2 == l2[0]
  <2>1. 0 \in 0 .. s
    BY <1>1
  <2>2. Cut(lv, g, lv1, lv2) /\ g \in 1 .. Len(lv.nodes) /\ 0 \in Levels
    BY <2>1, HalvedCuts
  <2>3. Level(lv, AnyNode[0])
    BY <2>2, GoodFacts
  <2> HIDE DEF g, lv, lv1, lv2
  <2>4. g \in 0 .. Len(lv.nodes) /\ Len(lv.nodes) \in Nat
    BY <2>2, <2>3, LevelFacts
  <2>5. /\ Len(lv1.nodes) = g /\ Len(lv2.nodes) = Len(lv.nodes) - g
        /\ \A j \in 1 .. g : lv1.nodes[j] = lv.nodes[j]
        /\ \A j \in 1 .. Len(lv.nodes) - g : lv2.nodes[j] = lv.nodes[g + j]
    BY <2>2, <2>3, <2>4, CutLevels
  <2>6. Divided(lv.nodes, lv1.nodes, lv2.nodes, g)
    BY <2>2, <2>4, <2>5 DEF Divided
  <2> QED BY <2>6 DEF g, lv, lv1, lv2
<1>5. Sorted(l1[0].nodes) /\ Sorted(l2[0].nodes)
  BY <1>4, DividedSorted DEF Good
<1> QED BY <1>2, <1>3, <1>4, <1>5, Zenon DEF Good

----------------------------------------------------------------------------
(* The invariant *)

(* The tasks of a list, and those a thief has in hand. *)
Tasks(l) == {l[0].nodes[x] : x \in 1 .. Len(l[0].nodes)}

(* What a thief has in hand. *)
Held(l) == IF l = NoList THEN {} ELSE Tasks(l)

(***************************************************************************)
(* Every list is good, those in the hands of a thief too; a task is in one *)
(* list only and was enqueued; and a thief that has something in hand has  *)
(* an empty queue, so that replace() overwrites nothing.                   *)
(***************************************************************************)
Typed ==
    /\ enqueued \in 0 .. MaxTasks
    /\ list = [q \in Queues |-> list[q]]
    /\ loot = [q \in Queues |-> loot[q]]

(* Every list that there is has the invariant of one list. *)
AllGood == \A q \in Queues : Good(list[q]) /\ (loot[q] # NoList => Good(loot[q]))

(* No task has a number that is still to come. *)
AllEnqueued ==
    \A q \in Queues : /\ \A t \in Tasks(list[q]) : t <= enqueued
                      /\ \A t \in Held(loot[q]) : t <= enqueued

(* A task is in one queue, or in the hands of one thief. *)
NoneTwice ==
    \A p, q \in Queues : /\ p # q => Tasks(list[p]) \cap Tasks(list[q]) = {}
                         /\ p # q => Held(loot[p]) \cap Held(loot[q]) = {}
                         /\ Held(loot[p]) \cap Tasks(list[q]) = {}

(* A thief has nothing in its own queue, so that replace() loses nothing. *)
ThiefIsEmpty == \A q \in Queues : loot[q] # NoList => list[q][0].nodes = <<>>

(* The inductive invariant. *)
SkipInv == Typed /\ AllGood /\ AllEnqueued /\ NoneTwice /\ ThiefIsEmpty

(* The list that a Skiplist starts with. *)
LEMMA EmptyGood == Good(Empty) /\ Tasks(Empty) = {} /\ Empty[0].nodes = <<>>
<1>1. \A i \in Levels : Empty[i] = EmptyLevel
  BY DEF Empty
<1>2. /\ \A S : Level(EmptyLevel, S) /\ EmptyLevel.nodes = <<>> /\ EmptyLevel.candidate = NULL
      /\ Fits(EmptyLevel, EmptyLevel)
  <2>1. \A S : Level(EmptyLevel, S) /\ EmptyLevel.nodes = <<>> /\ EmptyLevel.candidate = NULL
    BY EmptyLevels
  <2>2. Fits(EmptyLevel, EmptyLevel)
    BY <2>1, EmptyFits
  <2> QED BY <2>1, <2>2
<1>3. 0 \in Levels /\ \A i \in Levels : i # NLayers => i + 1 \in Levels
  BY NodeFacts
<1>4. \A i \in Levels : Level(Empty[i], AnyNode[i])
  BY <1>1, <1>2
<1>5. \A i \in Levels : i # NLayers => Fits(Empty[i], Empty[i + 1])
  BY <1>1, <1>2, <1>3
<1>6. Empty[0].nodes = <<>> /\ Len(<<>>) = 0
  BY <1>1, <1>2, <1>3
<1>7. Sorted(Empty[0].nodes) /\ Tasks(Empty) = {}
  BY <1>6 DEF Sorted, Tasks
<1> QED BY <1>4, <1>5, <1>6, <1>7 DEF Good

(* The tasks after enqueue(), dequeue() and dequeue_half(). *)
LEMMA EnqueuedTasks ==
    ASSUME NEW l, Good(l), NEW t \in 1 .. MaxTasks, \A x \in Tasks(l) : x < t
    PROVE  Good(Enqueued(l, t)) /\ Tasks(Enqueued(l, t)) = Tasks(l) \cup {t}
<1>1. \A x \in 1 .. Len(l[0].nodes) : l[0].nodes[x] < t
  BY DEF Tasks
<1>2. Good(Enqueued(l, t)) /\ Enqueued(l, t)[0].nodes = Append(l[0].nodes, t)
  BY <1>1, EnqueuedGood
<1> DEFINE s == l[0].nodes
<1> DEFINE s2 == Append(s, t)
<1>3. /\ s \in Seq(AnyNode[0]) /\ Len(s) \in Nat /\ t \in AnyNode[0]
  BY NodeFacts, GoodFacts, LevelFacts, AnyNodeDef DEF Level
<1>4. Len(s2) = Len(s) + 1 /\ (\A j \in 1 .. Len(s) : s2[j] = s[j]) /\ s2[Len(s) + 1] = t
  BY <1>3, AppendFacts
<1> HIDE DEF s, s2
<1>5. {s2[x] : x \in 1 .. Len(s2)} = {s[x] : x \in 1 .. Len(s)} \cup {t}
  <2>1. \A x \in 1 .. Len(s2) : x \in 1 .. Len(s) \/ x = Len(s) + 1
    BY <1>3, <1>4
  <2>2. \A x \in 1 .. Len(s) : x \in 1 .. Len(s2)
    BY <1>3, <1>4
  <2>3. Len(s) + 1 \in 1 .. Len(s2)
    BY <1>3, <1>4
  <2> QED BY <2>1, <2>2, <2>3, <1>4
<1> QED BY <1>2, <1>5 DEF Tasks, s, s2

(* dequeue() adds none, *)
LEMMA DequeuedTasks ==
    ASSUME NEW l, Good(l), l[0].nodes # <<>>
    PROVE  Good(Dequeued(l)) /\ Tasks(Dequeued(l)) \in SUBSET Tasks(l)
<1>1. Good(Dequeued(l)) /\ Dequeued(l)[0].nodes = Tail(l[0].nodes)
  BY DequeuedGood
<1> DEFINE s == l[0].nodes
<1> DEFINE s2 == Tail(s)
<1>2. s \in Seq(AnyNode[0])
  BY NodeFacts, GoodFacts DEF Level
<1>3. Len(s) \in Nat /\ Len(s2) = Len(s) - 1 /\ \A j \in 1 .. Len(s) - 1 : s2[j] = s[j + 1]
  BY <1>2, TailFacts
<1> HIDE DEF s, s2
<1>4. \A x \in 1 .. Len(s2) : x + 1 \in 1 .. Len(s) /\ s2[x] = s[x + 1]
  BY <1>3
<1>5. {s2[x] : x \in 1 .. Len(s2)} \in SUBSET {s[x] : x \in 1 .. Len(s)}
  BY <1>4
<1> QED BY <1>1, <1>5 DEF Tasks, s, s2

(* and dequeue_half() divides them. *)
LEMMA HalvedTasks ==
    ASSUME NEW l, Good(l), l[0].nodes # <<>>
    PROVE  /\ Good(Halved(l)[1]) /\ Good(Halved(l)[2])
           /\ Tasks(Halved(l)[1]) \in SUBSET Tasks(l)
           /\ Tasks(Halved(l)[2]) \in SUBSET Tasks(l)
           /\ Tasks(Halved(l)[1]) \cap Tasks(Halved(l)[2]) = {}
<1> DEFINE s == l[0].nodes
<1> DEFINE s1 == Halved(l)[1][0].nodes
<1> DEFINE s2 == Halved(l)[2][0].nodes
<1> DEFINE g == GiveAway(l)[0]
<1>1. Good(Halved(l)[1]) /\ Good(Halved(l)[2]) /\ Divided(s, s1, s2, g)
  BY HalvedGood
<1>2. OneToOne(s)
  BY NodeFacts, GoodFacts
<1> HIDE DEF s, s1, s2, g
<1>3. /\ Len(s) \in Nat /\ g \in 1 .. Len(s) /\ Len(s1) = g /\ Len(s2) = Len(s) - g
      /\ \A j \in 1 .. g : s1[j] = s[j]
      /\ \A j \in 1 .. Len(s) - g : s2[j] = s[g + j]
  BY <1>1 DEF Divided
<1>4. \A x \in 1 .. Len(s1) : x \in 1 .. Len(s) /\ s1[x] = s[x]
  BY <1>3
<1>5. \A y \in 1 .. Len(s2) : g + y \in 1 .. Len(s) /\ s2[y] = s[g + y]
  BY <1>3
<1>6. \A x \in 1 .. Len(s1), y \in 1 .. Len(s2) : x # g + y
  BY <1>3
<1>7. \A x \in 1 .. Len(s1), y \in 1 .. Len(s2) : s1[x] # s2[y]
  BY <1>2, <1>4, <1>5, <1>6 DEF OneToOne
<1>8. /\ {s1[x] : x \in 1 .. Len(s1)} \in SUBSET {s[x] : x \in 1 .. Len(s)}
      /\ {s2[x] : x \in 1 .. Len(s2)} \in SUBSET {s[x] : x \in 1 .. Len(s)}
      /\ {s1[x] : x \in 1 .. Len(s1)} \cap {s2[x] : x \in 1 .. Len(s2)} = {}
  BY <1>4, <1>5, <1>7
<1> QED BY <1>1, <1>8 DEF Tasks, s, s1, s2

----------------------------------------------------------------------------
(* The steps *)

(* The invariant holds of the empty queues, *)
LEMMA SkipInit == Init => SkipInv
<1> SUFFICES ASSUME Init
             PROVE  SkipInv
  OBVIOUS
<1>1. \A q \in Queues : list[q] = Empty /\ loot[q] = NoList
  BY DEF Init
<1>2. Typed
  BY GapFacts DEF Init, Typed
<1>3. AllGood /\ NoneTwice
  BY <1>1, EmptyGood DEF AllGood, NoneTwice, Held
<1>4. AllEnqueued /\ ThiefIsEmpty
  BY <1>1, EmptyGood DEF AllEnqueued, ThiefIsEmpty, Held
<1> QED BY <1>2, <1>3, <1>4 DEF SkipInv

(* a list that loses some of its tasks keeps it, *)
LEMMA ListShrinks ==
    ASSUME SkipInv, NEW q \in Queues, NEW l, Good(l), Tasks(l) \in SUBSET Tasks(list[q]),
           list[q][0].nodes # <<>>,
           list' = [list EXCEPT ![q] = l], UNCHANGED <<loot, enqueued>>
    PROVE  SkipInv'
<1>1. /\ Typed /\ AllGood /\ AllEnqueued /\ NoneTwice /\ ThiefIsEmpty
      /\ loot' = loot /\ enqueued' = enqueued
  BY DEF SkipInv
<1>2. /\ list' = [p \in Queues |-> list'[p]]
      /\ list'[q] = l /\ \A p \in Queues : p # q => list'[p] = list[p]
  BY <1>1 DEF Typed
<1>3. Typed'
  BY <1>1, <1>2 DEF Typed
<1>4. AllGood'
  BY <1>1, <1>2 DEF AllGood
<1>5. \A p \in Queues : Tasks(list'[p]) \in SUBSET Tasks(list[p])
  BY <1>2
<1>6. AllEnqueued'
  <2> SUFFICES ASSUME NEW p \in Queues
               PROVE  /\ \A t \in Tasks(list'[p]) : t <= enqueued
                      /\ \A t \in Held(loot[p]) : t <= enqueued
    BY <1>1 DEF AllEnqueued
  <2> QED BY <1>1, <1>5 DEF AllEnqueued
<1>7. NoneTwice'
  <2> SUFFICES ASSUME NEW p \in Queues, NEW r \in Queues
               PROVE  /\ p # r => Tasks(list'[p]) \cap Tasks(list'[r]) = {}
                      /\ p # r => Held(loot[p]) \cap Held(loot[r]) = {}
                      /\ Held(loot[p]) \cap Tasks(list'[r]) = {}
    BY <1>1 DEF NoneTwice
  <2>1. Tasks(list'[p]) \in SUBSET Tasks(list[p]) /\ Tasks(list'[r]) \in SUBSET Tasks(list[r])
    BY <1>5
  <2>2. /\ p # r => Tasks(list[p]) \cap Tasks(list[r]) = {}
        /\ p # r => Held(loot[p]) \cap Held(loot[r]) = {}
        /\ Held(loot[p]) \cap Tasks(list[r]) = {}
    BY <1>1 DEF NoneTwice
  <2> QED BY <2>1, <2>2
<1>8. ThiefIsEmpty'
  <2> SUFFICES ASSUME NEW p \in Queues, loot[p] # NoList
               PROVE  list'[p][0].nodes = <<>>
    BY <1>1 DEF ThiefIsEmpty
  <2>1. p # q
    BY <1>1 DEF ThiefIsEmpty
  <2> QED BY <2>1, <1>1, <1>2 DEF ThiefIsEmpty
<1> QED BY <1>3, <1>4, <1>6, <1>7, <1>8 DEF SkipInv

(* The tasks in the lists have the numbers up to enqueued. *)
LEMMA Numbers ==
    ASSUME SkipInv, NEW p \in Queues
    PROVE  /\ \A x \in Tasks(list[p]) : x \in Int /\ x <= enqueued
           /\ \A x \in Held(loot[p]) : x \in Int /\ x <= enqueued
<1>1. AllGood /\ AllEnqueued
  BY DEF SkipInv
<1>2. ASSUME NEW k, Good(k), NEW x \in Tasks(k)
      PROVE  x \in Int
  <2>1. Level(k[0], 1 .. MaxTasks)
    BY <1>2, NodeFacts, GoodFacts, AnyNodeDef
  <2>2. k[0].nodes \in [1 .. Len(k[0].nodes) -> 1 .. MaxTasks]
    BY <2>1, LevelFacts
  <2>3. PICK y \in 1 .. Len(k[0].nodes) : x = k[0].nodes[y]
    BY DEF Tasks
  <2>4. x \in 1 .. MaxTasks
    BY <2>2, <2>3
  <2> QED BY <2>4, GapFacts
<1>3. \A x \in Tasks(list[p]) : x \in Int /\ x <= enqueued
  BY <1>1, <1>2 DEF AllGood, AllEnqueued
<1>4. \A x \in Held(loot[p]) : x \in Int /\ x <= enqueued
  BY <1>1, <1>2 DEF AllGood, AllEnqueued, Held
<1> QED BY <1>3, <1>4

(* enqueue(), *)
LEMMA EnqueueKeeps ==
    ASSUME SkipInv, NEW q \in Queues, Enqueue(q)
    PROVE  SkipInv'
<1> DEFINE t == enqueued + 1
<1> DEFINE l == Enqueued(list[q], t)
<1>1. Typed /\ AllGood /\ AllEnqueued /\ NoneTwice /\ ThiefIsEmpty
  BY DEF SkipInv
<1>2. /\ enqueued < MaxTasks /\ loot[q] = NoList /\ enqueued' = t
      /\ list' = [list EXCEPT ![q] = l] /\ loot' = loot
  BY DEF Enqueue
<1>3. t \in 1 .. MaxTasks /\ enqueued \in Nat /\ enqueued < t
  BY <1>1, <1>2, GapFacts DEF Typed
<1>4. \A p \in Queues : /\ \A x \in Tasks(list[p]) : x \in Int /\ x < t /\ x <= t
                       /\ \A x \in Held(loot[p]) : x \in Int /\ x < t /\ x <= t
  <2> TAKE p \in Queues
  <2>1. /\ \A x \in Tasks(list[p]) : x \in Int /\ x <= enqueued
        /\ \A x \in Held(loot[p]) : x \in Int /\ x <= enqueued
    BY Numbers
  <2>2. \A x \in Int : x <= enqueued => x < t /\ x <= t
    BY <1>3
  <2> HIDE DEF t
  <2> QED BY <2>1, <2>2
<1> HIDE DEF t
<1>5. Good(l) /\ Tasks(l) = Tasks(list[q]) \cup {t}
  <2>1. Good(list[q])
    BY <1>1 DEF AllGood
  <2> QED BY <2>1, <1>3, <1>4, EnqueuedTasks
<1> HIDE DEF l
<1>6. /\ list' = [p \in Queues |-> list'[p]]
      /\ list'[q] = l /\ \A p \in Queues : p # q => list'[p] = list[p]
  BY <1>1, <1>2 DEF Typed
<1>7. Typed'
  BY <1>1, <1>2, <1>3, <1>6, GapFacts DEF Typed
<1>8. AllGood'
  BY <1>1, <1>2, <1>5, <1>6 DEF AllGood
<1>9. \A p \in Queues : t \notin Tasks(list[p]) /\ t \notin Held(loot[p])
  <2>1. ~ (t < t)
    BY <1>3
  <2> QED BY <2>1, <1>4
<1>10. AllEnqueued'
  <2> SUFFICES ASSUME NEW p \in Queues
               PROVE  /\ \A x \in Tasks(list'[p]) : x <= t
                      /\ \A x \in Held(loot[p]) : x <= t
    BY <1>2 DEF AllEnqueued
  <2>1. t <= t
    BY <1>3
  <2>2. Tasks(list'[p]) \in SUBSET (Tasks(list[p]) \cup {t})
    BY <1>5, <1>6
  <2> QED BY <2>1, <2>2, <1>4
<1>11. NoneTwice'
  <2> SUFFICES ASSUME NEW p \in Queues, NEW r \in Queues
               PROVE  /\ p # r => Tasks(list'[p]) \cap Tasks(list'[r]) = {}
                      /\ p # r => Held(loot[p]) \cap Held(loot[r]) = {}
                      /\ Held(loot[p]) \cap Tasks(list'[r]) = {}
    BY <1>2 DEF NoneTwice
  <2>1. /\ p # r => Tasks(list[p]) \cap Tasks(list[r]) = {}
        /\ p # r => Held(loot[p]) \cap Held(loot[r]) = {}
        /\ Held(loot[p]) \cap Tasks(list[r]) = {}
    BY <1>1 DEF NoneTwice
  <2>2. CASE p = q
    <3>1. Tasks(list'[p]) = Tasks(list[p]) \cup {t}
      BY <2>2, <1>5, <1>6
    <3>2. r # p => list'[r] = list[r]
      BY <2>2, <1>6
    <3> QED BY <3>1, <3>2, <2>1, <1>9
  <2>3. CASE r = q
    <3>1. Tasks(list'[r]) = Tasks(list[r]) \cup {t}
      BY <2>3, <1>5, <1>6
    <3>2. r # p => list'[p] = list[p]
      BY <2>3, <1>6
    <3> QED BY <3>1, <3>2, <2>1, <1>9
  <2>4. CASE p # q /\ r # q
    <3>1. list'[p] = list[p] /\ list'[r] = list[r]
      BY <2>4, <1>6
    <3> QED BY <3>1, <2>1
  <2> QED BY <2>2, <2>3, <2>4
<1>12. ThiefIsEmpty'
  <2> SUFFICES ASSUME NEW p \in Queues, loot[p] # NoList
               PROVE  list'[p][0].nodes = <<>>
    BY <1>2 DEF ThiefIsEmpty
  <2>1. p # q
    BY <1>2
  <2> QED BY <2>1, <1>1, <1>6 DEF ThiefIsEmpty
<1> QED BY <1>7, <1>8, <1>10, <1>11, <1>12 DEF SkipInv

(* dequeue(), *)
LEMMA DequeueKeeps ==
    ASSUME SkipInv, NEW q \in Queues, Dequeue(q)
    PROVE  SkipInv'
<1>1. /\ list[q][0].nodes # <<>> /\ list' = [list EXCEPT ![q] = Dequeued(list[q])]
      /\ UNCHANGED <<loot, enqueued>>
  BY DEF Dequeue
<1>2. Good(list[q])
  BY DEF SkipInv, AllGood
<1>3. Good(Dequeued(list[q])) /\ Tasks(Dequeued(list[q])) \in SUBSET Tasks(list[q])
  BY <1>1, <1>2, DequeuedTasks
<1> QED BY <1>1, <1>3, ListShrinks

(* dequeue_half() *)
LEMMA DequeueHalfKeeps ==
    ASSUME SkipInv, NEW thief \in Queues, NEW victim \in Queues, DequeueHalf(thief, victim)
    PROVE  SkipInv'
<1> DEFINE l == list[victim]
<1> DEFINE l1 == Halved(l)[1]
<1> DEFINE l2 == Halved(l)[2]
<1>1. Typed /\ AllGood /\ AllEnqueued /\ NoneTwice /\ ThiefIsEmpty
  BY DEF SkipInv
<1>2. /\ thief # victim /\ loot[thief] = NoList /\ list[thief][0].nodes = <<>> /\ l[0].nodes # <<>>
      /\ loot' = [loot EXCEPT ![thief] = l1] /\ list' = [list EXCEPT ![victim] = l2]
      /\ enqueued' = enqueued
  BY DEF DequeueHalf
<1>3. Good(l)
  BY <1>1 DEF AllGood
<1>4. /\ Good(l1) /\ Good(l2) /\ Tasks(l1) \in SUBSET Tasks(l) /\ Tasks(l2) \in SUBSET Tasks(l)
      /\ Tasks(l1) \cap Tasks(l2) = {}
  BY <1>2, <1>3, HalvedTasks
<1> HIDE DEF l1, l2
<1>5. /\ list' = [p \in Queues |-> list'[p]]
      /\ list'[victim] = l2 /\ \A p \in Queues : p # victim => list'[p] = list[p]
  BY <1>1, <1>2 DEF Typed
<1>6. /\ loot' = [p \in Queues |-> loot'[p]]
      /\ loot'[thief] = l1 /\ \A p \in Queues : p # thief => loot'[p] = loot[p]
  BY <1>1, <1>2 DEF Typed
<1>7. Typed'
  BY <1>1, <1>2, <1>5, <1>6 DEF Typed
<1>8. AllGood'
  BY <1>1, <1>4, <1>5, <1>6 DEF AllGood
<1>9. Held(l1) \in SUBSET Tasks(l1)
  BY DEF Held
<1>10. AllEnqueued'
  <2> SUFFICES ASSUME NEW p \in Queues
               PROVE  /\ \A t \in Tasks(list'[p]) : t <= enqueued
                      /\ \A t \in Held(loot'[p]) : t <= enqueued
    BY <1>2 DEF AllEnqueued
  <2>1. \A t \in Tasks(l) : t <= enqueued
    BY <1>1 DEF AllEnqueued
  <2>2. /\ \A t \in Tasks(list[p]) : t <= enqueued
        /\ \A t \in Held(loot[p]) : t <= enqueued
    BY <1>1 DEF AllEnqueued
  <2>3. list'[p] = list[p] \/ list'[p] = l2
    BY <1>5
  <2>4. loot'[p] = loot[p] \/ loot'[p] = l1
    BY <1>6
  <2>5. \A t \in Tasks(list'[p]) : t <= enqueued
    BY <2>1, <2>2, <2>3, <1>4
  <2>6. \A t \in Held(loot'[p]) : t <= enqueued
    BY <2>1, <2>2, <2>4, <1>4, <1>9
  <2> QED BY <2>5, <2>6
<1>11. NoneTwice'
  <2> SUFFICES ASSUME NEW p \in Queues, NEW r \in Queues
               PROVE  /\ p # r => Tasks(list'[p]) \cap Tasks(list'[r]) = {}
                      /\ p # r => Held(loot'[p]) \cap Held(loot'[r]) = {}
                      /\ Held(loot'[p]) \cap Tasks(list'[r]) = {}
    BY DEF NoneTwice
  <2>1. \A x, y \in Queues :
            /\ x # y => Tasks(list[x]) \cap Tasks(list[y]) = {}
            /\ x # y => Held(loot[x]) \cap Held(loot[y]) = {}
            /\ Held(loot[x]) \cap Tasks(list[y]) = {}
    BY <1>1 DEF NoneTwice
  <2>2. \A x \in Queues : Tasks(list'[x]) \in SUBSET Tasks(list[x])
    BY <1>4, <1>5
  <2>3. p # r => Tasks(list'[p]) \cap Tasks(list'[r]) = {}
    BY <2>1, <2>2
  <2>4. p # r => Held(loot'[p]) \cap Held(loot'[r]) = {}
    <3>1. CASE p = thief
      <4>1. p # r => Held(loot[r]) \cap Tasks(l) = {} /\ loot'[r] = loot[r]
        BY <3>1, <2>1, <1>6
      <4> QED BY <4>1, <3>1, <1>4, <1>6, <1>9
    <3>2. CASE r = thief
      <4>1. p # r => Held(loot[p]) \cap Tasks(l) = {} /\ loot'[p] = loot[p]
        BY <3>2, <2>1, <1>6
      <4> QED BY <4>1, <3>2, <1>4, <1>6, <1>9
    <3>3. CASE p # thief /\ r # thief
      BY <3>3, <2>1, <1>6
    <3> QED BY <3>1, <3>2, <3>3
  <2>5. Held(loot'[p]) \cap Tasks(list'[r]) = {}
    <3>1. CASE p # thief
      <4>1. loot'[p] = loot[p]
        BY <3>1, <1>6
      <4> QED BY <4>1, <2>1, <2>2
    <3>2. CASE p = thief /\ r # victim
      <4>1. Held(loot'[p]) \in SUBSET Tasks(l) /\ list'[r] = list[r]
        BY <3>2, <1>4, <1>5, <1>6, <1>9
      <4>2. Tasks(l) \cap Tasks(list[r]) = {}
        BY <3>2, <2>1
      <4> QED BY <4>1, <4>2
    <3>3. CASE p = thief /\ r = victim
      BY <3>3, <1>4, <1>5, <1>6, <1>9
    <3> QED BY <3>1, <3>2, <3>3
  <2> QED BY <2>3, <2>4, <2>5
<1>12. ThiefIsEmpty'
  <2> SUFFICES ASSUME NEW p \in Queues, loot'[p] # NoList
               PROVE  list'[p][0].nodes = <<>>
    BY DEF ThiefIsEmpty
  <2>1. CASE p = thief
    BY <2>1, <1>2, <1>5
  <2>2. CASE p # thief
    <3>1. loot[p] # NoList
      BY <2>2, <1>6
    <3>2. list[p][0].nodes = <<>>
      BY <3>1, <1>1 DEF ThiefIsEmpty
    <3>3. p # victim
      BY <3>2, <1>2
    <3> QED BY <3>2, <3>3, <1>5
  <2> QED BY <2>1, <2>2
<1> QED BY <1>7, <1>8, <1>10, <1>11, <1>12 DEF SkipInv

(* and replace(). *)
LEMMA ReplaceKeeps ==
    ASSUME SkipInv, NEW q \in Queues, Replace(q)
    PROVE  SkipInv'
<1> DEFINE l == loot[q]
<1>1. Typed /\ AllGood /\ AllEnqueued /\ NoneTwice /\ ThiefIsEmpty
  BY DEF SkipInv
<1>2. /\ l # NoList /\ list' = [list EXCEPT ![q] = l] /\ loot' = [loot EXCEPT ![q] = NoList]
      /\ enqueued' = enqueued
  BY DEF Replace
<1>3. Good(l) /\ Tasks(l) = Held(l)
  BY <1>1, <1>2 DEF AllGood, Held
<1>4. /\ list' = [p \in Queues |-> list'[p]]
      /\ list'[q] = l /\ \A p \in Queues : p # q => list'[p] = list[p]
  BY <1>1, <1>2 DEF Typed
<1>5. /\ loot' = [p \in Queues |-> loot'[p]]
      /\ loot'[q] = NoList /\ \A p \in Queues : p # q => loot'[p] = loot[p]
  BY <1>1, <1>2 DEF Typed
<1>6. Typed'
  BY <1>1, <1>2, <1>4, <1>5 DEF Typed
<1>7. AllGood'
  BY <1>1, <1>3, <1>4, <1>5 DEF AllGood
<1>8. Held(NoList) = {}
  BY DEF Held
<1>9. AllEnqueued'
  <2> SUFFICES ASSUME NEW p \in Queues
               PROVE  /\ \A t \in Tasks(list'[p]) : t <= enqueued
                      /\ \A t \in Held(loot'[p]) : t <= enqueued
    BY <1>2 DEF AllEnqueued
  <2>1. /\ \A t \in Tasks(list[p]) : t <= enqueued
        /\ \A t \in Held(loot[p]) : t <= enqueued
        /\ \A t \in Held(l) : t <= enqueued
    BY <1>1 DEF AllEnqueued
  <2>2. list'[p] = list[p] \/ list'[p] = l
    BY <1>4
  <2>3. loot'[p] = loot[p] \/ loot'[p] = NoList
    BY <1>5
  <2>4. \A t \in Tasks(list'[p]) : t <= enqueued
    BY <2>1, <2>2, <1>3
  <2>5. \A t \in Held(loot'[p]) : t <= enqueued
    BY <2>1, <2>3, <1>8
  <2> QED BY <2>4, <2>5
<1>10. NoneTwice'
  <2> SUFFICES ASSUME NEW p \in Queues, NEW r \in Queues
               PROVE  /\ p # r => Tasks(list'[p]) \cap Tasks(list'[r]) = {}
                      /\ p # r => Held(loot'[p]) \cap Held(loot'[r]) = {}
                      /\ Held(loot'[p]) \cap Tasks(list'[r]) = {}
    BY DEF NoneTwice
  <2>1. \A x, y \in Queues :
            /\ x # y => Tasks(list[x]) \cap Tasks(list[y]) = {}
            /\ x # y => Held(loot[x]) \cap Held(loot[y]) = {}
            /\ Held(loot[x]) \cap Tasks(list[y]) = {}
    BY <1>1 DEF NoneTwice
  <2>2. \A x \in Queues : Held(loot'[x]) \in SUBSET Held(loot[x])
    BY <1>5, <1>8
  <2>3. p # r => Tasks(list'[p]) \cap Tasks(list'[r]) = {}
    <3>1. CASE p = q
      <4>1. p # r => Held(l) \cap Tasks(list[r]) = {} /\ list'[r] = list[r]
        BY <3>1, <2>1, <1>4
      <4> QED BY <4>1, <3>1, <1>3, <1>4
    <3>2. CASE r = q
      <4>1. p # r => Held(l) \cap Tasks(list[p]) = {} /\ list'[p] = list[p]
        BY <3>2, <2>1, <1>4
      <4> QED BY <4>1, <3>2, <1>3, <1>4
    <3>3. CASE p # q /\ r # q
      BY <3>3, <2>1, <1>4
    <3> QED BY <3>1, <3>2, <3>3
  <2>4. p # r => Held(loot'[p]) \cap Held(loot'[r]) = {}
    BY <2>1, <2>2
  <2>5. Held(loot'[p]) \cap Tasks(list'[r]) = {}
    <3>1. CASE p = q
      BY <3>1, <1>5, <1>8
    <3>2. CASE p # q /\ r = q
      <4>1. loot'[p] = loot[p] /\ Tasks(list'[r]) = Held(loot[r])
        BY <3>2, <1>3, <1>4, <1>5
      <4> QED BY <4>1, <3>2, <2>1
    <3>3. CASE p # q /\ r # q
      BY <3>3, <2>1, <1>4, <1>5
    <3> QED BY <3>1, <3>2, <3>3
  <2> QED BY <2>3, <2>4, <2>5
<1>11. ThiefIsEmpty'
  <2> SUFFICES ASSUME NEW p \in Queues, loot'[p] # NoList
               PROVE  list'[p][0].nodes = <<>>
    BY DEF ThiefIsEmpty
  <2>1. p # q
    BY <1>5
  <2> QED BY <2>1, <1>1, <1>4, <1>5 DEF ThiefIsEmpty
<1> QED BY <1>6, <1>7, <1>9, <1>10, <1>11 DEF SkipInv

----------------------------------------------------------------------------

(* The invariant of the runnable_queues: every operation of Skiplist.hh keeps it. *)
THEOREM SkipInvariant == Spec => []SkipInv
<1>1. SkipInv /\ [Next]_vars => SkipInv'
  <2> SUFFICES ASSUME SkipInv, [Next]_vars
               PROVE  SkipInv'
    OBVIOUS
  <2>1. CASE UNCHANGED vars
    BY <2>1 DEF vars, SkipInv, Typed, AllGood, AllEnqueued, NoneTwice, ThiefIsEmpty
  <2>2. CASE Done
    BY <2>2 DEF Done, vars, SkipInv, Typed, AllGood, AllEnqueued, NoneTwice, ThiefIsEmpty
  <2> QED BY <2>1, <2>2, EnqueueKeeps, DequeueKeeps, DequeueHalfKeeps, ReplaceKeeps DEF Next
<1> QED BY <1>1, SkipInit, PTL DEF Spec

(* Every list that there is is good. *)
LEMMA ListsGood ==
    ASSUME SkipInv
    PROVE  \A l \in Lists : Good(l)
<1> SUFFICES ASSUME NEW l \in Lists
             PROVE  Good(l)
  OBVIOUS
<1>1. (\E q \in Queues : l = list[q]) \/ (\E q \in Queues : l = loot[q] /\ loot[q] # NoList)
  BY DEF Lists
<1> QED BY <1>1 DEF SkipInv, AllGood

(***************************************************************************)
(* The offsets from which dequeue_half() computes the cuts delimit the     *)
(* nodes that are there, at every level of every list, whatever was done   *)
(* before.                                                                 *)
(***************************************************************************)
THEOREM OffsetsCorrect == Spec => []OffsetsExact
<1>1. SkipInv => OffsetsExact
  <2> SUFFICES ASSUME SkipInv, NEW l \in Lists, NEW i \in Levels
               PROVE  l[i].head_off >= 0 /\ Size(l[i]) = Len(l[i].nodes)
    BY DEF OffsetsExact
  <2>1. Level(l[i], AnyNode[i])
    BY ListsGood, GoodFacts
  <2>2. l[i].head_off \in Nat /\ Size(l[i]) = Len(l[i].nodes)
    BY <2>1, LevelFacts
  <2> QED BY <2>2
<1> QED BY <1>1, SkipInvariant, PTL

(* The level below. *)
LEMMA LevelBelow ==
    ASSUME NEW i \in Levels, i # 0
    PROVE  i - 1 \in Levels /\ i - 1 # NLayers /\ (i - 1) + 1 = i
BY GapFacts DEF Levels

(***************************************************************************)
(* "invariant: every SkipNode is full" (Skiplist.hh:407), and every full   *)
(* group has its node, after any sequence of operations.                   *)
(***************************************************************************)
THEOREM NodesCorrect == Spec => []EveryNodeFull
<1>1. SkipInv => EveryNodeFull
  <2> SUFFICES ASSUME SkipInv, NEW l \in Lists, NEW i \in Levels, i # 0
               PROVE  l[i].nodes = GroupsOf(l[i - 1])
    BY DEF EveryNodeFull
  <2> DEFINE j == i - 1
  <2>1. j \in Levels /\ j # NLayers /\ j + 1 = i
    BY LevelBelow
  <2> HIDE DEF j
  <2>2. Fits(l[j], l[j + 1])
    BY <2>1, ListsGood, GoodFacts
  <2>3. l[j + 1].nodes = GroupsOf(l[j])
    BY <2>2 DEF Fits
  <2> QED BY <2>1, <2>3 DEF j
<1> QED BY <1>1, SkipInvariant, PTL

(***************************************************************************)
(* The candidate is the first node of the incomplete group at the tail, or *)
(* NULL, in every list and at every level that has one above it.           *)
(***************************************************************************)
THEOREM CandidatesCorrect == Spec => []CandidateRight
<1>1. SkipInv => CandidateRight
  <2> SUFFICES ASSUME SkipInv, NEW l \in Lists, NEW i \in Levels, i # NLayers
               PROVE  l[i].candidate = CandidateOf(l[i])
    BY DEF CandidateRight, CandidateOf
  <2>1. Fits(l[i], l[i + 1])
    BY ListsGood, GoodFacts
  <2> QED BY <2>1 DEF Fits
<1> QED BY <1>1, SkipInvariant, PTL

(* The tasks of a good list, as the property names them. *)
LEMMA TasksAreSet ==
    ASSUME NEW l, Good(l)
    PROVE  ToSet(l[0].nodes) = Tasks(l)
<1>1. 0 \in Levels
  BY GapFacts DEF Levels
<1>2. Level(l[0], AnyNode[0])
  BY <1>1, GoodFacts
<1>3. DOMAIN l[0].nodes = 1 .. Len(l[0].nodes)
  BY <1>2 DEF Level
<1> QED BY <1>3, Zenon DEF ToSet, Tasks

----------------------------------------------------------------------------
(* The share of the thief *)

(***************************************************************************)
(* Of n nodes a share of g is more than a third and less than three        *)
(* quarters, by the margin that a step down to the next level needs.       *)
(***************************************************************************)
IsFair(n, g) == n >= 2 /\ 3 * g >= n + 1 /\ 4 * g + 1 <= 3 * n

(* Half of at least two nodes is a fair share. *)
LEMMA HalfIsFair ==
    ASSUME NEW n \in Nat, n >= 2, NEW g \in Nat, n <= 2 * g, 2 * g <= n + 1
    PROVE  IsFair(n, g)
BY DEF IsFair

(* It is what the property asks for. *)
LEMMA FairMeans ==
    ASSUME NEW n \in Nat, NEW g \in Nat, IsFair(n, g)
    PROVE  3 * g >= n /\ 4 * g <= 3 * n
BY DEF IsFair

(***************************************************************************)
(* A fair share of a level's nodes stands for a fair share of the nodes    *)
(* below them, of which k more come before and r more after.               *)
(***************************************************************************)
LEMMA FairBelow ==
    ASSUME NEW n \in Nat, NEW g \in Nat, IsFair(n, g),
           NEW k \in 0 .. SkipGap - 1, NEW r \in 0 .. SkipGap - 1,
           NEW n1, n1 = GroupEnd(k, n) + r
    PROVE  IsFair(n1, GroupEnd(k, g)) /\ n1 >= 2 * SkipGap
<1>1. SkipGap \in Nat /\ SkipGap >= 2
  BY GapFacts
<1>2. 1 < n /\ n < 3 * g /\ 4 * g < 3 * n /\ 3 * g \in Int /\ 4 * g \in Int /\ 3 * n \in Int
  BY DEF IsFair
<1>3. /\ SkipGap * 1 + SkipGap <= SkipGap * n
      /\ SkipGap * n + SkipGap <= SkipGap * (3 * g)
      /\ SkipGap * (4 * g) + SkipGap <= SkipGap * (3 * n)
  BY <1>1, <1>2, Apart
<1> DEFINE x == SkipGap * g
<1> DEFINE y == SkipGap * n
<1>4. /\ SkipGap * (3 * g) = 3 * x /\ SkipGap * (4 * g) = 4 * x /\ SkipGap * (3 * n) = 3 * y
      /\ SkipGap * 1 = SkipGap /\ x \in Nat /\ y \in Nat
  BY <1>1
<1>5. n1 = k + y + r /\ GroupEnd(k, g) = k + x
  BY DEF GroupEnd
<1>6. 2 * SkipGap <= y /\ y + SkipGap <= 3 * x /\ 4 * x + SkipGap <= 3 * y
  BY <1>1, <1>3, <1>4
<1> HIDE DEF x, y
<1>7. k \in Nat /\ r \in Nat /\ k + 1 <= SkipGap /\ r + 1 <= SkipGap
  BY <1>1
<1>8. /\ k + y + r >= 2 * SkipGap /\ k + y + r >= 2
      /\ 3 * (k + x) >= k + y + r + 1 /\ 4 * (k + x) + 1 <= 3 * (k + y + r)
  BY <1>1, <1>4, <1>6, <1>7
<1> QED BY <1>5, <1>8 DEF IsFair

(* The number of nodes of a level, in terms of its shape. *)
LEMMA ShapeLength ==
    ASSUME NEW h, NEW n \in Nat, NEW k, NEW a, NEW m, Shape(h, n, k, a, m), m # 0
    PROVE  /\ k \in 0 .. SkipGap - 1
           /\ \E r \in 0 .. SkipGap - 1 : n = GroupEnd(k, m) + r
<1>1. SkipGap \in Nat
  BY GapFacts
<1>2. k \in 0 .. SkipGap - 1 /\ m \in Nat /\ k + SkipGap * m <= n /\ n < k + SkipGap * m + SkipGap
  BY DEF Shape
<1> DEFINE y == SkipGap * m
<1>3. y \in Nat /\ k + y <= n /\ n < k + y + SkipGap
  BY <1>1, <1>2
<1> HIDE DEF y
<1> DEFINE r == n - (k + y)
<1>4. r \in 0 .. SkipGap - 1 /\ n = k + y + r
  BY <1>1, <1>2, <1>3
<1> HIDE DEF r
<1>5. n = GroupEnd(k, m) + r
  BY <1>4 DEF GroupEnd, y
<1> QED BY <1>2, <1>4, <1>5

(* What a thief takes of a level, when there is more than one node. *)
FairAt(l, s, i) ==
    /\ IsFair(Len(l[i].nodes), GiveAway(l)[i])
    /\ i < s => Len(l[i].nodes) >= 2 * SkipGap

(* The nodes of a level, and those it gives away, from the numbers of the level above. *)
LEMMA StepDown ==
    ASSUME NEW l, Good(l), NEW i \in Levels, i # NLayers, NEW gu \in 1 .. Len(l[i + 1].nodes)
    PROVE  \E k \in 0 .. SkipGap - 1, r \in 0 .. SkipGap - 1 :
              /\ Below(l[i].head_off, gu) = GroupEnd(k, gu)
              /\ Len(l[i].nodes) = GroupEnd(k, Len(l[i + 1].nodes)) + r
<1>1. PICK k, a, m \in Nat : /\ Shape(l[i].head_off, Len(l[i].nodes), k, a, m)
                           /\ Len(l[i + 1].nodes) = m
  BY Picture
<1>2. Below(l[i].head_off, gu) = GroupEnd(k, gu)
  <2>1. Shape(l[i].head_off, Len(l[i].nodes), k, a, m)
    BY <1>1
  <2> QED BY <2>1, GiveAwayStep, ZenonT(60)
<1> DEFINE n == Len(l[i].nodes)
<1>3. n \in Nat
  BY LevelFacts DEF Good
<1>4. m # 0
  BY <1>1
<1> HIDE DEF n
<1>5. k \in 0 .. SkipGap - 1 /\ \E r \in 0 .. SkipGap - 1 : n = GroupEnd(k, m) + r
  BY <1>1, <1>3, <1>4, ShapeLength DEF n
<1> QED BY <1>1, <1>2, <1>5 DEF n

(* A fair share of the level above makes for a fair share of this one. *)
LEMMA FairStep ==
    ASSUME NEW l, Good(l), l[0].nodes # <<>>, NEW s, s = SplitLevel(l),
           NEW i \in 0 .. s, i < s, FairAt(l, s, i + 1)
    PROVE  FairAt(l, s, i)
<1>1. NLayers \in Nat /\ Levels = 0 .. NLayers /\ s \in Levels
  <2>1. s \in Levels
    BY SplitFacts
  <2> QED BY <2>1, GapFacts DEF Levels
<1>2. i \in Levels /\ i # NLayers /\ i \in 0 .. s /\ i + 1 \in 0 .. s /\ i + 1 \in Levels
  BY <1>1
<1> DEFINE gu == GiveAway(l)[i + 1]
<1> DEFINE n == Len(l[i].nodes)
<1> DEFINE nu == Len(l[i + 1].nodes)
<1>3. gu \in 1 .. Len(l[i + 1].nodes)
  BY <1>2, GiveAwayFacts
<1>4. nu \in Nat
  <2>1. Level(l[i + 1], AnyNode[i + 1])
    BY <1>2, GoodFacts
  <2> QED BY <2>1, LevelFacts
<1>5. GiveAway(l)[i] = Below(l[i].head_off, gu)
  BY <1>1, <1>2, GiveAwayDef DEF Below
<1>6. IsFair(nu, gu)
  BY DEF FairAt
<1> HIDE DEF gu
<1>7. PICK k \in 0 .. SkipGap - 1, r \in 0 .. SkipGap - 1 :
          /\ Below(l[i].head_off, gu) = GroupEnd(k, gu)
          /\ n = GroupEnd(k, nu) + r
  BY <1>2, <1>3, StepDown
<1>8. gu \in Nat
  BY <1>3, <1>4
<1> HIDE DEF n, nu
<1>9. IsFair(n, GroupEnd(k, gu)) /\ n >= 2 * SkipGap
  BY <1>4, <1>6, <1>7, <1>8, FairBelow
<1> QED BY <1>5, <1>7, <1>9 DEF FairAt, n

(* Down to the tasks. *)
LEMMA FairTasks ==
    ASSUME NEW l, Good(l), l[0].nodes # <<>>, NEW s \in Nat, s = SplitLevel(l), FairAt(l, s, s)
    PROVE  FairAt(l, s, 0)
<1> DEFINE S == {n \in Nat : n <= s => FairAt(l, s, s - n)}
<1>1. 0 \in S
  <2>1. s - 0 = s
    OBVIOUS
  <2> QED BY <2>1
<1>2. ASSUME NEW n \in Nat, n \in S
      PROVE  n + 1 \in S
  <2> SUFFICES ASSUME n + 1 <= s
               PROVE  FairAt(l, s, s - (n + 1))
    OBVIOUS
  <2> DEFINE i == s - (n + 1)
  <2>1. i \in 0 .. s /\ i < s /\ i + 1 = s - n /\ n <= s
    OBVIOUS
  <2>2. FairAt(l, s, s - n)
    BY <2>1, <1>2
  <2> HIDE DEF i
  <2>3. FairAt(l, s, i + 1)
    BY <2>1, <2>2
  <2>4. FairAt(l, s, i)
    BY <2>1, <2>3, FairStep
  <2> QED BY <2>4 DEF i
<1>3. \A n \in Nat : n \in S
  <2> HIDE DEF S
  <2> QED BY <1>1, <1>2, NatSetInduction
<1>4. s \in S /\ s <= s /\ s - s = 0
  BY <1>3
<1>5. FairAt(l, s, s - s)
  BY <1>4
<1> QED BY <1>4, <1>5

(***************************************************************************)
(* What dequeue_half() takes of n tasks: half of them when they are fewer  *)
(* than two groups, for then the list itself is the level that is split,   *)
(* and a fair share of them otherwise.                                     *)
(***************************************************************************)
LEMMA FairHalf ==
    ASSUME NEW l, Good(l), l[0].nodes # <<>>, NEW n, n = Len(l[0].nodes),
           NEW g, g = GiveAway(l)[0]
    PROVE  IF n < 2 * SkipGap THEN g = (n + 1) \div 2 ELSE 3 * g >= n /\ 4 * g <= 3 * n
<1> DEFINE s == SplitLevel(l)
<1>1. SkipGap \in Nat /\ SkipGap >= 2 /\ NLayers \in Nat /\ Levels = 0 .. NLayers
  BY GapFacts DEF Levels
<1>2. s \in Levels /\ s \in Nat /\ (s # 0 => Len(l[s].nodes) > 1) /\ l[s].nodes # <<>>
  <2>1. s \in Levels /\ (s # 0 => Len(l[s].nodes) > 1) /\ l[s].nodes # <<>>
    BY SplitFacts
  <2> QED BY <2>1, <1>1
<1>3. Level(l[s], AnyNode[s]) /\ Level(l[0], AnyNode[0])
  <2>1. 0 \in Levels
    BY <1>1
  <2> QED BY <2>1, <1>2, GoodFacts
<1>4. n \in Nat /\ Len(l[s].nodes) \in Nat /\ Len(l[s].nodes) > 0
  BY <1>2, <1>3, LevelFacts, TailFacts DEF Level
<1>5. GiveAway(l)[s] = Half(l[s])
  BY <1>2, GiveAwayDef
<1>6. g \in Nat
  <2>1. 0 \in 0 .. s
    BY <1>2
  <2>2. g \in 1 .. n
    BY <2>1, GiveAwayFacts
  <2> QED BY <2>2, <1>4
<1>7. ASSUME Len(l[s].nodes) >= 2
      PROVE  FairAt(l, s, 0)
  <2> DEFINE ns == Len(l[s].nodes)
  <2> DEFINE gs == Half(l[s])
  <2>1. gs \in 1 .. ns /\ ns <= 2 * gs /\ 2 * gs <= ns + 1 /\ ns \in Nat /\ ns >= 2
    BY <1>3, <1>4, <1>7, HalfFacts
  <2> HIDE DEF ns, gs
  <2>2. IsFair(ns, gs)
    BY <2>1, HalfIsFair
  <2>3. IsFair(Len(l[s].nodes), GiveAway(l)[s]) /\ ~ (s < s)
    BY <2>2, <1>2, <1>5 DEF ns, gs
  <2>4. FairAt(l, s, s)
    BY <2>3 DEF FairAt
  <2> HIDE DEF s
  <2>5. s \in Nat /\ s = SplitLevel(l)
    BY <1>2 DEF s
  <2> QED BY <2>4, <2>5, FairTasks
<1> HIDE DEF s
<1>8. CASE s = 0
  <2>1. g = (n + 1) \div 2
    BY <1>3, <1>5, <1>8, LevelFacts DEF Half
  <2>2. ASSUME ~ (n < 2 * SkipGap)
        PROVE  3 * g >= n /\ 4 * g <= 3 * n
    <3>1. n >= 2
      BY <2>2, <1>1, <1>4
    <3>2. IsFair(n, g)
      BY <3>1, <1>7, <1>8 DEF FairAt
    <3> QED BY <3>2, <1>4, <1>6, FairMeans
  <2> QED BY <2>1, <2>2
<1>9. CASE s # 0
  <2>1. Len(l[s].nodes) >= 2 /\ 0 < s
    BY <1>2, <1>4, <1>9
  <2>2. IsFair(n, g) /\ n >= 2 * SkipGap
    BY <2>1, <1>7 DEF FairAt
  <2>3. ~ (n < 2 * SkipGap)
    BY <2>2, <1>1, <1>4
  <2>4. 3 * g >= n /\ 4 * g <= 3 * n
    BY <2>2, <1>4, <1>6, FairMeans
  <2> QED BY <2>3, <2>4
<1> QED BY <1>8, <1>9

(* The two halves of the tasks, one after the other, are the tasks. *)
LEMMA DividedConcat ==
    ASSUME NEW S, NEW s \in Seq(S), NEW s1 \in Seq(S), NEW s2 \in Seq(S), NEW g,
           Divided(s, s1, s2, g)
    PROVE  s = s1 \o s2
<1>1. /\ Len(s) \in Nat /\ g \in 1 .. Len(s) /\ Len(s1) = g /\ Len(s2) = Len(s) - g
      /\ \A j \in 1 .. g : s1[j] = s[j]
      /\ \A j \in 1 .. Len(s) - g : s2[j] = s[g + j]
  BY DEF Divided
<1>2. /\ s1 \o s2 \in Seq(S) /\ Len(s1 \o s2) = Len(s)
      /\ \A j \in 1 .. Len(s) : (s1 \o s2)[j] = IF j <= g THEN s1[j] ELSE s2[j - g]
  <2>1. Len(s1) + Len(s2) = Len(s)
    BY <1>1
  <2>2. /\ s1 \o s2 \in Seq(S) /\ Len(s1 \o s2) = Len(s1) + Len(s2)
        /\ \A j \in 1 .. Len(s1) + Len(s2) :
              (s1 \o s2)[j] = IF j <= Len(s1) THEN s1[j] ELSE s2[j - Len(s1)]
    BY ConcatProperties
  <2>3. Len(s1) = g
    BY <1>1
  <2> QED BY <2>1, <2>2, <2>3, Zenon
<1>3. \A j \in 1 .. Len(s) : (s1 \o s2)[j] = s[j]
  <2> TAKE j \in 1 .. Len(s)
  <2>1. CASE j <= g
    BY <2>1, <1>1, <1>2
  <2>2. CASE ~ (j <= g)
    <3> DEFINE i == j - g
    <3>1. i \in 1 .. Len(s) - g /\ g + i = j
      BY <2>2, <1>1
    <3>2. (s1 \o s2)[j] = s2[i]
      BY <2>2, <1>2
    <3> HIDE DEF i
    <3> QED BY <3>1, <3>2, <1>1
  <2> QED BY <2>1, <2>2
<1> DEFINE t == s1 \o s2
<1>4. t \in Seq(S) /\ Len(t) = Len(s) /\ \A j \in 1 .. Len(s) : t[j] = s[j]
  BY <1>2, <1>3
<1> HIDE DEF t
<1>5. s = [j \in 1 .. Len(s) |-> s[j]] /\ t = [j \in 1 .. Len(t) |-> t[j]]
  BY <1>4, SeqIsFunction
<1>6. s = t
  BY <1>4, <1>5
<1> QED BY <1>6 DEF t

(***************************************************************************)
(* Work stealing is fair, however long the queue and however many layers   *)
(* it has: the thief gets the tasks at the head, at least one of them;     *)
(* half, rounded up, of fewer than 2 * SkipGap, and of more at least a     *)
(* third and at most three quarters, so that work is left to the victim.   *)
(***************************************************************************)
THEOREM FairShareCorrect == Spec => FairShare
<1> DEFINE Fair(q, v) ==
        LET all == list[v][0].nodes
            got == Len(loot'[q][0].nodes) IN
        /\ all = loot'[q][0].nodes \o list'[v][0].nodes
        /\ got \in 1 .. Len(all)
        /\ IF Len(all) < 2 * SkipGap THEN got = (Len(all) + 1) \div 2
           ELSE 3 * got >= Len(all) /\ 4 * got <= 3 * Len(all)
<1>1. ASSUME SkipInv, NEW q \in Queues, NEW v \in Queues, DequeueHalf(q, v)
      PROVE  Fair(q, v)
  <2> DEFINE l == list[v]
  <2> DEFINE l1 == Halved(l)[1]
  <2> DEFINE l2 == Halved(l)[2]
  <2> DEFINE g == GiveAway(l)[0]
  <2>1. Good(l) /\ l[0].nodes # <<>>
    BY <1>1 DEF SkipInv, AllGood, DequeueHalf
  <2>2. loot'[q] = l1 /\ list'[v] = l2
    BY <1>1 DEF SkipInv, Typed, DequeueHalf
  <2>3. Good(l1) /\ Good(l2) /\ Divided(l[0].nodes, l1[0].nodes, l2[0].nodes, g)
    BY <2>1, HalvedGood
  <2>4. IF Len(l[0].nodes) < 2 * SkipGap THEN g = (Len(l[0].nodes) + 1) \div 2
        ELSE 3 * g >= Len(l[0].nodes) /\ 4 * g <= 3 * Len(l[0].nodes)
    BY <2>1, FairHalf
  <2> HIDE DEF l, l1, l2, g
  <2>5. 0 \in Levels
    BY GapFacts DEF Levels
  <2>6. /\ l[0].nodes \in Seq(AnyNode[0]) /\ l1[0].nodes \in Seq(AnyNode[0])
        /\ l2[0].nodes \in Seq(AnyNode[0])
    BY <2>1, <2>3, <2>5, GoodFacts DEF Level
  <2>7. l[0].nodes = l1[0].nodes \o l2[0].nodes
    BY <2>3, <2>6, DividedConcat
  <2>8. Len(l1[0].nodes) = g /\ g \in 1 .. Len(l[0].nodes)
    BY <2>3 DEF Divided
  <2> QED BY <2>2, <2>4, <2>7, <2>8 DEF l
<1>2. ASSUME SkipInv, [Next]_vars, NEW q \in Queues, loot[q] = NoList, loot'[q] # NoList
      PROVE  \E v \in Queues : Fair(q, v)
  <2>1. ASSUME NEW p \in Queues, Replace(p)
        PROVE  FALSE
    BY <2>1, <1>2 DEF SkipInv, Typed, Replace
  <2>2. ASSUME NEW p \in Queues, Enqueue(p) \/ Dequeue(p)
        PROVE  FALSE
    BY <2>2, <1>2 DEF Enqueue, Dequeue
  <2>3. ASSUME NEW p \in Queues, NEW v \in Queues, DequeueHalf(p, v)
        PROVE  p = q
    BY <2>3, <1>2 DEF SkipInv, Typed, DequeueHalf
  <2>4. ~ UNCHANGED vars /\ ~ Done
    BY <1>2 DEF vars, Done
  <2>5. PICK v \in Queues : DequeueHalf(q, v)
    BY <2>1, <2>2, <2>3, <2>4, <1>2 DEF Next
  <2> QED BY <2>5, <1>1, <1>2
<1> HIDE DEF Fair
<1>3. SkipInv /\ [Next]_vars =>
        [\A q \in Queues : loot[q] = NoList /\ loot'[q] # NoList =>
            \E v \in Queues : Fair(q, v)]_vars
  BY <1>2
<1> USE DEF Fair
<1> QED BY <1>3, SkipInvariant, PTL DEF Spec, FairShare

----------------------------------------------------------------------------
(* The queues, as the threads see them *)

(* The two halves of the tasks are the front and the rest. *)
LEMMA DividedParts ==
    ASSUME NEW S, NEW s \in Seq(S), NEW s1 \in Seq(S), NEW s2 \in Seq(S), NEW g,
           Divided(s, s1, s2, g)
    PROVE  s1 = SubSeq(s, 1, g) /\ s2 = SubSeq(s, g + 1, Len(s))
<1> DEFINE n == Len(s)
<1> DEFINE t1 == SubSeq(s, 1, g)
<1> DEFINE t2 == SubSeq(s, g + 1, n)
<1>1. /\ n \in Nat /\ g \in 1 .. n /\ Len(s1) = g /\ Len(s2) = n - g
      /\ \A j \in 1 .. g : s1[j] = s[j]
      /\ \A j \in 1 .. n - g : s2[j] = s[g + j]
  BY DEF Divided
<1>2. /\ t1 \in Seq(S) /\ t2 \in Seq(S) /\ Len(t1) = g /\ Len(t2) = n - g
      /\ \A j \in 1 .. g : t1[j] = s[j]
      /\ \A j \in 1 .. n - g : t2[j] = s[g + j]
  BY <1>1, CutFacts
<1> HIDE DEF t1, t2
<1>3. s1 = [j \in 1 .. g |-> s1[j]] /\ t1 = [j \in 1 .. g |-> t1[j]]
  BY <1>1, <1>2, SeqIsFunction
<1>4. s2 = [j \in 1 .. n - g |-> s2[j]] /\ t2 = [j \in 1 .. n - g |-> t2[j]]
  BY <1>1, <1>2, SeqIsFunction
<1>5. s1 = t1
  BY <1>1, <1>2, <1>3
<1>6. s2 = t2
  BY <1>1, <1>2, <1>4
<1> QED BY <1>5, <1>6 DEF t1, t2

(* dequeue_half() gives a share that a thief may take, from the front. *)
LEMMA HalvedQueue ==
    ASSUME NEW l, Good(l), l[0].nodes # <<>>
    PROVE  \E k \in Q!Halves(Len(l[0].nodes)) :
              /\ Halved(l)[1][0].nodes = SubSeq(l[0].nodes, 1, k)
              /\ Halved(l)[2][0].nodes = SubSeq(l[0].nodes, k + 1, Len(l[0].nodes))
<1> DEFINE s == l[0].nodes
<1> DEFINE s1 == Halved(l)[1][0].nodes
<1> DEFINE s2 == Halved(l)[2][0].nodes
<1> DEFINE g == GiveAway(l)[0]
<1>1. Good(Halved(l)[1]) /\ Good(Halved(l)[2]) /\ Divided(s, s1, s2, g)
  BY HalvedGood
<1>2. s \in Seq(AnyNode[0]) /\ s1 \in Seq(AnyNode[0]) /\ s2 \in Seq(AnyNode[0])
  BY <1>1, NodeFacts, GoodFacts DEF Level
<1>3. IF Len(s) < 2 * SkipGap THEN g = (Len(s) + 1) \div 2
      ELSE 3 * g >= Len(s) /\ 4 * g <= 3 * Len(s)
  BY FairHalf
<1> HIDE DEF s, s1, s2, g
<1>4. s1 = SubSeq(s, 1, g) /\ s2 = SubSeq(s, g + 1, Len(s))
  BY <1>1, <1>2, DividedParts
<1>5. g \in Q!Halves(Len(s))
  BY <1>1, <1>3 DEF Divided, Q!Halves
<1> QED BY <1>4, <1>5 DEF s, s1, s2

(* What dequeue_half() returns is a Skiplist. *)
LEMMA HalvedIsList == \A l : Halved(l)[1] # NoList
<1> SUFFICES ASSUME NEW l
             PROVE  Halved(l)[1] # NoList
  OBVIOUS
<1>1. DOMAIN Halved(l)[1] = Levels
  BY DEF Halved
<1>2. DOMAIN NoList = {}
  BY DEF NoList
<1> QED BY <1>1, <1>2, NodeFacts

(* What the users of a queue see of it, and of what a thief has in hand. *)
Line(q) == list[q][0].nodes
Loot(q) == IF loot[q] = NoList THEN <<>> ELSE loot[q][0].nodes

Lines == [q \in Queues |-> Line(q)]
Loots == [q \in Queues |-> Loot(q)]

(* A step that changes one queue, *)
LEMMA OneLine ==
    ASSUME NEW q \in Queues, NEW s, Line(q)' = s, \A p \in Queues : p # q => Line(p)' = Line(p)
    PROVE  Lines' = [Lines EXCEPT ![q] = s]
BY DEF Lines

(* one that changes what one thief has, *)
LEMMA OneLoot ==
    ASSUME NEW q \in Queues, NEW s, Loot(q)' = s, \A p \in Queues : p # q => Loot(p)' = Loot(p)
    PROVE  Loots' = [Loots EXCEPT ![q] = s]
BY DEF Loots

(* and one that changes no theft. *)
LEMMA SameLoots == ASSUME UNCHANGED loot PROVE UNCHANGED Loots
BY DEF Loots, Loot

(* enqueue() of the next number, *)
LEMMA EnqueueLine ==
    ASSUME SkipInv, NEW q \in Queues, Enqueue(q)
    PROVE  \E t \in 1 .. MaxTasks : Q!Enqueue(q, t)
<1>0. PICK t : t = enqueued + 1
  OBVIOUS
<1>1. Typed /\ AllGood
  BY DEF SkipInv
<1>2. /\ enqueued < MaxTasks /\ loot[q] = NoList
      /\ list' = [list EXCEPT ![q] = Enqueued(list[q], t)] /\ loot' = loot
  BY <1>0 DEF Enqueue
<1>3. t \in 1 .. MaxTasks /\ t \in Int /\ \A x \in Int : x <= enqueued => x < t
  BY <1>0, <1>1, <1>2, GapFacts DEF Typed
<1>4. ASSUME NEW p \in Queues
      PROVE  /\ t \notin ToSet(Lines[p]) /\ t \notin ToSet(Loots[p])
             /\ \A x \in Tasks(list[p]) : x < t
  <2>1. /\ \A x \in Tasks(list[p]) : x \in Int /\ x < t
        /\ \A x \in Held(loot[p]) : x \in Int /\ x < t
    BY <1>3, Numbers
  <2>2. ~ (t < t)
    BY <1>3
  <2>3. ToSet(Lines[p]) = Tasks(list[p])
    BY <1>1, TasksAreSet DEF AllGood, Lines, Line
  <2>4. ToSet(Loots[p]) = Held(loot[p])
    <3>1. CASE loot[p] = NoList
      BY <3>1 DEF Loots, Loot, Held, ToSet
    <3>2. CASE loot[p] # NoList
      BY <3>2, <1>1, TasksAreSet DEF AllGood, Loots, Loot, Held
    <3> QED BY <3>1, <3>2
  <2> QED BY <2>1, <2>2, <2>3, <2>4
<1>5. Line(q)' = Append(Line(q), t)
  <2>1. Good(list[q]) /\ list'[q] = Enqueued(list[q], t)
    BY <1>1, <1>2 DEF AllGood, Typed
  <2>2. \A x \in 1 .. Len(list[q][0].nodes) : list[q][0].nodes[x] < t
    BY <1>4 DEF Tasks
  <2> QED BY <2>1, <2>2, <1>3, EnqueuedGood DEF Line
<1>6. \A p \in Queues : p # q => Line(p)' = Line(p)
  BY <1>1, <1>2 DEF Typed, Line
<1>7. Lines' = [Lines EXCEPT ![q] = Append(Lines[q], t)]
  BY <1>5, <1>6, OneLine DEF Lines
<1>8. UNCHANGED Loots /\ Loots[q] = <<>>
  BY <1>2, SameLoots DEF Loots, Loot
<1>9. Q!Nowhere(t)
  <2>1. \A p \in Queues : t \notin Q!ToSet(Lines[p]) \cup Q!ToSet(Loots[p])
    BY <1>4 DEF ToSet, Q!ToSet
  <2> QED BY <2>1 DEF Q!Nowhere, Lines, Loots, Line, Loot
<1>10. Q!Enqueue(q, t)
  BY <1>7, <1>8, <1>9 DEF Q!Enqueue, Lines, Loots, Line, Loot
<1> QED BY <1>3, <1>10

(* dequeue(), *)
LEMMA DequeueLine ==
    ASSUME SkipInv, NEW q \in Queues, Dequeue(q)
    PROVE  Q!Dequeue(q)
<1>1. Typed /\ AllGood
  BY DEF SkipInv
<1>2. /\ list[q][0].nodes # <<>> /\ loot' = loot
      /\ list' = [list EXCEPT ![q] = Dequeued(list[q])]
  BY DEF Dequeue
<1>3. Line(q)' = Tail(Line(q)) /\ Line(q) # <<>>
  <2>1. Good(list[q]) /\ list'[q] = Dequeued(list[q])
    BY <1>1, <1>2 DEF AllGood, Typed
  <2> QED BY <2>1, <1>2, DequeuedGood DEF Line
<1>4. \A p \in Queues : p # q => Line(p)' = Line(p)
  BY <1>1, <1>2 DEF Typed, Line
<1>5. Lines' = [Lines EXCEPT ![q] = Tail(Lines[q])] /\ Lines[q] # <<>>
  BY <1>3, <1>4, OneLine DEF Lines
<1>6. UNCHANGED Loots
  BY <1>2, SameLoots
<1> QED BY <1>5, <1>6 DEF Q!Dequeue, Lines, Loots, Line, Loot

(* dequeue_half(), *)
LEMMA DequeueHalfLine ==
    ASSUME SkipInv, NEW thief \in Queues, NEW victim \in Queues, DequeueHalf(thief, victim)
    PROVE  Q!DequeueHalf(thief, victim)
<1> DEFINE l == list[victim]
<1>1. Typed /\ AllGood
  BY DEF SkipInv
<1>2. /\ thief # victim /\ loot[thief] = NoList /\ list[thief][0].nodes = <<>> /\ l[0].nodes # <<>>
      /\ loot' = [loot EXCEPT ![thief] = Halved(l)[1]]
      /\ list' = [list EXCEPT ![victim] = Halved(l)[2]]
  BY DEF DequeueHalf
<1>3. PICK k \in Q!Halves(Len(l[0].nodes)) :
        /\ Halved(l)[1][0].nodes = SubSeq(l[0].nodes, 1, k)
        /\ Halved(l)[2][0].nodes = SubSeq(l[0].nodes, k + 1, Len(l[0].nodes))
  BY <1>1, <1>2, HalvedQueue DEF AllGood
<1>4. Line(victim)' = SubSeq(Line(victim), k + 1, Len(Line(victim)))
  BY <1>1, <1>2, <1>3 DEF Typed, Line
<1>5. \A p \in Queues : p # victim => Line(p)' = Line(p)
  BY <1>1, <1>2 DEF Typed, Line
<1>6. Loot(thief)' = SubSeq(Line(victim), 1, k)
  <2>1. loot'[thief] = Halved(l)[1]
    BY <1>1, <1>2 DEF Typed
  <2>2. Halved(l)[1] # NoList
    BY HalvedIsList
  <2> QED BY <2>1, <2>2, <1>3 DEF Loot, Line
<1>7. \A p \in Queues : p # thief => Loot(p)' = Loot(p)
  BY <1>1, <1>2 DEF Typed, Loot
<1>8. Lines' = [Lines EXCEPT ![victim] = SubSeq(Line(victim), k + 1, Len(Line(victim)))]
  BY <1>4, <1>5, OneLine
<1>9. Loots' = [Loots EXCEPT ![thief] = SubSeq(Line(victim), 1, k)]
  BY <1>6, <1>7, OneLoot
<1>10. /\ Lines[victim] = Line(victim) /\ Line(victim) # <<>> /\ k \in Q!Halves(Len(Line(victim)))
       /\ Lines[thief] = <<>> /\ Loots[thief] = <<>>
  BY <1>2, <1>3 DEF Lines, Loots, Line, Loot
<1> QED BY <1>2, <1>8, <1>9, <1>10 DEF Q!DequeueHalf, Lines, Loots, Line, Loot

(* and replace() are the operations of the same names on the queues. *)
LEMMA ReplaceLine ==
    ASSUME SkipInv, NEW q \in Queues, Replace(q)
    PROVE  Q!Replace(q) \/ UNCHANGED Q!vars
<1>1. Typed /\ ThiefIsEmpty
  BY DEF SkipInv
<1>2. /\ loot[q] # NoList
      /\ list' = [list EXCEPT ![q] = loot[q]] /\ loot' = [loot EXCEPT ![q] = NoList]
  BY DEF Replace
<1>3. Lines[q] = <<>> /\ Line(q)' = Loots[q]
  BY <1>1, <1>2 DEF Typed, ThiefIsEmpty, Lines, Loots, Line, Loot
<1>4. Loot(q)' = <<>>
  BY <1>1, <1>2 DEF Typed, Loot
<1>5. \A p \in Queues : p # q => Line(p)' = Line(p) /\ Loot(p)' = Loot(p)
  BY <1>1, <1>2 DEF Typed, Line, Loot
<1>6. Lines' = [Lines EXCEPT ![q] = Loots[q]] /\ Loots' = [Loots EXCEPT ![q] = <<>>]
  BY <1>3, <1>4, <1>5, OneLine, OneLoot
<1>7. CASE Loots[q] # <<>>
  BY <1>3, <1>6, <1>7 DEF Q!Replace, Lines, Loots, Line, Loot
<1>8. CASE Loots[q] = <<>>
  <2>1. Lines' = Lines /\ Loots' = Loots
    BY <1>3, <1>6, <1>8 DEF Lines, Loots
  <2> QED BY <2>1 DEF Q!vars, Lines, Loots, Line, Loot
<1> QED BY <1>7, <1>8

(***************************************************************************)
(* Skiplist.hh is a queue to those who use it: whatever layers there are,  *)
(* enqueue() puts a task at the end, dequeue() takes the first,            *)
(* dequeue_half() cuts off a fair share of the front, in its order, and    *)
(* replace() makes that share the queue of a thief who has nothing else.   *)
(* No task is lost, and none is in two queues or twice in one.             *)
(***************************************************************************)
THEOREM ImplementsQueues == Spec => QueuesSpec
<1>1. Init => Q!Init
  <2> SUFFICES ASSUME Init
               PROVE  Q!Init
    OBVIOUS
  <2>1. \A q \in Queues : Line(q) = <<>> /\ Loot(q) = <<>>
    BY EmptyGood DEF Init, Line, Loot
  <2>2. Lines = [q \in Queues |-> <<>>] /\ Loots = [q \in Queues |-> <<>>]
    BY <2>1 DEF Lines, Loots
  <2> QED BY <2>2 DEF Q!Init, Lines, Loots, Line, Loot
<1>2. SkipInv /\ [Next]_vars => [Q!Next]_(Q!vars)
  <2> SUFFICES ASSUME SkipInv, [Next]_vars
               PROVE  [Q!Next]_(Q!vars)
    OBVIOUS
  <2>1. ASSUME NEW q \in Queues, Enqueue(q)
        PROVE  Q!Next
    BY <2>1, EnqueueLine DEF Q!Next
  <2>2. ASSUME NEW q \in Queues, Dequeue(q)
        PROVE  Q!Next
    BY <2>2, DequeueLine DEF Q!Next
  <2>3. ASSUME NEW q \in Queues, Replace(q)
        PROVE  [Q!Next]_(Q!vars)
    BY <2>3, ReplaceLine DEF Q!Next
  <2>4. ASSUME NEW thief \in Queues, NEW victim \in Queues, DequeueHalf(thief, victim)
        PROVE  Q!Next
    BY <2>4, DequeueHalfLine DEF Q!Next
  <2>5. CASE UNCHANGED vars
    BY <2>5 DEF vars, Q!vars
  <2>6. CASE Done
    BY <2>6 DEF Done, vars, Q!vars
  <2> QED BY <2>1, <2>2, <2>3, <2>4, <2>5, <2>6 DEF Next
<1> QED BY <1>1, <1>2, SkipInvariant, PTL DEF Spec, QueuesSpec, Q!Spec
=============================================================================
