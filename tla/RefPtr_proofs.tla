---------------------------- MODULE RefPtr_proofs ----------------------------
(***************************************************************************)
(* Proofs about module RefPtr, for every finite set of pointer variables,  *)
(* every set of threads and every set of objects: the counters are exact,  *)
(* objects live as long as there are references to them, and the list has  *)
(* what was put into it.                                                   *)
(*                                                                         *)
(* The four parts of the invariant need each other.  That a counter does   *)
(* not go below zero, and that nobody has what is deleted, comes from      *)
(* RefExact; that a new object has no references from LiveExact; that the  *)
(* list gives up the reference of its first object from ListIntact.        *)
(***************************************************************************)
EXTENDS RefPtr, TLAPS, FiniteSetTheorems

(* The inductive invariant. *)
IInv == TypeOK /\ RefExact /\ LiveExact /\ ListIntact

(* What x counts for o, and the list. *)
One(x, o) == IF x = o THEN 1 ELSE 0

(* The reference of the list, of which an object can have one. *)
Listed(o) == IF o \in InList THEN 1 ELSE 0

----------------------------------------------------------------------------
(* Lemmas about the operators *)

(* Pointers that have an object are counted, and finitely many. *)
LEMMA HoldsCounted ==
  ASSUME NEW f, NEW o
  PROVE  /\ Cardinality(Holds(f, o)) \in Nat
         /\ \A p \in Ptrs : f[p] = o => Cardinality(Holds(f, o)) > 0
<1>1. IsFiniteSet(Holds(f, o))
  <2>1. Holds(f, o) \subseteq Ptrs
    BY DEF Holds
  <2>2. QED
    BY <2>1, FS_Subset, RefAssumption
<1>2. Cardinality(Holds(f, o)) \in Nat
  BY <1>1, FS_CardinalityType
<1>3. ASSUME NEW p \in Ptrs, f[p] = o PROVE Cardinality(Holds(f, o)) > 0
  <2>1. Holds(f, o) # {}
    BY <1>3 DEF Holds
  <2>2. Cardinality(Holds(f, o)) # 0
    BY <1>1, <2>1, FS_EmptySet
  <2>3. QED
    BY <1>2, <2>2
<1>4. QED
  BY <1>2, <1>3

(* An assignment to one pointer: what it had loses one, what it gets gains one. *)
LEMMA Assign ==
  \A f, g, o : \A d \in Ptrs :
    (\A p \in Ptrs : p = d \/ g[p] = f[p]) =>
      Cardinality(Holds(g, o)) = Cardinality(Holds(f, o)) - One(f[d], o) + One(g[d], o)
<1> SUFFICES ASSUME NEW f, NEW g, NEW o, NEW d \in Ptrs,
                    \A p \in Ptrs : p = d \/ g[p] = f[p]
             PROVE  Cardinality(Holds(g, o)) = Cardinality(Holds(f, o)) - One(f[d], o) + One(g[d], o)
  OBVIOUS
<1> DEFINE S == Holds(f, o) \ {d}
<1>1. IsFiniteSet(S) /\ d \notin S
  <2>1. S \subseteq Ptrs
    BY DEF Holds
  <2>2. QED
    BY <2>1, FS_Subset, RefAssumption
<1>2. Cardinality(S) \in Nat /\ Cardinality(S \cup {d}) = Cardinality(S) + 1
  BY <1>1, FS_CardinalityType, FS_AddElement
<1>3. Holds(f, o) = IF f[d] = o THEN S \cup {d} ELSE S
  BY DEF Holds
<1>4. Holds(g, o) = IF g[d] = o THEN S \cup {d} ELSE S
  BY DEF Holds
<1> HIDE DEF S
<1>5. Cardinality(Holds(f, o)) = Cardinality(S) + One(f[d], o)
  BY <1>2, <1>3 DEF One
<1>6. Cardinality(Holds(g, o)) = Cardinality(S) + One(g[d], o)
  BY <1>2, <1>4 DEF One
<1>7. One(f[d], o) \in Int /\ One(g[d], o) \in Int
  BY DEF One
<1>8. QED
  BY <1>2, <1>5, <1>6, <1>7

(* increase() and decrease(), object by object. *)
LEMMA Increased ==
  ASSUME TypeOK, NEW x \in Objects, Increase(x), NEW o \in Objects
  PROVE  /\ counter'[o] = counter[o] + One(x, o)
         /\ live' = live
BY DEF Increase, TypeOK, One

(* decrease() deletes the object when the count was 1. *)
LEMMA Decreased ==
  ASSUME TypeOK, NEW x \in Objects \cup {NULL}, Decrease(x), NEW o \in Objects
  PROVE  /\ counter'[o] = counter[o] - One(x, o)
         /\ o \in live' <=> o \in live /\ ~(x = o /\ counter[o] = 1)
<1>1. CASE x = NULL
  BY <1>1, RefAssumption DEF Decrease, TypeOK, One, countVars
<1>2. CASE x # NULL
  BY <1>2 DEF Decrease, TypeOK, One
<1>3. QED
  BY <1>1, <1>2

(* A step that leaves the list alone. *)
LEMMA ListSame ==
  ASSUME UNCHANGED listVars
  PROVE  InList' = InList
BY DEF listVars, InList

(* An object that joins the list, and the first one that leaves it. *)
LEMMA Joins ==
  ASSUME TypeOK, NEW x \in Objects, Link(x)
  PROVE  /\ content' \in Seq(Objects)
         /\ InList' = InList \cup {x}
<1>1. content \in Seq(Objects) /\ content' = Append(content, x)
  BY DEF TypeOK, Link
<1>2. /\ Len(content') = Len(content) + 1
      /\ \A i \in 1 .. Len(content) : content'[i] = content[i]
      /\ content'[Len(content) + 1] = x
      /\ Len(content) \in Nat
  BY <1>1
<1>3. QED
  BY <1>1, <1>2 DEF InList

(* dequeue() takes the first object and moves the others up. *)
LEMMA Leaves ==
  ASSUME TypeOK, ListIntact, head # NULL, content' = Tail(content)
  PROVE  /\ Len(content) > 0
         /\ head = content[1]
         /\ content' \in Seq(Objects)
         /\ Len(content') = Len(content) - 1
         /\ \A i \in 1 .. Len(content) - 1 : content'[i] = content[i + 1]
         /\ head \in InList
         /\ InList' = InList \ {head}
<1>1. content \in Seq(Objects) /\ Len(content) \in Nat
  BY DEF TypeOK
<1>2. Len(content) > 0 /\ head = content[1]
  BY <1>1 DEF ListIntact
<1>3. /\ content' \in Seq(Objects)
      /\ Len(content') = Len(content) - 1
      /\ \A i \in 1 .. Len(content) - 1 : content'[i] = content[i + 1]
  BY <1>1, <1>2
<1>4. \A i \in 1 .. Len(content) : content[i] = head => i = 1
  BY <1>1, <1>2 DEF ListIntact
<1>5. head \in InList
  BY <1>1, <1>2 DEF InList
<1>6. InList' = InList \ {head}
  <2>1. ASSUME NEW x \in InList' PROVE x \in InList \ {head}
    <3>1. PICK i \in 1 .. Len(content) - 1 : x = content[i + 1]
      BY <1>1, <1>2, <1>3 DEF InList
    <3>2. i + 1 \in 1 .. Len(content) /\ i + 1 # 1
      BY <1>1
    <3>3. QED
      BY <1>4, <3>1, <3>2 DEF InList
  <2>2. ASSUME NEW x \in InList \ {head} PROVE x \in InList'
    <3>1. PICK i \in 1 .. Len(content) : x = content[i]
      BY DEF InList
    <3>2. i - 1 \in 1 .. Len(content) - 1 /\ content'[i - 1] = content[(i - 1) + 1]
      <4>1. i # 1
        BY <1>2, <3>1
      <4>2. i - 1 \in 1 .. Len(content) - 1
        BY <1>1, <4>1
      <4>3. QED
        BY <1>3, <4>2
    <3>3. content'[i - 1] = x
      BY <1>1, <3>1, <3>2
    <3>4. QED
      BY <1>1, <1>3, <3>2, <3>3 DEF InList
  <2>3. QED
    BY <2>1, <2>2
<1>7. QED
  BY <1>2, <1>3, <1>5, <1>6

----------------------------------------------------------------------------
(* The counters *)

(***************************************************************************)
(* Every step changes the counter of an object by as much as the number of *)
(* its references.                                                         *)
(***************************************************************************)
LEMMA RefStep == IInv /\ [Next]_vars => RefExact'
<1> SUFFICES ASSUME IInv, [Next]_vars, NEW o \in Objects
             PROVE  counter'[o] = Cardinality(Holds(real_ptr', o)) + Cardinality(Holds(copying', o))
                                  + Listed(o)'
  BY DEF RefExact, Listed
<1> DEFINE R == Cardinality(Holds(real_ptr, o))
           C == Cardinality(Holds(copying, o))
           Rn == Cardinality(Holds(real_ptr', o))
           Cn == Cardinality(Holds(copying', o))
           Goal == counter'[o] = Rn + Cn + Listed(o)'
<1>0. /\ R \in Nat /\ C \in Nat
      /\ counter[o] = R + C + Listed(o)
      /\ Listed(o) \in {0, 1} /\ \A x : One(x, o) \in {0, 1}
  BY HoldsCounted DEF IInv, RefExact, One, Listed
<1>t. /\ TypeOK
      /\ real_ptr \in [Ptrs -> Objects \cup {NULL}]
      /\ copying \in [Ptrs -> Objects \cup {NULL}]
      /\ \A p \in Ptrs : real_ptr[p] \in Objects \cup {NULL} /\ copying[p] \in Objects \cup {NULL}
  BY DEF IInv, TypeOK
<1>r. ASSUME NEW d \in Ptrs, NEW v, real_ptr' = [real_ptr EXCEPT ![d] = v]
      PROVE  Rn = R - One(real_ptr[d], o) + One(v, o)
  <2>1. real_ptr'[d] = v /\ \A p \in Ptrs : p = d \/ real_ptr'[p] = real_ptr[p]
    BY <1>t, <1>r
  <2>2. Cardinality(Holds(real_ptr', o)) = Cardinality(Holds(real_ptr, o)) - One(real_ptr[d], o) + One(real_ptr'[d], o)
    BY <2>1, Assign
  <2>3. QED
    BY <2>1, <2>2
<1>c. ASSUME NEW d \in Ptrs, NEW v, copying' = [copying EXCEPT ![d] = v]
      PROVE  Cn = C - One(copying[d], o) + One(v, o)
  <2>1. copying'[d] = v /\ \A p \in Ptrs : p = d \/ copying'[p] = copying[p]
    BY <1>t, <1>c
  <2>2. Cardinality(Holds(copying', o)) = Cardinality(Holds(copying, o)) - One(copying[d], o) + One(copying'[d], o)
    BY <2>1, Assign
  <2>3. QED
    BY <2>1, <2>2
<1>s. /\ real_ptr' = real_ptr => Rn = R
      /\ copying' = copying => Cn = C
      /\ InList' = InList => Listed(o)' = Listed(o)
  BY DEF Listed
<1> HIDE DEF R, C, Rn, Cn
<1>1. ASSUME NEW d \in Ptrs, NEW x \in Objects, Make(d, x) PROVE Goal
  <2>1. real_ptr' = [real_ptr EXCEPT ![d] = x] /\ copying' = copying /\ InList' = InList
    BY <1>1 DEF Make, InList
  <2>2. counter' = [counter EXCEPT ![x] = 1] /\ real_ptr[d] = NULL /\ x \notin live
    BY <1>1 DEF Make
  <2>3. Rn = R - One(real_ptr[d], o) + One(x, o) /\ Cn = C
    BY <2>1, <1>r, <1>c, <1>s
  <2>4. One(real_ptr[d], o) = 0
    BY <2>2, RefAssumption DEF One
  <2>5. CASE x = o
    <3>1. counter[o] = 0
      BY <2>2, <2>5, <1>t DEF IInv, LiveExact, TypeOK
    <3>2. counter'[o] = 1
      BY <2>2, <2>5, <1>t DEF TypeOK
    <3>3. One(x, o) = 1
      BY <2>5 DEF One
    <3>4. QED
      BY <1>0, <1>s, <2>1, <2>3, <2>4, <3>1, <3>2, <3>3
  <2>6. CASE x # o
    <3>1. counter'[o] = counter[o] /\ One(x, o) = 0
      BY <2>2, <2>6, <1>t DEF TypeOK, One
    <3>2. QED
      BY <1>0, <1>s, <2>1, <2>3, <2>4, <3>1
  <2>7. QED
    BY <2>5, <2>6
<1>2. ASSUME NEW d \in Ptrs, NEW s \in Ptrs, CopyConstruct(d, s) PROVE Goal
  <2>1. /\ real_ptr' = [real_ptr EXCEPT ![d] = real_ptr[s]] /\ copying' = copying
        /\ InList' = InList /\ real_ptr[d] = NULL /\ real_ptr[s] \in Objects
    BY <1>2, <1>t, ListSame DEF CopyConstruct
  <2>2. counter'[o] = counter[o] + One(real_ptr[s], o)
    BY <1>2, <1>t, <2>1, Increased DEF CopyConstruct
  <2>3. Rn = R - One(real_ptr[d], o) + One(real_ptr[s], o) /\ Cn = C
    BY <2>1, <1>r, <1>c, <1>s
  <2>4. One(real_ptr[d], o) = 0
    BY <2>1, RefAssumption DEF One
  <2>5. QED
    BY <1>0, <1>s, <2>1, <2>2, <2>3, <2>4
<1>3. ASSUME NEW d \in Ptrs, NEW s \in Ptrs, CopyAssign(d, s) PROVE Goal
  <2>1. /\ copying' = [copying EXCEPT ![d] = real_ptr[s]] /\ real_ptr' = real_ptr
        /\ InList' = InList /\ copying[d] = NULL /\ real_ptr[s] \in Objects
    BY <1>3, <1>t, ListSame DEF CopyAssign, Together, Free
  <2>2. counter'[o] = counter[o] + One(real_ptr[s], o)
    BY <1>3, <1>t, <2>1, Increased DEF CopyAssign
  <2>3. Cn = C - One(copying[d], o) + One(real_ptr[s], o) /\ Rn = R
    BY <2>1, <1>r, <1>c, <1>s
  <2>4. One(copying[d], o) = 0
    BY <2>1, RefAssumption DEF One
  <2>5. QED
    BY <1>0, <1>s, <2>1, <2>2, <2>3, <2>4
<1>4. ASSUME NEW d \in Ptrs, CopyAssignEnd(d) PROVE Goal
  <2>1. /\ real_ptr' = [real_ptr EXCEPT ![d] = copying[d]]
        /\ copying' = [copying EXCEPT ![d] = NULL] /\ InList' = InList
    BY <1>4, ListSame DEF CopyAssignEnd
  <2>2. counter'[o] = counter[o] - One(real_ptr[d], o)
    BY <1>4, <1>t, Decreased DEF CopyAssignEnd
  <2>3. Rn = R - One(real_ptr[d], o) + One(copying[d], o)
    BY <2>1, <1>r
  <2>4. Cn = C - One(copying[d], o) + One(NULL, o)
    BY <2>1, <1>c
  <2>5. One(NULL, o) = 0
    BY RefAssumption DEF One
  <2>6. QED
    BY <1>0, <1>s, <2>1, <2>2, <2>3, <2>4, <2>5
<1>5. ASSUME NEW d \in Ptrs, NEW s \in Ptrs, Move(d, s) PROVE Goal
  <2> DEFINE f == [real_ptr EXCEPT ![d] = real_ptr[s]]
             F == Cardinality(Holds(f, o))
  <2>1. /\ f[d] = real_ptr[s] /\ f[s] = real_ptr[s]
        /\ \A p \in Ptrs : p = d \/ f[p] = real_ptr[p]
        /\ f \in [Ptrs -> Objects \cup {NULL}]
    BY <1>t
  <2>2. real_ptr' = [f EXCEPT ![s] = NULL] /\ copying' = copying /\ InList' = InList
    BY <1>5, <1>t, ListSame DEF Move
  <2> HIDE DEF f
  <2>3. counter'[o] = counter[o] - One(real_ptr[d], o)
    BY <1>5, <1>t, Decreased DEF Move
  <2>4. F = R - One(real_ptr[d], o) + One(real_ptr[s], o)
    <3>1. F = Cardinality(Holds(real_ptr, o)) - One(real_ptr[d], o) + One(f[d], o)
      BY <2>1, Assign
    <3>2. QED
      BY <2>1, <3>1 DEF R
  <2>5. Rn = F - One(f[s], o) + One(NULL, o) /\ Cn = C
    <3>1. real_ptr'[s] = NULL /\ \A p \in Ptrs : p = s \/ real_ptr'[p] = f[p]
      BY <2>1, <2>2
    <3>2. Cardinality(Holds(real_ptr', o)) = F - One(f[s], o) + One(real_ptr'[s], o)
      BY <3>1, Assign
    <3>3. QED
      BY <1>s, <2>2, <3>1, <3>2 DEF Rn
  <2>6. One(NULL, o) = 0
    BY RefAssumption DEF One
  <2> HIDE DEF F
  <2>7. QED
    BY <1>0, <1>s, <2>1, <2>2, <2>3, <2>4, <2>5, <2>6
<1>6. ASSUME NEW d \in Ptrs, Reset(d) PROVE Goal
  <2>1. real_ptr' = [real_ptr EXCEPT ![d] = NULL] /\ copying' = copying /\ InList' = InList
    BY <1>6, ListSame DEF Reset
  <2>2. counter'[o] = counter[o] - One(real_ptr[d], o)
    BY <1>6, <1>t, Decreased DEF Reset
  <2>3. Rn = R - One(real_ptr[d], o) + One(NULL, o) /\ Cn = C
    BY <2>1, <1>r, <1>c, <1>s
  <2>4. One(NULL, o) = 0
    BY RefAssumption DEF One
  <2>5. QED
    BY <1>0, <1>s, <2>1, <2>2, <2>3, <2>4
<1>7. ASSUME NEW s \in Ptrs, EnqueueCopy(s) PROVE Goal
  <2>1. /\ real_ptr[s] \in Objects /\ real_ptr[s] \notin InList
        /\ UNCHANGED <<real_ptr, copying>>
    BY <1>7, <1>t DEF EnqueueCopy, Enqueueable, ptrVars
  <2>2. InList' = InList \cup {real_ptr[s]}
    BY <1>7, <1>t, <2>1, Joins DEF EnqueueCopy
  <2>3. counter'[o] = counter[o] + One(real_ptr[s], o)
    BY <1>7, <1>t, <2>1, Increased DEF EnqueueCopy
  <2>4. Listed(o)' = Listed(o) + One(real_ptr[s], o)
    BY <2>1, <2>2 DEF One, Listed
  <2>5. QED
    BY <1>0, <1>s, <2>1, <2>3, <2>4 DEF R, C, Rn, Cn
<1>8. ASSUME NEW s \in Ptrs, EnqueueMove(s) PROVE Goal
  <2>1. /\ real_ptr[s] \in Objects /\ real_ptr[s] \notin InList
        /\ real_ptr' = [real_ptr EXCEPT ![s] = NULL] /\ copying' = copying
        /\ counter' = counter
    BY <1>8, <1>t DEF EnqueueMove, Enqueueable, countVars
  <2>2. InList' = InList \cup {real_ptr[s]}
    BY <1>8, <1>t, <2>1, Joins DEF EnqueueMove
  <2>3. Rn = R - One(real_ptr[s], o) + One(NULL, o) /\ Cn = C
    BY <2>1, <1>r, <1>c, <1>s
  <2>4. Listed(o)' = Listed(o) + One(real_ptr[s], o) /\ One(NULL, o) = 0
    BY <2>1, <2>2, RefAssumption DEF One, Listed
  <2>5. QED
    BY <1>0, <1>s, <2>1, <2>3, <2>4
<1>9. ASSUME NEW d \in Ptrs, Dequeue(d) PROVE Goal
  <2>1. /\ real_ptr' = [real_ptr EXCEPT ![d] = head] /\ copying' = copying
        /\ counter' = counter /\ real_ptr[d] = NULL
    BY <1>9 DEF Dequeue, countVars
  <2>2. head \in InList /\ InList' = InList \ {head}
    BY <1>9, <1>t, Leaves DEF Dequeue, IInv
  <2>3. Rn = R - One(real_ptr[d], o) + One(head, o) /\ Cn = C
    BY <2>1, <1>r, <1>c, <1>s
  <2>4. Listed(o)' = Listed(o) - One(head, o) /\ One(real_ptr[d], o) = 0
    BY <2>1, <2>2, RefAssumption DEF One, Listed
  <2>5. QED
    BY <1>0, <1>s, <2>1, <2>3, <2>4
<1>10. ASSUME UNCHANGED vars PROVE Goal
  <2>1. real_ptr' = real_ptr /\ copying' = copying /\ counter' = counter /\ InList' = InList
    BY <1>10 DEF vars, ptrVars, countVars, listVars, InList
  <2>2. QED
    BY <1>0, <1>s, <2>1
<1>11. QED
  BY <1>1, <1>2, <1>3, <1>4, <1>5, <1>6, <1>7, <1>8, <1>9, <1>10 DEF Next, Rn, Cn

(* Every step keeps the types: no counter goes below zero. *)
LEMMA TypeStep == IInv /\ [Next]_vars /\ RefExact' => TypeOK'
<1> SUFFICES ASSUME IInv, [Next]_vars, RefExact' PROVE TypeOK'
  OBVIOUS
<1> USE DEF TypeOK
<1>t. TypeOK
  BY DEF IInv
<1>n. \A o \in Objects : counter'[o] \in Nat
  <2>1. \A o \in Objects :
          counter'[o] = Cardinality(Holds(real_ptr', o)) + Cardinality(Holds(copying', o))
                        + (IF o \in InList' THEN 1 ELSE 0)
    BY DEF RefExact
  <2>2. \A o \in Objects : /\ Cardinality(Holds(real_ptr', o)) \in Nat
                           /\ Cardinality(Holds(copying', o)) \in Nat
    BY HoldsCounted
  <2>3. QED
    BY <2>1, <2>2
<1>d. ASSUME NEW x \in Objects \cup {NULL}, Decrease(x)
      PROVE  counter' \in [Objects -> Nat] /\ live' \in SUBSET Objects
  <2>1. CASE x = NULL
    BY <1>t, <1>d, <2>1 DEF Decrease, countVars
  <2>2. CASE x # NULL
    <3>1. /\ counter' = [counter EXCEPT ![x] = @ - 1]
          /\ live' = IF counter[x] = 1 THEN live \ {x} ELSE live
      BY <1>d, <2>2 DEF Decrease
    <3>2. QED
      BY <1>t, <1>n, <3>1
  <2>3. QED
    BY <2>1, <2>2
<1>i. ASSUME NEW x \in Objects, Increase(x)
      PROVE  counter' \in [Objects -> Nat] /\ live' \in SUBSET Objects
  BY <1>t, <1>i DEF Increase
<1>1. ASSUME NEW d \in Ptrs, NEW o \in Objects, Make(d, o) PROVE TypeOK'
  BY <1>t, <1>1 DEF Make
<1>2. ASSUME NEW d \in Ptrs, NEW s \in Ptrs, CopyConstruct(d, s) PROVE TypeOK'
  <2>1. real_ptr[s] \in Objects /\ Increase(real_ptr[s])
    BY <1>t, <1>2 DEF CopyConstruct
  <2>2. counter' \in [Objects -> Nat] /\ live' \in SUBSET Objects
    BY <1>i, <2>1
  <2>3. QED
    BY <1>t, <1>2, <2>2 DEF CopyConstruct, listVars
<1>3. ASSUME NEW d \in Ptrs, NEW s \in Ptrs, CopyAssign(d, s) PROVE TypeOK'
  <2>1. real_ptr[s] \in Objects /\ Increase(real_ptr[s])
    BY <1>t, <1>3 DEF CopyAssign
  <2>2. counter' \in [Objects -> Nat] /\ live' \in SUBSET Objects
    BY <1>i, <2>1
  <2>3. QED
    BY <1>t, <1>3, <2>2 DEF CopyAssign, listVars
<1>4. ASSUME NEW d \in Ptrs, CopyAssignEnd(d) PROVE TypeOK'
  <2>1. counter' \in [Objects -> Nat] /\ live' \in SUBSET Objects
    BY <1>t, <1>4, <1>d DEF CopyAssignEnd
  <2>2. QED
    BY <1>t, <1>4, <2>1 DEF CopyAssignEnd, listVars
<1>5. ASSUME NEW d \in Ptrs, NEW s \in Ptrs, Move(d, s) PROVE TypeOK'
  <2>1. counter' \in [Objects -> Nat] /\ live' \in SUBSET Objects
    BY <1>t, <1>5, <1>d DEF Move
  <2>2. QED
    BY <1>t, <1>5, <2>1 DEF Move, listVars
<1>6. ASSUME NEW d \in Ptrs, Reset(d) PROVE TypeOK'
  <2>1. counter' \in [Objects -> Nat] /\ live' \in SUBSET Objects
    BY <1>t, <1>6, <1>d DEF Reset
  <2>2. QED
    BY <1>t, <1>6, <2>1 DEF Reset, listVars
<1>7. ASSUME NEW s \in Ptrs, NEW x \in Objects, Link(x)
      PROVE  /\ next' \in [Objects -> Objects \cup {NULL}] /\ content' \in Seq(Objects)
             /\ head' \in Objects \cup {NULL} /\ tail' \in Objects \cup {NULL}
  BY <1>t, <1>7 DEF Link
<1>8. ASSUME NEW s \in Ptrs, EnqueueCopy(s) PROVE TypeOK'
  <2>1. real_ptr[s] \in Objects /\ Increase(real_ptr[s]) /\ Link(real_ptr[s])
    BY <1>t, <1>8 DEF EnqueueCopy, Enqueueable
  <2>2. counter' \in [Objects -> Nat] /\ live' \in SUBSET Objects
    BY <1>i, <2>1
  <2>3. QED
    BY <1>t, <1>7, <1>8, <2>1, <2>2 DEF EnqueueCopy, ptrVars
<1>9. ASSUME NEW s \in Ptrs, EnqueueMove(s) PROVE TypeOK'
  <2>1. real_ptr[s] \in Objects /\ Link(real_ptr[s])
    BY <1>t, <1>9 DEF EnqueueMove, Enqueueable
  <2>2. QED
    BY <1>t, <1>7, <1>9, <2>1 DEF EnqueueMove, countVars
<1>10. ASSUME NEW d \in Ptrs, Dequeue(d) PROVE TypeOK'
  <2>1. content' \in Seq(Objects)
    BY <1>t, <1>10, Leaves DEF Dequeue, IInv
  <2>2. QED
    BY <1>t, <1>10, <2>1 DEF Dequeue, countVars
<1>11. CASE UNCHANGED vars
  BY <1>t, <1>11 DEF vars, ptrVars, countVars, listVars
<1>12. QED
  BY <1>1, <1>2, <1>3, <1>4, <1>5, <1>6, <1>8, <1>9, <1>10, <1>11 DEF Next

(***************************************************************************)
(* An object lives as long as its counter is positive, and then, the       *)
(* counter being exact, whoever has a reference has an object that lives.  *)
(***************************************************************************)
LEMMA LiveStep == IInv /\ [Next]_vars /\ RefExact' /\ TypeOK' => LiveExact'
<1> SUFFICES ASSUME IInv, [Next]_vars, RefExact', TypeOK' PROVE LiveExact'
  OBVIOUS
<1>t. /\ TypeOK /\ live \subseteq Objects
      /\ \A p \in Ptrs : real_ptr[p] \in Objects \cup {NULL}
      /\ \A o \in Objects : counter[o] \in Nat /\ (o \in live <=> counter[o] > 0)
  BY DEF IInv, TypeOK, LiveExact
<1>h. \A p \in Ptrs, o \in Objects : real_ptr[p] = o => counter[o] > 0
  <2>1. \A p \in Ptrs : real_ptr[p] \in live \cup {NULL}
    BY DEF IInv, LiveExact
  <2>2. QED
    BY <1>t, <2>1, RefAssumption
<1>d. ASSUME NEW p \in Ptrs, Decrease(real_ptr[p]), NEW o \in Objects
      PROVE  o \in live' <=> counter'[o] > 0
  <2>1. /\ counter'[o] = counter[o] - One(real_ptr[p], o)
        /\ o \in live' <=> o \in live /\ ~(real_ptr[p] = o /\ counter[o] = 1)
    BY <1>t, <1>d, Decreased
  <2>2. CASE real_ptr[p] = o
    BY <1>t, <1>h, <2>1, <2>2 DEF One
  <2>3. CASE real_ptr[p] # o
    BY <1>t, <2>1, <2>3 DEF One
  <2>4. QED
    BY <2>2, <2>3
<1>i. ASSUME NEW p \in Ptrs, real_ptr[p] # NULL, Increase(real_ptr[p]), NEW o \in Objects
      PROVE  o \in live' <=> counter'[o] > 0
  <2>1. counter'[o] = counter[o] + One(real_ptr[p], o) /\ live' = live
    BY <1>t, <1>i, Increased
  <2>2. CASE real_ptr[p] = o
    BY <1>t, <1>h, <2>1, <2>2 DEF One
  <2>3. CASE real_ptr[p] # o
    BY <1>t, <2>1, <2>3 DEF One
  <2>4. QED
    BY <2>2, <2>3
<1>1. ASSUME NEW o \in Objects PROVE o \in live' <=> counter'[o] > 0
  <2>1. ASSUME NEW d \in Ptrs, NEW x \in Objects, Make(d, x) PROVE o \in live' <=> counter'[o] > 0
    BY <2>1, <1>t DEF Make, TypeOK
  <2>2. ASSUME NEW d \in Ptrs, NEW s \in Ptrs, CopyConstruct(d, s) \/ CopyAssign(d, s)
        PROVE  o \in live' <=> counter'[o] > 0
    BY <2>2, <1>i DEF CopyConstruct, CopyAssign
  <2>3. ASSUME NEW d \in Ptrs, CopyAssignEnd(d) \/ Reset(d) \/ \E s \in Ptrs : Move(d, s)
        PROVE  o \in live' <=> counter'[o] > 0
    BY <2>3, <1>d DEF CopyAssignEnd, Reset, Move
  <2>4. ASSUME NEW s \in Ptrs, EnqueueCopy(s) PROVE o \in live' <=> counter'[o] > 0
    BY <2>4, <1>i DEF EnqueueCopy, Enqueueable
  <2>5. ASSUME NEW s \in Ptrs, EnqueueMove(s) \/ Dequeue(s) PROVE o \in live' <=> counter'[o] > 0
    BY <2>5, <1>t DEF EnqueueMove, Dequeue, countVars
  <2>6. CASE UNCHANGED vars
    BY <2>6, <1>t DEF vars, countVars
  <2>7. QED
    BY <2>1, <2>2, <2>3, <2>4, <2>5, <2>6 DEF Next
<1>2. \A o \in Objects :
        counter'[o] = Cardinality(Holds(real_ptr', o)) + Cardinality(Holds(copying', o))
                      + (IF o \in InList' THEN 1 ELSE 0)
  BY DEF RefExact
<1>3. ASSUME NEW o \in Objects, \/ \E p \in Ptrs : real_ptr'[p] = o \/ copying'[p] = o
                                \/ o \in InList'
      PROVE  counter'[o] > 0
  <2>1. Cardinality(Holds(real_ptr', o)) \in Nat /\ Cardinality(Holds(copying', o)) \in Nat
    BY HoldsCounted
  <2>2. \A p \in Ptrs : /\ real_ptr'[p] = o => Cardinality(Holds(real_ptr', o)) > 0
                        /\ copying'[p] = o => Cardinality(Holds(copying', o)) > 0
    BY HoldsCounted
  <2>3. QED
    BY <1>2, <1>3, <2>1, <2>2
<1>4. InList' \subseteq Objects
  <2>1. content' \in Seq(Objects)
    BY DEF TypeOK
  <2>2. QED
    BY <2>1 DEF InList
<1>5. \A p \in Ptrs : real_ptr'[p] \in Objects \cup {NULL} /\ copying'[p] \in Objects \cup {NULL}
  BY DEF TypeOK
<1>6. QED
  BY <1>1, <1>3, <1>4, <1>5 DEF LiveExact

----------------------------------------------------------------------------
(* The list *)

(* A step that leaves the list and next of its objects alone. *)
LEMMA ListKept ==
  ASSUME ListIntact, TypeOK, head' = head, tail' = tail, content' = content,
         \A o \in InList : next'[o] = next[o]
  PROVE  ListIntact'
<1>1. \A i \in 1 .. Len(content) : next'[content[i]] = next[content[i]]
  BY DEF InList
<1>2. QED
  BY <1>1 DEF ListIntact

(* The list stays what was put into it and not taken out, in that order. *)
LEMMA ListStep == IInv /\ [Next]_vars => ListIntact'
<1> SUFFICES ASSUME IInv, [Next]_vars PROVE ListIntact'
  OBVIOUS
<1>t. /\ TypeOK /\ ListIntact
      /\ content \in Seq(Objects) /\ Len(content) \in Nat
      /\ next \in [Objects -> Objects \cup {NULL}]
      /\ \A i \in 1 .. Len(content) : content[i] \in Objects
  BY DEF IInv, TypeOK
<1>1. ASSUME NEW d \in Ptrs, NEW x \in Objects, Make(d, x) PROVE ListIntact'
  <2>1. x \notin InList
    BY <1>1 DEF Make, IInv, LiveExact
  <2>2. \A o \in InList : next'[o] = next[o]
    <3>1. InList \subseteq Objects
      BY <1>t DEF InList
    <3>2. QED
      BY <1>1, <1>t, <2>1, <3>1 DEF Make
  <2>3. QED
    BY <1>1, <1>t, <2>2, ListKept DEF Make
<1>2. ASSUME NEW x \in Objects, x \notin InList, Link(x) PROVE ListIntact'
  <2> DEFINE n == Len(content)
  <2>1. /\ Len(content') = n + 1
        /\ content'[n + 1] = x /\ tail' = x
        /\ \A i \in 1 .. n : content'[i] = content[i]
    BY <1>2, <1>t DEF Link
  <2>2. \A i \in 1 .. n : content[i] # x
    BY <1>2, <1>t DEF InList
  <2>3. head' = content'[1]
    BY <1>2, <1>t, <2>1, RefAssumption DEF Link, ListIntact
  <2>4. next'[x] = NULL
    <3>1. CASE head = NULL
      BY <1>2, <1>t, <3>1 DEF Link
    <3>2. CASE head # NULL
      <4>1. next' = [next EXCEPT ![tail] = x, ![x] = NULL]
        BY <1>2, <3>2 DEF Link
      <4>2. QED
        BY <4>1, <1>t, <1>2
    <3>3. QED
      BY <3>1, <3>2
  <2>5. ASSUME NEW i \in 1 .. n
        PROVE  next'[content[i]] = IF i < n THEN content[i + 1] ELSE x
    <3>1. n > 0 /\ head = content[1] /\ head # NULL /\ tail = content[n]
      BY <1>t, RefAssumption DEF ListIntact
    <3>2. next' = [next EXCEPT ![tail] = x, ![x] = NULL] /\ content[i] # x /\ tail # x
      BY <1>2, <1>t, <2>2, <3>1 DEF Link
    <3>3. next'[content[i]] = IF content[i] = tail THEN x ELSE next[content[i]]
      BY <1>t, <3>2
    <3>4. content[i] = tail <=> i = n
      BY <1>t, <3>1 DEF ListIntact
    <3>5. next[content[i]] = IF i < n THEN content[i + 1] ELSE NULL
      BY <1>t DEF ListIntact
    <3>6. QED
      BY <3>3, <3>4, <3>5
  <2>6. ASSUME NEW i \in 1 .. n + 1
        PROVE  next'[content'[i]] = IF i < n + 1 THEN content'[i + 1] ELSE NULL
    <3>1. CASE i = n + 1
      BY <1>t, <2>1, <2>4, <3>1
    <3>2. CASE i \in 1 .. n
      <4>1. content'[i] = content[i] /\ i < n + 1
        BY <1>t, <2>1, <3>2
      <4>2. content'[i + 1] = IF i < n THEN content[i + 1] ELSE x
        <5>1. CASE i < n
          <6>1. i + 1 \in 1 .. n
            BY <1>t, <3>2, <5>1
          <6>2. QED
            BY <2>1, <5>1, <6>1
        <5>2. CASE ~(i < n)
          <6>1. i = n
            BY <1>t, <3>2, <5>2
          <6>2. QED
            BY <2>1, <5>2, <6>1
        <5>3. QED
          BY <5>1, <5>2
      <4>3. QED
        BY <2>5, <3>2, <4>1, <4>2
    <3>3. QED
      BY <1>t, <3>1, <3>2
  <2>7. ASSUME NEW i \in 1 .. n + 1, NEW j \in 1 .. n + 1, content'[i] = content'[j]
        PROVE  i = j
    <3>1. \A k, m \in 1 .. n : content[k] = content[m] => k = m
      BY <1>t DEF ListIntact
    <3>2. QED
      BY <1>t, <2>1, <2>2, <2>7, <3>1
  <2>8. QED
    BY <1>t, <2>1, <2>3, <2>6, <2>7 DEF ListIntact
<1>3. ASSUME NEW s \in Ptrs, EnqueueCopy(s) \/ EnqueueMove(s) PROVE ListIntact'
  <2>1. /\ real_ptr[s] \in Objects /\ real_ptr[s] \notin InList /\ Link(real_ptr[s])
    BY <1>3, <1>t DEF EnqueueCopy, EnqueueMove, Enqueueable, TypeOK
  <2>2. QED
    BY <1>2, <2>1
<1>4. ASSUME NEW d \in Ptrs, Dequeue(d) PROVE ListIntact'
  <2> DEFINE n == Len(content)
  <2>1. /\ n > 0 /\ head = content[1] /\ Len(content') = n - 1
        /\ \A i \in 1 .. n - 1 : content'[i] = content[i + 1]
    BY <1>4, <1>t, Leaves DEF Dequeue
  <2>2. /\ head' = next[head] /\ tail' = tail
        /\ \A o \in Objects : o # head => next'[o] = next[o]
    BY <1>4, <1>t DEF Dequeue
  <2>3. /\ tail = content[n]
        /\ \A i \in 1 .. n : next[content[i]] = IF i < n THEN content[i + 1] ELSE NULL
        /\ \A i, j \in 1 .. n : content[i] = content[j] => i = j
    BY <1>t, <2>1 DEF ListIntact
  <2>4. head' = IF n - 1 = 0 THEN NULL ELSE content'[1]
    <3>1. head' = IF 1 < n THEN content[1 + 1] ELSE NULL
      BY <1>t, <2>1, <2>2, <2>3
    <3>2. n - 1 # 0 => content'[1] = content[1 + 1]
      BY <1>t, <2>1
    <3>3. QED
      BY <1>t, <2>1, <3>1, <3>2, SMTT(60)
  <2>5. n - 1 > 0 => tail' = content'[n - 1]
    <3>1. n - 1 > 0 => content'[n - 1] = content[(n - 1) + 1]
      BY <1>t, <2>1
    <3>2. QED
      BY <1>t, <2>2, <2>3, <3>1
  <2>6. ASSUME NEW i \in 1 .. n - 1
        PROVE  /\ next'[content'[i]] = IF i < n - 1 THEN content'[i + 1] ELSE NULL
               /\ \A j \in 1 .. n - 1 : content'[i] = content'[j] => i = j
    <3>1. i + 1 \in 1 .. n /\ content'[i] = content[i + 1] /\ content[i + 1] # head
      <4>1. i + 1 \in 1 .. n /\ 1 \in 1 .. n /\ i + 1 # 1
        BY <1>t, <2>1
      <4>2. QED
        BY <2>1, <2>3, <4>1
    <3>2. next'[content'[i]] = IF i + 1 < n THEN content[(i + 1) + 1] ELSE NULL
      BY <1>t, <2>2, <2>3, <3>1
    <3>3. i < n - 1 => content'[i + 1] = content[(i + 1) + 1]
      <4>1. i < n - 1 => i + 1 \in 1 .. n - 1
        BY <1>t
      <4>2. QED
        BY <2>1, <4>1
    <3>4. \A j \in 1 .. n - 1 : content'[i] = content'[j] => i = j
      <4>1. \A j \in 1 .. n - 1 : j + 1 \in 1 .. n /\ content'[j] = content[j + 1]
        BY <1>t, <2>1
      <4>2. QED
        BY <1>t, <2>3, <3>1, <4>1
    <3>5. QED
      BY <1>t, <3>2, <3>3, <3>4
  <2>7. QED
    BY <1>t, <2>1, <2>4, <2>5, <2>6 DEF ListIntact
<1>5. ASSUME UNCHANGED listVars PROVE ListIntact'
  BY <1>5, <1>t, ListKept DEF listVars
<1>6. QED
  BY <1>1, <1>3, <1>4, <1>5 DEF Next, CopyConstruct, CopyAssign, CopyAssignEnd, Move, Reset, vars

----------------------------------------------------------------------------

(* The four parts hold together in every reachable state. *)
THEOREM Invariant == Spec => []IInv
<1>1. Init => IInv
  <2> SUFFICES ASSUME Init PROVE IInv
    OBVIOUS
  <2>1. TypeOK
    <3>1. content \in Seq(Objects)
      BY DEF Init
    <3>2. /\ real_ptr \in [Ptrs -> Objects \cup {NULL}]
          /\ copying \in [Ptrs -> Objects \cup {NULL}]
          /\ next \in [Objects -> Objects \cup {NULL}]
          /\ counter \in [Objects -> Nat]
      BY DEF Init
    <3>3. QED
      BY <3>1, <3>2 DEF Init, TypeOK
  <2>2. \A o \in Objects : Holds(real_ptr, o) = {} /\ Holds(copying, o) = {}
    BY RefAssumption DEF Init, Holds
  <2>3. InList = {}
    BY DEF Init, InList
  <2>4. Cardinality({}) = 0
    BY FS_EmptySet
  <2>5. RefExact
    <3> SUFFICES ASSUME NEW o \in Objects
                 PROVE  counter[o] = Cardinality(Holds(real_ptr, o)) + Cardinality(Holds(copying, o))
                                     + (IF o \in InList THEN 1 ELSE 0)
      BY DEF RefExact
    <3>1. Cardinality(Holds(real_ptr, o)) = 0 /\ Cardinality(Holds(copying, o)) = 0
      BY <2>2, <2>4
    <3>2. counter[o] = 0 /\ o \notin InList
      BY <2>3 DEF Init
    <3>3. QED
      BY <3>1, <3>2
  <2>6. LiveExact
    BY <2>3 DEF Init, LiveExact
  <2>7. ListIntact
    BY DEF Init, ListIntact
  <2>8. QED
    BY <2>1, <2>5, <2>6, <2>7 DEF IInv
<1>2. IInv /\ [Next]_vars => IInv'
  BY RefStep, TypeStep, LiveStep, ListStep DEF IInv
<1>3. QED
  BY <1>1, <1>2, PTL DEF Spec

(* Every reachable state is well typed: in particular no counter is negative. *)
THEOREM TypeCorrect == Spec => []TypeOK
<1>1. IInv => TypeOK
  BY DEF IInv
<1>2. QED
  BY <1>1, Invariant, PTL

(* The counter of an object is the number of references to it. *)
THEOREM RefCorrect == Spec => []RefExact
<1>1. IInv => RefExact
  BY DEF IInv
<1>2. QED
  BY <1>1, Invariant, PTL

(* No object is deleted that somebody refers to, and none is forgotten. *)
THEOREM LiveCorrect == Spec => []LiveExact
<1>1. IInv => LiveExact
  BY DEF IInv
<1>2. QED
  BY <1>1, Invariant, PTL

(* The list through the objects is the queue of what was enqueued. *)
THEOREM ListCorrect == Spec => []ListIntact
<1>1. IInv => ListIntact
  BY DEF IInv
<1>2. QED
  BY <1>1, Invariant, PTL
=============================================================================
