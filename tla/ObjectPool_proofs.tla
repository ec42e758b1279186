-------------------------- MODULE ObjectPool_proofs --------------------------
(***************************************************************************)
(* Proofs about the pools: the free lists and the caches hold every entry  *)
(* exactly once, the counters count, layers are a stack that is never      *)
(* freed under an object, and the pools implement an allocator.            *)
(*                                                                         *)
(* The induction principles of the library take an operator; the one used  *)
(* here is about a set, and follows from the fact that < is well-founded   *)
(* on the natural numbers.                                                 *)
(***************************************************************************)
EXTENDS ObjectPool, FiniteSetTheorems, WellFoundedInduction, TLAPS

----------------------------------------------------------------------------
(* Induction and powers *)

(* A nonempty set of natural numbers has a least element. *)
LEMMA LeastNumber ==
    ASSUME NEW S \in SUBSET Nat, S # {}
    PROVE  \E n \in S : \A m \in S : n <= m
<1>1. PICK n \in S : \A y \in S : ~ (<<y, n>> \in OpToRel(<, Nat))
  BY NatLessThanWellFounded, WFMin
<1>2. \A y \in S : ~ (<<y, n>> \in {p \in Nat \X Nat : p[1] < p[2]})
  BY <1>1, Zenon DEF OpToRel
<1>3. n \in Nat
  OBVIOUS
<1>4. ASSUME NEW y \in S
      PROVE  n <= y
  <2>1. y \in Nat
    OBVIOUS
  <2>2. ~ (<<y, n>> \in {p \in Nat \X Nat : p[1] < p[2]})
    BY <1>2
  <2> QED BY <2>1, <2>2, <1>3
<1> QED BY <1>4

(* A set that has 0, and n + 1 with every n, has all the natural numbers. *)
LEMMA NatSetInduction ==
    ASSUME NEW S, 0 \in S, \A n \in Nat : n \in S => n + 1 \in S
    PROVE  \A n \in Nat : n \in S
<1> SUFFICES ASSUME Nat \ S # {}
             PROVE  FALSE
  OBVIOUS
<1>1. PICK n \in Nat \ S : \A m \in Nat \ S : n <= m
  BY LeastNumber
<1>2. n # 0 /\ n \in Nat
  BY <1>1
<1>3. n - 1 \in Nat /\ n = (n - 1) + 1 /\ ~ (n <= n - 1)
  BY <1>2
<1>4. n - 1 \in S
  BY <1>1, <1>3
<1> QED BY <1>1, <1>3, <1>4

(* Two solutions of the equation of Power agree as far as both go. *)
PowerUpto(n, f) ==
    f = [k \in 0 .. n |-> IF k = 0 THEN 1 ELSE EnlargeRate * f[k - 1]]

(* They agree at every exponent. *)
LEMMA PowerAgree ==
    ASSUME NEW n \in Nat, NEW m \in Nat, NEW f, NEW g, PowerUpto(n, f), PowerUpto(m, g)
    PROVE  \A k \in Nat : k <= n /\ k <= m => f[k] = g[k]
<1> DEFINE S == {k \in Nat : k <= n /\ k <= m => f[k] = g[k]}
<1>1. f = [k \in 0 .. n |-> IF k = 0 THEN 1 ELSE EnlargeRate * f[k - 1]]
  BY DEF PowerUpto
<1>2. g = [k \in 0 .. m |-> IF k = 0 THEN 1 ELSE EnlargeRate * g[k - 1]]
  BY DEF PowerUpto
<1>3. f[0] = 1 /\ g[0] = 1
  BY <1>1, <1>2
<1>4. 0 \in S
  BY <1>3
<1>5. ASSUME NEW k \in Nat, k \in S
      PROVE  k + 1 \in S
  <2> SUFFICES ASSUME k + 1 <= n, k + 1 <= m
               PROVE  f[k + 1] = g[k + 1]
    BY <1>5
  <2>1. f[k] = g[k]
    BY <1>5
  <2>2. k + 1 \in 0 .. n /\ k + 1 \in 0 .. m /\ k + 1 # 0 /\ (k + 1) - 1 = k
    OBVIOUS
  <2>3. f[k + 1] = EnlargeRate * f[k]
    BY <1>1, <2>2
  <2>4. g[k + 1] = EnlargeRate * g[k]
    BY <1>2, <2>2
  <2> QED BY <2>1, <2>3, <2>4
<1>6. \A k \in Nat : k \in S
  <2> HIDE DEF S
  <2> QED BY <1>4, <1>5, NatSetInduction
<1> QED BY <1>6

(* There is a solution as far as one likes. *)
LEMMA PowerExists == \A n \in Nat : \E f : PowerUpto(n, f)
<1> DEFINE S == {n \in Nat : \E f : PowerUpto(n, f)}
<1>1. 0 \in S
  <2> DEFINE f == [k \in 0 .. 0 |-> 1]
  <2>1. PowerUpto(0, f)
    BY DEF PowerUpto
  <2> QED BY <2>1
<1>2. ASSUME NEW n \in Nat, n \in S
      PROVE  n + 1 \in S
  <2>1. PICK f : PowerUpto(n, f)
    BY <1>2
  <2> DEFINE g == [k \in 0 .. n + 1 |-> IF k = 0 THEN 1 ELSE EnlargeRate * f[k - 1]]
  <2>2. \A k \in 0 .. n : g[k] = f[k]
    BY <2>1 DEF PowerUpto
  <2>3. \A k \in 0 .. n + 1 : k # 0 => k - 1 \in 0 .. n
    OBVIOUS
  <2>4. g = [k \in 0 .. n + 1 |-> IF k = 0 THEN 1 ELSE EnlargeRate * g[k - 1]]
    BY <2>2, <2>3
  <2>5. PowerUpto(n + 1, g)
    BY <2>4 DEF PowerUpto
  <2> QED BY <2>5
<1>3. \A n \in Nat : n \in S
  <2> HIDE DEF S
  <2> QED BY <1>1, <1>2, NatSetInduction
<1> QED BY <1>3

(* Power is what its recursive definition says. *)
LEMMA PowerDef ==
    \A n \in Nat : Power[n] = IF n = 0 THEN 1 ELSE EnlargeRate * Power[n - 1]
<1> DEFINE F(n) == CHOOSE f : PowerUpto(n, f)
<1> DEFINE P == [n \in Nat |-> F(n)[n]]
<1>1. \A n \in Nat : PowerUpto(n, F(n))
  BY PowerExists
<1> HIDE DEF F
<1>2. ASSUME NEW n \in Nat
      PROVE  F(n)[n] = IF n = 0 THEN 1 ELSE EnlargeRate * P[n - 1]
  <2>1. F(n)[n] = IF n = 0 THEN 1 ELSE EnlargeRate * F(n)[n - 1]
    <3>1. F(n) = [k \in 0 .. n |-> IF k = 0 THEN 1 ELSE EnlargeRate * F(n)[k - 1]]
      BY <1>1 DEF PowerUpto
    <3>2. n \in 0 .. n
      OBVIOUS
    <3> QED BY <3>1, <3>2
  <2>2. ASSUME n # 0
        PROVE  F(n)[n - 1] = P[n - 1]
    <3>1. n - 1 \in Nat /\ n - 1 <= n /\ n - 1 <= n - 1
      BY <2>2
    <3>2. F(n)[n - 1] = F(n - 1)[n - 1]
      BY <1>1, <3>1, PowerAgree
    <3> QED BY <3>1, <3>2
  <2> QED BY <2>1, <2>2
<1>3. P = [n \in Nat |-> IF n = 0 THEN 1 ELSE EnlargeRate * P[n - 1]]
  BY <1>2
<1> HIDE DEF P
<1>4. Power = [n \in Nat |-> IF n = 0 THEN 1 ELSE EnlargeRate * Power[n - 1]]
  BY <1>3 DEF Power
<1> QED BY <1>4

(* Powers are positive. *)
LEMMA PowerType == \A n \in Nat : Power[n] \in Nat \ {0}
<1> DEFINE S == {n \in Nat : Power[n] \in Nat \ {0}}
<1>1. EnlargeRate \in Nat /\ EnlargeRate > 0
  BY PoolAssumption
<1>2. 0 \in S
  BY PowerDef
<1>3. ASSUME NEW n \in Nat, n \in S
      PROVE  n + 1 \in S
  <2>1. Power[n + 1] = EnlargeRate * Power[n]
    BY PowerDef
  <2>2. Power[n] \in Nat /\ Power[n] > 0
    BY <1>3
  <2>3. EnlargeRate * Power[n] \in Nat /\ EnlargeRate * Power[n] > 0
    BY <1>1, <2>2
  <2> QED BY <2>1, <2>3
<1>4. \A n \in Nat : n \in S
  <2> HIDE DEF S
  <2> QED BY <1>2, <1>3, NatSetInduction
<1> QED BY <1>4

(* The law of exponents. *)
LEMMA PowerPlus == \A n, m \in Nat : Power[n + m] = Power[n] * Power[m]
<1> SUFFICES ASSUME NEW n \in Nat
             PROVE  \A m \in Nat : Power[n + m] = Power[n] * Power[m]
  OBVIOUS
<1> DEFINE S == {m \in Nat : Power[n + m] = Power[n] * Power[m]}
<1>1. Power[n] \in Nat
  BY PowerType
<1>2. 0 \in S
  <2>1. Power[0] = 1 /\ n + 0 = n
    BY PowerDef
  <2> QED BY <1>1, <2>1
<1>3. ASSUME NEW m \in Nat, m \in S
      PROVE  m + 1 \in S
  <2>1. Power[m + 1] = EnlargeRate * Power[m]
    BY PowerDef
  <2>2. Power[(n + m) + 1] = EnlargeRate * Power[n + m]
    BY PowerDef
  <2>3. Power[n + m] = Power[n] * Power[m]
    BY <1>3
  <2>4. Power[m] \in Nat /\ EnlargeRate \in Nat
    BY PowerType, PoolAssumption
  <2>5. EnlargeRate * (Power[n] * Power[m]) = Power[n] * (EnlargeRate * Power[m])
    BY <1>1, <2>4
  <2>6. n + (m + 1) = (n + m) + 1
    OBVIOUS
  <2> QED BY <2>1, <2>2, <2>3, <2>5, <2>6
<1>4. \A m \in Nat : m \in S
  <2> HIDE DEF S
  <2> QED BY <1>2, <1>3, NatSetInduction
<1> QED BY <1>4

(* What is multiplied by b is divided by it again. *)
LEMMA DivTimes ==
    ASSUME NEW a \in Nat, NEW b \in Nat, b > 0
    PROVE  (a * b) \div b = a
OBVIOUS

----------------------------------------------------------------------------
(* Entries and places *)

(* The size of the top layer. *)
MaxSize == InitSize * Power[NLayers - 1]

(* Whether there is a daemon is a Boolean. *)
LEMMA DaemonBoolean == HasDaemon \in BOOLEAN
BY PoolAssumption

(* The bounds that the constants have. *)
LEMMA Bounds ==
    /\ NThreads \in Nat /\ NThreads > 0
    /\ NLayers \in Nat /\ NLayers > 0 /\ NLayers - 1 \in Nat
    /\ InitSize \in Nat /\ InitSize > 0
    /\ EnlargeRate \in Nat /\ EnlargeRate > 0
    /\ MaxCached \in Nat
    /\ MaxSize \in Nat /\ MaxSize > 0
    /\ Threads \subseteq Nat /\ Layers \subseteq Nat
    /\ 0 \in Threads /\ 0 \in Layers
    /\ GC \notin Threads
<1>1. /\ NThreads \in Nat /\ NThreads > 0
      /\ NLayers \in Nat /\ NLayers > 0 /\ NLayers - 1 \in Nat
      /\ InitSize \in Nat /\ InitSize > 0
      /\ EnlargeRate \in Nat /\ EnlargeRate > 0
      /\ MaxCached \in Nat
  <2>1. NThreads \in Nat /\ NThreads > 0
    BY PoolAssumption
  <2>2. NLayers \in Nat /\ NLayers > 0
    BY PoolAssumption
  <2>3. NLayers - 1 \in Nat
    BY <2>2
  <2>4. InitSize \in Nat /\ InitSize > 0 /\ EnlargeRate \in Nat /\ EnlargeRate > 0 /\ MaxCached \in Nat
    BY PoolAssumption
  <2> QED BY <2>1, <2>2, <2>3, <2>4
<1>2. Power[NLayers - 1] \in Nat /\ Power[NLayers - 1] > 0
  BY <1>1, PowerType
<1>3. MaxSize \in Nat /\ MaxSize > 0
  BY <1>1, <1>2 DEF MaxSize
<1>4. /\ Threads \subseteq Nat /\ Layers \subseteq Nat
      /\ 0 \in Threads /\ 0 \in Layers
      /\ GC \notin Threads
  BY <1>1 DEF Threads, Layers, GC
<1> QED BY <1>1, <1>3, <1>4

(* Layers are numbers. *)
LEMMA LayerNat == \A l \in Layers : l \in Nat /\ l < NLayers
BY Bounds DEF Layers

(* An entry is its pool, its layer and its index. *)
LEMMA EntryFacts ==
    /\ \A e \in Entries :
        /\ Pool(e) \in Threads /\ Layer(e) \in Layers /\ e[3] \in 1 .. MaxSize
        /\ e = <<Pool(e), Layer(e), e[3]>>
    /\ \A i \in Threads, l \in Layers, k \in 1 .. MaxSize :
        /\ <<i, l, k>> \in Entries
        /\ Pool(<<i, l, k>>) = i /\ Layer(<<i, l, k>>) = l /\ <<i, l, k>>[3] = k
BY DEF Entries, Pool, Layer, MaxSize

(* There are finitely many entries. *)
LEMMA EntriesFinite == IsFiniteSet(Entries)
<1>1. /\ IsFiniteSet(0 .. NThreads - 1)
      /\ IsFiniteSet(0 .. NLayers - 1)
      /\ IsFiniteSet(1 .. MaxSize)
  BY Bounds, FS_Interval
<1> DEFINE P == 0 .. NThreads - 1
<1> DEFINE L == 0 .. NLayers - 1
<1> DEFINE K == 1 .. MaxSize
<1>2. \A e : e \in Entries => \E p \in P, l \in L, k \in K : e = <<p, l, k>>
  BY DEF Entries, Threads, Layers, MaxSize
<1>3. IsFiniteSet((P \X L) \X K)
  <2> HIDE DEF P, L, K
  <2>1. IsFiniteSet(P) /\ IsFiniteSet(L) /\ IsFiniteSet(K)
    BY <1>1 DEF P, L, K
  <2>2. IsFiniteSet(P \X L)
    BY <2>1, FS_Product
  <2> QED BY <2>1, <2>2, FS_Product
<1> DEFINE f == [x \in (P \X L) \X K |-> <<x[1][1], x[1][2], x[2]>>]
<1> DEFINE S == {f[x] : x \in (P \X L) \X K}
<1>4. f \in Surjection((P \X L) \X K, S)
  BY DEF Surjection
<1>5. IsFiniteSet(S)
  <2> HIDE DEF S, f, P, L, K
  <2> QED BY <1>3, <1>4, FS_Surjection
<1>6. Entries \subseteq S
  <2> SUFFICES ASSUME NEW p \in P, NEW l \in L, NEW k \in K
               PROVE  <<p, l, k>> \in S
    BY <1>2
  <2>1. <<<<p, l>>, k>> \in (P \X L) \X K
    OBVIOUS
  <2>2. f[<<<<p, l>>, k>>] = <<p, l, k>>
    BY <2>1
  <2> QED BY <2>1, <2>2
<1> QED
  <2> HIDE DEF S
  <2> QED BY <1>5, <1>6, FS_Subset

(* The places differ from each other. *)
LEMMA PlaceFacts ==
    /\ None # Free /\ None # Used /\ None # Leaving
    /\ Free # Used /\ Free # Leaving /\ Used # Leaving
    /\ \A i : CachedBy(i) \notin {None, Free, Used, Leaving}
    /\ \A i, j : CachedBy(i) = CachedBy(j) => i = j
BY DEF None, Free, Used, Leaving, CachedBy

(* The entries of a layer that are in one place. *)
LEMMA InLayerFacts ==
    \A i, l, where :
        /\ InLayer(i, l, where) \subseteq Entries
        /\ \A e : e \in InLayer(i, l, where) <=>
                    e \in Entries /\ Pool(e) = i /\ Layer(e) = l /\ place[e] = where
        /\ NULL \notin InLayer(i, l, where)
        /\ IsFiniteSet(InLayer(i, l, where))
        /\ Cardinality(InLayer(i, l, where)) \in Nat
<1> SUFFICES ASSUME NEW i, NEW l, NEW where
             PROVE  /\ InLayer(i, l, where) \subseteq Entries
                    /\ \A e : e \in InLayer(i, l, where) <=>
                        e \in Entries /\ Pool(e) = i /\ Layer(e) = l /\ place[e] = where
                    /\ NULL \notin InLayer(i, l, where)
                    /\ IsFiniteSet(InLayer(i, l, where))
                    /\ Cardinality(InLayer(i, l, where)) \in Nat
  OBVIOUS
<1>1. InLayer(i, l, where) \subseteq Entries
  BY DEF InLayer
<1>2. IsFiniteSet(InLayer(i, l, where))
  BY <1>1, EntriesFinite, FS_Subset
<1>3. NULL \notin InLayer(i, l, where)
  BY <1>1, NullAssumption
<1>4. Cardinality(InLayer(i, l, where)) \in Nat
  BY <1>2, FS_CardinalityType
<1> QED BY <1>1, <1>2, <1>3, <1>4 DEF InLayer

----------------------------------------------------------------------------
(* Lists *)

(* s goes through the list: n entries, those of S, linked by nx. *)
ListBy(s, n, nx, head, tail, S) ==
    /\ \A k \in 1 .. n : s[k] \in S
    /\ \A j, k \in 1 .. n : s[j] = s[k] => j = k
    /\ \A e \in S : \E k \in 1 .. n : s[k] = e
    /\ \A k \in 1 .. n : nx[s[k]] = IF k < n THEN s[k + 1] ELSE NULL
    /\ head = IF n = 0 THEN NULL ELSE s[1]
    /\ tail = IF n = 0 THEN NULL ELSE s[n]

(* The list from head to tail along nx has the entries of S, each of them once. *)
IsList(nx, head, tail, S) ==
    \E n \in Nat : \E s \in [1 .. n -> S] : ListBy(s, n, nx, head, tail, S)

(* The length of a list is the number of its entries. *)
LEMMA ListLength ==
    ASSUME NEW nx, NEW head, NEW tail, NEW S, NEW n \in Nat, NEW s \in [1 .. n -> S],
           ListBy(s, n, nx, head, tail, S)
    PROVE  IsFiniteSet(S) /\ Cardinality(S) = n
<1>1. s \in Bijection(1 .. n, S)
  BY DEF ListBy, Bijection, Injection, Surjection, IsInjective
<1>2. ExistsBijection(1 .. n, S)
  BY <1>1 DEF ExistsBijection
<1> QED BY <1>2, FS_NatBijection, FS_CountingElements

(* The ends of a list. *)
LEMMA ListEnds ==
    ASSUME NEW nx, NEW head, NEW tail, NEW S, NULL \notin S, IsList(nx, head, tail, S)
    PROVE  /\ S = {} => head = NULL /\ tail = NULL
           /\ S # {} => head \in S /\ tail \in S /\ nx[tail] = NULL
           /\ \A e \in S : nx[e] \in S \cup {NULL}
           /\ \A e \in S : nx[e] # head
<1>1a. PICK n \in Nat : \E s \in [1 .. n -> S] : ListBy(s, n, nx, head, tail, S)
  BY DEF IsList
<1>1. PICK s \in [1 .. n -> S] : ListBy(s, n, nx, head, tail, S)
  BY <1>1a
<1>2. CASE n = 0
  <2>1. S = {}
    BY <1>1, <1>2 DEF ListBy
  <2> QED BY <1>1, <1>2, <2>1 DEF ListBy
<1>3. CASE n # 0
  <2>1. 1 \in 1 .. n /\ n \in 1 .. n /\ ~ (n < n)
    BY <1>3
  <2>2. head = s[1] /\ tail = s[n] /\ head \in S /\ tail \in S /\ nx[tail] = NULL
    BY <1>1, <1>3, <2>1 DEF ListBy
  <2>3. ASSUME NEW e \in S
        PROVE  nx[e] \in S \cup {NULL} /\ nx[e] # head
    <3>1. PICK k \in 1 .. n : s[k] = e
      BY <1>1 DEF ListBy
    <3>2. nx[e] = IF k < n THEN s[k + 1] ELSE NULL
      BY <1>1, <3>1 DEF ListBy
    <3>3. CASE k < n
      <4>1. k + 1 \in 1 .. n /\ k + 1 # 1
        BY <3>3
      <4>2. s[k + 1] \in S /\ s[k + 1] # s[1]
        BY <1>1, <2>1, <4>1 DEF ListBy
      <4> QED BY <2>2, <3>2, <3>3, <4>2
    <3>4. CASE ~ (k < n)
      BY <2>2, <3>2, <3>4
    <3> QED BY <3>3, <3>4
  <2> QED BY <2>2, <2>3
<1> QED BY <1>2, <1>3

(* A list is what its own entries say. *)
LEMMA ListFrame ==
    ASSUME NEW nx, NEW ny, NEW head, NEW tail, NEW S, IsList(nx, head, tail, S),
           \A e \in S : ny[e] = nx[e]
    PROVE  IsList(ny, head, tail, S)
<1>1a. PICK n \in Nat : \E s \in [1 .. n -> S] : ListBy(s, n, nx, head, tail, S)
  BY DEF IsList
<1>1. PICK s \in [1 .. n -> S] : ListBy(s, n, nx, head, tail, S)
  BY <1>1a
<1>2. ListBy(s, n, ny, head, tail, S)
  BY <1>1 DEF ListBy
<1> QED BY <1>2 DEF IsList

(* The empty list. *)
LEMMA ListEmpty == \A nx : IsList(nx, NULL, NULL, {})
<1> SUFFICES ASSUME NEW nx
             PROVE  IsList(nx, NULL, NULL, {})
  OBVIOUS
<1> DEFINE s == [k \in 1 .. 0 |-> NULL]
<1>1. s \in [1 .. 0 -> {}]
  OBVIOUS
<1>2. ListBy(s, 0, nx, NULL, NULL, {})
  BY DEF ListBy
<1> QED BY <1>1, <1>2 DEF IsList

(* The list of one entry. *)
LEMMA ListOne ==
    ASSUME NEW nx, NEW e, nx[e] = NULL
    PROVE  IsList(nx, e, e, {e})
<1> DEFINE s == [k \in 1 .. 1 |-> e]
<1>1. s \in [1 .. 1 -> {e}]
  OBVIOUS
<1>2. ListBy(s, 1, nx, e, e, {e})
  BY DEF ListBy
<1> QED BY <1>1, <1>2 DEF IsList

(* The first entry is taken off a list. *)
LEMMA ListPop ==
    ASSUME NEW nx, NEW head, NEW tail, NEW S, head \in S, IsList(nx, head, tail, S)
    PROVE  \E t : IsList(nx, nx[head], t, S \ {head})
<1>1a. PICK n \in Nat : \E s \in [1 .. n -> S] : ListBy(s, n, nx, head, tail, S)
  BY DEF IsList
<1>1. PICK s \in [1 .. n -> S] : ListBy(s, n, nx, head, tail, S)
  BY <1>1a
<1>2. n # 0
  BY <1>1 DEF ListBy
<1>3. n - 1 \in Nat /\ 1 \in 1 .. n
  BY <1>2
<1>4. head = s[1]
  BY <1>1, <1>2 DEF ListBy
<1> DEFINE z == [k \in 1 .. n - 1 |-> s[k + 1]]
<1> DEFINE t == IF n - 1 = 0 THEN NULL ELSE z[n - 1]
<1>5. \A k \in 1 .. n - 1 : k + 1 \in 1 .. n /\ k + 1 # 1
  OBVIOUS
<1>6. \A k \in 1 .. n - 1 : z[k] = s[k + 1] /\ z[k] \in S \ {head}
  BY <1>1, <1>3, <1>4, <1>5 DEF ListBy
<1>7. z \in [1 .. n - 1 -> S \ {head}]
  BY <1>6
<1>8. \A j, k \in 1 .. n - 1 : z[j] = z[k] => j = k
  <2> SUFFICES ASSUME NEW j \in 1 .. n - 1, NEW k \in 1 .. n - 1, z[j] = z[k]
               PROVE  j = k
    OBVIOUS
  <2>1. j + 1 = k + 1
    BY <1>1, <1>5, <1>6 DEF ListBy
  <2> QED BY <2>1
<1>9. ASSUME NEW e \in S \ {head}
      PROVE  \E k \in 1 .. n - 1 : z[k] = e
  <2>1. PICK k \in 1 .. n : s[k] = e
    BY <1>1 DEF ListBy
  <2>2. k # 1
    BY <2>1, <1>4
  <2>3. k - 1 \in 1 .. n - 1 /\ (k - 1) + 1 = k
    BY <2>2
  <2>4. z[k - 1] = e
    BY <1>6, <2>1, <2>3
  <2> QED BY <2>3, <2>4
<1>10. \A k \in 1 .. n - 1 : nx[z[k]] = IF k < n - 1 THEN z[k + 1] ELSE NULL
  <2> SUFFICES ASSUME NEW k \in 1 .. n - 1
               PROVE  nx[z[k]] = IF k < n - 1 THEN z[k + 1] ELSE NULL
    OBVIOUS
  <2>1. nx[z[k]] = IF k + 1 < n THEN s[(k + 1) + 1] ELSE NULL
    BY <1>1, <1>5, <1>6 DEF ListBy
  <2>2. CASE k < n - 1
    <3>1. k + 1 \in 1 .. n - 1 /\ k + 1 < n
      BY <2>2
    <3> QED BY <1>6, <2>1, <2>2, <3>1
  <2>3. CASE ~ (k < n - 1)
    <3>1. ~ (k + 1 < n)
      BY <2>3
    <3> QED BY <2>1, <2>3, <3>1
  <2> QED BY <2>2, <2>3
<1>11. nx[head] = IF n - 1 = 0 THEN NULL ELSE z[1]
  <2>1. nx[s[1]] = IF 1 < n THEN s[1 + 1] ELSE NULL
    BY <1>1, <1>3 DEF ListBy
  <2>2. CASE n - 1 = 0
    BY <1>4, <2>1, <2>2
  <2>3. CASE n - 1 # 0
    <3>1. 1 < n /\ 1 \in 1 .. n - 1
      BY <1>2, <2>3
    <3> QED BY <1>4, <1>6, <2>1, <2>3, <3>1
  <2> QED BY <2>2, <2>3
<1>12. ListBy(z, n - 1, nx, nx[head], t, S \ {head})
  <2> HIDE DEF z
  <2> QED BY <1>6, <1>8, <1>9, <1>10, <1>11 DEF ListBy
<1> HIDE DEF z, t
<1> QED BY <1>3, <1>7, <1>12 DEF IsList

(* Two lists are joined: the last entry of the first gets the other as next. *)
LEMMA ListJoin ==
    ASSUME NEW nx, NEW head, NEW tail, NEW S, S # {}, IsList(nx, head, tail, S),
           NEW ny, NEW head2, NEW tail2, NEW S2, IsList(ny, head2, tail2, S2),
           S \cap S2 = {}, NULL \notin S2,
           ny[tail] = head2, \A e \in S : e # tail => ny[e] = nx[e]
    PROVE  IsList(ny, head, IF tail2 # NULL THEN tail2 ELSE tail, S \cup S2)
<1>1a. PICK n \in Nat : \E s \in [1 .. n -> S] : ListBy(s, n, nx, head, tail, S)
  BY DEF IsList
<1>1. PICK s \in [1 .. n -> S] : ListBy(s, n, nx, head, tail, S)
  BY <1>1a
<1>2a. PICK m \in Nat : \E z \in [1 .. m -> S2] : ListBy(z, m, ny, head2, tail2, S2)
  BY DEF IsList
<1>2. PICK z \in [1 .. m -> S2] : ListBy(z, m, ny, head2, tail2, S2)
  BY <1>2a
<1>3. n # 0
  BY <1>1 DEF ListBy
<1>4. head = s[1] /\ tail = s[n]
  BY <1>1, <1>3 DEF ListBy
<1> DEFINE y == [k \in 1 .. n + m |-> IF k <= n THEN s[k] ELSE z[k - n]]
<1> DEFINE T == S \cup S2
<1> DEFINE t == IF tail2 # NULL THEN tail2 ELSE tail
<1>5. /\ n + m \in Nat /\ n + m # 0
      /\ \A k \in 1 .. n + m : k <= n => k \in 1 .. n
      /\ \A k \in 1 .. n + m : ~ (k <= n) => k - n \in 1 .. m
      /\ 1 \in 1 .. n + m /\ 1 <= n
  BY <1>3
<1>6. \A k \in 1 .. n + m : /\ k <= n => y[k] = s[k] /\ y[k] \in S
                            /\ ~ (k <= n) => y[k] = z[k - n] /\ y[k] \in S2
  BY <1>1, <1>2, <1>5 DEF ListBy
<1> HIDE DEF y
<1>7. \A k \in 1 .. n + m : y[k] \in T
  BY <1>6
<1>8. \A j, k \in 1 .. n + m : y[j] = y[k] => j = k
  <2> SUFFICES ASSUME NEW j \in 1 .. n + m, NEW k \in 1 .. n + m, y[j] = y[k]
               PROVE  j = k
    OBVIOUS
  <2>1. CASE j <= n /\ k <= n
    BY <1>1, <1>5, <1>6, <2>1 DEF ListBy
  <2>2. CASE ~ (j <= n) /\ ~ (k <= n)
    <3>1. j - n = k - n
      BY <1>2, <1>5, <1>6, <2>2 DEF ListBy
    <3> QED BY <3>1
  <2>3. CASE (j <= n /\ ~ (k <= n)) \/ (~ (j <= n) /\ k <= n)
    BY <1>6, <2>3
  <2> QED BY <2>1, <2>2, <2>3
<1>9. \A e \in T : \E k \in 1 .. n + m : y[k] = e
  <2>1. ASSUME NEW e \in S
        PROVE  \E k \in 1 .. n + m : y[k] = e
    <3>1. PICK k \in 1 .. n : s[k] = e
      BY <1>1 DEF ListBy
    <3>2. k \in 1 .. n + m /\ k <= n
      OBVIOUS
    <3> QED BY <1>6, <3>1, <3>2
  <2>2. ASSUME NEW e \in S2
        PROVE  \E k \in 1 .. n + m : y[k] = e
    <3>1. PICK k \in 1 .. m : z[k] = e
      BY <1>2 DEF ListBy
    <3>2. k + n \in 1 .. n + m /\ ~ (k + n <= n) /\ (k + n) - n = k
      OBVIOUS
    <3> QED BY <1>6, <3>1, <3>2
  <2> QED BY <2>1, <2>2
<1>10. \A k \in 1 .. n + m : ny[y[k]] = IF k < n + m THEN y[k + 1] ELSE NULL
  <2> SUFFICES ASSUME NEW k \in 1 .. n + m
               PROVE  ny[y[k]] = IF k < n + m THEN y[k + 1] ELSE NULL
    OBVIOUS
  <2>1. CASE k < n
    <3>1. k \in 1 .. n /\ k <= n /\ n \in 1 .. n /\ k # n /\ k < n + m
      BY <2>1
    <3>2. k + 1 \in 1 .. n + m /\ k + 1 <= n
      BY <2>1
    <3>3. y[k] = s[k] /\ s[k] # s[n] /\ y[k] \in S
      BY <1>1, <1>6, <3>1 DEF ListBy
    <3>4. ny[y[k]] = s[k + 1]
      BY <1>1, <1>4, <2>1, <3>1, <3>3 DEF ListBy
    <3> QED BY <1>6, <3>1, <3>2, <3>4
  <2>2. CASE k = n
    <3>1. k \in 1 .. n /\ k <= n
      BY <2>2, <1>3
    <3>2. ny[y[k]] = head2
      BY <1>4, <1>6, <2>2, <3>1
    <3>3. CASE m = 0
      <4>1. head2 = NULL /\ ~ (k < n + m)
        BY <1>2, <2>2, <3>3 DEF ListBy
      <4> QED BY <3>2, <4>1
    <3>4. CASE m # 0
      <4>1. head2 = z[1]
        BY <1>2, <3>4 DEF ListBy
      <4>2. k < n + m /\ k + 1 \in 1 .. n + m /\ ~ (k + 1 <= n) /\ (k + 1) - n = 1
        BY <2>2, <3>4
      <4>3. y[k + 1] = z[1]
        BY <1>6, <4>2
      <4> QED BY <3>2, <4>1, <4>2, <4>3
    <3> QED BY <3>3, <3>4
  <2>3. CASE k > n
    <3>1. k - n \in 1 .. m /\ ~ (k <= n)
      BY <2>3
    <3>2. ny[y[k]] = IF k - n < m THEN z[(k - n) + 1] ELSE NULL
      BY <1>2, <1>6, <3>1 DEF ListBy
    <3>3. CASE k < n + m
      <4>1. k - n < m /\ k + 1 \in 1 .. n + m /\ ~ (k + 1 <= n) /\ (k + 1) - n = (k - n) + 1
        BY <2>3, <3>3
      <4> QED BY <1>6, <3>2, <3>3, <4>1
    <3>4. CASE ~ (k < n + m)
      <4>1. ~ (k - n < m)
        BY <3>4
      <4> QED BY <3>2, <3>4, <4>1
    <3> QED BY <3>3, <3>4
  <2> QED BY <2>1, <2>2, <2>3
<1>11. head = y[1]
  BY <1>4, <1>5, <1>6
<1>12. t = y[n + m]
  <2>1. n + m \in 1 .. n + m
    BY <1>3
  <2>2. CASE m = 0
    <3>1. tail2 = NULL /\ n + m <= n /\ n + m = n
      BY <1>2, <2>2 DEF ListBy
    <3> QED BY <1>4, <1>6, <2>1, <3>1
  <2>3. CASE m # 0
    <3>1. m \in 1 .. m /\ ~ (n + m <= n) /\ (n + m) - n = m
      BY <2>3
    <3>2. tail2 = z[m] /\ tail2 \in S2
      BY <1>2, <2>3, <3>1 DEF ListBy
    <3>3. y[n + m] = z[m]
      BY <1>6, <2>1, <3>1
    <3> QED BY <3>2, <3>3
  <2> QED BY <2>2, <2>3
<1>13. ListBy(y, n + m, ny, head, t, T)
  <2> HIDE DEF t, T
  <2> QED BY <1>5, <1>7, <1>8, <1>9, <1>10, <1>11, <1>12 DEF ListBy
<1>14. y \in [1 .. n + m -> T]
  BY <1>7 DEF y
<1> QED
  <2> HIDE DEF t, T
  <2>1. IsList(ny, head, t, T)
    BY <1>5, <1>13, <1>14 DEF IsList
  <2> QED BY <2>1 DEF t, T

(* The entries a, a + 1, ... of a new arena are a list. *)
LEMMA ListArena ==
    ASSUME NEW i \in Threads, NEW l \in Layers, NEW size \in 1 .. MaxSize, NEW a \in {1, 2},
           NEW nx, \A k \in a .. size : nx[<<i, l, k>>] = Link(<<i, l, k>>, size)
    PROVE  \E t : IsList(nx, IF a <= size THEN <<i, l, a>> ELSE NULL, t,
                         {<<i, l, k>> : k \in a .. size})
<1>1. size \in Nat /\ size > 0 /\ MaxSize \in Nat /\ a \in Nat
  BY Bounds
<1> DEFINE n == (size - a) + 1
<1> DEFINE s == [k \in 1 .. n |-> <<i, l, (a + k) - 1>>]
<1> DEFINE S == {<<i, l, k>> : k \in a .. size}
<1> DEFINE t == IF n = 0 THEN NULL ELSE s[n]
<1>2. n \in Nat
  BY <1>1
<1>3. \A k \in 1 .. n : (a + k) - 1 \in a .. size
  BY <1>1
<1>4. \A k \in 1 .. n : s[k] = <<i, l, (a + k) - 1>> /\ s[k] \in S
  BY <1>3
<1>5. s \in [1 .. n -> S]
  BY <1>4
<1>6. \A j, k \in 1 .. n : s[j] = s[k] => j = k
  BY <1>1, <1>4
<1>7. \A e \in S : \E k \in 1 .. n : s[k] = e
  <2> SUFFICES ASSUME NEW k \in a .. size
               PROVE  \E j \in 1 .. n : s[j] = <<i, l, k>>
    OBVIOUS
  <2>1. (k - a) + 1 \in 1 .. n /\ (a + ((k - a) + 1)) - 1 = k
    BY <1>1
  <2> QED BY <1>4, <2>1
<1>8. \A k \in 1 .. n : nx[s[k]] = IF k < n THEN s[k + 1] ELSE NULL
  <2> SUFFICES ASSUME NEW k \in 1 .. n
               PROVE  nx[s[k]] = IF k < n THEN s[k + 1] ELSE NULL
    OBVIOUS
  <2>1. nx[s[k]] = IF (a + k) - 1 < size THEN <<i, l, ((a + k) - 1) + 1>> ELSE NULL
    BY <1>3, <1>4 DEF Link
  <2>2. (a + k) - 1 < size <=> k < n
    BY <1>1
  <2>3. k < n => k + 1 \in 1 .. n /\ ((a + k) - 1) + 1 = (a + (k + 1)) - 1
    BY <1>1, <1>2
  <2> QED BY <1>4, <2>1, <2>2, <2>3
<1>9. (IF a <= size THEN <<i, l, a>> ELSE NULL) = IF n = 0 THEN NULL ELSE s[1]
  <2>1. CASE a <= size
    <3>1. 1 \in 1 .. n /\ n # 0 /\ (a + 1) - 1 = a
      BY <1>1, <2>1
    <3> QED BY <1>4, <2>1, <3>1
  <2>2. CASE ~ (a <= size)
    <3>1. n = 0
      BY <1>1, <2>2
    <3> QED BY <2>2, <3>1
  <2> QED BY <2>1, <2>2
<1>10. ListBy(s, n, nx, IF a <= size THEN <<i, l, a>> ELSE NULL, t, S)
  <2> HIDE DEF s, S, n
  <2> QED BY <1>4, <1>6, <1>7, <1>8, <1>9 DEF ListBy
<1> QED
  <2> HIDE DEF s, n, t
  <2> QED BY <1>2, <1>5, <1>10 DEF IsList

(* Two walks along next from the same entry are the same. *)
WalkUpto(e, n, f) ==
    f = [k \in 1 .. n |-> IF k = 1 THEN e
                          ELSE IF f[k - 1] = NULL THEN NULL ELSE next[f[k - 1]]]

(* They agree at every step. *)
LEMMA WalkAgree ==
    ASSUME NEW e, NEW n \in Nat, NEW f, NEW g, WalkUpto(e, n, f), WalkUpto(e, n, g)
    PROVE  \A k \in 1 .. n : f[k] = g[k]
<1> DEFINE S == {k \in Nat : k + 1 <= n => f[k + 1] = g[k + 1]}
<1>1. \A k \in 1 .. n :
        /\ f[k] = IF k = 1 THEN e ELSE IF f[k - 1] = NULL THEN NULL ELSE next[f[k - 1]]
        /\ g[k] = IF k = 1 THEN e ELSE IF g[k - 1] = NULL THEN NULL ELSE next[g[k - 1]]
  BY DEF WalkUpto
<1>2. 0 \in S
  <2>1. 0 + 1 <= n => 0 + 1 \in 1 .. n /\ 0 + 1 = 1
    OBVIOUS
  <2> QED BY <1>1, <2>1
<1>3. ASSUME NEW k \in Nat, k \in S
      PROVE  k + 1 \in S
  <2> SUFFICES ASSUME (k + 1) + 1 <= n
               PROVE  f[(k + 1) + 1] = g[(k + 1) + 1]
    OBVIOUS
  <2>1. (k + 1) + 1 \in 1 .. n /\ (k + 1) + 1 # 1 /\ ((k + 1) + 1) - 1 = k + 1 /\ k + 1 <= n
    OBVIOUS
  <2>2. f[k + 1] = g[k + 1]
    BY <1>3, <2>1
  <2> HIDE DEF S
  <2> QED BY <1>1, <2>1, <2>2
<1>4. \A k \in Nat : k \in S
  <2> HIDE DEF S
  <2> QED BY <1>2, <1>3, NatSetInduction
<1> SUFFICES ASSUME NEW k \in 1 .. n
             PROVE  f[k] = g[k]
  OBVIOUS
<1>5. k - 1 \in Nat /\ (k - 1) + 1 = k /\ k <= n
  OBVIOUS
<1> QED BY <1>4, <1>5

(* Any walk is what Chain gives. *)
LEMMA ChainIsWalk ==
    ASSUME NEW e, NEW n \in Nat, NEW f, WalkUpto(e, n, f)
    PROVE  \A k \in 1 .. n : Chain(e, n)[k] = f[k]
<1>1. WalkUpto(e, n, Chain(e, n))
  BY DEF Chain, WalkUpto
<1> QED BY <1>1, WalkAgree

(* The entries that Chain finds are the entries of the list. *)
LEMMA ListWalked ==
    ASSUME NEW head, NEW tail, NEW S, NULL \notin S, IsList(next, head, tail, S)
    PROVE  LET n == Cardinality(S) IN
           /\ Listed(head, n) = S
           /\ Listed(head, n + 1) = S \cup {NULL}
           /\ tail = IF n = 0 THEN NULL ELSE Chain(head, n)[n]
<1>1a. PICK n \in Nat : \E s \in [1 .. n -> S] : ListBy(s, n, next, head, tail, S)
  BY DEF IsList
<1>1. PICK s \in [1 .. n -> S] : ListBy(s, n, next, head, tail, S)
  BY <1>1a
<1>2. Cardinality(S) = n
  BY <1>1, ListLength
<1> DEFINE w(m) == [k \in 1 .. m |-> IF k <= n THEN s[k] ELSE NULL]
<1>3. ASSUME NEW m \in {n, n + 1}
      PROVE  \A k \in 1 .. m : Chain(head, m)[k] = IF k <= n THEN s[k] ELSE NULL
  <2> DEFINE f == w(m)
  <2>1. m \in Nat /\ \A k \in 1 .. m : f[k] = IF k <= n THEN s[k] ELSE NULL
    OBVIOUS
  <2>2. ASSUME NEW k \in 1 .. m
        PROVE  f[k] = IF k = 1 THEN head
                      ELSE IF f[k - 1] = NULL THEN NULL ELSE next[f[k - 1]]
    <3>1. CASE k = 1
      <4>1. CASE n = 0
        BY <1>1, <2>1, <3>1, <4>1 DEF ListBy
      <4>2. CASE n # 0
        BY <1>1, <2>1, <3>1, <4>2 DEF ListBy
      <4> QED BY <4>1, <4>2
    <3>2. CASE k # 1
      <4>1. k - 1 \in 1 .. n /\ k - 1 \in 1 .. m /\ k - 1 <= n /\ (k - 1) + 1 = k /\ (k - 1 < n <=> k <= n)
        BY <3>2
      <4>2. f[k - 1] = s[k - 1] /\ s[k - 1] \in S
        BY <1>1, <2>1, <4>1 DEF ListBy
      <4>3. next[s[k - 1]] = IF k <= n THEN s[k] ELSE NULL
        BY <1>1, <4>1 DEF ListBy
      <4> HIDE DEF f
      <4> QED BY <2>1, <3>2, <4>2, <4>3
    <3> QED BY <3>1, <3>2
  <2>3. f = [k \in 1 .. m |-> IF k = 1 THEN head
                              ELSE IF f[k - 1] = NULL THEN NULL ELSE next[f[k - 1]]]
    BY <2>2
  <2> HIDE DEF f
  <2>4. WalkUpto(head, m, f)
    BY <2>3 DEF WalkUpto
  <2> QED BY <2>1, <2>4, ChainIsWalk
<1>4. Listed(head, n) = S
  <2>1. \A k \in 1 .. n : Chain(head, n)[k] = s[k]
    BY <1>3
  <2> QED BY <1>1, <2>1 DEF Listed, ListBy
<1>5. Listed(head, n + 1) = S \cup {NULL}
  <2>1. \A k \in 1 .. n + 1 : Chain(head, n + 1)[k] = IF k <= n THEN s[k] ELSE NULL
    BY <1>3
  <2>2. Listed(head, n + 1) \subseteq S \cup {NULL}
    <3>1. \A k \in 1 .. n + 1 : k <= n => k \in 1 .. n
      OBVIOUS
    <3> QED BY <1>1, <2>1, <3>1 DEF Listed, ListBy
  <2>3. NULL \in Listed(head, n + 1)
    <3>1. n + 1 \in 1 .. n + 1 /\ ~ (n + 1 <= n)
      OBVIOUS
    <3> QED BY <2>1, <3>1 DEF Listed
  <2>4. ASSUME NEW e \in S
        PROVE  e \in Listed(head, n + 1)
    <3>1. PICK k \in 1 .. n : s[k] = e
      BY <1>1 DEF ListBy
    <3>2. k \in 1 .. n + 1 /\ k <= n
      OBVIOUS
    <3> QED BY <2>1, <3>1, <3>2 DEF Listed
  <2> QED BY <2>2, <2>3, <2>4
<1>6. tail = IF n = 0 THEN NULL ELSE Chain(head, n)[n]
  <2>1. n # 0 => n \in 1 .. n /\ n <= n
    OBVIOUS
  <2> QED BY <1>1, <1>3, <2>1 DEF ListBy
<1> QED BY <1>2, <1>4, <1>5, <1>6

----------------------------------------------------------------------------
(* The inductive invariant *)

(* What pool i has given of its layer l and not got back. *)
TakenIn(i, l) == {e \in TakenOf(i) : Layer(e) = l}

(* While the daemon flushes it is at a pool. *)
ControlInv == pc[GC] = "flush" => turn \in Threads

(* An entry is somewhere if and only if its layer exists; a thread caches  *)
(* what belongs to other pools.                                            *)
PlaceInv ==
    \A e \in Entries :
        /\ place[e] # None <=> e[3] <= layers[Pool(e)][Layer(e)].arena_cap
        /\ \A j \in Threads : place[e] = CachedBy(j) => Pool(e) # j

(* used counts the entries of a layer that are not free. *)
UsedInv ==
    \A i \in Threads, l \in Layers : layers[i][l].used = Cardinality(TakenIn(i, l))

(* total_cached is exact unless the thread is between its two critical sections. *)
TotalInv ==
    \A i \in Threads :
        /\ ~ReleaseLocked(i) =>
            /\ total_cached[i] = Cardinality({e \in Entries : place[e] = CachedBy(i)})
            /\ total_cached[i] <= MaxCached
        /\ total_cached[i] <= MaxCached + 1

(* The free entries of every layer are a list. *)
FreeRight(i, l) == \E t : IsList(next, layers[i][l].head, t, InLayer(i, l, Free))

(* This holds of all layers, *)
FreeInv == \A i \in Threads, l \in Layers : FreeRight(i, l)

(* So are the entries in every cache. *)
CacheRight(j, i, l) ==
    /\ IsList(next, caches[j][i][l].head, caches[j][i][l].tail, InLayer(i, l, CachedBy(j)))
    /\ caches[j][i][l].num_cached = Cardinality(InLayer(i, l, CachedBy(j)))

(* and this of all caches. *)
CacheInv == \A j \in Threads, i \in Threads, l \in Layers : CacheRight(j, i, l)

(* One object lives in an entry that is in use, none in any other. *)
ObjectsInv == \A e \in Entries : objects[e] = IF place[e] = Used THEN 1 ELSE 0

(* The inductive invariant. *)
PoolInv ==
    /\ TypeOK /\ ControlInv /\ PlaceInv /\ UsedInv /\ TotalInv /\ StackRight /\ FreeInv
    /\ CacheInv /\ ObjectsInv

(* The members of InLayer and TakenIn, before and after a step. *)
LEMMA InLayerNext ==
    \A i, l, where :
        /\ \A e : e \in InLayer(i, l, where)' <=>
                    e \in Entries /\ Pool(e) = i /\ Layer(e) = l /\ place'[e] = where
        /\ NULL \notin InLayer(i, l, where)'
BY NullAssumption DEF InLayer

(* They are finitely many. *)
LEMMA TakenFacts ==
    \A i, l :
        /\ \A e : e \in TakenIn(i, l) <=>
                    e \in Entries /\ Pool(e) = i /\ Layer(e) = l /\ place[e] \notin {None, Free}
        /\ \A e : e \in TakenIn(i, l)' <=>
                    e \in Entries /\ Pool(e) = i /\ Layer(e) = l /\ place'[e] \notin {None, Free}
        /\ IsFiniteSet(TakenIn(i, l))
        /\ Cardinality(TakenIn(i, l)) \in Nat
<1> SUFFICES ASSUME NEW i, NEW l
             PROVE  /\ \A e : e \in TakenIn(i, l) <=>
                        e \in Entries /\ Pool(e) = i /\ Layer(e) = l /\ place[e] \notin {None, Free}
                    /\ \A e : e \in TakenIn(i, l)' <=>
                        e \in Entries /\ Pool(e) = i /\ Layer(e) = l /\ place'[e] \notin {None, Free}
                    /\ IsFiniteSet(TakenIn(i, l))
                    /\ Cardinality(TakenIn(i, l)) \in Nat
  OBVIOUS
<1>1. TakenIn(i, l) \subseteq Entries
  BY DEF TakenIn, TakenOf
<1>2. IsFiniteSet(TakenIn(i, l))
  BY <1>1, EntriesFinite, FS_Subset
<1>3. Cardinality(TakenIn(i, l)) \in Nat
  BY <1>2, FS_CardinalityType
<1> QED BY <1>2, <1>3 DEF TakenIn, TakenOf

(* A set of layers that has all above each of its own is the top of the stack. *)
LEMMA TopInterval ==
    ASSUME NEW c \in Nat, NEW G \in SUBSET (1 .. c), \A k \in G : \A m \in k .. c : m \in G
    PROVE  /\ Cardinality(G) \in Nat /\ Cardinality(G) <= c
           /\ \A k \in 1 .. c : k \in G <=> k > c - Cardinality(G)
<1>1. IsFiniteSet(1 .. c) /\ Cardinality(1 .. c) <= c
  BY FS_Interval
<1>2. IsFiniteSet(G) /\ Cardinality(G) <= Cardinality(1 .. c) /\ Cardinality(1 .. c) \in Nat
  BY <1>1, FS_Subset, FS_CardinalityType
<1>3. Cardinality(G) \in Nat
  BY <1>2, FS_CardinalityType
<1>4. ASSUME NEW k \in 1 .. c, k \in G
      PROVE  k > c - Cardinality(G)
  <2>1. (k .. c) \in SUBSET G
    BY <1>4
  <2>2. Cardinality(k .. c) <= Cardinality(G)
    BY <1>2, <2>1, FS_Subset
  <2>3. Cardinality(k .. c) = (c - k) + 1
    BY FS_Interval
  <2> QED BY <1>3, <2>2, <2>3
<1>5. ASSUME NEW k \in 1 .. c, k \notin G
      PROVE  ~ (k > c - Cardinality(G))
  <2>1. G \in SUBSET (k + 1 .. c)
    <3> SUFFICES ASSUME NEW m \in G
                 PROVE  m > k
      OBVIOUS
    <3> SUFFICES ASSUME ~ (m > k)
                 PROVE  FALSE
      OBVIOUS
    <3>1. k \in m .. c
      OBVIOUS
    <3> QED BY <1>5, <3>1
  <2>2. IsFiniteSet(k + 1 .. c) /\ Cardinality(k + 1 .. c) = c - k
    BY FS_Interval
  <2>3. Cardinality(G) <= c - k
    BY <2>1, <2>2, FS_Subset
  <2> QED BY <1>3, <2>3
<1> QED BY <1>1, <1>2, <1>3, <1>4, <1>5

(* A layer that something has been taken of exists. *)
LEMMA TakenExists ==
    ASSUME TypeOK, PlaceInv, StackRight,
           NEW i \in Threads, NEW l \in Layers, NEW e \in TakenIn(i, l)
    PROVE  l <= current_layer[i]
<1>1. e \in Entries /\ Pool(e) = i /\ Layer(e) = l /\ place[e] # None
  BY TakenFacts
<1>2. e[3] <= layers[i][l].arena_cap /\ e[3] \in 1 .. MaxSize
  BY <1>1, EntryFacts DEF PlaceInv
<1>3. layers[i][l].arena_cap # 0
  BY <1>2, Bounds
<1> QED BY <1>3 DEF StackRight

(* The size of a layer is positive, and no more than MaxSize. *)
LEMMA LayerSize ==
    \A l \in Layers : InitSize * Power[l] \in 1 .. MaxSize
<1> SUFFICES ASSUME NEW l \in Layers
             PROVE  InitSize * Power[l] \in 1 .. MaxSize
  OBVIOUS
<1>1. l \in Nat /\ (NLayers - 1) - l \in Nat /\ l + ((NLayers - 1) - l) = NLayers - 1
  BY Bounds DEF Layers
<1>2. Power[NLayers - 1] = Power[l] * Power[(NLayers - 1) - l]
  BY <1>1, PowerPlus
<1> DEFINE a == InitSize
<1> DEFINE b == Power[l]
<1> DEFINE d == Power[(NLayers - 1) - l]
<1>3. a \in Nat /\ a > 0 /\ b \in Nat /\ b > 0 /\ d \in Nat /\ d > 0
  BY <1>1, PowerType, Bounds
<1> HIDE DEF a, b, d
<1>4. a * b \in Nat /\ a * b > 0
  BY <1>3
<1>5. a * (b * d) = (a * b) * d
  BY <1>3
<1>6. (a * b) * d >= a * b
  <2> DEFINE x == a * b
  <2>1. x \in Nat /\ x > 0
    BY <1>4
  <2> HIDE DEF x
  <2>2. x * d >= x
    BY <1>3, <2>1
  <2> QED BY <2>2 DEF x
<1>7. MaxSize = a * (b * d)
  BY <1>2 DEF MaxSize, a, b, d
<1>8. a * b \in 1 .. MaxSize
  BY <1>4, <1>5, <1>6, <1>7, Bounds
<1> QED BY <1>8 DEF a, b

----------------------------------------------------------------------------
(* Entries go back to their layer *)

(* What PutBack is asked to do: es, of layer l of pool i, are taken entries *)
(* all in one place, linked from first to last.                             *)
Returnable(i, l, es, first, last, n) ==
    /\ es \in SUBSET TakenIn(i, l)
    /\ es # {}
    /\ n = Cardinality(es)
    /\ \E nz : /\ IsList(nz, first, last, es)
               /\ \A e \in es : e # last => nz[e] = next[e]

(* The layers of a pool when n entries of layer l have been put back in front. *)
Row(i, l, first, n) == [layers[i] EXCEPT ![l].head = first, ![l].used = @ - n]

(* The layers as they are before any is removed: used counts what is still *)
(* taken.                                                                  *)
RowRight(i, l, es, first, n) ==
    \A k \in Layers :
        LET row == Row(i, l, first, n) IN
        /\ row[k].arena_cap = layers[i][k].arena_cap
        /\ row[k].head = IF k = l THEN first ELSE layers[i][k].head
        /\ row[k].used = Cardinality(TakenIn(i, k) \ es)
        /\ row[k].used \in Nat
        /\ k # l => row[k] = layers[i][k]
        /\ row[k] = [arena_cap |-> row[k].arena_cap, head |-> row[k].head, used |-> row[k].used]

(* Putting back what is returnable makes them so. *)
LEMMA RowFacts ==
    ASSUME TypeOK, UsedInv, NEW i \in Threads, NEW l \in Layers,
           NEW es, NEW first, NEW last, NEW n, Returnable(i, l, es, first, last, n)
    PROVE  RowRight(i, l, es, first, n)
<1> DEFINE row == Row(i, l, first, n)
<1>1. layers[i] \in [Layers -> [arena_cap : Nat, head : Entries \cup {NULL}, used : Nat]]
  BY DEF TypeOK
<1>2. \A k \in Layers : k # l => row[k] = layers[i][k]
  BY <1>1 DEF Row
<1>3. row[l] = [arena_cap |-> layers[i][l].arena_cap, head |-> first, used |-> layers[i][l].used - n]
  BY <1>1 DEF Row
<1>4. /\ layers[i][l].used = Cardinality(TakenIn(i, l))
      /\ es \subseteq TakenIn(i, l) /\ n = Cardinality(es)
  BY DEF UsedInv, Returnable
<1>5. IsFiniteSet(TakenIn(i, l)) /\ TakenIn(i, l) \cap es = es
  BY <1>4, TakenFacts
<1>6. Cardinality(TakenIn(i, l) \ es) = Cardinality(TakenIn(i, l)) - Cardinality(es)
  BY <1>5, FS_Difference
<1>7. IsFiniteSet(TakenIn(i, l) \ es)
  BY <1>5, FS_Subset
<1>8. Cardinality(TakenIn(i, l) \ es) \in Nat
  BY <1>7, FS_CardinalityType
<1> HIDE DEF row
<1>9. /\ row[l].arena_cap = layers[i][l].arena_cap /\ row[l].head = first
      /\ row[l].used = Cardinality(TakenIn(i, l) \ es) /\ row[l].used \in Nat
  BY <1>3, <1>4, <1>6, <1>8
<1>10. ASSUME NEW k \in Layers, k # l
       PROVE  /\ row[k] = layers[i][k]
              /\ row[k].used = Cardinality(TakenIn(i, k) \ es) /\ row[k].used \in Nat
  <2>1. TakenIn(i, k) \ es = TakenIn(i, k)
    BY <1>4, <1>10, TakenFacts
  <2>2. layers[i][k].used = Cardinality(TakenIn(i, k)) /\ layers[i][k].used \in Nat
    BY <1>1 DEF UsedInv
  <2> QED BY <1>2, <1>10, <2>1, <2>2
<1>11. \A k \in Layers :
        row[k] = [arena_cap |-> row[k].arena_cap, head |-> row[k].head, used |-> row[k].used]
  BY <1>1, <1>2, <1>3
<1> QED BY <1>9, <1>10, <1>11 DEF row, RowRight

(* The layers that are removed are the top ones, nothing of them is taken  *)
(* any more, and of the top one that stays something is.                   *)
LEMMA RemovableFacts ==
    ASSUME TypeOK, UsedInv, StackRight, NEW i \in Threads, NEW l \in Layers,
           NEW es, NEW first, NEW last, NEW n, Returnable(i, l, es, first, last, n)
    PROVE  LET row == Row(i, l, first, n)
               gone == Removable(i, l, row)
               top == current_layer[i] - Cardinality(gone)
           IN /\ Cardinality(gone) \in Nat /\ top \in Layers
              /\ \A k \in Layers : k \in gone <=> k > top /\ k <= current_layer[i]
              /\ \A k \in gone : k \in Layers /\ row[k].used = 0
              /\ top > 0 => row[top].used > 0
<1> DEFINE row == Row(i, l, first, n)
<1> DEFINE gone == Removable(i, l, row)
<1> DEFINE c == current_layer[i]
<1> DEFINE top == c - Cardinality(gone)
<1>1. c \in Layers /\ c \in Nat /\ l \in Nat
  <2>1. c \in Layers
    BY DEF TypeOK
  <2> QED BY <2>1, LayerNat
<1>2. \A k \in Layers : row[k].used \in Nat /\ (k # l => row[k] = layers[i][k])
  <2>1. RowRight(i, l, es, first, n)
    BY RowFacts
  <2> QED BY <2>1 DEF RowRight
<1>3. \A k \in 1 .. c : k \in Layers
  BY <1>1, Bounds DEF Layers
<1> HIDE DEF row
<1>4. gone \in SUBSET (1 .. c) /\ \A k \in gone : row[k].used = 0
  <2>1. CASE l # c
    BY <2>1 DEF Removable
  <2>2. CASE l = c
    BY <1>1, <2>2 DEF Removable
  <2> QED BY <2>1, <2>2
<1>5. \A k \in gone : \A m \in k .. c : m \in gone
  <2>1. CASE l # c
    BY <2>1 DEF Removable
  <2>2. CASE l = c
    <3> SUFFICES ASSUME NEW k \in 1 .. c, \A m \in k .. c : row[m].used = 0, NEW m \in k .. c
                 PROVE  m \in gone
      BY <2>2 DEF Removable
    <3>1. m \in 1 .. c /\ \A j \in m .. c : j \in k .. c
      BY <1>1
    <3> QED BY <2>2, <3>1 DEF Removable
  <2> QED BY <2>1, <2>2
<1>6. /\ Cardinality(gone) \in Nat /\ Cardinality(gone) <= c
      /\ \A k \in 1 .. c : k \in gone <=> k > c - Cardinality(gone)
  <2> HIDE DEF gone, c
  <2> QED BY <1>1, <1>4, <1>5, TopInterval
<1>7. top \in Nat /\ top <= c /\ top \in Layers
  BY <1>1, <1>6, Bounds DEF Layers
<1>8. \A k \in Layers : k \in gone <=> k > top /\ k <= c
  BY <1>1, <1>4, <1>6, <1>7, Bounds
<1>9. ASSUME top > 0
      PROVE  row[top].used > 0
  <2>1. CASE l # c
    <3>1. gone = {}
      BY <2>1 DEF Removable
    <3>2. top = c
      BY <1>1, <3>1, FS_EmptySet
    <3>3. layers[i][c].used > 0
      BY <1>9, <3>2 DEF StackRight
    <3> QED BY <1>1, <1>2, <2>1, <3>2, <3>3
  <2>2. CASE l = c
    <3>1. top \in 1 .. c /\ top \notin gone
      BY <1>7, <1>8, <1>9
    <3>2. PICK m \in top .. c : row[m].used # 0
      BY <2>2, <3>1 DEF Removable
    <3>3. m \in Layers /\ m \notin gone
      BY <1>1, <1>3, <1>4, <3>1, <3>2
    <3>4. m = top
      BY <1>1, <1>7, <1>8, <3>2, <3>3
    <3>5. row[top].used \in Nat /\ row[top].used # 0
      BY <1>2, <1>7, <3>2, <3>4
    <3> QED BY <3>5
  <2> QED BY <2>1, <2>2
<1> HIDE DEF gone
<1>10. \A k \in gone : k \in Layers /\ row[k].used = 0
  BY <1>3, <1>4
<1> QED BY <1>6, <1>7, <1>8, <1>9, <1>10 DEF row, gone

(* What PutBack does, entry by entry and layer by layer. *)
LEMMA PutBackFacts ==
    ASSUME TypeOK, PlaceInv, UsedInv, StackRight, NEW i \in Threads, NEW l \in Layers,
           NEW es, NEW first, NEW last, NEW n, Returnable(i, l, es, first, last, n),
           PutBack(i, l, es, first, last, n)
    PROVE  \E top \in Layers :
            LET row == Row(i, l, first, n)
                Gone(e) == Pool(e) = i /\ Layer(e) > top /\ Layer(e) <= current_layer[i]
            IN
            /\ top <= current_layer[i]
            /\ top > 0 => row[top].used > 0
            /\ layers' = [layers EXCEPT ![i] =
                    [k \in Layers |-> IF k > top /\ k <= current_layer[i] THEN NoLayer ELSE row[k]]]
            /\ \A k \in Layers : k > top /\ k <= current_layer[i] => row[k].used = 0
            /\ current_layer' = [current_layer EXCEPT ![i] = top]
            /\ current_size' = [current_size EXCEPT ![i] = InitSize * Power[top]]
            /\ next' = [e \in Entries |-> IF Gone(e) THEN NULL
                            ELSE IF e = last THEN layers[i][l].head ELSE next[e]]
            /\ \A e \in Entries : place'[e] =
                    IF Gone(e) THEN None ELSE IF e \in es THEN Free ELSE place[e]
            /\ place' \in [Entries -> Places]
            /\ \A e \in Entries : Gone(e) => place[e] \in {None, Free} \/ e \in es
<1> DEFINE row == Row(i, l, first, n)
<1> DEFINE gone == Removable(i, l, row)
<1> DEFINE c == current_layer[i]
<1> DEFINE top == c - Cardinality(gone)
<1> DEFINE Gone(e) == Pool(e) = i /\ Layer(e) > top /\ Layer(e) <= c
<1>1. /\ Cardinality(gone) \in Nat /\ top \in Layers
      /\ \A k \in Layers : k \in gone <=> k > top /\ k <= c
      /\ \A k \in gone : k \in Layers /\ row[k].used = 0
      /\ top > 0 => row[top].used > 0
  BY RemovableFacts
<1>2. /\ layers' = [layers EXCEPT ![i] = [k \in Layers |-> IF k \in gone THEN NoLayer ELSE row[k]]]
      /\ current_layer' = [current_layer EXCEPT ![i] = @ - Cardinality(gone)]
      /\ current_size' = [current_size EXCEPT ![i] = @ \div Power[Cardinality(gone)]]
      /\ next' = [e \in Entries |-> IF Pool(e) = i /\ Layer(e) \in gone THEN NULL
                                    ELSE IF e = last THEN layers[i][l].head ELSE next[e]]
      /\ place' = [e \in Entries |->
                    LET now == IF e \in es THEN Free ELSE place[e] IN
                    IF (Pool(e) = i /\ Layer(e) \in gone) /\ now = Free THEN None ELSE now]
  BY DEF PutBack, Row
<1>3. c \in Nat /\ c \in Layers
  <2>1. c \in Layers
    BY DEF TypeOK
  <2> QED BY <2>1, Bounds
<1>4. \A e \in Entries : Pool(e) = i /\ Layer(e) \in gone <=> Gone(e)
  BY <1>1, EntryFacts
<1>5. ASSUME NEW k \in gone
      PROVE  TakenIn(i, k) \subseteq es
  <2> HIDE DEF gone, row
  <2>1. k \in Layers /\ row[k].used = 0
    BY <1>1
  <2>2. row[k].used = Cardinality(TakenIn(i, k) \ es)
    <3>1. RowRight(i, l, es, first, n)
      BY RowFacts
    <3> QED BY <2>1, <3>1 DEF row, RowRight
  <2>3. IsFiniteSet(TakenIn(i, k) \ es)
    BY TakenFacts, FS_Difference
  <2>4. TakenIn(i, k) \ es = {}
    BY <2>1, <2>2, <2>3, FS_EmptySet
  <2> QED BY <2>4
<1>6. \A e \in Entries : Gone(e) => place[e] \in {None, Free} \/ e \in es
  BY <1>4, <1>5, TakenFacts
<1>7. es \subseteq Entries
  BY TakenFacts DEF Returnable
<1>8. \A e \in Entries : place'[e] =
        IF Gone(e) THEN None ELSE IF e \in es THEN Free ELSE place[e]
  <2> SUFFICES ASSUME NEW e \in Entries
               PROVE  place'[e] = IF Gone(e) THEN None ELSE IF e \in es THEN Free ELSE place[e]
    OBVIOUS
  <2> DEFINE now == IF e \in es THEN Free ELSE place[e]
  <2>1. place'[e] = IF Gone(e) /\ now = Free THEN None ELSE now
    BY <1>2, <1>4
  <2>2. Gone(e) => now \in {None, Free}
    BY <1>6
  <2> HIDE DEF Gone
  <2> QED BY <2>1, <2>2
<1>9. place' \in [Entries -> Places]
  <2>1. place \in [Entries -> Places] /\ None \in Places /\ Free \in Places
    BY DEF TypeOK, Places
  <2> QED BY <1>2, <2>1
<1>10. layers' = [layers EXCEPT ![i] =
            [k \in Layers |-> IF k > top /\ k <= c THEN NoLayer ELSE row[k]]]
  BY <1>1, <1>2
<1>11. current_layer' = [current_layer EXCEPT ![i] = top]
  BY <1>2
<1>12. next' = [e \in Entries |-> IF Gone(e) THEN NULL
                    ELSE IF e = last THEN layers[i][l].head ELSE next[e]]
  BY <1>2, <1>4
<1>13. top \in Nat /\ top <= c
  BY <1>1, <1>3, Bounds
<1>14. current_size[i] \div Power[Cardinality(gone)] = InitSize * Power[top]
  <2> DEFINE g == Cardinality(gone)
  <2>1. g \in Nat /\ top + g = c
    BY <1>1, <1>3
  <2>2. Power[c] = Power[top] * Power[g]
    BY <1>13, <2>1, PowerPlus
  <2>3. current_size[i] = InitSize * Power[c]
    BY <1>3 DEF StackRight
  <2>4. InitSize \in Nat /\ Power[top] \in Nat /\ Power[g] \in Nat /\ Power[g] > 0
    BY <1>13, <2>1, PowerType, Bounds
  <2> DEFINE a == InitSize
  <2> DEFINE b == Power[top]
  <2> DEFINE d == Power[g]
  <2>5. a \in Nat /\ b \in Nat /\ d \in Nat /\ d > 0 /\ current_size[i] = a * (b * d)
    BY <2>2, <2>3, <2>4
  <2> HIDE DEF a, b, d
  <2>6. a * (b * d) = (a * b) * d /\ a * b \in Nat
    BY <2>5
  <2>7. current_size[i] \div d = a * b
    BY <2>5, <2>6, DivTimes
  <2> QED BY <2>7 DEF a, b, d
<1>15. current_size' = [current_size EXCEPT ![i] = InitSize * Power[top]]
  BY <1>2, <1>14
<1>16. \A k \in Layers : k > top /\ k <= c => row[k].used = 0
  BY <1>1
<1> HIDE DEF top, row
<1> QED BY <1>1, <1>6, <1>8, <1>9, <1>10, <1>11, <1>12, <1>13, <1>15, <1>16 DEF row

(* With the entries back, places, counters, stack and free lists are right, *)
(* and what is cached elsewhere is untouched.                               *)
LEMMA PutBackKeeps ==
    ASSUME TypeOK, PlaceInv, UsedInv, StackRight, FreeInv,
           NEW i \in Threads, NEW l \in Layers,
           NEW es, NEW first, NEW last, NEW n, Returnable(i, l, es, first, last, n),
           PutBack(i, l, es, first, last, n)
    PROVE  /\ layers' \in [Threads -> [Layers ->
                    [arena_cap : Nat, head : Entries \cup {NULL}, used : Nat]]]
           /\ current_layer' \in [Threads -> Layers]
           /\ current_size' \in [Threads -> Nat \ {0}]
           /\ next' \in [Entries -> Entries \cup {NULL}]
           /\ place' \in [Entries -> Places]
           /\ PlaceInv' /\ UsedInv' /\ StackRight' /\ FreeInv'
           /\ \A e \in Entries : place[e] \notin {None, Free} /\ e \notin es =>
                place'[e] = place[e] /\ next'[e] = next[e]
           /\ \A e \in Entries : place'[e] \notin {None, Free} => place[e] = place'[e] /\ e \notin es
           /\ \A e \in Entries : Pool(e) # i => place'[e] = place[e]
           /\ \A e \in es : place'[e] \in {None, Free}
           /\ \A e \in Entries : place[e] = None => place'[e] = None
<1> DEFINE row == Row(i, l, first, n)
<1> DEFINE c == current_layer[i]
<1>1. PICK top \in Layers :
        /\ top <= c
        /\ top > 0 => row[top].used > 0
        /\ layers' = [layers EXCEPT ![i] =
                [k \in Layers |-> IF k > top /\ k <= c THEN NoLayer ELSE row[k]]]
        /\ \A k \in Layers : k > top /\ k <= c => row[k].used = 0
        /\ current_layer' = [current_layer EXCEPT ![i] = top]
        /\ current_size' = [current_size EXCEPT ![i] = InitSize * Power[top]]
        /\ next' = [e \in Entries |->
                        IF Pool(e) = i /\ Layer(e) > top /\ Layer(e) <= c THEN NULL
                        ELSE IF e = last THEN layers[i][l].head ELSE next[e]]
        /\ \A e \in Entries : place'[e] =
                IF Pool(e) = i /\ Layer(e) > top /\ Layer(e) <= c THEN None
                ELSE IF e \in es THEN Free ELSE place[e]
        /\ place' \in [Entries -> Places]
        /\ \A e \in Entries : Pool(e) = i /\ Layer(e) > top /\ Layer(e) <= c =>
                place[e] \in {None, Free} \/ e \in es
  BY PutBackFacts
<1> DEFINE Gone(e) == Pool(e) = i /\ Layer(e) > top /\ Layer(e) <= c
<1>2. RowRight(i, l, es, first, n)
  BY RowFacts
<1>3. /\ \A e \in es : /\ e \in Entries /\ Pool(e) = i /\ Layer(e) = l
                       /\ place[e] \notin {None, Free}
      /\ es \subseteq Entries /\ es # {} /\ NULL \notin es
  BY TakenFacts, NullAssumption DEF Returnable
<1>4. first \in es /\ last \in es
  <2>1. PICK nz : IsList(nz, first, last, es)
    BY DEF Returnable
  <2> QED BY <1>3, <2>1, ListEnds
<1>5. c \in Nat /\ top \in Nat /\ c \in Layers
  <2>1. c \in Layers
    BY DEF TypeOK
  <2> QED BY <2>1, LayerNat
<1>6. l <= c
  <2>1. first \in TakenIn(i, l)
    BY <1>4 DEF Returnable
  <2> QED BY <2>1, TakenExists
<1> DEFINE rec == [arena_cap : Nat, head : Entries \cup {NULL}, used : Nat]
<1>7. layers \in [Threads -> [Layers -> rec]]
  BY DEF TypeOK
<1>8. \A k \in Layers : row[k] \in rec
  <2> SUFFICES ASSUME NEW k \in Layers
               PROVE  row[k] \in rec
    OBVIOUS
  <2>1. layers[i][k].arena_cap \in Nat /\ layers[i][k].head \in Entries \cup {NULL}
    BY <1>7
  <2>2. first \in Entries
    BY <1>3, <1>4
  <2> HIDE DEF row
  <2>3. /\ row[k] = [arena_cap |-> row[k].arena_cap, head |-> row[k].head, used |-> row[k].used]
        /\ row[k].arena_cap = layers[i][k].arena_cap
        /\ row[k].head = IF k = l THEN first ELSE layers[i][k].head
        /\ row[k].used \in Nat
    BY <1>2 DEF RowRight, row
  <2>4. row[k].arena_cap \in Nat /\ row[k].head \in Entries \cup {NULL} /\ row[k].used \in Nat
    BY <2>1, <2>2, <2>3
  <2> QED BY <2>3, <2>4
<1>9. NoLayer \in rec /\ NoLayer.arena_cap = 0 /\ NoLayer.head = NULL /\ NoLayer.used = 0
  BY DEF NoLayer
<1> HIDE DEF row
<1>10. layers' \in [Threads -> [Layers -> rec]]
  <2>1. [k \in Layers |-> IF k > top /\ k <= c THEN NoLayer ELSE row[k]] \in [Layers -> rec]
    BY <1>8, <1>9
  <2> HIDE DEF rec
  <2> QED BY <1>1, <1>7, <2>1
<1>11. /\ \A k \in Layers : layers'[i][k] = IF k > top /\ k <= c THEN NoLayer ELSE row[k]
       /\ \A j \in Threads, k \in Layers : j # i => layers'[j][k] = layers[j][k]
  BY <1>1, <1>7
<1>11a. ASSUME NEW j \in Threads, NEW k \in Layers, ~ (j = i /\ k > top /\ k <= c)
        PROVE  /\ layers'[j][k].arena_cap = layers[j][k].arena_cap
               /\ j # i \/ k # l => layers'[j][k].head = layers[j][k].head
  <2>1. row[k].arena_cap = layers[i][k].arena_cap /\ (k # l => row[k] = layers[i][k])
    BY <1>2 DEF RowRight, row
  <2>2. CASE j # i
    <3>1. layers'[j][k] = layers[j][k]
      BY <1>11, <2>2
    <3> QED BY <3>1, <2>2
  <2>3. CASE j = i
    <3>1. layers'[j][k] = row[k]
      BY <1>11, <1>11a, <2>3
    <3> QED BY <2>1, <2>3, <3>1
  <2> QED BY <2>2, <2>3
<1>12. /\ current_layer' \in [Threads -> Layers] /\ current_layer'[i] = top
       /\ \A j \in Threads : j # i => current_layer'[j] = current_layer[j]
  BY <1>1 DEF TypeOK
<1>13. /\ current_size' \in [Threads -> Nat \ {0}] /\ current_size'[i] = InitSize * Power[top]
       /\ \A j \in Threads : j # i => current_size'[j] = current_size[j]
  <2>1. InitSize * Power[top] \in Nat \ {0}
    BY LayerSize, Bounds
  <2>2. current_size \in [Threads -> Nat \ {0}]
    BY DEF TypeOK
  <2> QED BY <1>1, <2>1, <2>2
<1>14. next' \in [Entries -> Entries \cup {NULL}]
  <2>1. layers[i][l].head \in Entries \cup {NULL} /\ next \in [Entries -> Entries \cup {NULL}]
    BY <1>7 DEF TypeOK
  <2> QED BY <1>1, <2>1
<1>15. \A e \in Entries :
        /\ Gone(e) => place'[e] = None /\ next'[e] = NULL
        /\ ~Gone(e) /\ e \in es => place'[e] = Free
        /\ ~Gone(e) /\ e \notin es => place'[e] = place[e]
        /\ ~Gone(e) /\ e # last => next'[e] = next[e]
        /\ ~Gone(e) /\ e = last => next'[e] = layers[i][l].head
  BY <1>1
<1>16. \A e \in Entries : Gone(e) => place[e] \in {None, Free} \/ e \in es
  BY <1>1
<1> HIDE DEF Gone
<1>17. \A e \in Entries : place[e] \notin {None, Free} /\ e \notin es =>
                place'[e] = place[e] /\ next'[e] = next[e]
  BY <1>4, <1>15, <1>16
<1>18. \A e \in Entries : place'[e] \notin {None, Free} => place[e] = place'[e] /\ e \notin es
  BY <1>15
<1>19. \A e \in es : place'[e] \in {None, Free}
  BY <1>3, <1>15
<1>20. \A e \in Entries : Pool(e) # i => place'[e] = place[e]
  BY <1>3, <1>15 DEF Gone
<1>21. PlaceInv'
  <2> SUFFICES ASSUME NEW e \in Entries
               PROVE  /\ place'[e] # None <=> e[3] <= layers'[Pool(e)][Layer(e)].arena_cap
                      /\ \A j \in Threads : place'[e] = CachedBy(j) => Pool(e) # j
    BY DEF PlaceInv
  <2>1. \A j \in Threads : place'[e] = CachedBy(j) => Pool(e) # j
    BY <1>18, PlaceFacts DEF PlaceInv
  <2>2. place[e] # None <=> e[3] <= layers[Pool(e)][Layer(e)].arena_cap
    BY DEF PlaceInv
  <2>3. Pool(e) \in Threads /\ Layer(e) \in Layers /\ e[3] \in Nat /\ e[3] > 0
    BY EntryFacts, Bounds
  <2>4. CASE Gone(e)
    <3>1. layers'[Pool(e)][Layer(e)].arena_cap = 0
      BY <1>9, <1>11, <2>3, <2>4 DEF Gone
    <3> QED BY <1>15, <2>1, <2>3, <2>4, <3>1
  <2>5. CASE ~Gone(e)
    <3>1. layers'[Pool(e)][Layer(e)].arena_cap = layers[Pool(e)][Layer(e)].arena_cap
      BY <1>11a, <2>3, <2>5 DEF Gone
    <3>2. place'[e] # None <=> place[e] # None
      BY <1>3, <1>15, <2>5, PlaceFacts
    <3> QED BY <2>1, <2>2, <3>1, <3>2
  <2> QED BY <2>4, <2>5
<1>22. UsedInv'
  <2> SUFFICES ASSUME NEW j \in Threads, NEW k \in Layers
               PROVE  layers'[j][k].used = Cardinality(TakenIn(j, k)')
    BY DEF UsedInv
  <2>1. CASE j # i
    <3>1. TakenIn(j, k)' = TakenIn(j, k)
      BY <1>20, <2>1, TakenFacts
    <3> QED BY <1>11, <2>1, <3>1 DEF UsedInv
  <2>2. CASE j = i
    <3>1. TakenIn(j, k)' = TakenIn(j, k) \ es
      <4>1. ASSUME NEW e, e \in TakenIn(j, k)'
            PROVE  e \in TakenIn(j, k) \ es
        BY <1>18, <4>1, TakenFacts
      <4>2. ASSUME NEW e, e \in TakenIn(j, k) \ es
            PROVE  e \in TakenIn(j, k)'
        BY <1>17, <4>2, TakenFacts
      <4> QED BY <4>1, <4>2
    <3>2. row[k].used = Cardinality(TakenIn(i, k) \ es)
      BY <1>2 DEF RowRight, row
    <3>3. CASE k > top /\ k <= c
      BY <1>1, <1>9, <1>11, <2>2, <3>1, <3>2, <3>3
    <3>4. CASE ~ (k > top /\ k <= c)
      BY <1>11, <2>2, <3>1, <3>2, <3>4
    <3> QED BY <3>3, <3>4
  <2> QED BY <2>1, <2>2
<1>23. StackRight'
  <2> SUFFICES ASSUME NEW j \in Threads
               PROVE  /\ \A k \in Layers : layers'[j][k].arena_cap =
                            IF k <= current_layer'[j] THEN InitSize * Power[k] ELSE 0
                      /\ current_size'[j] = layers'[j][current_layer'[j]].arena_cap
                      /\ current_layer'[j] > 0 => layers'[j][current_layer'[j]].used > 0
    BY DEF StackRight
  <2>1. CASE j # i
    <3>1. current_layer[j] \in Layers
      BY DEF TypeOK
    <3> QED BY <1>11, <1>12, <1>13, <2>1, <3>1 DEF StackRight
  <2>2. CASE j = i
    <3>1. ASSUME NEW k \in Layers
          PROVE  layers'[i][k].arena_cap = IF k <= top THEN InitSize * Power[k] ELSE 0
      <4>1. row[k].arena_cap = IF k <= c THEN InitSize * Power[k] ELSE 0
        BY <1>2 DEF RowRight, row, StackRight
      <4>2. k \in Nat
        BY LayerNat
      <4>3. CASE k > top /\ k <= c
        BY <1>5, <1>9, <1>11, <4>2, <4>3
      <4>4. CASE ~ (k > top /\ k <= c)
        BY <1>1, <1>5, <1>11, <4>1, <4>2, <4>4
      <4> QED BY <4>3, <4>4
    <3>2. layers'[i][top] = row[top]
      BY <1>5, <1>11
    <3>3. layers'[i][top].arena_cap = InitSize * Power[top]
      BY <1>5, <3>1
    <3> QED BY <1>1, <1>12, <1>13, <2>2, <3>1, <3>2, <3>3
  <2> QED BY <2>1, <2>2
<1>24. FreeInv'
  <2> SUFFICES ASSUME NEW j \in Threads, NEW k \in Layers
               PROVE  \E t : IsList(next', layers'[j][k].head, t, InLayer(j, k, Free)')
    BY DEF FreeInv, FreeRight
  <2>1. PICK t : IsList(next, layers[j][k].head, t, InLayer(j, k, Free))
    BY DEF FreeInv, FreeRight
  <2> DEFINE F == InLayer(j, k, Free)
  <2>2. \A e \in F : e \in Entries /\ Pool(e) = j /\ Layer(e) = k /\ place[e] = Free /\ e \notin es
    BY <1>3, InLayerFacts
  <2>3. CASE j = i /\ k > top /\ k <= c
    <3>1. InLayer(j, k, Free)' = {}
      BY <1>15, <2>3, InLayerNext, PlaceFacts DEF Gone
    <3>2. layers'[j][k].head = NULL
      BY <1>9, <1>11, <2>3
    <3> QED BY <3>1, <3>2, ListEmpty
  <2>4. CASE j = i /\ ~ (k > top /\ k <= c) /\ k = l
    <3>1. \A e \in Entries : Pool(e) = j /\ Layer(e) = k => ~Gone(e)
      BY <2>4 DEF Gone
    <3>2. InLayer(j, k, Free)' = es \cup F
      <4>1. ASSUME NEW e, e \in InLayer(j, k, Free)'
            PROVE  e \in es \cup F
        BY <1>15, <3>1, <4>1, InLayerNext, InLayerFacts
      <4>2. ASSUME NEW e, e \in es \cup F
            PROVE  e \in InLayer(j, k, Free)'
        BY <1>3, <1>15, <2>2, <2>4, <3>1, <4>2, InLayerNext
      <4> QED BY <4>1, <4>2
    <3>3. layers'[j][k].head = first
      BY <1>2, <1>11, <2>4 DEF RowRight, row
    <3>4. PICK nz : IsList(nz, first, last, es) /\ \A e \in es : e # last => nz[e] = next[e]
      BY DEF Returnable
    <3>5. \A e \in F : next'[e] = next[e]
      BY <1>4, <1>15, <2>2, <3>1
    <3>6. IsList(next', layers[j][k].head, t, F)
      BY <2>1, <3>5, ListFrame
    <3>7. next'[last] = layers[j][k].head /\ \A e \in es : e # last => next'[e] = nz[e]
      BY <1>3, <1>4, <1>15, <2>4, <3>1, <3>4
    <3>8. es \cap F = {} /\ NULL \notin F
      BY <2>2, InLayerFacts
    <3> DEFINE t2 == IF t # NULL THEN t ELSE last
    <3>9. IsList(next', first, t2, es \cup F)
      <4> HIDE DEF F
      <4> QED BY <1>3, <3>4, <3>6, <3>7, <3>8, ListJoin
    <3> HIDE DEF F, t2
    <3> QED BY <3>2, <3>3, <3>9
  <2>5. CASE j # i \/ (~ (k > top /\ k <= c) /\ k # l)
    <3>1. \A e \in Entries : Pool(e) = j /\ Layer(e) = k => ~Gone(e) /\ e \notin es /\ e # last
      BY <1>3, <1>4, <2>5 DEF Gone
    <3>2. InLayer(j, k, Free)' = F
      BY <1>15, <3>1, InLayerNext, InLayerFacts
    <3>3. \A e \in F : next'[e] = next[e]
      BY <1>15, <2>2, <3>1
    <3>4. layers'[j][k].head = layers[j][k].head
      BY <1>11a, <2>5
    <3>5. IsList(next', layers[j][k].head, t, F)
      BY <2>1, <3>3, ListFrame
    <3> HIDE DEF F
    <3> QED BY <3>2, <3>4, <3>5
  <2> QED BY <2>3, <2>4, <2>5
<1>25. place' \in [Entries -> Places]
  BY <1>1
<1>26. \A e \in Entries : place[e] = None => place'[e] = None
  BY <1>3, <1>15
<1> QED BY <1>10, <1>12, <1>13, <1>14, <1>17, <1>18, <1>19, <1>20, <1>21, <1>22, <1>23, <1>24,
           <1>25, <1>26

----------------------------------------------------------------------------
(* What a step leaves alone *)

(* A step that does not touch the pools' memory. *)
LEMMA PoolsSame ==
    ASSUME UNCHANGED poolVars
    PROVE  /\ PlaceInv => PlaceInv'
           /\ UsedInv => UsedInv'
           /\ StackRight => StackRight'
           /\ FreeInv => FreeInv'
           /\ caches' = caches /\ CacheInv => CacheInv'
           /\ ObjectsInv => ObjectsInv'
<1>1. /\ layers' = layers /\ current_layer' = current_layer /\ current_size' = current_size
      /\ next' = next /\ place' = place /\ objects' = objects
  BY DEF poolVars
<1>2. PlaceInv => PlaceInv'
  BY <1>1 DEF PlaceInv
<1>3. UsedInv => UsedInv'
  BY <1>1 DEF UsedInv, TakenIn, TakenOf
<1>4. StackRight => StackRight'
  BY <1>1 DEF StackRight
<1>5. \A i, l, where : InLayer(i, l, where)' = InLayer(i, l, where)
  BY <1>1 DEF InLayer
<1>6. FreeInv => FreeInv'
  BY <1>1, <1>5 DEF FreeInv, FreeRight
<1>7. caches' = caches /\ CacheInv => CacheInv'
  BY <1>1, <1>5 DEF CacheInv, CacheRight
<1>8. ObjectsInv => ObjectsInv'
  BY <1>1 DEF ObjectsInv
<1> QED BY <1>2, <1>3, <1>4, <1>6, <1>7, <1>8

(* A free list is right if its head and its entries are what they were. *)
LEMMA FreeKeeps ==
    ASSUME NEW i, NEW l, FreeRight(i, l), layers'[i][l].head = layers[i][l].head,
           \A e \in Entries : Pool(e) = i /\ Layer(e) = l =>
                /\ place'[e] = Free <=> place[e] = Free
                /\ place[e] = Free => next'[e] = next[e]
    PROVE  FreeRight(i, l)'
<1>1. PICK t : IsList(next, layers[i][l].head, t, InLayer(i, l, Free))
  BY DEF FreeRight
<1> DEFINE S == InLayer(i, l, Free)
<1>2. InLayer(i, l, Free)' = S
  <2>1. \A e : e \in InLayer(i, l, Free)' <=> e \in S
    BY InLayerFacts, InLayerNext
  <2> HIDE DEF S
  <2> QED BY <2>1
<1>3. \A e \in S : next'[e] = next[e]
  BY InLayerFacts
<1>4. IsList(next', layers[i][l].head, t, S)
  BY <1>1, <1>3, ListFrame
<1> HIDE DEF S
<1> QED BY <1>2, <1>4 DEF FreeRight

(* So is the list of a cache. *)
LEMMA CacheKeeps ==
    ASSUME NEW j, NEW i, NEW l, CacheRight(j, i, l), caches'[j][i][l] = caches[j][i][l],
           \A e \in Entries : Pool(e) = i /\ Layer(e) = l =>
                /\ place'[e] = CachedBy(j) <=> place[e] = CachedBy(j)
                /\ place[e] = CachedBy(j) => next'[e] = next[e]
    PROVE  CacheRight(j, i, l)'
<1> DEFINE S == InLayer(i, l, CachedBy(j))
<1>1. InLayer(i, l, CachedBy(j))' = S
  <2>1. \A e : e \in InLayer(i, l, CachedBy(j))' <=> e \in S
    BY InLayerFacts, InLayerNext
  <2> HIDE DEF S
  <2> QED BY <2>1
<1>2. \A e \in S : next'[e] = next[e]
  BY InLayerFacts
<1>3. IsList(next, caches[j][i][l].head, caches[j][i][l].tail, S)
  BY DEF CacheRight
<1>4. IsList(next', caches[j][i][l].head, caches[j][i][l].tail, S)
  BY <1>2, <1>3, ListFrame
<1>5. caches[j][i][l].num_cached = Cardinality(S)
  BY DEF CacheRight
<1> HIDE DEF S
<1> QED BY <1>1, <1>4, <1>5 DEF CacheRight

(* What thread j has cached. *)
CachedOf(j) == {e \in Entries : place[e] = CachedBy(j)}

(* The totals are right if nothing is cached or unlocked. *)
LEMMA TotalKeeps ==
    ASSUME TotalInv, NEW i \in Threads, total_cached'[i] = total_cached[i],
           ReleaseLocked(i)' \/ (~ReleaseLocked(i) /\ CachedOf(i)' = CachedOf(i))
    PROVE  /\ ~ReleaseLocked(i)' =>
                total_cached'[i] = Cardinality(CachedOf(i)') /\ total_cached'[i] <= MaxCached
           /\ total_cached'[i] <= MaxCached + 1
BY DEF TotalInv, CachedOf

(* The invariant of the totals, with the set named. *)
LEMMA TotalNext ==
    ASSUME \A i \in Threads :
            /\ ~ReleaseLocked(i)' =>
                total_cached'[i] = Cardinality(CachedOf(i)') /\ total_cached'[i] <= MaxCached
            /\ total_cached'[i] <= MaxCached + 1
    PROVE  TotalInv'
BY DEF TotalInv, CachedOf

(* A step of w that neither takes nor drops my_release_mut_ nor moves the   *)
(* daemon on leaves it locked where it was.                                 *)
LEMMA LockKeeps ==
    ASSUME TypeOK, NEW w \in Workers, NEW where, Goto(w, where), where # "flush",
           pc[w] # "flush", turn' = turn
    PROVE  \A i : ReleaseLocked(i)' <=> ReleaseLocked(i)
<1>1. pc \in [Workers -> Control]
  BY DEF TypeOK
<1>2. \A v \in Workers : pc'[v] = "flush" <=> pc[v] = "flush"
  BY <1>1 DEF Goto
<1> QED BY <1>2 DEF ReleaseLocked, Flushed

----------------------------------------------------------------------------
(* One lemma per action *)

(* The types of a layer and of a cache. *)
LayerType == [arena_cap : Nat, head : Entries \cup {NULL}, used : Nat]
CacheType == [head : Entries \cup {NULL}, tail : Entries \cup {NULL}, num_cached : Nat]

(* The type invariant, variable by variable. *)
LEMMA Types ==
    TypeOK <=>
        /\ layers \in [Threads -> [Layers -> LayerType]]
        /\ current_layer \in [Threads -> Layers]
        /\ current_size \in [Threads -> Nat \ {0}]
        /\ next \in [Entries -> Entries \cup {NULL}]
        /\ caches \in [Threads -> [Threads -> [Layers -> CacheType]]]
        /\ total_cached \in [Threads -> Nat]
        /\ place \in [Entries -> Places]
        /\ objects \in [Entries -> Nat]
        /\ pc \in [Workers -> Control]
        /\ turn \in 0 .. NThreads
        /\ terminatable \in BOOLEAN
BY DEF TypeOK, LayerType, CacheType

(* The same after a step. *)
LEMMA TypesNext ==
    TypeOK' <=>
        /\ layers' \in [Threads -> [Layers -> LayerType]]
        /\ current_layer' \in [Threads -> Layers]
        /\ current_size' \in [Threads -> Nat \ {0}]
        /\ next' \in [Entries -> Entries \cup {NULL}]
        /\ caches' \in [Threads -> [Threads -> [Layers -> CacheType]]]
        /\ total_cached' \in [Threads -> Nat]
        /\ place' \in [Entries -> Places]
        /\ objects' \in [Entries -> Nat]
        /\ pc' \in [Workers -> Control]
        /\ turn' \in 0 .. NThreads
        /\ terminatable' \in BOOLEAN
BY DEF TypeOK, LayerType, CacheType

(* The head of a layer that is not empty is a free entry of that layer. *)
LEMMA HeadFree ==
    ASSUME FreeInv, NEW i \in Threads, NEW l \in Layers, layers[i][l].head # NULL
    PROVE  layers[i][l].head \in InLayer(i, l, Free)
<1>1. PICK t : IsList(next, layers[i][l].head, t, InLayer(i, l, Free))
  BY DEF FreeInv, FreeRight
<1>2. NULL \notin InLayer(i, l, Free)
  BY InLayerFacts
<1> QED BY <1>1, <1>2, ListEnds

(* An object more in an entry that is not in use, *)
LEMMA ObjectsGive ==
    ASSUME TypeOK, ObjectsInv, NEW e \in Entries, place[e] # Used, place'[e] = Used,
           \A x \in Entries : x # e => (place'[x] = Used <=> place[x] = Used),
           objects' = [objects EXCEPT ![e] = @ + 1]
    PROVE  objects[e] = 0 /\ objects' \in [Entries -> Nat] /\ ObjectsInv'
<1>1. objects \in [Entries -> Nat]
  BY Types
<1>2. objects[e] = 0
  BY DEF ObjectsInv
<1>3. objects'[e] = 1 /\ \A x \in Entries : x # e => objects'[x] = objects[x]
  BY <1>1, <1>2
<1> QED BY <1>1, <1>2, <1>3 DEF ObjectsInv

(* one less in an entry that is, *)
LEMMA ObjectsTake ==
    ASSUME TypeOK, ObjectsInv, NEW e \in Entries, objects[e] > 0, place'[e] # Used,
           \A x \in Entries : x # e => (place'[x] = Used <=> place[x] = Used),
           objects' = [objects EXCEPT ![e] = @ - 1]
    PROVE  objects' \in [Entries -> Nat] /\ ObjectsInv'
<1>1. objects \in [Entries -> Nat]
  BY Types
<1>2. objects[e] = 1
  BY DEF ObjectsInv
<1>3. objects'[e] = 0 /\ \A x \in Entries : x # e => objects'[x] = objects[x]
  BY <1>1, <1>2
<1> QED BY <1>1, <1>2, <1>3 DEF ObjectsInv

(* and objects that stay where they are. *)
LEMMA ObjectsStay ==
    ASSUME TypeOK, ObjectsInv, objects' = objects,
           \A x \in Entries : place'[x] = Used <=> place[x] = Used
    PROVE  objects' \in [Entries -> Nat] /\ ObjectsInv'
BY Types DEF ObjectsInv

(* What users see of an allocation, of a release, and of the return of what *)
(* was released before: an object in an entry that had none ...             *)
GivesOne ==
    \E e \in Entries :
        /\ objects[e] = 0 /\ objects' = [objects EXCEPT ![e] = @ + 1]
        /\ place'[e] # None
        /\ \A x \in Entries : place[x] # None => place'[x] # None

(* ... an object less ... *)
TakesOne ==
    \E e \in Entries :
        /\ objects[e] > 0 /\ objects' = [objects EXCEPT ![e] = @ - 1]
        /\ \A x \in Entries : place'[x] = None <=> place[x] = None

(* ... and layers that may go, with what holds no object. *)
MayShrink ==
    /\ objects' = objects
    /\ \A x \in Entries :
        /\ place[x] = None => place'[x] = None
        /\ objects[x] > 0 => place'[x] # None

(* my_alloc() from a layer that has a free entry. *)
LEMMA AllocStep ==
    ASSUME PoolInv, NEW t \in Threads, Alloc(t)
    PROVE  PoolInv' /\ GivesOne
<1> USE DEF PoolInv
<1>1. PICK l \in Available(t) :
        LET e == layers[t][l].head IN
        /\ layers' = [layers EXCEPT ![t][l] = Taken(@, next[e])]
        /\ next' = [next EXCEPT ![e] = NULL]
        /\ place' = [place EXCEPT ![e] = Used]
        /\ objects' = [objects EXCEPT ![e] = @ + 1]
  BY DEF Alloc
<1>2. /\ current_layer' = current_layer /\ current_size' = current_size
      /\ caches' = caches /\ total_cached' = total_cached /\ pc' = pc
      /\ turn' = turn /\ terminatable' = terminatable
  BY DEF Alloc, cacheVars, daemonVars
<1> DEFINE e == layers[t][l].head
<1>3. current_layer[t] \in Layers
  BY Types
<1>4. l \in Layers /\ l <= current_layer[t] /\ layers[t][l].head # NULL
  <2>1. l \in 0 .. current_layer[t] /\ layers[t][l].head # NULL
    BY DEF Available
  <2>2. current_layer[t] \in Nat /\ current_layer[t] < NLayers
    BY <1>3, LayerNat
  <2> QED BY <2>1, <2>2, Bounds DEF Layers
<1>5. e \in InLayer(t, l, Free)
  BY <1>4, HeadFree
<1>6. e \in Entries /\ Pool(e) = t /\ Layer(e) = l /\ place[e] = Free
  BY <1>5, InLayerFacts
<1> HIDE DEF e
<1>7. next \in [Entries -> Entries \cup {NULL}] /\ place \in [Entries -> Places]
  BY Types
<1>8. next' = [next EXCEPT ![e] = NULL] /\ place' = [place EXCEPT ![e] = Used]
  BY <1>1 DEF e
<1>9. /\ next'[e] = NULL /\ \A x \in Entries : x # e => next'[x] = next[x]
      /\ place'[e] = Used /\ \A x \in Entries : x # e => place'[x] = place[x]
      /\ next' \in [Entries -> Entries \cup {NULL}]
  BY <1>6, <1>7, <1>8
<1>10. place' \in [Entries -> Places]
  BY <1>7, <1>8 DEF Places
<1>11. layers \in [Threads -> [Layers -> LayerType]]
  BY Types
<1>12. layers' = [layers EXCEPT ![t][l] = [arena_cap |-> layers[t][l].arena_cap,
                                           head |-> next[e], used |-> layers[t][l].used + 1]]
  BY <1>1 DEF e, Taken
<1>13. /\ layers' \in [Threads -> [Layers -> LayerType]]
       /\ layers'[t][l] = [arena_cap |-> layers[t][l].arena_cap,
                           head |-> next[e], used |-> layers[t][l].used + 1]
       /\ \A i \in Threads, k \in Layers : i # t \/ k # l => layers'[i][k] = layers[i][k]
  <2>1. [arena_cap |-> layers[t][l].arena_cap, head |-> next[e],
         used |-> layers[t][l].used + 1] \in LayerType
    <3>1. layers[t][l] \in LayerType /\ next[e] \in Entries \cup {NULL}
      BY <1>4, <1>6, <1>7, <1>11
    <3> QED BY <3>1 DEF LayerType
  <2> HIDE DEF LayerType
  <2> QED BY <1>4, <1>11, <1>12, <2>1
<1>14. \A i \in Threads, k \in Layers : layers'[i][k].arena_cap = layers[i][k].arena_cap
  BY <1>13
<1>o. objects' = [objects EXCEPT ![e] = @ + 1]
  BY <1>1 DEF e
<1>u. objects[e] = 0 /\ objects' \in [Entries -> Nat] /\ ObjectsInv'
  BY <1>6, <1>9, <1>o, PlaceFacts, ObjectsGive
<1>15. TypeOK'
  BY <1>2, <1>9, <1>10, <1>13, <1>u, Types, TypesNext
<1>16. ControlInv'
  BY <1>2 DEF ControlInv
<1>17. PlaceInv'
  <2> SUFFICES ASSUME NEW x \in Entries
               PROVE  /\ place'[x] # None <=> x[3] <= layers'[Pool(x)][Layer(x)].arena_cap
                      /\ \A j \in Threads : place'[x] = CachedBy(j) => Pool(x) # j
    BY DEF PlaceInv
  <2>1. layers'[Pool(x)][Layer(x)].arena_cap = layers[Pool(x)][Layer(x)].arena_cap
    BY <1>14, EntryFacts
  <2>2. /\ place[x] # None <=> x[3] <= layers[Pool(x)][Layer(x)].arena_cap
        /\ \A j \in Threads : place[x] = CachedBy(j) => Pool(x) # j
    BY DEF PlaceInv
  <2>3. CASE x = e
    BY <1>6, <1>9, <2>1, <2>2, <2>3, PlaceFacts
  <2>4. CASE x # e
    BY <1>9, <2>1, <2>2, <2>4
  <2> QED BY <2>3, <2>4
<1>18. UsedInv'
  <2> SUFFICES ASSUME NEW i \in Threads, NEW k \in Layers
               PROVE  layers'[i][k].used = Cardinality(TakenIn(i, k)')
    BY DEF UsedInv
  <2>1. layers[i][k].used = Cardinality(TakenIn(i, k)) /\ IsFiniteSet(TakenIn(i, k))
    BY TakenFacts DEF UsedInv
  <2>2. CASE i = t /\ k = l
    <3>1. \A x : x \in TakenIn(i, k)' <=> x \in TakenIn(i, k) \cup {e}
      BY <1>6, <1>9, <2>2, TakenFacts, PlaceFacts
    <3>2. TakenIn(i, k)' = TakenIn(i, k) \cup {e} /\ e \notin TakenIn(i, k)
      BY <1>6, <3>1, TakenFacts
    <3>3. Cardinality(TakenIn(i, k)') = Cardinality(TakenIn(i, k)) + 1
      BY <2>1, <3>2, FS_AddElement
    <3> QED BY <1>13, <2>1, <2>2, <3>3
  <2>3. CASE i # t \/ k # l
    <3>1. \A x : x \in TakenIn(i, k)' <=> x \in TakenIn(i, k)
      BY <1>6, <1>9, <2>3, TakenFacts
    <3>2. TakenIn(i, k)' = TakenIn(i, k)
      BY <3>1
    <3> QED BY <1>13, <2>1, <2>3, <3>2
  <2> QED BY <2>2, <2>3
<1>19. TotalInv'
  <2>1. \A i : ReleaseLocked(i)' <=> ReleaseLocked(i)
    BY <1>2 DEF ReleaseLocked, Flushed
  <2>2. \A j : CachedOf(j)' = CachedOf(j)
    <3> SUFFICES ASSUME NEW j
                 PROVE  \A x : x \in CachedOf(j)' <=> x \in CachedOf(j)
      OBVIOUS
    <3> QED BY <1>6, <1>9, PlaceFacts DEF CachedOf
  <2> QED BY <1>2, <2>1, <2>2, TotalKeeps, TotalNext
<1>20. StackRight'
  <2> SUFFICES ASSUME NEW i \in Threads
               PROVE  /\ \A k \in Layers : layers'[i][k].arena_cap =
                            IF k <= current_layer'[i] THEN InitSize * Power[k] ELSE 0
                      /\ current_size'[i] = layers'[i][current_layer'[i]].arena_cap
                      /\ current_layer'[i] > 0 => layers'[i][current_layer'[i]].used > 0
    BY DEF StackRight
  <2>1. /\ \A k \in Layers : layers[i][k].arena_cap =
                IF k <= current_layer[i] THEN InitSize * Power[k] ELSE 0
        /\ current_size[i] = layers[i][current_layer[i]].arena_cap
        /\ current_layer[i] > 0 => layers[i][current_layer[i]].used > 0
    BY DEF StackRight
  <2>2. current_layer[i] \in Layers
    BY Types
  <2>3. layers[t][l].used + 1 > 0
    <3>1. layers[t][l] \in LayerType
      BY <1>4, <1>11
    <3> QED BY <3>1 DEF LayerType
  <2>4. current_layer'[i] > 0 => layers'[i][current_layer'[i]].used > 0
    <3>1. CASE i = t /\ current_layer[i] = l
      BY <1>2, <1>13, <2>3, <3>1
    <3>2. CASE ~ (i = t /\ current_layer[i] = l)
      BY <1>2, <1>13, <2>1, <2>2, <3>2
    <3> QED BY <3>1, <3>2
  <2> QED BY <1>2, <1>14, <2>1, <2>2, <2>4
<1>21. FreeInv'
  <2> SUFFICES ASSUME NEW i \in Threads, NEW k \in Layers
               PROVE  FreeRight(i, k)'
    BY DEF FreeInv
  <2>1. FreeRight(i, k)
    BY DEF FreeInv
  <2>2. CASE i = t /\ k = l
    <3> DEFINE S == InLayer(t, l, Free)
    <3>1. PICK z : IsList(next, e, z, S)
      BY <2>1, <2>2 DEF FreeRight, e
    <3>2. PICK y : IsList(next, next[e], y, S \ {e})
      <4> HIDE DEF S
      <4> QED BY <1>5, <3>1, ListPop DEF S
    <3>3. \A x \in S \ {e} : next'[x] = next[x]
      BY <1>9, InLayerFacts
    <3>4. IsList(next', next[e], y, S \ {e})
      BY <3>2, <3>3, ListFrame
    <3>5. \A x : x \in InLayer(t, l, Free)' <=> x \in S \ {e}
      BY <1>9, InLayerFacts, InLayerNext, PlaceFacts
    <3>6. InLayer(t, l, Free)' = S \ {e}
      <4> HIDE DEF S
      <4> QED BY <3>5
    <3>7. layers'[t][l].head = next[e]
      BY <1>13
    <3> HIDE DEF S
    <3> QED BY <2>2, <3>4, <3>6, <3>7 DEF FreeRight
  <2>3. CASE i # t \/ k # l
    <3>1. \A x \in Entries : Pool(x) = i /\ Layer(x) = k => place'[x] = place[x] /\ next'[x] = next[x]
      BY <1>6, <1>9, <2>3
    <3>2. layers'[i][k].head = layers[i][k].head
      BY <1>13, <2>3
    <3> QED BY <2>1, <3>1, <3>2, FreeKeeps
  <2> QED BY <2>2, <2>3
<1>22. CacheInv'
  <2> SUFFICES ASSUME NEW j \in Threads, NEW i \in Threads, NEW k \in Layers
               PROVE  CacheRight(j, i, k)'
    BY DEF CacheInv
  <2>1. \A x \in Entries : /\ place'[x] = CachedBy(j) <=> place[x] = CachedBy(j)
                           /\ place[x] = CachedBy(j) => next'[x] = next[x]
    BY <1>6, <1>9, PlaceFacts
  <2> QED BY <1>2, <2>1, CacheKeeps DEF CacheInv
<1>23. GivesOne
  BY <1>6, <1>9, <1>o, <1>u, PlaceFacts DEF GivesOne
<1> QED BY <1>u, <1>15, <1>16, <1>17, <1>18, <1>19, <1>20, <1>21, <1>22, <1>23

(* my_alloc() from a new layer. *)
LEMMA EnlargeStep ==
    ASSUME PoolInv, NEW t \in Threads, Enlarge(t)
    PROVE  PoolInv' /\ GivesOne
<1> USE DEF PoolInv
<1>a. PICK l : l = current_layer[t] + 1
  OBVIOUS
<1>b. PICK size : size = current_size[t] * EnlargeRate
  OBVIOUS
<1>1. /\ current_layer' = [current_layer EXCEPT ![t] = l]
      /\ current_size' = [current_size EXCEPT ![t] = size]
      /\ layers' = [layers EXCEPT ![t][l] =
            [arena_cap |-> size, head |-> Link(<<t, l, 1>>, size), used |-> 1]]
      /\ next' = [e \in Entries |-> IF e \in Arena(t, l, size) /\ e[3] # 1
                                    THEN Link(e, size) ELSE next[e]]
      /\ place' = [e \in Entries |-> IF e \notin Arena(t, l, size) THEN place[e]
                                     ELSE IF e[3] = 1 THEN Used ELSE Free]
      /\ objects' = [objects EXCEPT ![<<t, l, 1>>] = @ + 1]
      /\ l < NLayers
  BY <1>a, <1>b DEF Enlarge
<1>2. /\ caches' = caches /\ total_cached' = total_cached /\ pc' = pc
      /\ turn' = turn /\ terminatable' = terminatable
  BY DEF Enlarge, cacheVars, daemonVars
<1>3. current_layer[t] \in Nat /\ current_layer[t] \in Layers
  <2>1. current_layer[t] \in Layers
    BY Types
  <2> QED BY <2>1, LayerNat
<1>4. l \in Layers /\ l \in Nat /\ l > 0 /\ l > current_layer[t] /\ l - 1 = current_layer[t]
  BY <1>1, <1>3, <1>a, Bounds DEF Layers
<1>5. size = InitSize * Power[l]
  <2>1. Power[l] = EnlargeRate * Power[current_layer[t]]
    BY <1>4, PowerDef
  <2>2. current_size[t] = InitSize * Power[current_layer[t]]
    BY <1>3 DEF StackRight
  <2> DEFINE p == Power[current_layer[t]]
  <2>3. p \in Nat /\ InitSize \in Nat /\ EnlargeRate \in Nat
    BY <1>3, PowerType, Bounds
  <2> HIDE DEF p
  <2>4. (InitSize * p) * EnlargeRate = InitSize * (EnlargeRate * p)
    BY <2>3
  <2> QED BY <1>b, <2>1, <2>2, <2>4 DEF p
<1>6. size \in 1 .. MaxSize
  BY <1>4, <1>5, LayerSize
<1>7. size \in Nat /\ size > 0
  BY <1>6, Bounds
<1> DEFINE first == <<t, l, 1>>
<1>8. /\ \A e \in Entries : e \in Arena(t, l, size) <=> Pool(e) = t /\ Layer(e) = l /\ e[3] <= size
      /\ \A k \in 1 .. size : /\ <<t, l, k>> \in Entries /\ Pool(<<t, l, k>>) = t
                              /\ Layer(<<t, l, k>>) = l /\ <<t, l, k>>[3] = k
                              /\ <<t, l, k>> \in Arena(t, l, size)
  <2>1. \A k \in 1 .. size : /\ <<t, l, k>> \in Entries /\ Pool(<<t, l, k>>) = t
                             /\ Layer(<<t, l, k>>) = l /\ <<t, l, k>>[3] = k
                             /\ <<t, l, k>> \in Arena(t, l, size)
    <3>1. \A k \in 1 .. size : k \in 1 .. MaxSize
      BY <1>6, Bounds
    <3> QED BY <1>4, <3>1, EntryFacts DEF Arena
  <2>2. ASSUME NEW e \in Entries, e \in Arena(t, l, size)
        PROVE  Pool(e) = t /\ Layer(e) = l /\ e[3] <= size
    <3>1. PICK k \in 1 .. size : e = <<t, l, k>>
      BY <2>2 DEF Arena
    <3>2. k <= size
      BY <1>7
    <3> QED BY <2>1, <3>1, <3>2
  <2>3. ASSUME NEW e \in Entries, Pool(e) = t, Layer(e) = l, e[3] <= size
        PROVE  e \in Arena(t, l, size)
    <3>1. e[3] \in 1 .. size /\ e = <<t, l, e[3]>>
      BY <1>7, <2>3, EntryFacts, Bounds
    <3> QED BY <2>1, <3>1
  <2> QED BY <2>1, <2>2, <2>3
<1>9. 1 \in 1 .. size
  BY <1>7
<1>10. first \in Entries /\ Pool(first) = t /\ Layer(first) = l /\ first[3] = 1 /\ first \in Arena(t, l, size)
  BY <1>8, <1>9
<1>11. \A e \in Entries : e \in Arena(t, l, size) /\ e[3] = 1 => e = first
  BY <1>8, EntryFacts
<1>12. \A e \in Entries : Pool(e) = t /\ Layer(e) = l => place[e] = None
  <2> SUFFICES ASSUME NEW e \in Entries, Pool(e) = t, Layer(e) = l
               PROVE  place[e] = None
    OBVIOUS
  <2>1. layers[t][l].arena_cap = 0
    BY <1>3, <1>4 DEF StackRight
  <2>2. e[3] \in Nat /\ e[3] > 0
    BY EntryFacts, Bounds
  <2> QED BY <2>1, <2>2 DEF PlaceInv
<1>13. \A e \in Entries : e \in Arena(t, l, size) => Link(e, size) \in Entries \cup {NULL}
  <2> SUFFICES ASSUME NEW e \in Entries, e \in Arena(t, l, size), e[3] < size
               PROVE  <<e[1], e[2], e[3] + 1>> \in Entries
    BY DEF Link
  <2>1. e[1] = t /\ e[2] = l /\ e[3] \in Nat
    BY <1>8, EntryFacts, Bounds DEF Pool, Layer
  <2>2. e[3] + 1 \in 1 .. size
    BY <1>7, <2>1
  <2> QED BY <1>8, <2>1, <2>2
<1>14. /\ next \in [Entries -> Entries \cup {NULL}] /\ place \in [Entries -> Places]
       /\ layers \in [Threads -> [Layers -> LayerType]]
       /\ current_layer \in [Threads -> Layers] /\ current_size \in [Threads -> Nat \ {0}]
  BY Types
<1> DEFINE new == [arena_cap |-> size, head |-> Link(first, size), used |-> 1]
<1>15. new \in LayerType
  BY <1>7, <1>10, <1>13 DEF LayerType
<1>16. /\ layers' \in [Threads -> [Layers -> LayerType]]
       /\ layers'[t][l] = new
       /\ \A i \in Threads, k \in Layers : i # t \/ k # l => layers'[i][k] = layers[i][k]
  <2>1. layers' = [layers EXCEPT ![t][l] = new]
    BY <1>1
  <2> HIDE DEF LayerType, new
  <2> QED BY <1>4, <1>14, <1>15, <2>1
<1>17. next' \in [Entries -> Entries \cup {NULL}]
  BY <1>1, <1>13, <1>14
<1>18. place' \in [Entries -> Places]
  <2>1. Used \in Places /\ Free \in Places
    BY DEF Places
  <2> QED BY <1>1, <1>14, <2>1
<1>19. /\ current_layer' \in [Threads -> Layers] /\ current_size' \in [Threads -> Nat \ {0}]
       /\ current_layer'[t] = l /\ current_size'[t] = size
       /\ \A i \in Threads : i # t => current_layer'[i] = current_layer[i]
                                      /\ current_size'[i] = current_size[i]
  BY <1>1, <1>4, <1>7, <1>14
<1>22. \A e \in Entries :
        /\ e \notin Arena(t, l, size) => place'[e] = place[e] /\ next'[e] = next[e]
        /\ e \in Arena(t, l, size) => place'[e] = IF e = first THEN Used ELSE Free
        /\ e \in Arena(t, l, size) => place[e] = None
  BY <1>1, <1>8, <1>10, <1>11, <1>12
<1>o. objects' = [objects EXCEPT ![first] = @ + 1]
  BY <1>1
<1> HIDE DEF first
<1>u. objects[first] = 0 /\ objects' \in [Entries -> Nat] /\ ObjectsInv'
  BY <1>10, <1>22, <1>o, PlaceFacts, ObjectsGive
<1>20. TypeOK'
  BY <1>2, <1>16, <1>17, <1>18, <1>19, <1>u, Types, TypesNext
<1>21. ControlInv'
  BY <1>2 DEF ControlInv
<1>23. PlaceInv'
  <2> SUFFICES ASSUME NEW e \in Entries
               PROVE  /\ place'[e] # None <=> e[3] <= layers'[Pool(e)][Layer(e)].arena_cap
                      /\ \A j \in Threads : place'[e] = CachedBy(j) => Pool(e) # j
    BY DEF PlaceInv
  <2>1. /\ place[e] # None <=> e[3] <= layers[Pool(e)][Layer(e)].arena_cap
        /\ \A j \in Threads : place[e] = CachedBy(j) => Pool(e) # j
    BY DEF PlaceInv
  <2>2. Pool(e) \in Threads /\ Layer(e) \in Layers
    BY EntryFacts
  <2>3. CASE Pool(e) = t /\ Layer(e) = l
    <3>1. layers'[Pool(e)][Layer(e)].arena_cap = size
      BY <1>16, <2>3
    <3>2. place[e] = None
      BY <1>12, <2>3
    <3> QED BY <1>8, <1>22, <2>3, <3>1, <3>2, PlaceFacts
  <2>4. CASE ~ (Pool(e) = t /\ Layer(e) = l)
    <3>1. layers'[Pool(e)][Layer(e)] = layers[Pool(e)][Layer(e)]
      BY <1>16, <2>2, <2>4
    <3>2. place'[e] = place[e]
      BY <1>8, <1>22, <2>4
    <3> QED BY <2>1, <3>1, <3>2
  <2> QED BY <2>3, <2>4
<1>24. UsedInv'
  <2> SUFFICES ASSUME NEW i \in Threads, NEW k \in Layers
               PROVE  layers'[i][k].used = Cardinality(TakenIn(i, k)')
    BY DEF UsedInv
  <2>1. CASE i = t /\ k = l
    <3>1. \A x : x \in TakenIn(i, k)' <=> x \in {first}
      BY <1>8, <1>10, <1>12, <1>22, <2>1, TakenFacts, PlaceFacts
    <3>2. TakenIn(i, k)' = {first}
      BY <3>1
    <3>3. Cardinality(TakenIn(i, k)') = 1
      BY <3>2, FS_Singleton
    <3> QED BY <1>16, <2>1, <3>3
  <2>2. CASE i # t \/ k # l
    <3>1. \A x : x \in TakenIn(i, k)' <=> x \in TakenIn(i, k)
      BY <1>8, <1>22, <2>2, TakenFacts
    <3>2. TakenIn(i, k)' = TakenIn(i, k)
      BY <3>1
    <3> QED BY <1>16, <2>2, <3>2 DEF UsedInv
  <2> QED BY <2>1, <2>2
<1>25. TotalInv'
  <2>1. \A i : ReleaseLocked(i)' <=> ReleaseLocked(i)
    BY <1>2 DEF ReleaseLocked, Flushed
  <2>2. \A j : CachedOf(j)' = CachedOf(j)
    <3> SUFFICES ASSUME NEW j
                 PROVE  \A x : x \in CachedOf(j)' <=> x \in CachedOf(j)
      OBVIOUS
    <3> QED BY <1>22, PlaceFacts DEF CachedOf
  <2> QED BY <1>2, <2>1, <2>2, TotalKeeps, TotalNext
<1>26. StackRight'
  <2> SUFFICES ASSUME NEW i \in Threads
               PROVE  /\ \A k \in Layers : layers'[i][k].arena_cap =
                            IF k <= current_layer'[i] THEN InitSize * Power[k] ELSE 0
                      /\ current_size'[i] = layers'[i][current_layer'[i]].arena_cap
                      /\ current_layer'[i] > 0 => layers'[i][current_layer'[i]].used > 0
    BY DEF StackRight
  <2>1. /\ \A k \in Layers : layers[i][k].arena_cap =
                IF k <= current_layer[i] THEN InitSize * Power[k] ELSE 0
        /\ current_size[i] = layers[i][current_layer[i]].arena_cap
        /\ current_layer[i] > 0 => layers[i][current_layer[i]].used > 0
        /\ current_layer[i] \in Layers
    BY Types DEF StackRight
  <2>2. CASE i = t
    <3>1. ASSUME NEW k \in Layers
          PROVE  layers'[i][k].arena_cap = IF k <= l THEN InitSize * Power[k] ELSE 0
      <4>1. CASE k = l
        BY <1>4, <1>5, <1>16, <2>2, <4>1
      <4>2. CASE k # l
        <5>1. k <= l <=> k <= current_layer[t]
          BY <1>3, <1>4, <4>2, LayerNat
        <5>2. layers'[i][k] = layers[i][k]
          BY <1>16, <4>2
        <5> QED BY <2>1, <2>2, <5>1, <5>2
      <4> QED BY <4>1, <4>2
    <3>2. layers'[i][l].arena_cap = size /\ layers'[i][l].used = 1
      BY <1>16, <2>2
    <3> QED BY <1>19, <2>2, <3>1, <3>2
  <2>3. CASE i # t
    BY <1>16, <1>19, <2>1, <2>3, ZenonT(60)
  <2> QED BY <2>2, <2>3
<1>27. FreeInv'
  <2> SUFFICES ASSUME NEW i \in Threads, NEW k \in Layers
               PROVE  FreeRight(i, k)'
    BY DEF FreeInv
  <2>1. CASE i = t /\ k = l
    <3> DEFINE S == {<<t, l, m>> : m \in 2 .. size}
    <3>1. \A m \in 2 .. size : next'[<<t, l, m>>] = Link(<<t, l, m>>, size)
      <4> SUFFICES ASSUME NEW m \in 2 .. size
                   PROVE  next'[<<t, l, m>>] = Link(<<t, l, m>>, size)
        OBVIOUS
      <4>1. m \in 1 .. size /\ m # 1
        BY <1>7
      <4> QED BY <1>1, <1>8, <4>1
    <3>2. (IF 2 <= size THEN <<t, l, 2>> ELSE NULL) = Link(first, size)
      BY <1>7, <1>10 DEF Link, first
    <3>3. \E z : IsList(next', Link(first, size), z, S)
      <4> HIDE DEF S
      <4>1. \E z : IsList(next', IF 2 <= size THEN <<t, l, 2>> ELSE NULL, z,
                          {<<t, l, m>> : m \in 2 .. size})
        BY <1>4, <1>6, <3>1, ListArena
      <4> QED BY <3>2, <4>1 DEF S
    <3>4. ASSUME NEW e
          PROVE  e \in InLayer(t, l, Free)' <=> e \in S
      <4>1. ASSUME e \in InLayer(t, l, Free)'
            PROVE  e \in S
        <5>1. e \in Entries /\ Pool(e) = t /\ Layer(e) = l /\ place'[e] = Free
          BY <4>1, InLayerNext
        <5>2. e \in Arena(t, l, size) /\ e # first
          BY <1>12, <1>22, <5>1, PlaceFacts
        <5>3. e[3] # 1 /\ e[3] <= size /\ e = <<t, l, e[3]>> /\ e[3] \in 1 .. MaxSize
          BY <1>8, <1>11, <5>1, <5>2, EntryFacts
        <5>4. e[3] \in 2 .. size
          BY <1>7, <5>3, Bounds
        <5> QED BY <5>3, <5>4
      <4>2. ASSUME e \in S
            PROVE  e \in InLayer(t, l, Free)'
        <5>1. PICK m \in 2 .. size : e = <<t, l, m>>
          BY <4>2
        <5>2. m \in 1 .. size /\ m # 1
          BY <1>7
        <5>3. e \in Entries /\ Pool(e) = t /\ Layer(e) = l /\ e \in Arena(t, l, size) /\ e[3] # 1
          BY <1>8, <5>1, <5>2
        <5>4. e # first
          BY <1>10, <5>3
        <5> QED BY <1>22, <5>3, <5>4, InLayerNext
      <4> QED BY <4>1, <4>2
    <3>5. InLayer(t, l, Free)' = S
      <4> HIDE DEF S
      <4> QED BY <3>4
    <3>6. layers'[t][l].head = Link(first, size)
      BY <1>16
    <3> HIDE DEF S
    <3> QED BY <2>1, <3>3, <3>5, <3>6 DEF FreeRight
  <2>2. CASE i # t \/ k # l
    <3>1. FreeRight(i, k)
      BY DEF FreeInv
    <3>2. \A e \in Entries : Pool(e) = i /\ Layer(e) = k => place'[e] = place[e] /\ next'[e] = next[e]
      BY <1>8, <1>22, <2>2
    <3>3. layers'[i][k].head = layers[i][k].head
      BY <1>16, <2>2
    <3> QED BY <3>1, <3>2, <3>3, FreeKeeps
  <2> QED BY <2>1, <2>2
<1>28. CacheInv'
  <2> SUFFICES ASSUME NEW j \in Threads, NEW i \in Threads, NEW k \in Layers
               PROVE  CacheRight(j, i, k)'
    BY DEF CacheInv
  <2>1. \A e \in Entries : /\ place'[e] = CachedBy(j) <=> place[e] = CachedBy(j)
                           /\ place[e] = CachedBy(j) => next'[e] = next[e]
    BY <1>22, PlaceFacts
  <2> QED BY <1>2, <2>1, CacheKeeps DEF CacheInv
<1>29. GivesOne
  BY <1>10, <1>22, <1>o, <1>u, PlaceFacts DEF GivesOne
<1> QED BY <1>u, <1>20, <1>21, <1>23, <1>24, <1>25, <1>26, <1>27, <1>28, <1>29

(* There are finitely many entries in a thread's caches. *)
LEMMA CachedFinite ==
    \A j : IsFiniteSet(CachedOf(j)) /\ Cardinality(CachedOf(j)) \in Nat
<1> SUFFICES ASSUME NEW j
             PROVE  IsFiniteSet(CachedOf(j)) /\ Cardinality(CachedOf(j)) \in Nat
  OBVIOUS
<1>1. CachedOf(j) \subseteq Entries
  BY DEF CachedOf
<1>2. IsFiniteSet(CachedOf(j))
  BY <1>1, EntriesFinite, FS_Subset
<1> QED BY <1>2, FS_CardinalityType

(* my_release() of an entry of another pool. *)
LEMMA ForeignStep ==
    ASSUME PoolInv, NEW t \in Threads, NEW e \in Entries, ReleaseForeign(t, e)
    PROVE  PoolInv' /\ TakesOne
<1> USE DEF PoolInv
<1>a. PICK i : i = Pool(e)
  OBVIOUS
<1>b. PICK l : l = Layer(e)
  OBVIOUS
<1>c. PICK cache : cache = caches[t][i][l]
  OBVIOUS
<1>1. /\ pc[t] = "idle" /\ objects[e] > 0 /\ place[e] = Used /\ i # t /\ ~ReleaseLocked(t)
      /\ caches' = [caches EXCEPT ![t][i][l] = Push(cache, e)]
      /\ next' = [next EXCEPT ![e] = IF cache.tail # NULL THEN cache.head ELSE NULL]
      /\ total_cached' = [total_cached EXCEPT ![t] = @ + 1]
      /\ place' = [place EXCEPT ![e] = CachedBy(t)]
      /\ objects' = [objects EXCEPT ![e] = @ - 1]
      /\ Goto(t, IF total_cached[t] + 1 > MaxCached THEN "flush" ELSE "idle")
      /\ layers' = layers /\ current_layer' = current_layer /\ current_size' = current_size
      /\ turn' = turn /\ terminatable' = terminatable
  BY <1>a, <1>b, <1>c DEF ReleaseForeign, daemonVars, ObjectsInv
<1>2. i \in Threads /\ l \in Layers
  BY <1>a, <1>b, EntryFacts
<1>3. /\ next \in [Entries -> Entries \cup {NULL}] /\ place \in [Entries -> Places]
      /\ caches \in [Threads -> [Threads -> [Layers -> CacheType]]]
      /\ total_cached \in [Threads -> Nat]
      /\ pc \in [Workers -> Control]
      /\ t \in Workers /\ t # GC
  BY Types, Bounds DEF Workers
<1>4. cache \in CacheType /\ cache.head \in Entries \cup {NULL} /\ cache.tail \in Entries \cup {NULL}
                          /\ cache.num_cached \in Nat
  <2>1. cache \in CacheType
    BY <1>2, <1>3, <1>c
  <2> QED BY <2>1 DEF CacheType
<1> DEFINE S == InLayer(i, l, CachedBy(t))
<1>5. /\ IsList(next, cache.head, cache.tail, S) /\ cache.num_cached = Cardinality(S)
      /\ NULL \notin S /\ e \notin S /\ IsFiniteSet(S)
  <2>1. CacheRight(t, i, l)
    BY <1>2 DEF CacheInv
  <2>2. NULL \notin S /\ IsFiniteSet(S) /\ \A x \in S : place[x] = CachedBy(t)
    BY InLayerFacts
  <2> QED BY <1>1, <1>c, <2>1, <2>2, PlaceFacts DEF CacheRight
<1>6. next'[e] = cache.head
  <2>1. S = {} => cache.head = NULL
    BY <1>5, ListEnds
  <2>2. S # {} => cache.tail \in S
    BY <1>5, ListEnds
  <2>3. cache.tail = NULL => cache.head = NULL
    BY <1>5, <2>1, <2>2
  <2> HIDE DEF S
  <2> QED BY <1>1, <1>3, <2>3
<1>7. /\ \A x \in Entries : x # e => next'[x] = next[x] /\ place'[x] = place[x]
      /\ place'[e] = CachedBy(t)
      /\ next' \in [Entries -> Entries \cup {NULL}]
  BY <1>1, <1>3, <1>4
<1>8. place' \in [Entries -> Places]
  <2>1. CachedBy(t) \in Places
    BY DEF Places
  <2> QED BY <1>1, <1>3, <2>1
<1> DEFINE new == Push(cache, e)
<1>9. /\ new \in CacheType /\ new.head = e /\ new.num_cached = cache.num_cached + 1
      /\ new.tail = IF cache.tail # NULL THEN cache.tail ELSE e
  BY <1>4 DEF Push, CacheType
<1> HIDE DEF new
<1>10. /\ caches' \in [Threads -> [Threads -> [Layers -> CacheType]]]
       /\ caches'[t][i][l] = new
       /\ \A j, k \in Threads, m \in Layers :
            j # t \/ k # i \/ m # l => caches'[j][k][m] = caches[j][k][m]
  <2>1. caches' = [caches EXCEPT ![t][i][l] = new]
    BY <1>1 DEF new
  <2> HIDE DEF CacheType
  <2> QED BY <1>2, <1>3, <1>9, <2>1
<1>11. /\ total_cached' \in [Threads -> Nat] /\ total_cached'[t] = total_cached[t] + 1
       /\ \A j \in Threads : j # t => total_cached'[j] = total_cached[j]
  BY <1>1, <1>3
<1>12. /\ pc' \in [Workers -> Control]
       /\ total_cached[t] + 1 > MaxCached => pc'[t] = "flush"
       /\ \A w \in Workers : w # t => pc'[w] = pc[w]
  BY <1>1, <1>3 DEF Goto, Control
<1>u. objects' \in [Entries -> Nat] /\ ObjectsInv'
  BY <1>1, <1>7, PlaceFacts, ObjectsTake
<1>13. TypeOK'
  <2>1. /\ layers' \in [Threads -> [Layers -> LayerType]]
        /\ current_layer' \in [Threads -> Layers] /\ current_size' \in [Threads -> Nat \ {0}]
        /\ turn' \in 0 .. NThreads /\ terminatable' \in BOOLEAN
    BY <1>1, Types
  <2> QED BY <1>7, <1>8, <1>10, <1>11, <1>12, <1>u, <2>1, TypesNext
<1>14. ControlInv'
  <2>1. pc'[GC] = pc[GC]
    BY <1>3, <1>12 DEF Workers
  <2> QED BY <1>1, <2>1 DEF ControlInv
<1>15. PlaceInv'
  <2> SUFFICES ASSUME NEW x \in Entries
               PROVE  /\ place'[x] # None <=> x[3] <= layers'[Pool(x)][Layer(x)].arena_cap
                      /\ \A j \in Threads : place'[x] = CachedBy(j) => Pool(x) # j
    BY DEF PlaceInv
  <2>1. /\ place[x] # None <=> x[3] <= layers[Pool(x)][Layer(x)].arena_cap
        /\ \A j \in Threads : place[x] = CachedBy(j) => Pool(x) # j
    BY DEF PlaceInv
  <2>2. CASE x = e
    BY <1>1, <1>7, <1>a, <2>1, <2>2, PlaceFacts
  <2>3. CASE x # e
    BY <1>1, <1>7, <2>1, <2>3
  <2> QED BY <2>2, <2>3
<1>16. UsedInv'
  <2> SUFFICES ASSUME NEW j \in Threads, NEW k \in Layers
               PROVE  layers'[j][k].used = Cardinality(TakenIn(j, k)')
    BY DEF UsedInv
  <2>1. \A x : x \in TakenIn(j, k)' <=> x \in TakenIn(j, k)
    BY <1>1, <1>7, TakenFacts, PlaceFacts
  <2>2. TakenIn(j, k)' = TakenIn(j, k)
    BY <2>1
  <2> QED BY <1>1, <2>2 DEF UsedInv
<1>17. TotalInv'
  <2> SUFFICES ASSUME NEW j \in Threads
               PROVE  /\ ~ReleaseLocked(j)' => total_cached'[j] = Cardinality(CachedOf(j)')
                                               /\ total_cached'[j] <= MaxCached
                      /\ total_cached'[j] <= MaxCached + 1
    BY TotalNext
  <2>1. CASE j = t
    <3>1. total_cached[t] = Cardinality(CachedOf(t)) /\ total_cached[t] <= MaxCached
      BY <1>1 DEF TotalInv, CachedOf
    <3>2. \A x : x \in CachedOf(t)' <=> x \in CachedOf(t) \cup {e}
      BY <1>7, PlaceFacts DEF CachedOf
    <3>3. CachedOf(t)' = CachedOf(t) \cup {e}
      BY <3>2
    <3>4. e \notin CachedOf(t) /\ IsFiniteSet(CachedOf(t))
      BY <1>1, PlaceFacts, CachedFinite DEF CachedOf
    <3>5. Cardinality(CachedOf(t)') = Cardinality(CachedOf(t)) + 1
      BY <3>3, <3>4, FS_AddElement
    <3>6. total_cached[t] + 1 > MaxCached => ReleaseLocked(t)'
      BY <1>3, <1>12 DEF ReleaseLocked, Flushed
    <3>7. total_cached[t] \in Nat /\ MaxCached \in Nat
      BY <1>3, Bounds
    <3> QED BY <1>11, <2>1, <3>1, <3>5, <3>6, <3>7
  <2>2. CASE j # t
    <3>1. ReleaseLocked(j)' \/ ~ReleaseLocked(j)
      <4>1. \A w \in Workers : pc[w] = "flush" => pc'[w] = "flush"
        BY <1>1, <1>12
      <4> QED BY <1>1, <4>1 DEF ReleaseLocked, Flushed
    <3>2. \A x : x \in CachedOf(j)' <=> x \in CachedOf(j)
      BY <1>1, <1>7, <2>2, PlaceFacts DEF CachedOf
    <3>3. CachedOf(j)' = CachedOf(j)
      BY <3>2
    <3>4. total_cached'[j] = total_cached[j]
      BY <1>11, <2>2
    <3> QED BY <3>1, <3>3, <3>4, TotalKeeps
  <2> QED BY <2>1, <2>2
<1>18. StackRight'
  BY <1>1 DEF StackRight
<1>19. FreeInv'
  <2> SUFFICES ASSUME NEW j \in Threads, NEW k \in Layers
               PROVE  FreeRight(j, k)'
    BY DEF FreeInv
  <2>1. \A x \in Entries : /\ place'[x] = Free <=> place[x] = Free
                           /\ place[x] = Free => next'[x] = next[x]
    BY <1>1, <1>7, PlaceFacts
  <2> QED BY <1>1, <2>1, FreeKeeps DEF FreeInv
<1>20. CacheInv'
  <2> SUFFICES ASSUME NEW j \in Threads, NEW k \in Threads, NEW m \in Layers
               PROVE  CacheRight(j, k, m)'
    BY DEF CacheInv
  <2>1. CASE j = t /\ k = i /\ m = l
    <3> DEFINE nz == [x \in {e} |-> NULL]
    <3>1. IsList(nz, e, e, {e})
      BY ListOne
    <3>2. \A x \in S : next'[x] = next[x]
      BY <1>5, <1>7, InLayerFacts
    <3>3. IsList(next', cache.head, cache.tail, S)
      BY <1>5, <3>2, ListFrame
    <3>4. IsList(next', e, IF cache.tail # NULL THEN cache.tail ELSE e, {e} \cup S)
      <4> HIDE DEF S, nz
      <4> QED BY <1>5, <1>6, <3>1, <3>3, ListJoin
    <3>5. \A x : x \in InLayer(i, l, CachedBy(t))' <=> x \in {e} \cup S
      BY <1>7, <1>a, <1>b, InLayerFacts, InLayerNext
    <3>6. InLayer(i, l, CachedBy(t))' = {e} \cup S
      <4> HIDE DEF S
      <4> QED BY <3>5
    <3>7. Cardinality({e} \cup S) = Cardinality(S) + 1
      <4> HIDE DEF S
      <4>1. {e} \cup S = S \cup {e}
        OBVIOUS
      <4> QED BY <1>5, <4>1, FS_AddElement
    <3> HIDE DEF S
    <3> QED BY <1>5, <1>9, <1>10, <2>1, <3>4, <3>6, <3>7 DEF CacheRight
  <2>2. CASE ~ (j = t /\ k = i /\ m = l)
    <3>1. CacheRight(j, k, m) /\ caches'[j][k][m] = caches[j][k][m]
      BY <1>10, <2>2 DEF CacheInv
    <3>2. \A x \in Entries : Pool(x) = k /\ Layer(x) = m =>
            /\ place'[x] = CachedBy(j) <=> place[x] = CachedBy(j)
            /\ place[x] = CachedBy(j) => next'[x] = next[x]
      BY <1>1, <1>7, <1>a, <1>b, <2>2, PlaceFacts
    <3> QED BY <3>1, <3>2, CacheKeeps
  <2> QED BY <2>1, <2>2
<1>21. TakesOne
  BY <1>1, <1>7, PlaceFacts DEF TakesOne
<1> QED BY <1>u, <1>13, <1>14, <1>15, <1>16, <1>17, <1>18, <1>19, <1>20, <1>21

(* The first half of my_release() of an entry of the own pool. *)
LEMMA OwnStep ==
    ASSUME PoolInv, NEW t \in Threads, NEW e \in Entries, ReleaseOwn(t, e)
    PROVE  PoolInv' /\ TakesOne
<1> USE DEF PoolInv
<1>1. /\ pc[t] = "idle" /\ objects[e] > 0 /\ place[e] = Used
      /\ place' = [place EXCEPT ![e] = Leaving]
      /\ objects' = [objects EXCEPT ![e] = @ - 1]
      /\ Goto(t, "own")
      /\ layers' = layers /\ current_layer' = current_layer /\ current_size' = current_size
      /\ next' = next /\ caches' = caches /\ total_cached' = total_cached
      /\ turn' = turn /\ terminatable' = terminatable
  BY DEF ReleaseOwn, cacheVars, daemonVars, ObjectsInv
<1>2. place \in [Entries -> Places] /\ pc \in [Workers -> Control] /\ t \in Workers /\ t # GC
  BY Types, Bounds DEF Workers
<1>3. place'[e] = Leaving /\ \A x \in Entries : x # e => place'[x] = place[x]
  BY <1>1, <1>2
<1>u. objects' \in [Entries -> Nat] /\ ObjectsInv'
  BY <1>1, <1>3, PlaceFacts, ObjectsTake
<1>4. TypeOK'
  <2>1. place' \in [Entries -> Places]
    BY <1>1, <1>2 DEF Places
  <2>2. pc' \in [Workers -> Control]
    BY <1>1, <1>2 DEF Goto, Control
  <2> QED BY <1>1, <1>u, <2>1, <2>2, Types, TypesNext
<1>5. ControlInv'
  BY <1>1, <1>2 DEF ControlInv, Goto
<1>6. PlaceInv'
  BY <1>1, <1>3, PlaceFacts DEF PlaceInv
<1>7. UsedInv'
  <2> SUFFICES ASSUME NEW j \in Threads, NEW k \in Layers
               PROVE  layers'[j][k].used = Cardinality(TakenIn(j, k)')
    BY DEF UsedInv
  <2>1. \A x : x \in TakenIn(j, k)' <=> x \in TakenIn(j, k)
    BY <1>1, <1>3, TakenFacts, PlaceFacts
  <2>2. TakenIn(j, k)' = TakenIn(j, k)
    BY <2>1
  <2> QED BY <1>1, <2>2 DEF UsedInv
<1>8. TotalInv'
  <2>1. \A i : ReleaseLocked(i)' <=> ReleaseLocked(i)
    BY <1>1, <1>2, LockKeeps
  <2>2. \A j : CachedOf(j)' = CachedOf(j)
    <3> SUFFICES ASSUME NEW j
                 PROVE  \A x : x \in CachedOf(j)' <=> x \in CachedOf(j)
      OBVIOUS
    <3> QED BY <1>1, <1>3, PlaceFacts DEF CachedOf
  <2> QED BY <1>1, <2>1, <2>2, TotalKeeps, TotalNext
<1>9. StackRight'
  BY <1>1 DEF StackRight
<1>10. FreeInv'
  <2> SUFFICES ASSUME NEW j \in Threads, NEW k \in Layers
               PROVE  FreeRight(j, k)'
    BY DEF FreeInv
  <2>1. \A x \in Entries : place'[x] = Free <=> place[x] = Free
    BY <1>1, <1>3, PlaceFacts
  <2> QED BY <1>1, <2>1, FreeKeeps DEF FreeInv
<1>11. CacheInv'
  <2> SUFFICES ASSUME NEW j \in Threads, NEW k \in Threads, NEW m \in Layers
               PROVE  CacheRight(j, k, m)'
    BY DEF CacheInv
  <2>1. \A x \in Entries : place'[x] = CachedBy(j) <=> place[x] = CachedBy(j)
    BY <1>1, <1>3, PlaceFacts
  <2> QED BY <1>1, <2>1, CacheKeeps DEF CacheInv
<1>12. TakesOne
  BY <1>1, <1>3, PlaceFacts DEF TakesOne
<1> QED BY <1>u, <1>4, <1>5, <1>6, <1>7, <1>8, <1>9, <1>10, <1>11, <1>12

(* The second half: the entry goes back to its layer. *)
LEMMA ReturnStep ==
    ASSUME PoolInv, NEW t \in Threads, ReturnOwn(t)
    PROVE  PoolInv' /\ MayShrink
<1> USE DEF PoolInv
<1>1. PICK e \in Entries :
        place[e] = Leaving /\ Pool(e) = t /\ PutBack(t, Layer(e), {e}, e, e, 1)
  BY DEF ReturnOwn
<1>2. /\ Goto(t, "idle") /\ pc[t] = "own"
      /\ caches' = caches /\ total_cached' = total_cached
      /\ turn' = turn /\ terminatable' = terminatable /\ objects' = objects
  BY DEF ReturnOwn, cacheVars, daemonVars
<1>3. Layer(e) \in Layers
  BY EntryFacts
<1>4. Returnable(t, Layer(e), {e}, e, e, 1)
  <2>1. {e} \in SUBSET TakenIn(t, Layer(e)) /\ {e} # {}
    BY <1>1, TakenFacts, PlaceFacts
  <2>2. 1 = Cardinality({e})
    BY FS_Singleton
  <2> DEFINE nz == [x \in {e} |-> NULL]
  <2>3. IsList(nz, e, e, {e})
    BY ListOne
  <2> HIDE DEF nz
  <2>4. \E z : IsList(z, e, e, {e}) /\ \A x \in {e} : x # e => z[x] = next[x]
    BY <2>3
  <2> QED BY <2>1, <2>2, <2>4 DEF Returnable
<1>5. /\ layers' \in [Threads -> [Layers -> LayerType]]
      /\ current_layer' \in [Threads -> Layers]
      /\ current_size' \in [Threads -> Nat \ {0}]
      /\ next' \in [Entries -> Entries \cup {NULL}]
      /\ place' \in [Entries -> Places]
      /\ PlaceInv' /\ UsedInv' /\ StackRight' /\ FreeInv'
      /\ \A x \in Entries : place[x] \notin {None, Free} /\ x \notin {e} =>
            place'[x] = place[x] /\ next'[x] = next[x]
      /\ \A x \in Entries : place'[x] \notin {None, Free} => place[x] = place'[x] /\ x \notin {e}
      /\ \A x \in Entries : place[x] = None => place'[x] = None
  BY <1>1, <1>3, <1>4, PutBackKeeps DEF LayerType
<1>6. pc \in [Workers -> Control] /\ t \in Workers /\ t # GC
  BY Types, Bounds DEF Workers
<1>7. \A j : \A x \in Entries :
        /\ place'[x] = CachedBy(j) <=> place[x] = CachedBy(j)
        /\ place[x] = CachedBy(j) => next'[x] = next[x]
  BY <1>1, <1>5, PlaceFacts
<1>u. /\ \A x \in Entries : place'[x] = Used <=> place[x] = Used
      /\ objects' \in [Entries -> Nat] /\ ObjectsInv'
  <2>1. \A x \in Entries : place'[x] = Used <=> place[x] = Used
    BY <1>1, <1>5, PlaceFacts
  <2> QED BY <1>2, <2>1, ObjectsStay
<1>8. TypeOK'
  <2>1. pc' \in [Workers -> Control]
    BY <1>2, <1>6 DEF Goto, Control
  <2>2. /\ caches' \in [Threads -> [Threads -> [Layers -> CacheType]]]
        /\ total_cached' \in [Threads -> Nat]
        /\ turn' \in 0 .. NThreads /\ terminatable' \in BOOLEAN
    BY <1>2, Types
  <2> QED BY <1>5, <1>u, <2>1, <2>2, TypesNext
<1>9. ControlInv'
  BY <1>2, <1>6 DEF ControlInv, Goto
<1>10. TotalInv'
  <2>1. \A i : ReleaseLocked(i)' <=> ReleaseLocked(i)
    BY <1>2, <1>6, LockKeeps
  <2>2. \A j : CachedOf(j)' = CachedOf(j)
    BY <1>7 DEF CachedOf
  <2> QED BY <1>2, <2>1, <2>2, TotalKeeps, TotalNext
<1>11. CacheInv'
  <2> SUFFICES ASSUME NEW j \in Threads, NEW k \in Threads, NEW m \in Layers
               PROVE  CacheRight(j, k, m)'
    BY DEF CacheInv
  <2> QED BY <1>2, <1>7, CacheKeeps DEF CacheInv
<1>12. MayShrink
  BY <1>2, <1>5, <1>u, PlaceFacts DEF MayShrink, ObjectsInv
<1> QED BY <1>5, <1>u, <1>8, <1>9, <1>10, <1>11, <1>12

(* The pool whose caches are flushed, and the mutex held meanwhile. *)
LEMMA FlushedFacts ==
    ASSUME TypeOK, ControlInv, NEW w \in Workers, pc[w] = "flush"
    PROVE  Flushed(w) \in Threads /\ ReleaseLocked(Flushed(w))
BY Bounds DEF Flushed, ReleaseLocked, ControlInv, Workers

(* One cached list goes home. *)
LEMMA FlushStep ==
    ASSUME PoolInv, NEW w \in Workers, Flush(w)
    PROVE  PoolInv' /\ MayShrink
<1> USE DEF PoolInv
<1>a. PICK i : i = Flushed(w)
  OBVIOUS
<1>1. pc[w] = "flush"
  BY DEF Flush
<1>2. PICK jl \in Unflushed(i) :
        LET cache == caches[i][jl[1]][jl[2]] IN
        PutBack(jl[1], jl[2],
                {e \in Entries : place[e] = CachedBy(i) /\ Pool(e) = jl[1] /\ Layer(e) = jl[2]},
                cache.head, cache.tail, cache.num_cached)
        /\ caches' = [caches EXCEPT ![i][jl[1]][jl[2]] = EmptyCache]
  BY <1>a DEF Flush
<1>3. /\ total_cached' = total_cached /\ pc' = pc /\ turn' = turn /\ terminatable' = terminatable
      /\ objects' = objects
  BY DEF Flush, daemonVars
<1>b. PICK j : j = jl[1]
  OBVIOUS
<1>c. PICK l : l = jl[2]
  OBVIOUS
<1>d. PICK cache : cache = caches[i][j][l]
  OBVIOUS
<1>4. /\ j \in Threads /\ l \in Layers /\ j # i /\ cache.num_cached > 0
      /\ caches' = [caches EXCEPT ![i][j][l] = EmptyCache]
  BY <1>2, <1>b, <1>c, <1>d DEF Unflushed
<1>5. i \in Threads /\ ReleaseLocked(i)
  BY <1>1, <1>a, FlushedFacts
<1> DEFINE es == InLayer(j, l, CachedBy(i))
<1>6. PutBack(j, l, es, cache.head, cache.tail, cache.num_cached)
  <2>1. es = {e \in Entries : place[e] = CachedBy(i) /\ Pool(e) = j /\ Layer(e) = l}
    BY DEF InLayer
  <2> HIDE DEF es
  <2> QED BY <1>2, <1>b, <1>c, <1>d, <2>1
<1>7. /\ IsList(next, cache.head, cache.tail, es) /\ cache.num_cached = Cardinality(es)
  <2>1. CacheRight(i, j, l)
    BY <1>4, <1>5 DEF CacheInv
  <2> QED BY <1>d, <2>1 DEF CacheRight
<1>8. \A x : x \in es <=> x \in Entries /\ Pool(x) = j /\ Layer(x) = l /\ place[x] = CachedBy(i)
  BY InLayerFacts
<1> HIDE DEF es
<1>9. Returnable(j, l, es, cache.head, cache.tail, cache.num_cached)
  <2>1. es \in SUBSET TakenIn(j, l)
    BY <1>8, TakenFacts, PlaceFacts
  <2>2. es # {}
    BY <1>4, <1>7, FS_EmptySet
  <2>3. \E z : IsList(z, cache.head, cache.tail, es) /\ \A x \in es : x # cache.tail => z[x] = next[x]
    BY <1>7
  <2> QED BY <1>7, <2>1, <2>2, <2>3 DEF Returnable
<1>10. /\ layers' \in [Threads -> [Layers -> LayerType]]
       /\ current_layer' \in [Threads -> Layers]
       /\ current_size' \in [Threads -> Nat \ {0}]
       /\ next' \in [Entries -> Entries \cup {NULL}]
       /\ place' \in [Entries -> Places]
       /\ PlaceInv' /\ UsedInv' /\ StackRight' /\ FreeInv'
       /\ \A x \in Entries : place[x] \notin {None, Free} /\ x \notin es =>
            place'[x] = place[x] /\ next'[x] = next[x]
       /\ \A x \in Entries : place'[x] \notin {None, Free} => place[x] = place'[x] /\ x \notin es
       /\ \A x \in Entries : place[x] = None => place'[x] = None
  BY <1>4, <1>6, <1>9, PutBackKeeps DEF LayerType
<1>11. caches \in [Threads -> [Threads -> [Layers -> CacheType]]]
  BY Types
<1>12. /\ caches' \in [Threads -> [Threads -> [Layers -> CacheType]]]
       /\ caches'[i][j][l] = EmptyCache
       /\ \A b, k \in Threads, m \in Layers :
            b # i \/ k # j \/ m # l => caches'[b][k][m] = caches[b][k][m]
  <2>1. EmptyCache \in CacheType
    BY DEF EmptyCache, CacheType
  <2> HIDE DEF CacheType
  <2> QED BY <1>4, <1>5, <1>11, <2>1
<1>u. /\ \A x \in Entries : place'[x] = Used <=> place[x] = Used
      /\ objects' \in [Entries -> Nat] /\ ObjectsInv'
  <2>1. \A x \in Entries : place'[x] = Used <=> place[x] = Used
    BY <1>8, <1>10, PlaceFacts
  <2> QED BY <1>3, <2>1, ObjectsStay
<1>13. TypeOK'
  <2>1. /\ total_cached' \in [Threads -> Nat] /\ pc' \in [Workers -> Control]
        /\ turn' \in 0 .. NThreads /\ terminatable' \in BOOLEAN
    BY <1>3, Types
  <2> QED BY <1>10, <1>12, <1>u, <2>1, TypesNext
<1>14. ControlInv'
  BY <1>3 DEF ControlInv
<1>15. TotalInv'
  <2>1. \A b : ReleaseLocked(b)' <=> ReleaseLocked(b)
    BY <1>3 DEF ReleaseLocked, Flushed
  <2> SUFFICES ASSUME NEW b \in Threads
               PROVE  /\ ~ReleaseLocked(b)' => total_cached'[b] = Cardinality(CachedOf(b)')
                                               /\ total_cached'[b] <= MaxCached
                      /\ total_cached'[b] <= MaxCached + 1
    BY TotalNext
  <2>2. CASE b = i
    <3>1. ReleaseLocked(b)'
      BY <1>5, <2>1, <2>2
    <3> QED BY <1>3, <3>1, TotalKeeps
  <2>3. CASE b # i
    <3>1. \A x : x \in CachedOf(b)' <=> x \in CachedOf(b)
      BY <1>8, <1>10, <2>3, PlaceFacts DEF CachedOf
    <3>2. CachedOf(b)' = CachedOf(b)
      BY <3>1
    <3> QED BY <1>3, <2>1, <3>2, TotalKeeps
  <2> QED BY <2>2, <2>3
<1>16. CacheInv'
  <2> SUFFICES ASSUME NEW b \in Threads, NEW k \in Threads, NEW m \in Layers
               PROVE  CacheRight(b, k, m)'
    BY DEF CacheInv
  <2>1. CASE b = i /\ k = j /\ m = l
    <3>1. \A x : x \notin InLayer(j, l, CachedBy(i))'
      BY <1>8, <1>10, InLayerNext, PlaceFacts
    <3>2. InLayer(j, l, CachedBy(i))' = {}
      BY <3>1
    <3>3. IsList(next', NULL, NULL, {}) /\ Cardinality({}) = 0
      BY ListEmpty, FS_EmptySet
    <3>4. caches'[b][k][m].head = NULL /\ caches'[b][k][m].tail = NULL /\ caches'[b][k][m].num_cached = 0
      BY <1>12, <2>1 DEF EmptyCache
    <3> QED BY <2>1, <3>2, <3>3, <3>4 DEF CacheRight
  <2>2. CASE ~ (b = i /\ k = j /\ m = l)
    <3>1. CacheRight(b, k, m) /\ caches'[b][k][m] = caches[b][k][m]
      BY <1>12, <2>2 DEF CacheInv
    <3>2. \A x \in Entries : Pool(x) = k /\ Layer(x) = m =>
            /\ place'[x] = CachedBy(b) <=> place[x] = CachedBy(b)
            /\ place[x] = CachedBy(b) => next'[x] = next[x]
      BY <1>8, <1>10, <2>2, PlaceFacts
    <3> QED BY <3>1, <3>2, CacheKeeps
  <2> QED BY <2>1, <2>2
<1>17. MayShrink
  BY <1>3, <1>10, <1>u, PlaceFacts DEF MayShrink, ObjectsInv
<1> QED BY <1>10, <1>u, <1>13, <1>14, <1>15, <1>16, <1>17

(* When no list is left to flush, the thread has nothing cached. *)
LEMMA NothingCached ==
    ASSUME PlaceInv, CacheInv, NEW i \in Threads, Unflushed(i) = {}
    PROVE  CachedOf(i) = {}
<1> SUFFICES ASSUME NEW e \in Entries, place[e] = CachedBy(i)
             PROVE  FALSE
  BY DEF CachedOf
<1>1. Pool(e) \in Threads /\ Layer(e) \in Layers /\ Pool(e) # i
  BY EntryFacts DEF PlaceInv
<1> DEFINE S == InLayer(Pool(e), Layer(e), CachedBy(i))
<1>2. caches[i][Pool(e)][Layer(e)].num_cached = Cardinality(S)
  BY <1>1 DEF CacheInv, CacheRight
<1>3. e \in S /\ IsFiniteSet(S) /\ Cardinality(S) \in Nat
  BY InLayerFacts
<1> HIDE DEF S
<1>4. Cardinality(S) > 0
  BY <1>3, FS_EmptySet
<1>5. <<Pool(e), Layer(e)>> \in Unflushed(i)
  BY <1>1, <1>2, <1>4 DEF Unflushed
<1> QED BY <1>5

(* The end of cleanup_all_cache(). *)
LEMMA FlushEndStep ==
    ASSUME PoolInv, NEW w \in Workers, FlushEnd(w)
    PROVE  PoolInv'
<1> USE DEF PoolInv
<1>a. PICK i : i = Flushed(w)
  OBVIOUS
<1>1. /\ pc[w] = "flush" /\ Unflushed(i) = {}
      /\ total_cached' = [total_cached EXCEPT ![i] = 0]
      /\ Goto(w, IF w = GC THEN "sweep" ELSE "idle")
      /\ turn' = IF w = GC THEN turn + 1 ELSE turn
      /\ UNCHANGED poolVars /\ caches' = caches /\ terminatable' = terminatable
  BY <1>a DEF FlushEnd
<1>2. i \in Threads /\ pc \in [Workers -> Control] /\ total_cached \in [Threads -> Nat]
  BY <1>1, <1>a, FlushedFacts, Types
<1>3. /\ pc' \in [Workers -> Control] /\ pc'[w] # "flush"
      /\ \A v \in Workers : v # w => pc'[v] = pc[v]
  BY <1>1, <1>2 DEF Goto, Control
<1>4. /\ total_cached' \in [Threads -> Nat] /\ total_cached'[i] = 0
      /\ \A j \in Threads : j # i => total_cached'[j] = total_cached[j]
  BY <1>1, <1>2
<1>5. turn' \in 0 .. NThreads
  <2>1. turn \in 0 .. NThreads /\ NThreads \in Nat
    BY Types, Bounds
  <2>2. w = GC => turn \in 0 .. NThreads - 1
    BY <1>1 DEF ControlInv, Threads
  <2> QED BY <1>1, <2>1, <2>2
<1>6. TypeOK'
  <2>1. /\ layers' = layers /\ current_layer' = current_layer /\ current_size' = current_size
        /\ next' = next /\ place' = place /\ objects' = objects
    BY <1>1 DEF poolVars
  <2> QED BY <1>1, <1>3, <1>4, <1>5, <2>1, Types, TypesNext
<1>7. ControlInv'
  <2>1. CASE w = GC
    BY <1>3, <2>1 DEF ControlInv
  <2>2. CASE w # GC
    BY <1>1, <1>3, <2>2 DEF ControlInv, Workers
  <2> QED BY <2>1, <2>2
<1>8. PlaceInv' /\ UsedInv' /\ StackRight' /\ FreeInv' /\ CacheInv' /\ ObjectsInv'
  BY <1>1, PoolsSame
<1>9. TotalInv'
  <2> SUFFICES ASSUME NEW j \in Threads
               PROVE  /\ ~ReleaseLocked(j)' => total_cached'[j] = Cardinality(CachedOf(j)')
                                               /\ total_cached'[j] <= MaxCached
                      /\ total_cached'[j] <= MaxCached + 1
    BY TotalNext
  <2>1. CachedOf(j)' = CachedOf(j)
    BY <1>1 DEF CachedOf, poolVars
  <2>2. CASE j = i
    <3>1. CachedOf(i) = {}
      BY <1>1, <1>2, NothingCached
    <3> QED BY <1>4, <2>1, <2>2, <3>1, FS_EmptySet, Bounds
  <2>3. CASE j # i
    <3>1. ReleaseLocked(j) => ReleaseLocked(j)'
      <4> SUFFICES ASSUME NEW v \in Workers, pc[v] = "flush", Flushed(v) = j
                   PROVE  pc'[v] = "flush" /\ Flushed(v)' = j
        BY DEF ReleaseLocked
      <4>1. v # w
        BY <1>a, <2>3
      <4>2. pc'[v] = "flush"
        BY <1>3, <4>1
      <4>3. v = GC => turn' = turn
        BY <1>1, <4>1
      <4> QED BY <4>2, <4>3 DEF Flushed
    <3> QED BY <1>4, <2>1, <2>3, <3>1, TotalKeeps
  <2> QED BY <2>2, <2>3
<1> QED BY <1>6, <1>7, <1>8, <1>9

(* The steps of the daemon and of the end of the program change no memory. *)
LEMMA QuietStep ==
    ASSUME PoolInv, Sweep \/ SweepEnd \/ DaemonWake \/ Terminate \/ Join \/ UNCHANGED vars
    PROVE  PoolInv'
<1> USE DEF PoolInv
<1>1. UNCHANGED poolVars /\ UNCHANGED cacheVars
  BY DEF Sweep, SweepEnd, DaemonWake, Terminate, Join, vars
<1>2. /\ layers' = layers /\ current_layer' = current_layer /\ current_size' = current_size
      /\ next' = next /\ place' = place /\ objects' = objects /\ caches' = caches /\ total_cached' = total_cached
  BY <1>1 DEF poolVars, cacheVars
<1>3. /\ pc \in [Workers -> Control] /\ turn \in 0 .. NThreads /\ terminatable \in BOOLEAN
      /\ GC \in Workers /\ 0 \in Workers /\ 0 # GC /\ NThreads \in Nat
  BY Types, Bounds DEF Workers
<1>4. /\ pc' \in [Workers -> Control] /\ turn' \in 0 .. NThreads /\ terminatable' \in BOOLEAN
      /\ pc'[GC] = "flush" => turn' \in Threads
      /\ \A i \in Threads : ReleaseLocked(i) => ReleaseLocked(i)'
  <2>1. CASE Sweep
    <3>1. turn < NThreads /\ pc[GC] = "sweep"
      BY <2>1 DEF Sweep
    <3>2. CASE total_cached[turn] # 0
      <4>1. Goto(GC, "flush") /\ turn' = turn /\ terminatable' = terminatable
        BY <2>1, <3>2 DEF Sweep
      <4>2. \A v \in Workers : pc[v] = "flush" => pc'[v] = "flush"
        BY <1>3, <4>1 DEF Goto
      <4>3. turn' \in Threads
        BY <1>3, <3>1, <4>1 DEF Threads
      <4>4. pc' \in [Workers -> Control]
        BY <1>3, <4>1 DEF Goto, Control
      <4> QED BY <1>3, <4>1, <4>2, <4>3, <4>4 DEF ReleaseLocked, Flushed
    <3>3. CASE total_cached[turn] = 0
      <4>1. pc' = pc /\ turn' = turn + 1 /\ terminatable' = terminatable
        BY <2>1, <3>3 DEF Sweep
      <4>2. turn' \in 0 .. NThreads
        BY <1>3, <3>1, <4>1
      <4> QED BY <1>3, <3>1, <4>1, <4>2 DEF ReleaseLocked, Flushed
    <3> QED BY <3>2, <3>3
  <2>2. CASE SweepEnd
    <3>1. pc[GC] = "sweep" /\ Goto(GC, "sleep") /\ turn' = turn /\ terminatable' = terminatable
      BY <2>2 DEF SweepEnd, daemonVars
    <3>2. pc' \in [Workers -> Control] /\ pc'[GC] = "sleep"
      BY <1>3, <3>1 DEF Goto, Control
    <3>3. \A i : ReleaseLocked(i)' <=> ReleaseLocked(i)
      BY <1>3, <3>1, LockKeeps
    <3> QED BY <1>3, <3>1, <3>2, <3>3
  <2>3. CASE DaemonWake
    <3>1. PICK where \in {"exit", "sweep"} :
            Goto(GC, where) /\ turn' \in {turn, 0} /\ pc[GC] = "sleep" /\ terminatable' = terminatable
      BY <2>3 DEF DaemonWake
    <3>2. pc' \in [Workers -> Control] /\ pc'[GC] # "flush"
      BY <1>3, <3>1 DEF Goto, Control
    <3>3. \A v \in Workers : pc[v] = "flush" => pc'[v] = "flush" /\ v # GC
      BY <1>3, <3>1 DEF Goto
    <3>4. turn' \in 0 .. NThreads
      BY <1>3, <3>1
    <3> QED BY <1>3, <3>1, <3>2, <3>3, <3>4 DEF ReleaseLocked, Flushed
  <2>4. CASE Terminate \/ Join
    <3>1. PICK where \in {"joining", "left"} :
            /\ Goto(0, where) /\ turn' = turn /\ pc[0] \in {"idle", "joining"}
            /\ terminatable' \in BOOLEAN
      BY <1>3, <2>4, DaemonBoolean DEF Terminate, Join, daemonVars
    <3>2. pc' \in [Workers -> Control] /\ pc'[GC] = pc[GC]
      BY <1>3, <3>1 DEF Goto, Control
    <3>3. \A i : ReleaseLocked(i)' <=> ReleaseLocked(i)
      BY <1>3, <3>1, LockKeeps
    <3> QED BY <1>3, <3>1, <3>2, <3>3 DEF ControlInv
  <2>5. CASE UNCHANGED vars
    <3>1. pc' = pc /\ turn' = turn /\ terminatable' = terminatable
      BY <2>5 DEF vars, daemonVars
    <3> QED BY <1>3, <3>1 DEF ReleaseLocked, Flushed, ControlInv
  <2> QED BY <2>1, <2>2, <2>3, <2>4, <2>5
<1>5. TypeOK'
  BY <1>2, <1>4, Types, TypesNext
<1>6. PlaceInv' /\ UsedInv' /\ StackRight' /\ FreeInv' /\ CacheInv' /\ ObjectsInv'
  BY <1>1, <1>2, PoolsSame
<1>7. TotalInv'
  <2>1. \A j : CachedOf(j)' = CachedOf(j)
    BY <1>2 DEF CachedOf
  <2> QED BY <1>2, <1>4, <2>1, TotalKeeps, TotalNext
<1> QED BY <1>4, <1>5, <1>6, <1>7 DEF ControlInv

(* Init() of the pools. *)
LEMMA InitPoolInv ==
    ASSUME Init
    PROVE  PoolInv
<1> DEFINE firstLayer(i) == [arena_cap |-> InitSize, head |-> <<i, 0, 1>>, used |-> 0]
<1>1. /\ layers = [i \in Threads |-> [l \in Layers |-> IF l = 0 THEN firstLayer(i) ELSE NoLayer]]
      /\ current_layer = [i \in Threads |-> 0]
      /\ current_size = [i \in Threads |-> InitSize]
      /\ next = [e \in Entries |-> IF Layer(e) = 0 /\ e[3] <= InitSize
                                   THEN Link(e, InitSize) ELSE NULL]
      /\ caches = [i \in Threads |-> [j \in Threads |-> [l \in Layers |-> EmptyCache]]]
      /\ total_cached = [i \in Threads |-> 0]
      /\ place = [e \in Entries |-> IF Layer(e) = 0 /\ e[3] <= InitSize THEN Free ELSE None]
      /\ objects = [e \in Entries |-> 0]
      /\ pc = [w \in Workers |-> IF w # GC THEN "idle"
                                 ELSE IF HasDaemon THEN "sleep" ELSE "exit"]
      /\ turn = 0 /\ terminatable = FALSE
  BY DEF Init
<1>2. InitSize \in 1 .. MaxSize /\ InitSize \in Nat /\ InitSize > 0 /\ InitSize * Power[0] = InitSize
  <2>1. Power[0] = 1
    BY PowerDef
  <2>2. InitSize * Power[0] = InitSize
    BY <2>1, Bounds
  <2> QED BY <2>2, LayerSize, Bounds
<1>3. \A k \in 1 .. InitSize : k \in 1 .. MaxSize
  BY <1>2, Bounds
<1>4. \A i \in Threads : \A k \in 1 .. InitSize :
        /\ <<i, 0, k>> \in Entries /\ Pool(<<i, 0, k>>) = i
        /\ Layer(<<i, 0, k>>) = 0 /\ <<i, 0, k>>[3] = k
  BY <1>3, EntryFacts, Bounds
<1>5. \A i \in Threads : firstLayer(i) \in LayerType
  <2>1. 1 \in 1 .. InitSize
    BY <1>2
  <2> QED BY <1>2, <1>4, <2>1 DEF LayerType
<1>6. NoLayer \in LayerType /\ NoLayer.arena_cap = 0 /\ NoLayer.head = NULL /\ NoLayer.used = 0
  BY DEF NoLayer, LayerType
<1>7. ASSUME NEW i \in Threads, NEW l \in Layers
      PROVE  /\ layers[i][l].arena_cap = IF l = 0 THEN InitSize ELSE 0
             /\ layers[i][l].head = IF l = 0 THEN <<i, 0, 1>> ELSE NULL
             /\ layers[i][l].used = 0
  <2>1. layers[i][l] = IF l = 0 THEN firstLayer(i) ELSE NoLayer
    BY <1>1
  <2>2. CASE l = 0
    <3>1. layers[i][l] = firstLayer(i)
      BY <2>1, <2>2
    <3> QED BY <2>2, <3>1
  <2>3. CASE l # 0
    <3>1. layers[i][l] = NoLayer
      BY <2>1, <2>3
    <3> HIDE DEF firstLayer
    <3> QED BY <1>6, <2>3, <3>1
  <2> QED BY <2>2, <2>3
<1> HIDE DEF firstLayer
<1>8. \A e \in Entries : Layer(e) = 0 /\ e[3] <= InitSize => Link(e, InitSize) \in Entries \cup {NULL}
  <2> SUFFICES ASSUME NEW e \in Entries, Layer(e) = 0, e[3] <= InitSize, e[3] < InitSize
               PROVE  <<e[1], e[2], e[3] + 1>> \in Entries
    BY DEF Link
  <2>1. e[1] \in Threads /\ e[2] = 0 /\ e[3] \in Nat
    BY EntryFacts, Bounds DEF Pool, Layer
  <2>2. e[3] + 1 \in 1 .. InitSize
    BY <1>2, <2>1
  <2> QED BY <1>4, <2>1, <2>2
<1>9. TypeOK
  <2>1. layers \in [Threads -> [Layers -> LayerType]]
    <3> HIDE DEF LayerType, firstLayer
    <3> QED BY <1>1, <1>5, <1>6
  <2>2. current_layer \in [Threads -> Layers] /\ current_size \in [Threads -> Nat \ {0}]
    BY <1>1, <1>2, Bounds
  <2>3. next \in [Entries -> Entries \cup {NULL}]
    BY <1>1, <1>8
  <2>4. caches \in [Threads -> [Threads -> [Layers -> CacheType]]]
    <3>1. EmptyCache \in CacheType
      BY DEF EmptyCache, CacheType
    <3> HIDE DEF CacheType
    <3> QED BY <1>1, <3>1
  <2>5. place \in [Entries -> Places]
    BY <1>1 DEF Places
  <2>5o. objects \in [Entries -> Nat]
    BY <1>1
  <2>6. pc \in [Workers -> Control]
    <3>1. "idle" \in Control /\ "sleep" \in Control /\ "exit" \in Control
      BY DEF Control
    <3> QED BY <1>1, <3>1
  <2>7. turn \in 0 .. NThreads /\ terminatable \in BOOLEAN /\ total_cached \in [Threads -> Nat]
    <3>1. turn \in 0 .. NThreads
      BY <1>1, Bounds
    <3>2. terminatable \in BOOLEAN
      BY <1>1
    <3>3. total_cached \in [Threads -> Nat]
      BY <1>1
    <3> QED BY <3>1, <3>2, <3>3
  <2> QED BY <2>1, <2>2, <2>3, <2>4, <2>5, <2>5o, <2>6, <2>7, Types
<1>10. \A w \in Workers : pc[w] # "flush"
  BY <1>1
<1>11. ControlInv
  BY <1>10 DEF ControlInv, Workers
<1>12. \A e \in Entries : place[e] = IF Layer(e) = 0 /\ e[3] <= InitSize THEN Free ELSE None
  BY <1>1
<1>13. PlaceInv
  <2> SUFFICES ASSUME NEW e \in Entries
               PROVE  /\ place[e] # None <=> e[3] <= layers[Pool(e)][Layer(e)].arena_cap
                      /\ \A j \in Threads : place[e] = CachedBy(j) => Pool(e) # j
    BY DEF PlaceInv
  <2>1. layers[Pool(e)][Layer(e)].arena_cap = IF Layer(e) = 0 THEN InitSize ELSE 0
    BY <1>6, <1>7, EntryFacts
  <2>2. ~ (e[3] <= 0)
    BY EntryFacts, Bounds
  <2> QED BY <1>12, <2>1, <2>2, PlaceFacts
<1>14. UsedInv
  <2> SUFFICES ASSUME NEW i \in Threads, NEW l \in Layers
               PROVE  layers[i][l].used = Cardinality(TakenIn(i, l))
    BY DEF UsedInv
  <2>1. layers[i][l].used = 0
    BY <1>6, <1>7
  <2>2. \A x : x \notin TakenIn(i, l)
    BY <1>12, TakenFacts
  <2>3. TakenIn(i, l) = {}
    BY <2>2
  <2> QED BY <2>1, <2>3, FS_EmptySet
<1>15. TotalInv
  <2> SUFFICES ASSUME NEW i \in Threads
               PROVE  /\ total_cached[i] = Cardinality(CachedOf(i)) /\ total_cached[i] <= MaxCached
                      /\ total_cached[i] <= MaxCached + 1
    BY DEF TotalInv, CachedOf
  <2>1. CachedOf(i) = {}
    BY <1>12, PlaceFacts DEF CachedOf
  <2> QED BY <1>1, <2>1, FS_EmptySet, Bounds
<1>16. StackRight
  <2> SUFFICES ASSUME NEW i \in Threads
               PROVE  /\ \A k \in Layers : layers[i][k].arena_cap =
                            IF k <= current_layer[i] THEN InitSize * Power[k] ELSE 0
                      /\ current_size[i] = layers[i][current_layer[i]].arena_cap
                      /\ current_layer[i] > 0 => layers[i][current_layer[i]].used > 0
    BY DEF StackRight
  <2>1. current_layer[i] = 0 /\ current_size[i] = InitSize
    BY <1>1
  <2>2. \A k \in Layers : k <= 0 <=> k = 0
    BY LayerNat
  <2>3. \A k \in Layers : layers[i][k].arena_cap = IF k = 0 THEN InitSize ELSE 0
    BY <1>6, <1>7
  <2>4. ~ (current_layer[i] > 0) /\ 0 \in Layers
    BY <2>1, Bounds
  <2> QED BY <1>2, <2>1, <2>2, <2>3, <2>4
<1>17. FreeInv
  <2> SUFFICES ASSUME NEW i \in Threads, NEW l \in Layers
               PROVE  \E t : IsList(next, layers[i][l].head, t, InLayer(i, l, Free))
    BY DEF FreeInv, FreeRight
  <2>1. CASE l = 0
    <3> DEFINE S == {<<i, 0, k>> : k \in 1 .. InitSize}
    <3>1. \A k \in 1 .. InitSize : next[<<i, 0, k>>] = Link(<<i, 0, k>>, InitSize)
      <4> SUFFICES ASSUME NEW k \in 1 .. InitSize
                   PROVE  next[<<i, 0, k>>] = Link(<<i, 0, k>>, InitSize)
        OBVIOUS
      <4>1. k <= InitSize
        BY <1>2
      <4> QED BY <1>1, <1>4, <4>1
    <3>2. \E t : IsList(next, IF 1 <= InitSize THEN <<i, 0, 1>> ELSE NULL, t, S)
      <4> HIDE DEF S
      <4>1. \E t : IsList(next, IF 1 <= InitSize THEN <<i, 0, 1>> ELSE NULL, t,
                          {<<i, 0, k>> : k \in 1 .. InitSize})
        BY <1>2, <3>1, ListArena, Bounds
      <4> QED BY <4>1 DEF S
    <3>3. (IF 1 <= InitSize THEN <<i, 0, 1>> ELSE NULL) = layers[i][0].head
      <4>1. 0 \in Layers /\ 1 <= InitSize
        BY <1>2, Bounds
      <4>2. layers[i][0].head = <<i, 0, 1>>
        BY <1>7, <1>6, <4>1
      <4> QED BY <4>1, <4>2
    <3>4. ASSUME NEW e
          PROVE  e \in InLayer(i, 0, Free) <=> e \in S
      <4>1. ASSUME e \in InLayer(i, 0, Free)
            PROVE  e \in S
        <5>1. e \in Entries /\ Pool(e) = i /\ Layer(e) = 0 /\ place[e] = Free
          BY <4>1, InLayerFacts
        <5>2. e[3] <= InitSize /\ e[3] \in 1 .. MaxSize /\ e = <<i, 0, e[3]>>
          BY <1>12, <5>1, EntryFacts, PlaceFacts
        <5>3. e[3] \in 1 .. InitSize
          BY <1>2, <5>2, Bounds
        <5> QED BY <5>2, <5>3
      <4>2. ASSUME e \in S
            PROVE  e \in InLayer(i, 0, Free)
        <5>1. PICK k \in 1 .. InitSize : e = <<i, 0, k>>
          BY <4>2
        <5>2. k <= InitSize
          BY <1>2
        <5>3. e \in Entries /\ Pool(e) = i /\ Layer(e) = 0 /\ e[3] = k
          BY <1>4, <5>1
        <5> QED BY <1>12, <5>2, <5>3, InLayerFacts
      <4> QED BY <4>1, <4>2
    <3>5. InLayer(i, 0, Free) = S
      <4> HIDE DEF S
      <4> QED BY <3>4
    <3> HIDE DEF S
    <3> QED BY <2>1, <3>2, <3>3, <3>5
  <2>2. CASE l # 0
    <3>1. layers[i][l].head = NULL
      BY <1>6, <1>7, <2>2
    <3>2. \A x : x \notin InLayer(i, l, Free)
      BY <1>12, <2>2, InLayerFacts, PlaceFacts
    <3>3. InLayer(i, l, Free) = {}
      BY <3>2
    <3> QED BY <3>1, <3>3, ListEmpty
  <2> QED BY <2>1, <2>2
<1>18. CacheInv
  <2> SUFFICES ASSUME NEW j \in Threads, NEW i \in Threads, NEW l \in Layers
               PROVE  CacheRight(j, i, l)
    BY DEF CacheInv
  <2>1. caches[j][i][l] = EmptyCache
    BY <1>1
  <2>2. \A x : x \notin InLayer(i, l, CachedBy(j))
    BY <1>12, InLayerFacts, PlaceFacts
  <2>3. InLayer(i, l, CachedBy(j)) = {}
    BY <2>2
  <2> QED BY <2>1, <2>3, ListEmpty, FS_EmptySet DEF CacheRight, EmptyCache
<1>19. ObjectsInv
  BY <1>1, <1>12, PlaceFacts DEF ObjectsInv
<1> QED BY <1>9, <1>11, <1>13, <1>14, <1>15, <1>16, <1>17, <1>18, <1>19 DEF PoolInv

----------------------------------------------------------------------------
(* The theorems *)

(* Every step keeps the invariant. *)
LEMMA NextPoolInv ==
    ASSUME PoolInv, [Next]_vars
    PROVE  PoolInv'
<1>1. ASSUME NEW t \in Threads, Alloc(t) \/ Enlarge(t) \/ Going(t)
      PROVE  PoolInv'
  <2>1. t \in Workers
    BY DEF Workers
  <2> QED BY <1>1, <2>1, AllocStep, EnlargeStep, ReturnStep, FlushStep, FlushEndStep DEF Going
<1>2. ASSUME NEW t \in Threads, NEW e \in Entries, ReleaseForeign(t, e) \/ ReleaseOwn(t, e)
      PROVE  PoolInv'
  BY <1>2, ForeignStep, OwnStep
<1>3. ASSUME Flush(GC) \/ FlushEnd(GC)
      PROVE  PoolInv'
  <2>1. GC \in Workers
    BY DEF Workers
  <2> QED BY <1>3, <2>1, FlushStep, FlushEndStep
<1>4. ASSUME Daemon \/ Terminate \/ Join \/ UNCHANGED vars
      PROVE  PoolInv'
  BY <1>4, QuietStep DEF Daemon
<1> QED BY <1>1, <1>2, <1>3, <1>4 DEF Next

(* The inductive invariant holds in every reachable state. *)
THEOREM PoolInvariant == Spec => []PoolInv
<1>1. Init => PoolInv
  BY InitPoolInv
<1>2. PoolInv /\ [Next]_vars => PoolInv'
  BY NextPoolInv
<1> QED BY <1>1, <1>2, PTL DEF Spec

(* Every reachable state is well typed. *)
THEOREM PoolTypeCorrect == Spec => []TypeOK
<1>1. PoolInv => TypeOK
  BY DEF PoolInv
<1> QED BY <1>1, PoolInvariant, PTL

(* The lists that run through the entries' own memory have every entry once: *)
(* the free lists what is free, the caches what is cached.                   *)
THEOREM ListsCorrect == Spec => []ListsExact
<1>1. ASSUME PoolInv
      PROVE  ListsExact
  <2> USE DEF PoolInv
  <2> SUFFICES ASSUME NEW i \in Threads, NEW l \in Layers
               PROVE  /\ LET free == InLayer(i, l, Free)
                             n == Cardinality(free)
                         IN /\ Listed(layers[i][l].head, n) = free
                            /\ Listed(layers[i][l].head, n + 1) = free \cup {NULL}
                      /\ \A j \in Threads :
                            LET cache == caches[j][i][l]
                                n == cache.num_cached
                            IN /\ Listed(cache.head, n) = InLayer(i, l, CachedBy(j))
                               /\ Cardinality(InLayer(i, l, CachedBy(j))) = n
                               /\ cache.tail = IF n = 0 THEN NULL ELSE Chain(cache.head, n)[n]
                               /\ i = j => n = 0
    BY DEF ListsExact
  <2>1. PICK t : IsList(next, layers[i][l].head, t, InLayer(i, l, Free))
    BY <1>1 DEF FreeInv, FreeRight
  <2>2. LET n == Cardinality(InLayer(i, l, Free)) IN
        /\ Listed(layers[i][l].head, n) = InLayer(i, l, Free)
        /\ Listed(layers[i][l].head, n + 1) = InLayer(i, l, Free) \cup {NULL}
    BY <2>1, InLayerFacts, ListWalked
  <2>3. ASSUME NEW j \in Threads
        PROVE  /\ Listed(caches[j][i][l].head, caches[j][i][l].num_cached) = InLayer(i, l, CachedBy(j))
               /\ Cardinality(InLayer(i, l, CachedBy(j))) = caches[j][i][l].num_cached
               /\ caches[j][i][l].tail =
                    IF caches[j][i][l].num_cached = 0 THEN NULL
                    ELSE Chain(caches[j][i][l].head, caches[j][i][l].num_cached)[caches[j][i][l].num_cached]
               /\ i = j => caches[j][i][l].num_cached = 0
    <3> DEFINE S == InLayer(i, l, CachedBy(j))
    <3>1. /\ IsList(next, caches[j][i][l].head, caches[j][i][l].tail, S)
          /\ caches[j][i][l].num_cached = Cardinality(S)
          /\ NULL \notin S
      BY <1>1, InLayerFacts DEF CacheInv, CacheRight
    <3>2. i = j => S = {}
      <4>1. \A e \in S : place[e] = CachedBy(j) /\ Pool(e) = i /\ e \in Entries
        BY InLayerFacts
      <4> HIDE DEF S
      <4> QED BY <1>1, <4>1 DEF PlaceInv
    <3>3. i = j => Cardinality(S) = 0
      <4> HIDE DEF S
      <4> QED BY <3>2, FS_EmptySet
    <3>4. LET n == Cardinality(S) IN
          /\ Listed(caches[j][i][l].head, n) = S
          /\ caches[j][i][l].tail = IF n = 0 THEN NULL ELSE Chain(caches[j][i][l].head, n)[n]
      <4> HIDE DEF S
      <4> QED BY <3>1, ListWalked
    <3> HIDE DEF S
    <3>5. S = InLayer(i, l, CachedBy(j))
      BY DEF S
    <3> QED BY <3>1, <3>3, <3>4, <3>5
  <2> QED BY <2>2, <2>3
<1> QED BY <1>1, PoolInvariant, PTL

(* The counters by which layers are freed and caches are flushed are exact. *)
THEOREM CountersCorrect == Spec => []CountersExact
<1>1. PoolInv => CountersExact
  BY DEF PoolInv, CountersExact, UsedInv, TotalInv, TakenIn
<1> QED BY <1>1, PoolInvariant, PTL

(* No layer is freed under an entry that is somewhere. *)
THEOREM NoDanglingCorrect == Spec => []NoDangling
<1>1. PoolInv => NoDangling
  BY DEF PoolInv, NoDangling, PlaceInv
<1> QED BY <1>1, PoolInvariant, PTL

(* The layers are a stack of the right sizes with a used layer on top. *)
THEOREM StackCorrect == Spec => []StackRight
<1>1. PoolInv => StackRight
  BY DEF PoolInv
<1> QED BY <1>1, PoolInvariant, PTL

----------------------------------------------------------------------------
(* The pools implement the allocator *)

(* What the allocator has: the entries of the layers that exist. *)
Blocks == {e \in Entries : e[3] <= layers[Pool(e)][Layer(e)].arena_cap}

(* What exists is what is somewhere. *)
LEMMA BlocksFacts ==
    /\ PlaceInv => \A e : e \in Blocks <=> e \in Entries /\ place[e] # None
    /\ PlaceInv' => \A e : e \in Blocks' <=> e \in Entries /\ place'[e] # None
BY DEF PlaceInv, Blocks

(* The three kinds of steps, and those that users see nothing of. *)
LEMMA StepAllocates ==
    ASSUME PoolInv, PoolInv', GivesOne \/ TakesOne \/ MayShrink
    PROVE  A!Next
<1>1. /\ \A e : e \in Blocks <=> e \in Entries /\ place[e] # None
      /\ \A e : e \in Blocks' <=> e \in Entries /\ place'[e] # None
  BY BlocksFacts DEF PoolInv
<1>2. CASE GivesOne
  <2>1. PICK e \in Entries :
            /\ objects[e] = 0 /\ objects' = [objects EXCEPT ![e] = @ + 1]
            /\ place'[e] # None
            /\ \A x \in Entries : place[x] # None => place'[x] # None
    BY <1>2 DEF GivesOne
  <2>2. Blocks \subseteq Blocks' /\ Blocks' \subseteq Entries /\ e \in Blocks'
    BY <1>1, <2>1
  <2>3. A!Alloc
    BY <2>1, <2>2 DEF A!Alloc, Blocks
  <2> QED BY <2>3 DEF A!Next
<1>3. CASE TakesOne
  <2>1. PICK e \in Entries :
            /\ objects[e] > 0 /\ objects' = [objects EXCEPT ![e] = @ - 1]
            /\ \A x \in Entries : place'[x] = None <=> place[x] = None
    BY <1>3 DEF TakesOne
  <2>2. Blocks' = Blocks
    <3>1. \A x : x \in Blocks' <=> x \in Blocks
      BY <1>1, <2>1
    <3> QED BY <3>1
  <2>3. A!Release
    BY <2>1, <2>2 DEF A!Release, Blocks
  <2> QED BY <2>3 DEF A!Next
<1>4. CASE MayShrink
  <2>1. /\ objects' = objects
        /\ Blocks' \subseteq Blocks
        /\ \A x \in Entries : objects[x] > 0 => x \in Blocks'
    BY <1>1, <1>4 DEF MayShrink
  <2>2. A!Shrink
    BY <2>1 DEF A!Shrink, Blocks
  <2> QED BY <2>2 DEF A!Next
<1> QED BY <1>2, <1>3, <1>4

(* Every step is a step of the allocator, or none. *)
LEMMA NextAllocates ==
    ASSUME PoolInv, PoolInv', [Next]_vars
    PROVE  [A!Next]_A!vars
<1>1. ASSUME GivesOne \/ TakesOne \/ MayShrink
      PROVE  [A!Next]_A!vars
  BY <1>1, StepAllocates
<1>2. ASSUME UNCHANGED poolVars
      PROVE  [A!Next]_A!vars
  BY <1>2 DEF A!vars, poolVars
<1>3. ASSUME NEW w \in Workers, Flush(w) \/ FlushEnd(w)
      PROVE  [A!Next]_A!vars
  <2>1. Flush(w) => MayShrink
    BY FlushStep
  <2>2. FlushEnd(w) => UNCHANGED poolVars
    BY DEF FlushEnd
  <2> QED BY <1>1, <1>2, <1>3, <2>1, <2>2
<1>4. ASSUME NEW t \in Threads, Alloc(t) \/ Enlarge(t) \/ Going(t)
      PROVE  [A!Next]_A!vars
  <2>1. t \in Workers
    BY DEF Workers
  <2>2. Alloc(t) \/ Enlarge(t) => GivesOne
    BY AllocStep, EnlargeStep
  <2>3. ReturnOwn(t) => MayShrink
    BY ReturnStep
  <2> QED BY <1>1, <1>3, <1>4, <2>1, <2>2, <2>3 DEF Going
<1>5. ASSUME NEW t \in Threads, NEW e \in Entries, ReleaseForeign(t, e) \/ ReleaseOwn(t, e)
      PROVE  [A!Next]_A!vars
  <2>1. TakesOne
    BY <1>5, ForeignStep, OwnStep
  <2> QED BY <1>1, <2>1
<1>6. ASSUME Flush(GC) \/ FlushEnd(GC)
      PROVE  [A!Next]_A!vars
  <2>1. GC \in Workers
    BY DEF Workers
  <2> QED BY <1>3, <1>6, <2>1
<1>7. ASSUME Daemon \/ Terminate \/ Join \/ UNCHANGED vars
      PROVE  [A!Next]_A!vars
  <2>1. UNCHANGED poolVars
    BY <1>7 DEF Daemon, Sweep, SweepEnd, DaemonWake, Terminate, Join, vars
  <2> QED BY <1>2, <2>1
<1> QED BY <1>4, <1>5, <1>6, <1>7 DEF Next

(* The pools are an allocator: my_alloc() never puts an object into an entry *)
(* in which another one lives, and the entry exists until that object is     *)
(* released, whoever releases it and whatever is flushed meanwhile.          *)
THEOREM ImplementsAllocator == Spec => AllocatorSpec
<1>1. Init => A!Init
  BY DEF Init, A!Init
<1>2. PoolInv /\ PoolInv' /\ [Next]_vars => [A!Next]_A!vars
  BY NextAllocates
<1> QED BY <1>1, <1>2, PoolInvariant, PTL DEF Spec, AllocatorSpec, A!Spec
=============================================================================
