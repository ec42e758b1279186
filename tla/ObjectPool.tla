----------------------------- MODULE ObjectPool -----------------------------
(***************************************************************************)
(* The memory of the tasks: ObjectPool.hh.  Every thread has a pool, a     *)
(* stack of layers, each an arena whose free entries are linked through    *)
(* their own memory.  A thread allocates from its own pool only.  What it  *)
(* releases goes back at once if it is from its own pool; the others are   *)
(* kept in a cache, one list per pool and layer, until there are too many  *)
(* or the daemon comes by.  The top layer is freed when nothing of it is   *)
(* in use or cached.                                                       *)
(*                                                                         *)
(* mut_ of a pool is held for one step at a time (my_alloc, a release, the *)
(* return of one cached list).  my_release_mut_ is held throughout a flush *)
(* of the pool's caches, which takes the mut_ of the other pools in turn.  *)
(***************************************************************************)
EXTENDS Integers, Sequences, FiniteSets

CONSTANTS
    NThreads,       \* num_of_thread; thread i uses pool i
    InitSize,       \* pool_init_size
    EnlargeRate,    \* enlarge_rate
    MaxCached,      \* max_total_cached
    NLayers,        \* the template parameter of ObjectPool
    HasDaemon,      \* cache_reclaim_period > 0
    MaxTaken,       \* bound: MaxTaken[i] entries of pool i are taken at a time
    NULL            \* nullptr

(* An entry keeps its pool and its layer in 16 bits each (combined_info). *)
MaxIndex == 65536

ASSUME PoolAssumption ==
    /\ NThreads \in 1 .. MaxIndex
    /\ InitSize \in Nat \ {0}
    /\ EnlargeRate \in Nat \ {0}
    /\ MaxCached \in Nat
    /\ NLayers \in 1 .. MaxIndex
    /\ HasDaemon \in BOOLEAN
    /\ MaxTaken \in [0 .. NThreads - 1 -> Nat]

Threads == 0 .. NThreads - 1
Layers == 0 .. NLayers - 1
GC == NThreads                       \* the daemon, which is no user
Workers == Threads \cup {GC}

(* EnlargeRate ^ n, by the n multiplications of my_alloc(). *)
Power[n \in Nat] == IF n = 0 THEN 1 ELSE EnlargeRate * Power[n - 1]

(* An entry: the pool and layer of its combined_info, its index in the arena. *)
Entries == Threads \X Layers \X (1 .. InitSize * Power[NLayers - 1])

Pool(e) == e[1]
Layer(e) == e[2]

ASSUME NullAssumption == NULL \notin Entries

VARIABLES
    layers,         \* layers[i][l]: an ObjectLayer, NoLayer when it is null
    current_layer,  \* the index of the top layer of each pool
    current_size,   \* the size of the top layer
    next,           \* FakeEntry::next (NULL for an entry that holds an object)
    caches,         \* caches[i][j][l]: what thread i released of layer l of pool j
    total_cached,
    place,          \* where each entry is, see Places
    objects,        \* history: how many objects live in each entry, by the calls
                    \* of my_alloc() that gave it and the releases so far
    pc,             \* where each thread and the daemon is
    turn,           \* the pool the daemon is at
    terminatable    \* ObjectPoolGCDaemon::terminatable

poolVars == <<layers, current_layer, current_size, next, place, objects>>
cacheVars == <<caches, total_cached>>
daemonVars == <<turn, terminatable>>
vars == <<poolVars, cacheVars, pc, daemonVars>>

NoLayer == [arena_cap |-> 0, head |-> NULL, used |-> 0]
EmptyCache == [head |-> NULL, tail |-> NULL, num_cached |-> 0]

(* Where an entry is. *)
None == <<"none">>                   \* its layer does not exist
Free == <<"free">>                   \* in the free list of its layer
Used == <<"used">>                   \* an object of the user's is in it
Leaving == <<"leaving">>             \* in my_release() of its own pool
CachedBy(i) == <<"cached", i>>       \* in a cache of pool i
Places == {None, Free, Used, Leaving} \cup {CachedBy(i) : i \in Threads}

(***************************************************************************)
(* idle     in the user's code                                             *)
(* own      between the two locks of my_release()                          *)
(* flush    in cleanup_all_cache(), holding my_release_mut_                *)
(* joining  in daemonTerminate(); left: that call has returned             *)
(* sweep    the daemon before do_period_cleanup() of pool turn             *)
(* sleep    the daemon waits; exit: it is gone, or was never started       *)
(***************************************************************************)
Control == {"idle", "own", "flush", "joining", "left", "sweep", "sleep", "exit"}

Goto(w, where) == pc' = [pc EXCEPT ![w] = where]

(* The pool whose caches w flushes. *)
Flushed(w) == IF w = GC THEN turn ELSE w

(* my_release_mut_ of pool i is held. *)
ReleaseLocked(i) == \E w \in Workers : pc[w] = "flush" /\ Flushed(w) = i

----------------------------------------------------------------------------

(* A new ObjectLayer: the entries 1 .. size linked in their order. *)
Arena(i, l, size) == {<<i, l, k>> : k \in 1 .. size}

Link(e, size) == IF e[3] < size THEN <<e[1], e[2], e[3] + 1>> ELSE NULL

Init ==
    /\ layers = [i \in Threads |-> [l \in Layers |->
            IF l = 0 THEN [arena_cap |-> InitSize, head |-> <<i, 0, 1>>, used |-> 0]
            ELSE NoLayer]]
    /\ current_layer = [i \in Threads |-> 0]
    /\ current_size = [i \in Threads |-> InitSize]
    /\ next = [e \in Entries |-> IF Layer(e) = 0 /\ e[3] <= InitSize
                                 THEN Link(e, InitSize) ELSE NULL]
    /\ caches = [i \in Threads |-> [j \in Threads |-> [l \in Layers |-> EmptyCache]]]
    /\ total_cached = [i \in Threads |-> 0]
    /\ place = [e \in Entries |-> IF Layer(e) = 0 /\ e[3] <= InitSize
                                  THEN Free ELSE None]
    /\ objects = [e \in Entries |-> 0]
    /\ pc = [w \in Workers |-> IF w # GC THEN "idle"
                               ELSE IF HasDaemon THEN "sleep" ELSE "exit"]
    /\ turn = 0
    /\ terminatable = FALSE

----------------------------------------------------------------------------
(* my_alloc() *)

(* The layers of pool i that have a free entry. *)
Available(i) == {l \in 0 .. current_layer[i] : layers[i][l].head # NULL}

InUse == {e \in Entries : objects[e] > 0}

TakenOf(i) == {e \in Entries : Pool(e) = i /\ place[e] \notin {None, Free}}

(* Slip: the layer does not count the entry it gives. *)
TakenUncounted(layer, first) == [layer EXCEPT !.head = first]

(* Slip: the entry that is given stays the head of the free list. *)
TakenKeepsHead(layer, first) == [layer EXCEPT !.used = @ + 1]

Taken(layer, first) ==
    [arena_cap |-> layer.arena_cap, head |-> first, used |-> layer.used + 1]

(* The highest layer that has a free entry gives its first one. *)
Alloc(t) ==
    /\ pc[t] = "idle"
    /\ Cardinality(TakenOf(t)) < MaxTaken[t]
    /\ \E l \in Available(t) :
        /\ \A k \in Available(t) : k <= l
        /\ LET e == layers[t][l].head IN
           /\ layers' = [layers EXCEPT ![t][l] = Taken(@, next[e])]
           /\ next' = [next EXCEPT ![e] = NULL]
           /\ place' = [place EXCEPT ![e] = Used]
           /\ objects' = [objects EXCEPT ![e] = @ + 1]
    /\ UNCHANGED <<current_layer, current_size, cacheVars, pc, daemonVars>>

(***************************************************************************)
(* All layers are full: a new one, EnlargeRate times as large.  That there *)
(* are layers left is the MUST_TRUE of line 205, asked of the user.        *)
(***************************************************************************)
Enlarge(t) ==
    /\ pc[t] = "idle"
    /\ Cardinality(TakenOf(t)) < MaxTaken[t]
    /\ Available(t) = {}
    /\ current_layer[t] + 1 < NLayers
    /\ LET l == current_layer[t] + 1
           size == current_size[t] * EnlargeRate IN
       /\ current_layer' = [current_layer EXCEPT ![t] = l]
       /\ current_size' = [current_size EXCEPT ![t] = size]
       /\ layers' = [layers EXCEPT ![t][l] =
            [arena_cap |-> size, head |-> Link(<<t, l, 1>>, size), used |-> 1]]
       /\ next' = [e \in Entries |-> IF e \in Arena(t, l, size) /\ e[3] # 1
                                     THEN Link(e, size) ELSE next[e]]
       /\ place' = [e \in Entries |-> IF e \notin Arena(t, l, size) THEN place[e]
                                      ELSE IF e[3] = 1 THEN Used ELSE Free]
       /\ objects' = [objects EXCEPT ![<<t, l, 1>>] = @ + 1]
    /\ UNCHANGED <<cacheVars, pc, daemonVars>>

----------------------------------------------------------------------------
(* ObjectLayer::my_release() and remove_layer_if_not_in_use()               *)

(* Slip: the layers below the top go with it. *)
RemovableBlind(i, l, row) ==
    IF l # current_layer[i] THEN {} ELSE {k \in 1 .. l : row[l].used = 0}

(* Slip: only the top goes. *)
RemovableTop(i, l, row) == {k \in {l} \ {0} : k = current_layer[i] /\ row[k].used = 0}

(* Slip: the first layer may go like the others. *)
RemovableFirst(i, l, row) ==
    IF l # current_layer[i] THEN {}
    ELSE {k \in 0 .. l : \A m \in k .. l : row[m].used = 0}

(* The layers to be freed after a release to layer l: the top, if nothing  *)
(* of it is used, and the unused ones right below it.                      *)
Removable(i, l, row) ==
    IF l # current_layer[i] THEN {}
    ELSE {k \in 1 .. l : \A m \in k .. l : row[m].used = 0}

(* The list of n entries es from first to last goes in front of the free   *)
(* list of layer l of pool i.                                              *)
PutBack(i, l, es, first, last, n) ==
    LET row == [layers[i] EXCEPT ![l].head = first, ![l].used = @ - n]
        gone == Removable(i, l, row)
        Gone(e) == Pool(e) = i /\ Layer(e) \in gone
    IN /\ layers' = [layers EXCEPT ![i] =
                        [k \in Layers |-> IF k \in gone THEN NoLayer ELSE row[k]]]
       /\ current_layer' = [current_layer EXCEPT ![i] = @ - Cardinality(gone)]
       /\ current_size' = [current_size EXCEPT ![i] = @ \div Power[Cardinality(gone)]]
       /\ next' = [e \in Entries |-> IF Gone(e) THEN NULL
                                     ELSE IF e = last THEN layers[i][l].head ELSE next[e]]
       /\ place' = [e \in Entries |->
                        LET now == IF e \in es THEN Free ELSE place[e] IN
                        IF Gone(e) /\ now = Free THEN None ELSE now]

----------------------------------------------------------------------------
(* my_release() *)

(* Slip: the entry becomes the tail as well. *)
PushAsTail(cache, e) == [head |-> e, tail |-> e, num_cached |-> cache.num_cached + 1]

Push(cache, e) ==
    [head |-> e,
     tail |-> IF cache.tail # NULL THEN cache.tail ELSE e,
     num_cached |-> cache.num_cached + 1]

(* An entry of another pool goes to the cache; one too many, and all go home. *)
ReleaseForeign(t, e) ==
    /\ pc[t] = "idle"
    /\ objects[e] > 0
    /\ Pool(e) # t
    /\ ~ReleaseLocked(t)
    /\ LET cache == caches[t][Pool(e)][Layer(e)] IN
       /\ caches' = [caches EXCEPT ![t][Pool(e)][Layer(e)] = Push(cache, e)]
       /\ next' = [next EXCEPT ![e] = IF cache.tail # NULL THEN cache.head ELSE NULL]
    /\ total_cached' = [total_cached EXCEPT ![t] = @ + 1]
    /\ place' = [place EXCEPT ![e] = CachedBy(t)]
    /\ objects' = [objects EXCEPT ![e] = @ - 1]
    /\ Goto(t, IF total_cached[t] + 1 > MaxCached THEN "flush" ELSE "idle")
    /\ UNCHANGED <<layers, current_layer, current_size, daemonVars>>

(* An entry of the own pool: my_release_mut_ is released before mut_ is taken ... *)
ReleaseOwn(t, e) ==
    /\ pc[t] = "idle"
    /\ objects[e] > 0
    /\ Pool(e) = t
    /\ ~ReleaseLocked(t)
    /\ place' = [place EXCEPT ![e] = Leaving]
    /\ objects' = [objects EXCEPT ![e] = @ - 1]
    /\ Goto(t, "own")
    /\ UNCHANGED <<layers, current_layer, current_size, next, cacheVars, daemonVars>>

(* ... and the entry goes back to its layer. *)
ReturnOwn(t) ==
    /\ pc[t] = "own"
    /\ \E e \in Entries :
        /\ place[e] = Leaving /\ Pool(e) = t
        /\ PutBack(t, Layer(e), {e}, e, e, 1)
    /\ Goto(t, "idle")
    /\ UNCHANGED <<objects, cacheVars, daemonVars>>

----------------------------------------------------------------------------
(* cleanup_all_cache(), by the thread itself or by the daemon               *)

Unflushed(i) ==
    {jl \in Threads \X Layers : jl[1] # i /\ caches[i][jl[1]][jl[2]].num_cached > 0}

(* The next list in the order of the two loops goes to its pool. *)
Flush(w) ==
    LET i == Flushed(w) IN
    /\ pc[w] = "flush"
    /\ \E jl \in Unflushed(i) :
        /\ \A o \in Unflushed(i) : jl[1] < o[1] \/ (jl[1] = o[1] /\ jl[2] <= o[2])
        /\ LET cache == caches[i][jl[1]][jl[2]] IN
           PutBack(jl[1], jl[2],
                   {e \in Entries : place[e] = CachedBy(i) /\ Pool(e) = jl[1] /\ Layer(e) = jl[2]},
                   cache.head, cache.tail, cache.num_cached)
        /\ caches' = [caches EXCEPT ![i][jl[1]][jl[2]] = EmptyCache]
    /\ UNCHANGED <<objects, total_cached, pc, daemonVars>>

(* Slip: the count of a flushed cache stays. *)
FlushEndKeepsTotal(w) ==
    /\ pc[w] = "flush"
    /\ Unflushed(Flushed(w)) = {}
    /\ Goto(w, IF w = GC THEN "sweep" ELSE "idle")
    /\ turn' = IF w = GC THEN turn + 1 ELSE turn
    /\ UNCHANGED <<poolVars, cacheVars, terminatable>>

(* All are back: my_release_mut_ is released, the daemon goes on to the next pool. *)
FlushEnd(w) ==
    /\ pc[w] = "flush"
    /\ Unflushed(Flushed(w)) = {}
    /\ total_cached' = [total_cached EXCEPT ![Flushed(w)] = 0]
    /\ Goto(w, IF w = GC THEN "sweep" ELSE "idle")
    /\ turn' = IF w = GC THEN turn + 1 ELSE turn
    /\ UNCHANGED <<poolVars, caches, terminatable>>

----------------------------------------------------------------------------
(* The daemon *)

(* Slip: only a full cache is worth a flush. *)
SweepFull ==
    /\ pc[GC] = "sweep"
    /\ turn < NThreads
    /\ ~ReleaseLocked(turn)
    /\ IF total_cached[turn] > MaxCached
       THEN Goto(GC, "flush") /\ UNCHANGED turn
       ELSE turn' = turn + 1 /\ UNCHANGED pc
    /\ UNCHANGED <<poolVars, cacheVars, terminatable>>

(* do_period_cleanup() of pool turn *)
Sweep ==
    /\ pc[GC] = "sweep"
    /\ turn < NThreads
    /\ ~ReleaseLocked(turn)
    /\ IF total_cached[turn] # 0
       THEN Goto(GC, "flush") /\ UNCHANGED turn
       ELSE turn' = turn + 1 /\ UNCHANGED pc
    /\ UNCHANGED <<poolVars, cacheVars, terminatable>>

SweepEnd ==
    /\ pc[GC] = "sweep"
    /\ turn = NThreads
    /\ Goto(GC, "sleep")
    /\ UNCHANGED <<poolVars, cacheVars, daemonVars>>

(* Slip: the daemon does not look at terminatable when it wakes. *)
DaemonWakeBlind ==
    /\ pc[GC] = "sleep"
    /\ Goto(GC, "sweep")
    /\ turn' = 0
    /\ UNCHANGED <<poolVars, cacheVars, terminatable>>

(* wait_for() ends, by its time limit or notified: another round or the end. *)
DaemonWake ==
    /\ pc[GC] = "sleep"
    /\ IF terminatable THEN Goto(GC, "exit") /\ UNCHANGED turn
       ELSE Goto(GC, "sweep") /\ turn' = 0
    /\ UNCHANGED <<poolVars, cacheVars, terminatable>>

(* daemonTerminate(), called by the main thread before it leaves run(). *)
Terminate ==
    /\ pc[0] = "idle"
    /\ terminatable' = HasDaemon
    /\ Goto(0, IF HasDaemon THEN "joining" ELSE "left")
    /\ UNCHANGED <<poolVars, cacheVars, turn>>

Join ==
    /\ pc[0] = "joining"
    /\ pc[GC] = "exit"
    /\ Goto(0, "left")
    /\ UNCHANGED <<poolVars, cacheVars, daemonVars>>

----------------------------------------------------------------------------

Daemon == Sweep \/ SweepEnd \/ DaemonWake

(* The calls a thread has begun. *)
Going(t) == ReturnOwn(t) \/ Flush(t) \/ FlushEnd(t)

Next ==
    \/ \E t \in Threads :
        \/ Alloc(t) \/ Enlarge(t) \/ Going(t)
        \/ \E e \in Entries : ReleaseForeign(t, e) \/ ReleaseOwn(t, e)
    \/ Flush(GC) \/ FlushEnd(GC) \/ Daemon
    \/ Terminate \/ Join

Spec == Init /\ [][Next]_vars

(* Every thread goes on with the call it is in, and so does the daemon. *)
FairSpec ==
    /\ Spec
    /\ \A t \in Threads : WF_vars(Going(t))
    /\ WF_vars(Flush(GC) \/ FlushEnd(GC) \/ SweepEnd \/ DaemonWake)
    /\ WF_vars(Sweep)
    /\ WF_vars(Join)

----------------------------------------------------------------------------

(* Type invariant. *)
TypeOK ==
    /\ layers \in [Threads -> [Layers ->
            [arena_cap : Nat, head : Entries \cup {NULL}, used : Nat]]]
    /\ current_layer \in [Threads -> Layers]
    /\ current_size \in [Threads -> Nat \ {0}]
    /\ next \in [Entries -> Entries \cup {NULL}]
    /\ caches \in [Threads -> [Threads -> [Layers ->
            [head : Entries \cup {NULL}, tail : Entries \cup {NULL}, num_cached : Nat]]]]
    /\ total_cached \in [Threads -> Nat]
    /\ place \in [Entries -> Places]
    /\ objects \in [Entries -> Nat]
    /\ pc \in [Workers -> Control]
    /\ turn \in 0 .. NThreads
    /\ terminatable \in BOOLEAN

(* The first n entries of the list that starts at e. *)
Chain(e, n) ==
    LET walk[k \in 1 .. n] == IF k = 1 THEN e
                              ELSE IF walk[k - 1] = NULL THEN NULL ELSE next[walk[k - 1]]
    IN walk

Listed(e, n) == {Chain(e, n)[k] : k \in 1 .. n}

InLayer(i, l, where) == {e \in Entries : Pool(e) = i /\ Layer(e) = l /\ place[e] = where}

(***************************************************************************)
(* Every entry of a layer is once in its free list, in one cache or in use *)
(* (ObjectPool.hh:62-65, 102-123, 353-363): following next through the     *)
(* entries' own memory, a free list has exactly the entries that are       *)
(* neither in use nor cached anywhere, and the list of a cache has its     *)
(* num_cached entries, all of that pool and layer, and ends at tail.       *)
(***************************************************************************)
ListsExact ==
    \A i \in Threads, l \in Layers :
        /\ LET free == InLayer(i, l, Free)
               n == Cardinality(free) IN
           /\ Listed(layers[i][l].head, n) = free
           /\ Listed(layers[i][l].head, n + 1) = free \cup {NULL}
        /\ \A j \in Threads :
            LET cache == caches[j][i][l]
                n == cache.num_cached IN
            /\ Listed(cache.head, n) = InLayer(i, l, CachedBy(j))
            /\ Cardinality(InLayer(i, l, CachedBy(j))) = n
            /\ cache.tail = IF n = 0 THEN NULL ELSE Chain(cache.head, n)[n]
            /\ i = j => n = 0

(***************************************************************************)
(* The counters by which layers are freed and caches flushed: used of a    *)
(* layer counts what is in use and what other threads have cached,         *)
(* total_cached what is in the caches, and it exceeds its limit only in a  *)
(* flush.                                                                  *)
(***************************************************************************)
CountersExact ==
    /\ \A i \in Threads, l \in Layers :
        layers[i][l].used =
            Cardinality({e \in TakenOf(i) : Layer(e) = l})
    /\ \A i \in Threads :
        /\ ~ReleaseLocked(i) =>
            /\ total_cached[i] = Cardinality({e \in Entries : place[e] = CachedBy(i)})
            /\ total_cached[i] <= MaxCached
        /\ total_cached[i] <= MaxCached + 1

(***************************************************************************)
(* No layer is freed under an object that is in use, cached by another     *)
(* thread or about to be released, in whatever order threads release       *)
(* (remove_layer_if_not_in_use, ObjectPool.hh:239).                        *)
(***************************************************************************)
NoDangling ==
    \A e \in Entries : place[e] # None => e[3] <= layers[Pool(e)][Layer(e)].arena_cap

(***************************************************************************)
(* The layers are a stack: they exist up to current_layer, layer l has     *)
(* InitSize * EnlargeRate^l entries however the pool grew and shrank, and  *)
(* no layer is kept on top that nobody uses.                               *)
(***************************************************************************)
StackRight ==
    \A i \in Threads :
        /\ \A l \in Layers : layers[i][l].arena_cap =
                IF l <= current_layer[i] THEN InitSize * Power[l] ELSE 0
        /\ current_size[i] = layers[i][current_layer[i]].arena_cap
        /\ current_layer[i] > 0 => layers[i][current_layer[i]].used > 0

(***************************************************************************)
(* Refinement: the pools are an allocator.  my_alloc() gives out the first *)
(* entry of a free list, whatever is in it: that no object lives there is  *)
(* what the order of my_release(), the caches and the flushes has to see   *)
(* to, and a second object in an entry is a step Allocator does not have.  *)
(***************************************************************************)
A == INSTANCE Allocator WITH
        blocks <- {e \in Entries : e[3] <= layers[Pool(e)][Layer(e)].arena_cap}

AllocatorSpec == A!Spec

(***************************************************************************)
(* With the daemon, memory comes back: when all objects are gone for good, *)
(* every pool shrinks to its first layer, unless the program ends first.   *)
(***************************************************************************)
ShrinksBack ==
    <>[](InUse = {}) /\ []~terminatable /\ HasDaemon
        => <>[](\A i \in Threads : current_layer[i] = 0)

(* daemonTerminate() returns, whenever the notification comes. *)
DaemonEnds == pc[0] = "joining" ~> pc[0] = "left"
=============================================================================
