-------------------------------- MODULE RefPtr --------------------------------
(***************************************************************************)
(* DerivedRefPtr of util.hh, a pointer that counts its references in the   *)
(* object, and the intrusive list of Skiplist.hh, which holds objects by   *)
(* plain pointers and does the counting by hand.                           *)
(*                                                                         *)
(* A pointer variable is used by one thread; the objects, their counters   *)
(* and the list are shared.  One step does at most one operation on a      *)
(* counter (they are atomic), or one critical section of the list.         *)
(***************************************************************************)
EXTENDS Integers, Sequences, FiniteSets

CONSTANTS
    Ptrs,       \* the variables of type DerivedRefPtr
    Threads,
    Owner,      \* Owner[p]: the thread that uses p
    Objects,    \* the memory of the objects; it is used again
    NULL        \* nullptr

ASSUME RefAssumption ==
    /\ IsFiniteSet(Ptrs)
    /\ Owner \in [Ptrs -> Threads]
    /\ NULL \notin Objects

VARIABLES
    real_ptr,   \* real_ptr__ of each variable
    copying,    \* copying[d]: the object of a copy assignment to d, after its increase()
    counter,    \* RefCounted::counter__
    live,       \* the objects that are constructed and not deleted
    next,       \* Linkable::next
    head, tail, \* of the list
    content,    \* the objects in the list, in their order (ghost)
    dropped     \* ~Skiplist() has done decrease(head) and not read head->next yet

ptrVars == <<real_ptr, copying>>
countVars == <<counter, live>>
listVars == <<next, head, tail, content>>
vars == <<ptrVars, countVars, listVars, dropped>>

InList == {content[i] : i \in 1 .. Len(content)}

Init ==
    /\ real_ptr = [p \in Ptrs |-> NULL]
    /\ copying = [p \in Ptrs |-> NULL]
    /\ counter = [o \in Objects |-> 0]
    /\ live = {}
    /\ next = [o \in Objects |-> NULL]
    /\ head = NULL
    /\ tail = NULL
    /\ content = <<>>
    /\ dropped = FALSE

----------------------------------------------------------------------------

(* The thread of p is not inside an assignment. *)
Free(p) == \A d \in Ptrs : Owner[d] = Owner[p] => copying[d] = NULL

Together(d, s) == Owner[d] = Owner[s] /\ Free(d)

Increase(o) ==
    /\ counter' = [counter EXCEPT ![o] = @ + 1]
    /\ UNCHANGED live

(* decrease(): nothing for nullptr; the last reference deletes. *)
Decrease(o) ==
    IF o = NULL THEN UNCHANGED countVars
    ELSE /\ counter' = [counter EXCEPT ![o] = @ - 1]
         /\ live' = IF counter[o] = 1 THEN live \ {o} ELSE live

(* makeRefPtr() *)
Make(d, o) ==
    /\ Free(d)
    /\ real_ptr[d] = NULL
    /\ o \notin live
    /\ live' = live \cup {o}
    /\ counter' = [counter EXCEPT ![o] = 1]
    /\ next' = [next EXCEPT ![o] = NULL]
    /\ real_ptr' = [real_ptr EXCEPT ![d] = o]
    /\ UNCHANGED <<copying, head, tail, content, dropped>>

(* DerivedRefPtr d(s) *)
CopyConstruct(d, s) ==
    /\ Together(d, s)
    /\ real_ptr[d] = NULL
    /\ real_ptr[s] # NULL
    /\ Increase(real_ptr[s])
    /\ real_ptr' = [real_ptr EXCEPT ![d] = real_ptr[s]]
    /\ UNCHANGED <<copying, listVars, dropped>>

(* d = s, which may be the same variable: first the increase() ... *)
CopyAssign(d, s) ==
    /\ Together(d, s)
    /\ real_ptr[s] # NULL
    /\ Increase(real_ptr[s])
    /\ copying' = [copying EXCEPT ![d] = real_ptr[s]]
    /\ UNCHANGED <<real_ptr, listVars, dropped>>

(* Slip: what d had is not released. *)
CopyAssignEndForgets(d) ==
    /\ copying[d] # NULL
    /\ real_ptr' = [real_ptr EXCEPT ![d] = copying[d]]
    /\ copying' = [copying EXCEPT ![d] = NULL]
    /\ UNCHANGED <<countVars, listVars, dropped>>

(* ... then the decrease() of what d had. *)
CopyAssignEnd(d) ==
    /\ copying[d] # NULL
    /\ Decrease(real_ptr[d])
    /\ real_ptr' = [real_ptr EXCEPT ![d] = copying[d]]
    /\ copying' = [copying EXCEPT ![d] = NULL]
    /\ UNCHANGED <<listVars, dropped>>

(* d = std::move(s), or DerivedRefPtr d(std::move(s)) where d has nothing. *)
Move(d, s) ==
    /\ Together(d, s)
    /\ Decrease(real_ptr[d])
    /\ real_ptr' = [real_ptr EXCEPT ![d] = real_ptr[s], ![s] = NULL]
    /\ UNCHANGED <<copying, listVars, dropped>>

(* d = nullptr, d = an empty pointer, or the destructor of d. *)
Reset(d) ==
    /\ Free(d)
    /\ real_ptr[d] # NULL
    /\ Decrease(real_ptr[d])
    /\ real_ptr' = [real_ptr EXCEPT ![d] = NULL]
    /\ UNCHANGED <<copying, listVars, dropped>>

----------------------------------------------------------------------------
(* The list.  An object has one next: it is in no list already.             *)

(* Slip: a list is taken for empty by its tail, which dequeue() leaves. *)
LinkByTail(o) ==
    /\ head' = IF tail = NULL THEN o ELSE head
    /\ next' = IF tail = NULL THEN [next EXCEPT ![o] = NULL]
               ELSE [next EXCEPT ![tail] = o, ![o] = NULL]
    /\ tail' = o
    /\ content' = Append(content, o)

Link(o) ==
    /\ head' = IF head = NULL THEN o ELSE head
    /\ next' = IF head = NULL THEN [next EXCEPT ![o] = NULL]
               ELSE [next EXCEPT ![tail] = o, ![o] = NULL]
    /\ tail' = o
    /\ content' = Append(content, o)

Enqueueable(s) ==
    /\ Free(s)
    /\ real_ptr[s] # NULL
    /\ real_ptr[s] \notin InList

(* enqueue(ptr const &) *)
EnqueueCopy(s) ==
    /\ Enqueueable(s)
    /\ Link(real_ptr[s])
    /\ Increase(real_ptr[s])
    /\ UNCHANGED <<ptrVars, dropped>>

(* Slip: ptr keeps the reference that the list has got. *)
EnqueueMoveKeeps(s) ==
    /\ Enqueueable(s)
    /\ Link(real_ptr[s])
    /\ UNCHANGED <<ptrVars, countVars, dropped>>

(* enqueue(ptr &&) *)
EnqueueMove(s) ==
    /\ Enqueueable(s)
    /\ Link(real_ptr[s])
    /\ real_ptr' = [real_ptr EXCEPT ![s] = NULL]
    /\ UNCHANGED <<copying, countVars, dropped>>

(* DerivedRefPtr d = dequeue() *)
Dequeue(d) ==
    /\ Free(d)
    /\ real_ptr[d] = NULL
    /\ head # NULL
    /\ real_ptr' = [real_ptr EXCEPT ![d] = head]
    /\ head' = next[head]
    /\ next' = [next EXCEPT ![head] = NULL]
    /\ content' = Tail(content)
    /\ UNCHANGED <<copying, countVars, tail, dropped>>

Next ==
    \/ \E d \in Ptrs :
        \/ \E o \in Objects : Make(d, o)
        \/ \E s \in Ptrs : CopyConstruct(d, s) \/ CopyAssign(d, s) \/ Move(d, s)
        \/ CopyAssignEnd(d) \/ Reset(d)
        \/ EnqueueCopy(d) \/ EnqueueMove(d) \/ Dequeue(d)

Spec == Init /\ [][Next]_vars

----------------------------------------------------------------------------
(* ~Skiplist(), one turn of its loop: decrease(head) ...                    *)
DestroyHead ==
    /\ head # NULL
    /\ ~dropped
    /\ Decrease(head)
    /\ dropped' = TRUE
    /\ UNCHANGED <<ptrVars, listVars>>

(* ... and head = head->next. *)
DestroyNext ==
    /\ dropped
    /\ head' = next[head]
    /\ content' = Tail(content)
    /\ dropped' = FALSE
    /\ UNCHANGED <<ptrVars, countVars, next, tail>>

(* A list is filled by one thread and then destroyed. *)
DestroySpec ==
    Init /\ [][\/ ~dropped /\ Next
               \/ (\A p \in Ptrs : Free(p)) /\ (DestroyHead \/ DestroyNext)]_vars

----------------------------------------------------------------------------

(* Type invariant. *)
TypeOK ==
    /\ real_ptr \in [Ptrs -> Objects \cup {NULL}]
    /\ copying \in [Ptrs -> Objects \cup {NULL}]
    /\ counter \in [Objects -> Nat]
    /\ live \in SUBSET Objects
    /\ next \in [Objects -> Objects \cup {NULL}]
    /\ head \in Objects \cup {NULL}
    /\ tail \in Objects \cup {NULL}
    /\ content \in Seq(Objects)
    /\ dropped \in BOOLEAN

Holds(f, o) == {p \in Ptrs : f[p] = o}

(***************************************************************************)
(* The counter of an object is the number of its references: the variables *)
(* that have it, an assignment that is about to store it, and the list.    *)
(***************************************************************************)
RefExact ==
    \A o \in Objects :
        counter[o] = Cardinality(Holds(real_ptr, o)) + Cardinality(Holds(copying, o))
                     + (IF o \in InList THEN 1 ELSE 0)

(***************************************************************************)
(* An object lives exactly as long as there are references to it: it is    *)
(* not deleted under one of them (also when a variable is assigned to      *)
(* itself), not twice, and not forgotten.                                  *)
(***************************************************************************)
LiveExact ==
    /\ \A o \in Objects : o \in live <=> counter[o] > 0
    /\ \A p \in Ptrs : {real_ptr[p], copying[p]} \subseteq live \cup {NULL}
    /\ InList \subseteq live

(***************************************************************************)
(* The list through next of the objects has what was enqueued and not      *)
(* dequeued, in that order, each object once, however objects are deleted  *)
(* and made again (Skiplist.hh:85-126).                                    *)
(***************************************************************************)
ListIntact ==
    LET n == Len(content) IN
    /\ head = IF n = 0 THEN NULL ELSE content[1]
    /\ n > 0 => tail = content[n]
    /\ \A i \in 1 .. n :
        /\ next[content[i]] = IF i < n THEN content[i + 1] ELSE NULL
        /\ \A j \in 1 .. n : content[i] = content[j] => i = j

(***************************************************************************)
(* Skiplist_test.cc:21-54 destroys a list of objects that nothing else     *)
(* refers to any more: ~Skiplist() reads next of objects that live.        *)
(***************************************************************************)
NoReadAfterDelete == dropped => head \in live
=============================================================================
