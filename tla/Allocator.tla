------------------------------ MODULE Allocator ------------------------------
(***************************************************************************)
(* What an allocator of fixed-size objects promises its users: the memory  *)
(* of an object belongs to that object alone and exists until the object   *)
(* is released.  Module ObjectPool implements it.                          *)
(***************************************************************************)
EXTENDS Naturals

CONSTANT Entries    \* the places an object can be put

VARIABLES
    blocks,     \* the entries that exist
    objects     \* objects[e]: how many objects live in the memory of e

vars == <<blocks, objects>>

Init ==
    /\ blocks \subseteq Entries
    /\ objects = [e \in Entries |-> 0]

(* A new object gets an entry no object lives in, perhaps out of new memory. *)
Alloc ==
    /\ blocks \subseteq blocks'
    /\ blocks' \subseteq Entries
    /\ \E e \in blocks' :
        /\ objects[e] = 0
        /\ objects' = [objects EXCEPT ![e] = @ + 1]

Release ==
    /\ \E e \in Entries :
        /\ objects[e] > 0
        /\ objects' = [objects EXCEPT ![e] = @ - 1]
    /\ UNCHANGED blocks

(* Memory that holds no object may go. *)
Shrink ==
    /\ blocks' \subseteq blocks
    /\ \A e \in Entries : objects[e] > 0 => e \in blocks'
    /\ UNCHANGED objects

Next == Alloc \/ Release \/ Shrink

Spec == Init /\ [][Next]_vars
=============================================================================
