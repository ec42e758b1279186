----------------------------- MODULE MCSkiplist -----------------------------
(* TLC's instances of Skiplist: two threads that steal from one another. *)
EXTENDS Skiplist

MCSymmetry == Permutations(Queues)
=============================================================================
