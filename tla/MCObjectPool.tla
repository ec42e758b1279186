---------------------------- MODULE MCObjectPool ----------------------------
(* Bounds for module ObjectPool: how many entries of each pool are taken. *)
EXTENDS ObjectPool

(* All the layers of pool 0 (1 + 2 and one of 4), the first of pool 1. *)
MCMaxTaken == [i \in Threads |-> IF i = 0 THEN 4 ELSE 1]
=============================================================================
