------------------------------ MODULE MCRefPtr ------------------------------
(* TLC's instance of RefPtr: two threads with two variables each.           *)
EXTENDS RefPtr, TLC

CONSTANTS p, q, r, s, o1, o2, o3, t, u

MCPtrs == {p, q, r, s}
MCThreads == {t, u}
MCOwner == [v \in MCPtrs |-> IF v \in {r, s} THEN u ELSE t]
MCObjects == {o1, o2, o3}
MCSymmetry == Permutations(MCObjects) \cup Permutations({p, q}) \cup Permutations({r, s})
=============================================================================
