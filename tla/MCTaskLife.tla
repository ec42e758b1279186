----------------------------- MODULE MCTaskLife -----------------------------
(* TLC's instance of TaskLife: a root that joins two tasks, one of which   *)
(* may have been given a handle to the other and join it too, so that one  *)
(* task is in groups of two owners.                                        *)
EXTENDS TaskLife, TLC

CONSTANTS root, a, b, g1, g2

MCTasks == {root, a, b}
MCBoth == {g1, g2}
MCOwner == [g \in Groups |-> IF g = g1 THEN root ELSE a]
MCHandles == [t \in Tasks |-> IF t = root THEN Tasks \ {root} ELSE Tasks \ {root, t}]
=============================================================================
