---------------------------- MODULE MCTaskGroup ----------------------------
(***************************************************************************)
(* TLC's instance of TaskGroup: a root task that joins two others, one of  *)
(* which joins the other too.  In MCTaskGroupScoped.cfg a task can be in   *)
(* groups of two owners (the "waited by multiple groups" of                *)
(* GlobalMediator_test.cc), as in MCTaskLife.cfg.                          *)
(***************************************************************************)
EXTENDS TaskGroup, TLC

CONSTANTS root, a, b, g1, g2

MCTasks == {root, a, b}
MCGroups == {g1, g2}
MCOwner == (g1 :> root) @@ (g2 :> a)
MCHandles == (root :> {a, b}) @@ (a :> {b}) @@ (b :> {})
=============================================================================
