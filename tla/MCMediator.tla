----------------------------- MODULE MCMediator -----------------------------
(* TLC's instances of Mediator.  MCMediator.cfg: root joins a and b, which  *)
(* is pure.  The others: root joins a.                                      *)
EXTENDS Mediator

CONSTANTS root, a, b, g1

MCTwo == {root, a}
MCThree == {root, a, b}
MCGroups == {g1}
MCOwner == [g \in Groups |-> root]
MCHandles == [t \in Tasks |-> IF t = root THEN Tasks \ {root} ELSE {}]
=============================================================================
