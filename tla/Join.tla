-------------------------------- MODULE Join --------------------------------
(***************************************************************************)
(* What a task group promises its owner, without counters, locks, parking  *)
(* or threads: it collects tasks, and wait() returns after all of them     *)
(* have finished.  Module TaskGroup implements it.                         *)
(***************************************************************************)
CONSTANTS Tasks, Groups

VARIABLES
    finished,   \* tasks that have terminated
    members,    \* members[g]: the tasks that were ever registered with g
    status      \* "open", "waiting", "joined" or "dead"

vars == <<finished, members, status>>

Init ==
    /\ finished = {}
    /\ members = [g \in Groups |-> {}]
    /\ status = [g \in Groups |-> "open"]

(* Only a task that is still alive is added. *)
Registe(g, t) ==
    /\ status[g] \in {"open", "joined"}
    /\ t \notin finished
    /\ members' = [members EXCEPT ![g] = @ \cup {t}]
    /\ status' = [status EXCEPT ![g] = "open"]
    /\ UNCHANGED finished

(* A task ends, and the groups of its frame may end with it. *)
Finish(t) ==
    /\ t \notin finished
    /\ finished' = finished \cup {t}
    /\ \E D \in SUBSET Groups :
        /\ \A g \in D : status[g] \in {"open", "joined"}
        /\ status' = [g \in Groups |-> IF g \in D THEN "dead" ELSE status[g]]
    /\ UNCHANGED members

BeginWait(g) ==
    /\ status[g] \in {"open", "joined"}
    /\ status' = [status EXCEPT ![g] = "waiting"]
    /\ UNCHANGED <<finished, members>>

(* wait() returns, at once or after having waited. *)
Return(g) ==
    /\ status[g] \in {"open", "waiting"}
    /\ members[g] \subseteq finished
    /\ status' = [status EXCEPT ![g] = "joined"]
    /\ UNCHANGED <<finished, members>>

Next ==
    \/ \E g \in Groups, t \in Tasks : Registe(g, t)
    \/ \E t \in Tasks : Finish(t)
    \/ \E g \in Groups : BeginWait(g) \/ Return(g)

Spec == Init /\ [][Next]_vars

(* A wait whose tasks have finished returns. *)
FairSpec == Spec /\ \A g \in Groups : WF_vars(status[g] = "waiting" /\ Return(g))
=============================================================================
