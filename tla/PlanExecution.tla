---------------------------- MODULE PlanExecution ----------------------------
(***************************************************************************)
(* What ServiceOrchestrator.run promises whoever reads its report, without *)
(* layers, tasks, sessions or threads: every node of the plan is settled   *)
(* at most once, after everything it depends on, as the statuses of those  *)
(* allow; a run that completes has settled all of them.                    *)
(***************************************************************************)
CONSTANTS Node

VARIABLES plan,     \* nodes, dependsOn, optional, isWrite
          unclear,  \* the query needs clarification
          status,   \* node -> none | ok | error | skipped
          ending    \* running | complete | aborted

vars == <<plan, unclear, status, ending>>

Init == /\ status = [n \in Node |-> "none"]
        /\ ending = "running"

Settled(n) == status[n] # "none"

(* A node runs when its dependencies are ok, or it is optional; a write    *)
(* also needs a clear query.                                               *)
Runs(n) == /\ n \in plan.optional \/ \A d \in plan.dependsOn[n] : status[d] = "ok"
           /\ ~(n \in plan.isWrite /\ unclear)

Settle(n) ==
    /\ ending = "running"
    /\ ~Settled(n)
    /\ \A d \in plan.dependsOn[n] : Settled(d)
    /\ \E s \in IF Runs(n) THEN {"ok", "error"} ELSE {"skipped"} :
           status' = [status EXCEPT ![n] = s]
    /\ ending' \in {"running", "aborted"}
    /\ UNCHANGED <<plan, unclear>>

Complete == /\ ending = "running"
            /\ \A n \in plan.nodes : Settled(n)
            /\ ending' = "complete"
            /\ UNCHANGED <<plan, unclear, status>>

Abort == /\ ending = "running"
         /\ ending' = "aborted"
         /\ UNCHANGED <<plan, unclear, status>>

Next == (\E n \in plan.nodes : Settle(n)) \/ Complete \/ Abort

Spec == Init /\ [][Next]_vars
=============================================================================
