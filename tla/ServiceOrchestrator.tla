------------------------- MODULE ServiceOrchestrator -------------------------
(***************************************************************************)
(* One ServiceOrchestrator.run of app/orchestrator/orchestrator.py over a  *)
(* plan: the layers, the concurrent _run_node tasks of a layer, the audit  *)
(* of a write, the gather barrier, and the recording of results in order.  *)
(* The tasks share one AsyncSession; a Google call runs in a worker thread *)
(* that a timed-out task leaves behind.                                    *)
(***************************************************************************)
EXTENDS Integers, Sequences

CONSTANTS Node,         \* the ids of plan nodes
          Plans,        \* the plans run may be called with
          MaxAttempts   \* stop_after_attempt(5) of google_clients._retry

Operations == {"compute", "search", "get_context", "execute", "invalid"}

(* The nodes of a layer, and those of the layers before the i-th.          *)
NodesIn(layer) == {layer[j] : j \in 1..Len(layer)}
Before(p, i) == UNION {NodesIn(p.layers[h]) : h \in 1..(i - 1)}

(* What topological_layers returns (module ExecutionDAG): every node once, *)
(* after everything it depends on, in layers that are not empty.           *)
IsLayering(p) ==
    /\ p.layers \in Seq(Seq(p.nodes))
    /\ \A n \in p.nodes : \E i \in 1..Len(p.layers) : n \in NodesIn(p.layers[i])
    /\ \A i \in 1..Len(p.layers) : p.layers[i] # <<>>
    /\ \A i \in 1..Len(p.layers) : \A j \in 1..Len(p.layers[i]) :
           /\ p.dependsOn[p.layers[i][j]] \subseteq Before(p, i)
           /\ p.layers[i][j] \notin Before(p, i)
           /\ \A k \in 1..Len(p.layers[i]) : p.layers[i][k] = p.layers[i][j] => k = j

(* A plan build_plan can return: the writes are its "execute" nodes, and a *)
(* write has its layer to itself.                                          *)
IsPlan(p) ==
    /\ p.nodes \subseteq Node
    /\ p.dependsOn \in [p.nodes -> SUBSET p.nodes]
    /\ p.operation \in [p.nodes -> Operations]
    /\ p.optional \subseteq p.nodes
    /\ p.isWrite = {n \in p.nodes : p.operation[n] = "execute"}
    /\ IsLayering(p)
    /\ \A i \in 1..Len(p.layers) :
           NodesIn(p.layers[i]) \cap p.isWrite # {} => Len(p.layers[i]) = 1

ASSUME OrchestratorAssumption ==
    /\ MaxAttempts \in Nat \ {0}
    /\ \A p \in Plans : IsPlan(p)

VARIABLES
    plan,       \* the dag argument
    intent,     \* needs_clarification, and whether a WebSocket streams
    run,        \* run(): launch | gather | record | done | raised
    li, ri,     \* layer of the outer loop, place of the inner (zip) loop
    task,       \* node -> where its _run_node stands
    outcome,    \* node -> status its _run_node returned
    results,    \* node -> status recorded in report.results
    actions,    \* report.actions_taken, as nodes
    session,    \* the shared AsyncSession: idle | connecting | open | broken
    thread,     \* node -> idle | running | ok | failed
    attempts,   \* node -> attempts its thread has made
    effects,    \* node -> times the remote write took effect
    auditLog    \* node -> results committed to audit_log for it

flow     == <<plan, intent>>
runVars  == <<run, li, ri, results, actions>>
taskVars == <<task, outcome>>
remote   == <<thread, attempts, effects>>
vars == <<plan, intent, run, li, ri, task, outcome, results, actions,
          session, thread, attempts, effects, auditLog>>

Init ==
    /\ plan \in Plans
    /\ intent \in [needsClarification : BOOLEAN, streaming : BOOLEAN]
    /\ run = "launch" /\ li = 1 /\ ri = 1
    /\ task = [n \in Node |-> "idle"]
    /\ outcome = [n \in Node |-> "none"]
    /\ results = [n \in Node |-> "none"]
    /\ actions = <<>>
    /\ session \in {"idle", "open"}     \* after a commit | after a SELECT
    /\ thread = [n \in Node |-> "idle"]
    /\ attempts = [n \in Node |-> 0]
    /\ effects = [n \in Node |-> 0]
    /\ auditLog = [n \in Node |-> {}]


Layer == plan.layers[li]
Op(n) == plan.operation[n]
IsWrite(n) == n \in plan.isWrite

-----------------------------------------------------------------------------
(* How a _run_node ends.                                                   *)
Return(n, status) == /\ task' = [task EXCEPT ![n] = "returned"]
                     /\ outcome' = [outcome EXCEPT ![n] = status]

GoTo(n, place) == /\ task' = [task EXCEPT ![n] = place]
                  /\ UNCHANGED outcome

(* Mutant: a failed write is returned without being audited.               *)
CaughtUnaudited(n) == Return(n, "error")

(* Both except clauses: a write audits the failure before it returns it.   *)
Caught(n) == IF IsWrite(n) THEN GoTo(n, "auditError") ELSE Return(n, "error")

-----------------------------------------------------------------------------
(* run(): gather starts every node of the layer, in order.                 *)
StartLayer ==
    /\ run = "launch"
    /\ li <= Len(plan.layers)
    /\ task' = [n \in Node |-> IF n \in NodesIn(Layer) THEN "ready" ELSE task[n]]
    /\ run' = "gather"
    /\ UNCHANGED <<flow, li, ri, results, actions, outcome, session, remote, auditLog>>

FinishRun ==
    /\ run = "launch"
    /\ li > Len(plan.layers)
    /\ run' = "done"
    /\ UNCHANGED <<flow, li, ri, results, actions, taskVars, session, remote, auditLog>>

(* Mutant: only an error blocks, so what depends on a skipped node runs.   *)
BlockedByErrorOnly(n) ==
    \E d \in plan.dependsOn[n] : \/ results[d] = "none"
                                 \/ results[d] = "error" /\ n \notin plan.optional

(* _blocked_by_dependency: a missing result blocks every node; one that is *)
(* not ok blocks all but an optional node.                                 *)
BlockedByDependency(n) ==
    \E d \in plan.dependsOn[n] : \/ results[d] = "none"
                                 \/ results[d] # "ok" /\ n \notin plan.optional

SkipBlocked(n) ==
    /\ task[n] = "ready"
    /\ BlockedByDependency(n)
    /\ Return(n, "skipped")
    /\ UNCHANGED <<flow, runVars, session, remote, auditLog>>

SkipUnclearWrite(n) ==
    /\ task[n] = "ready"
    /\ ~BlockedByDependency(n)
    /\ IsWrite(n) /\ intent.needsClarification
    /\ Return(n, "skipped")
    /\ UNCHANGED <<flow, runVars, session, remote, auditLog>>

(* Mutant: the needs_clarification test is lost.                           *)
MayDispatchUnclear(n) == task[n] = "ready" /\ ~BlockedByDependency(n)

MayDispatch(n) == /\ task[n] = "ready"
                  /\ ~BlockedByDependency(n)
                  /\ ~(IsWrite(n) /\ intent.needsClarification)

(* A parameter builder or _dispatch raises before anything is awaited: no  *)
(* agent or handler, an unknown operation, no event to act on.             *)
DispatchRaises(n) ==
    /\ MayDispatch(n)
    /\ Caught(n)
    /\ UNCHANGED <<flow, runVars, session, remote, auditLog>>

(* A compute handler, and a get_context without an item_id, return without *)
(* ever giving up the event loop.                                          *)
DispatchReturnsAtOnce(n) ==
    /\ MayDispatch(n)
    /\ Op(n) \in {"compute", "get_context"}
    /\ Return(n, "ok")
    /\ UNCHANGED <<flow, runVars, session, remote, auditLog>>

DispatchSearch(n) ==
    /\ MayDispatch(n)
    /\ Op(n) = "search"
    /\ GoTo(n, "embed")
    /\ UNCHANGED <<flow, runVars, session, remote, auditLog>>

(* Mutant: the success row is written ahead of the call it is about.       *)
DispatchAuditedFirst(n) ==
    /\ MayDispatch(n)
    /\ Op(n) \in {"get_context", "execute"}
    /\ GoTo(n, IF IsWrite(n) THEN "auditSuccess" ELSE "quota")
    /\ UNCHANGED <<flow, runVars, session, remote, auditLog>>

DispatchRemote(n) ==
    /\ MayDispatch(n)
    /\ Op(n) \in {"get_context", "execute"}
    /\ GoTo(n, "quota")
    /\ UNCHANGED <<flow, runVars, session, remote, auditLog>>

-----------------------------------------------------------------------------
(* A search: embed the query, then run one statement on the session every  *)
(* task shares.  The first statement after a commit opens a connection; a  *)
(* second task that comes meanwhile is refused, as is any on a session     *)
(* whose transaction has failed.                                           *)
QueryEmbedded(n) ==
    /\ task[n] = "embed"
    /\ \/ session = "idle" /\ session' = "connecting" /\ GoTo(n, "connect")
       \/ session = "open" /\ GoTo(n, "sql") /\ UNCHANGED session
       \/ session \in {"connecting", "broken"} /\ Caught(n) /\ UNCHANGED session
    /\ UNCHANGED <<flow, runVars, remote, auditLog>>

EmbeddingFails(n) ==
    /\ task[n] = "embed"
    /\ Caught(n)
    /\ UNCHANGED <<flow, runVars, session, remote, auditLog>>

SessionConnects(n) ==
    /\ task[n] = "connect"
    /\ \/ session' = "open" /\ GoTo(n, "sql")
       \/ session' = "idle" /\ Caught(n)
    /\ UNCHANGED <<flow, runVars, remote, auditLog>>

StatementEnds(n) ==
    /\ task[n] = "sql"
    /\ \/ session = "open" /\ Return(n, "ok") /\ UNCHANGED session
       \/ session' = "broken" /\ Caught(n)
    /\ UNCHANGED <<flow, runVars, remote, auditLog>>

-----------------------------------------------------------------------------
(* A Google call: a quota slot, then the blocking call in a worker thread, *)
(* which retries inside the thread.  An attempt may take effect and still  *)
(* answer with an error; only a write has an effect.                       *)
QuotaGranted(n) ==
    /\ task[n] = "quota"
    /\ thread' = [thread EXCEPT ![n] = "running"]
    /\ GoTo(n, "thread")
    /\ UNCHANGED <<flow, runVars, session, attempts, effects, auditLog>>

QuotaFails(n) ==
    /\ task[n] = "quota"
    /\ Caught(n)
    /\ UNCHANGED <<flow, runVars, session, remote, auditLog>>

TakesEffect(n) == effects' = [effects EXCEPT ![n] = IF IsWrite(n) THEN @ + 1 ELSE @]

AttemptSucceeds(n) ==
    /\ thread[n] = "running"
    /\ thread' = [thread EXCEPT ![n] = "ok"]
    /\ attempts' = [attempts EXCEPT ![n] = @ + 1]
    /\ TakesEffect(n)
    /\ UNCHANGED <<flow, runVars, taskVars, session, auditLog>>

(* Mutant: no stop_after_attempt.                                          *)
AttemptFailsForEver(n) ==
    /\ thread[n] = "running"
    /\ attempts' = [attempts EXCEPT ![n] = @ + 1]
    /\ thread' = [thread EXCEPT ![n] = "failed"] \/ UNCHANGED thread
    /\ TakesEffect(n) \/ UNCHANGED effects
    /\ UNCHANGED <<flow, runVars, taskVars, session, auditLog>>

AttemptFails(n) ==
    /\ thread[n] = "running"
    /\ attempts' = [attempts EXCEPT ![n] = @ + 1]
    /\ \/ thread' = [thread EXCEPT ![n] = "failed"]            \* not retryable
       \/ /\ attempts[n] + 1 < MaxAttempts                     \* 403, 429, 5xx
          /\ UNCHANGED thread
    /\ TakesEffect(n) \/ UNCHANGED effects
    /\ UNCHANGED <<flow, runVars, taskVars, session, auditLog>>

ThreadReturns(n) ==
    /\ task[n] = "thread"
    /\ \/ /\ thread[n] = "ok"
          /\ IF IsWrite(n) THEN GoTo(n, "auditSuccess") ELSE Return(n, "ok")
       \/ /\ thread[n] = "failed"
          /\ Caught(n)
    /\ UNCHANGED <<flow, runVars, session, remote, auditLog>>

(* wait_for gives up: whatever the task awaits is cancelled, except the    *)
(* thread.  Cancelling a statement invalidates the session's connection in *)
(* the middle of its transaction.                                          *)
AwaitingButThread == {"embed", "connect", "sql", "quota"}  \* Mutant
Awaiting == {"embed", "connect", "sql", "quota", "thread"}

(* Mutant: TimeoutError is not caught.                                     *)
NodeTimesOutUncaught(n) ==
    /\ task[n] \in Awaiting
    /\ session' = IF task[n] = "sql" THEN "broken" ELSE session
    /\ GoTo(n, "raised")
    /\ UNCHANGED <<flow, runVars, remote, auditLog>>

NodeTimesOut(n) ==
    /\ task[n] \in Awaiting
    /\ session' = CASE task[n] = "sql"     -> "broken"
                    [] task[n] = "connect" -> "idle"
                    [] OTHER               -> session
    /\ Caught(n)
    /\ UNCHANGED <<flow, runVars, remote, auditLog>>

-----------------------------------------------------------------------------
(* _audit: add the row and commit.  The success row is written inside the  *)
(* try, so a commit that fails there is audited again as an error; one     *)
(* that fails in an except clause leaves _run_node.  A commit whose answer *)
(* is lost may have stored its row.                                        *)
Auditing == {"auditSuccess", "auditError"}
AuditResult(n) == IF task[n] = "auditSuccess" THEN "success" ELSE "error"
Logged(n) == auditLog' = [auditLog EXCEPT ![n] = @ \cup {AuditResult(n)}]

AuditCommits(n) ==
    /\ task[n] \in Auditing
    /\ session # "broken"
    /\ session' = "idle"
    /\ Logged(n)
    /\ Return(n, IF task[n] = "auditSuccess" THEN "ok" ELSE "error")
    /\ UNCHANGED <<flow, runVars, remote>>

AuditFails(n) ==
    /\ task[n] \in Auditing
    /\ session' = "broken"
    /\ IF task[n] = "auditSuccess" THEN Caught(n) ELSE GoTo(n, "raised")
    /\ \/ session # "broken" /\ Logged(n)
       \/ UNCHANGED auditLog
    /\ UNCHANGED <<flow, runVars, remote>>

-----------------------------------------------------------------------------
(* gather returns when every task of the layer has, and raises as soon as  *)
(* one raises.                                                             *)
(* Mutant: the barrier opens with the first task.                          *)
GatherReturnsEarly ==
    /\ run = "gather"
    /\ \E n \in NodesIn(Layer) : task[n] = "returned"
    /\ run' = "record" /\ ri' = 1
    /\ UNCHANGED <<flow, li, results, actions, taskVars, session, remote, auditLog>>

GatherReturns ==
    /\ run = "gather"
    /\ \A n \in NodesIn(Layer) : task[n] = "returned"
    /\ run' = "record" /\ ri' = 1
    /\ UNCHANGED <<flow, li, results, actions, taskVars, session, remote, auditLog>>

GatherRaises ==
    /\ run = "gather"
    /\ \E n \in NodesIn(Layer) : task[n] = "raised"
    /\ run' = "raised"
    /\ UNCHANGED <<flow, li, ri, results, actions, taskVars, session, remote, auditLog>>

(* One turn of the zip loop: the result, the action it stands for, and the *)
(* callback, which raises when the WebSocket is gone.                      *)
RecordResult ==
    LET n == Layer[ri]
        last == ri = Len(Layer)
    IN  /\ run = "record"
        /\ results' = [results EXCEPT ![n] = outcome[n]]
        /\ actions' = IF outcome[n] = "ok" /\ Op(n) = "execute"
                      THEN Append(actions, n) ELSE actions
        /\ \/ /\ run' = IF last THEN "launch" ELSE "record"
              /\ li' = IF last THEN li + 1 ELSE li
              /\ ri' = IF last THEN 1 ELSE ri + 1
           \/ intent.streaming /\ run' = "raised" /\ UNCHANGED <<li, ri>>
        /\ UNCHANGED <<flow, taskVars, session, remote, auditLog>>

RunStep == StartLayer \/ FinishRun \/ GatherReturns \/ GatherRaises \/ RecordResult

RunNode(n) == \/ SkipBlocked(n) \/ SkipUnclearWrite(n)
              \/ DispatchRaises(n) \/ DispatchReturnsAtOnce(n)
              \/ DispatchSearch(n) \/ DispatchRemote(n)

Search(n) == \/ QueryEmbedded(n) \/ EmbeddingFails(n)
             \/ SessionConnects(n) \/ StatementEnds(n)

CallGoogle(n) == \/ QuotaGranted(n) \/ QuotaFails(n) \/ AttemptSucceeds(n)
                 \/ AttemptFails(n) \/ ThreadReturns(n)

Audit(n) == AuditCommits(n) \/ AuditFails(n)

Next == \/ RunStep
        \/ \E n \in Node : \/ RunNode(n) \/ Search(n) \/ CallGoogle(n)
                           \/ NodeTimesOut(n) \/ Audit(n)

(* The event loop runs what is ready, the timer of wait_for fires, and the *)
(* database answers a commit, which no timeout guards.  Nothing is assumed *)
(* of the embedding provider, of a search statement or of Google.          *)
Fairness == /\ WF_vars(RunStep)
            /\ \A n \in Node : /\ WF_vars(RunNode(n))
                               /\ WF_vars(NodeTimesOut(n))
                               /\ WF_vars(Audit(n))

Spec == Init /\ [][Next]_vars
FairSpec == Spec /\ Fairness

-----------------------------------------------------------------------------
Statuses == {"none", "ok", "error", "skipped"}

TypeOK ==
    /\ plan \in Plans
    /\ intent \in [needsClarification : BOOLEAN, streaming : BOOLEAN]
    /\ run \in {"launch", "gather", "record", "done", "raised"}
    /\ li \in 1..(Len(plan.layers) + 1) /\ ri \in Nat \ {0}
    /\ run \in {"gather", "record"} => li <= Len(plan.layers)
    /\ run = "record" => ri <= Len(Layer)
    /\ task \in [Node -> {"idle", "ready", "returned", "raised"} \cup Awaiting \cup Auditing]
    /\ outcome \in [Node -> Statuses]
    /\ results \in [Node -> Statuses]
    /\ actions \in Seq(Node)
    /\ session \in {"idle", "connecting", "open", "broken"}
    /\ thread \in [Node -> {"idle", "running", "ok", "failed"}]
    /\ attempts \in [Node -> 0..MaxAttempts]
    /\ effects \in [Node -> 0..MaxAttempts]
    /\ auditLog \in [Node -> SUBSET {"success", "error"}]

(* A node that has begun its work, as opposed to waiting or being skipped. *)
Begun(n) == task[n] \notin {"idle", "ready"} /\ outcome[n] # "skipped"

(* However the tasks of a layer interleave and fail, a node begins its     *)
(* work only when every dependency's result is in the report, and is ok    *)
(* unless the node is optional: no parameter builder reads a result that   *)
(* is not there (orchestrator.py:58-60, 89-96).                            *)
DependenciesSettled ==
    \A n \in plan.nodes : Begun(n) =>
        \A d \in plan.dependsOn[n] :
            results[d] \in IF n \in plan.optional THEN Statuses \ {"none"} ELSE {"ok"}

(* When the classifier asked for clarification no write reaches Google,    *)
(* now or later: not before the run ends, and not from a thread that       *)
(* outlives it (DESIGN.md:86, orchestrator.py:62-63).                      *)
UnclearNeverWrites ==
    intent.needsClarification =>
        \A n \in plan.isWrite : effects[n] = 0 /\ thread[n] = "idle"

(* The report, the audit log and Google tell one story of every write: an  *)
(* action reported as taken did take effect and is audited as a success    *)
(* only, a reported failure is audited as an error only, and a skipped     *)
(* write was never attempted nor audited (orchestrator.py:51-52, 72-87).   *)
ReportMatchesAudit ==
    \A n \in plan.isWrite :
        /\ results[n] = "ok" => effects[n] > 0 /\ auditLog[n] = {"success"}
        /\ results[n] = "error" => auditLog[n] = {"error"}
        /\ results[n] = "skipped" => effects[n] = 0 /\ auditLog[n] = {}
        /\ results[n] = "ok" <=> \E k \in 1..Len(actions) : actions[k] = n

(* A success in the audit log is never a lie, in runs that raise as well.  *)
AuditedSuccessHappened ==
    \A n \in Node : "success" \in auditLog[n] => effects[n] > 0

(* Failing searches, timeouts and Google errors never make run() raise: it *)
(* raises only when a client's socket is gone or the audit of a write      *)
(* could not be committed (orchestrator.py:76-87).                         *)
OnlyAuditOrSocketRaises ==
    run = "raised" /\ ~intent.streaming =>
        \E n \in plan.isWrite : task[n] = "raised" /\ session = "broken"

(* Every run ends, even when the embedding provider, a statement or Google *)
(* never answers: wait_for is enough.                                      *)
RunEnds == <>(run \in {"done", "raised"})

(* A write that takes effect reaches the audit log, whether its task lived *)
(* to see the answer or timed out first, unless the database refuses it.   *)
EffectIsAudited ==
    \A n \in Node : effects[n] > 0 ~> (auditLog[n] # {} \/ session = "broken")

(* run() implements PlanExecution: nodes are settled by being recorded.    *)
Promise == INSTANCE PlanExecution WITH
    unclear <- intent.needsClarification,
    status  <- results,
    ending  <- CASE run = "done"   -> "complete"
                 [] run = "raised" -> "aborted"
                 [] OTHER          -> "running"

ImplementsPlanExecution == Promise!Spec
=============================================================================
