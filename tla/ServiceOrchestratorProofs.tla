---------------------- MODULE ServiceOrchestratorProofs ----------------------
(***************************************************************************)
(* What ServiceOrchestrator promises, proved for every plan, every number  *)
(* of nodes and every number of attempts.                                  *)
(***************************************************************************)
EXTENDS ServiceOrchestrator, TLAPS

(* A thread's attempts are counted, and there is none before its quota.    *)
ThreadInv ==
    \A n \in Node :
        /\ effects[n] <= attempts[n]
        /\ thread[n] = "idle" => attempts[n] = 0
        /\ thread[n] = "running" => attempts[n] < MaxAttempts
        /\ task[n] \in {"idle", "ready", "embed", "connect", "sql", "quota"}
               => thread[n] = "idle"

(* A status is returned with the task, and recorded as it was returned.    *)
OutcomeInv ==
    \A n \in Node :
        /\ outcome[n] # "none" <=> task[n] = "returned"
        /\ results[n] # "none" => results[n] = outcome[n]

(* Where run() stands in the layers: those before are recorded, those      *)
(* after have not started, and the barrier has closed the one recorded.    *)
LayerInv ==
    \A i \in 1..Len(plan.layers) : \A n \in NodesIn(plan.layers[i]) :
        /\ i < li => results[n] # "none"
        /\ i > li \/ (i = li /\ run = "launch") => task[n] = "idle"
        /\ i = li /\ run = "gather" => results[n] = "none"
        /\ i = li /\ run = "record" => task[n] = "returned"

RecordInv ==
    run = "record" =>
        \A j \in 1..Len(Layer) : results[Layer[j]] # "none" <=> j < ri

(* A task is created when all its node depends on is recorded.             *)
SettledInv ==
    \A n \in Node : task[n] # "idle" =>
        /\ n \in plan.nodes
        /\ \A d \in plan.dependsOn[n] : results[d] # "none"

(* A node is skipped or begun as the recorded results, and clarity, say.   *)
SkipInv ==
    \A n \in plan.nodes :
        /\ outcome[n] = "skipped" => ~Promise!Runs(n)
        /\ Begun(n) => Promise!Runs(n)

UnclearInv ==
    intent.needsClarification =>
        \A n \in plan.isWrite :
            task[n] \in {"idle", "ready", "returned"} /\ thread[n] = "idle"

IInv == /\ TypeOK /\ ThreadInv /\ OutcomeInv /\ LayerInv /\ RecordInv
        /\ SettledInv /\ SkipInv /\ UnclearInv

-----------------------------------------------------------------------------
(* The facts about a plan that the proofs rest on, without its shape.      *)
LEMMA PlanFacts ==
    ASSUME NEW p \in Plans
    PROVE  /\ p.nodes \subseteq Node
           /\ p.isWrite = {n \in p.nodes : p.operation[n] = "execute"}
           /\ p.dependsOn \in [p.nodes -> SUBSET p.nodes]
           /\ p.layers \in Seq(Seq(p.nodes))
           /\ \A i \in 1..Len(p.layers) :
                  p.layers[i] \in Seq(p.nodes) /\ Len(p.layers[i]) > 0
BY OrchestratorAssumption DEF IsPlan, IsLayering

LEMMA LayerNodes ==
    ASSUME plan \in Plans, NEW i \in 1..Len(plan.layers)
    PROVE  /\ Len(plan.layers) \in Nat
           /\ NodesIn(plan.layers[i]) \subseteq plan.nodes
           /\ NodesIn(plan.layers[i]) \subseteq Node
<1>1. /\ plan.nodes \subseteq Node
      /\ plan.layers \in Seq(Seq(plan.nodes))
      /\ plan.layers[i] \in Seq(plan.nodes)
  BY PlanFacts
<1> QED
  BY <1>1 DEF NodesIn

(* What IsLayering says of one node.                                       *)
LEMMA LayerApart ==
    ASSUME plan \in Plans,
           NEW i \in 1..Len(plan.layers), NEW m \in NodesIn(plan.layers[i])
    PROVE  m \notin Before(plan, i) /\ plan.dependsOn[m] \subseteq Before(plan, i)
<1>1. PICK j \in 1..Len(plan.layers[i]) : m = plan.layers[i][j]
  BY DEF NodesIn
<1> QED
  BY <1>1, OrchestratorAssumption DEF IsPlan, IsLayering

THEOREM InitTypeOK == Init => TypeOK
BY OrchestratorAssumption, PlanFacts
   DEF Init, TypeOK, Statuses, Awaiting, Auditing

(* The layer run() is working on holds nodes, at least one.                *)
LEMMA LayerFacts ==
    ASSUME TypeOK, li <= Len(plan.layers)
    PROVE  /\ li \in 1..Len(plan.layers)
           /\ Layer \in Seq(plan.nodes)
           /\ Len(Layer) \in Nat \ {0}
           /\ \A j \in 1..Len(Layer) : Layer[j] \in plan.nodes /\ Layer[j] \in Node
           /\ NodesIn(Layer) \subseteq plan.nodes
           /\ NodesIn(Layer) \subseteq Node
<1>1. plan \in Plans /\ li \in 1..(Len(plan.layers) + 1)
  BY DEF TypeOK
<1>2. /\ plan.nodes \subseteq Node
      /\ plan.layers \in Seq(Seq(plan.nodes))
      /\ \A i \in 1..Len(plan.layers) :
             plan.layers[i] \in Seq(plan.nodes) /\ Len(plan.layers[i]) > 0
  BY <1>1, PlanFacts
<1>3. Layer \in Seq(plan.nodes) /\ Len(Layer) > 0
  BY <1>1, <1>2 DEF Layer
<1> QED
  BY <1>1, <1>2, <1>3 DEF NodesIn

LEMMA RecordTypeOK ==
    ASSUME TypeOK, RecordResult
    PROVE  TypeOK'
<1> DEFINE n == Layer[ri]
<1>1. /\ li \in 1..Len(plan.layers)
      /\ Len(Layer) \in Nat /\ ri \in 1..Len(Layer)
      /\ n \in Node
  BY LayerFacts DEF RecordResult, TypeOK
<1>2. results' \in [Node -> Statuses]
  BY DEF RecordResult, TypeOK
<1>3. actions' \in Seq(Node)
  <2>1. actions' = IF outcome[n] = "ok" /\ Op(n) = "execute" THEN Append(actions, n) ELSE actions
    BY Zenon DEF RecordResult
  <2> QED
    BY <1>1, <2>1 DEF TypeOK
<1>4. /\ run' \in {"launch", "record", "raised"}
      /\ li' \in 1..(Len(plan.layers) + 1)
      /\ ri' \in Nat \ {0}
      /\ run' = "record" => li' = li /\ ri' <= Len(Layer)
  <2>1. Len(plan.layers) \in Nat
    BY PlanFacts DEF TypeOK
  <2>2. CASE ri = Len(Layer)
    BY <1>1, <2>1, <2>2 DEF RecordResult
  <2>3. CASE ri # Len(Layer)
    BY <1>1, <2>1, <2>3 DEF RecordResult
  <2> QED
    BY <2>2, <2>3
<1>5. plan' = plan /\ intent' = intent
  BY DEF RecordResult, flow
<1>6. run' = "record" => li' <= Len(plan'.layers) /\ ri' <= Len(Layer')
  BY <1>1, <1>4, <1>5 DEF Layer
<1>7. UNCHANGED <<task, outcome, session, thread, attempts, effects, auditLog>>
  BY DEF RecordResult, taskVars, remote
<1> QED
  BY <1>2, <1>3, <1>4, <1>5, <1>6, <1>7 DEF TypeOK

LEMMA RunTypeOK ==
    ASSUME TypeOK, RunStep
    PROVE  TypeOK'
<1> USE DEF TypeOK, flow, taskVars, remote
<1>1. CASE StartLayer
  <2>1. task' \in [Node -> {"idle", "ready", "returned", "raised"} \cup Awaiting \cup Auditing]
    BY <1>1 DEF StartLayer
  <2> QED
    BY <1>1, <2>1 DEF StartLayer
<1>2. CASE FinishRun
  BY <1>2 DEF FinishRun
<1>3. CASE GatherReturns
  <2>1. li <= Len(plan.layers) /\ ri' <= Len(Layer) /\ Layer' = Layer
    BY <1>3, LayerFacts DEF GatherReturns, Layer
  <2> QED
    BY <1>3, <2>1 DEF GatherReturns
<1>4. CASE GatherRaises
  BY <1>4 DEF GatherRaises
<1> QED
  BY <1>1, <1>2, <1>3, <1>4, RecordTypeOK DEF RunStep

(* A step of n's task, or of the thread working for it.                    *)
NodeStep(n) == RunNode(n) \/ Search(n) \/ CallGoogle(n) \/ NodeTimesOut(n) \/ Audit(n)

(* Whatever a task does, it and its outcome stay what they may be.         *)
TaskTypeOK ==
    /\ task \in [Node -> {"idle", "ready", "returned", "raised"} \cup Awaiting \cup Auditing]
    /\ outcome \in [Node -> Statuses]

LEMMA TaskMoves ==
    ASSUME TypeOK, NEW n \in Node,
           \/ \E s \in Statuses : Return(n, s)
           \/ \E t \in {"raised"} \cup Awaiting \cup Auditing : GoTo(n, t)
           \/ Caught(n)
    PROVE  TaskTypeOK'
<1> USE DEF TypeOK, TaskTypeOK, Return, GoTo
<1>1. ASSUME NEW s \in Statuses, Return(n, s) PROVE TaskTypeOK'
  BY <1>1
<1>2. ASSUME NEW t \in {"raised"} \cup Awaiting \cup Auditing, GoTo(n, t) PROVE TaskTypeOK'
  BY <1>2
<1>3. CASE Caught(n)
  BY <1>1, <1>2, <1>3 DEF Caught, Statuses, Auditing
<1> QED
  BY <1>1, <1>2, <1>3

LEMMA TaskUnchanged == ASSUME TypeOK, UNCHANGED taskVars PROVE TaskTypeOK'
BY DEF TypeOK, TaskTypeOK, taskVars

LEMMA NodeTypeOK ==
    ASSUME TypeOK, ThreadInv, NEW n \in Node,
           NodeStep(n)
    PROVE  TypeOK'
<1> USE DEF NodeStep
<1>1. TaskTypeOK'
  <2>1. CASE RunNode(n)
    BY <2>1, TaskMoves
       DEF RunNode, SkipBlocked, SkipUnclearWrite, DispatchRaises,
           DispatchReturnsAtOnce, DispatchSearch, DispatchRemote, Statuses, Awaiting
  <2>2. CASE Search(n)
    BY <2>2, TaskMoves
       DEF Search, QueryEmbedded, EmbeddingFails, SessionConnects, StatementEnds,
           Statuses, Awaiting
  <2>3. CASE CallGoogle(n)
    BY <2>3, TaskMoves, TaskUnchanged
       DEF CallGoogle, QuotaGranted, QuotaFails, AttemptSucceeds, AttemptFails,
           ThreadReturns, Statuses, Awaiting, Auditing
  <2>4. CASE NodeTimesOut(n)
    BY <2>4, TaskMoves DEF NodeTimesOut
  <2>5. CASE Audit(n)
    BY <2>5, TaskMoves DEF Audit, AuditCommits, AuditFails, Statuses
  <2> QED
    BY <2>1, <2>2, <2>3, <2>4, <2>5
<1>2. UNCHANGED <<plan, intent, run, li, ri, results, actions>>
  BY DEF RunNode, SkipBlocked, SkipUnclearWrite, DispatchRaises,
         DispatchReturnsAtOnce, DispatchSearch, DispatchRemote,
         Search, QueryEmbedded, EmbeddingFails, SessionConnects, StatementEnds,
         CallGoogle, QuotaGranted, QuotaFails, AttemptSucceeds, AttemptFails,
         ThreadReturns, NodeTimesOut, Audit, AuditCommits, AuditFails, flow, runVars
<1>3. session' \in {"idle", "connecting", "open", "broken"}
  BY DEF TypeOK, RunNode, SkipBlocked, SkipUnclearWrite, DispatchRaises,
         DispatchReturnsAtOnce, DispatchSearch, DispatchRemote,
         Search, QueryEmbedded, EmbeddingFails, SessionConnects, StatementEnds,
         CallGoogle, QuotaGranted, QuotaFails, AttemptSucceeds, AttemptFails,
         ThreadReturns, NodeTimesOut, Audit, AuditCommits, AuditFails
<1>4. /\ thread' \in [Node -> {"idle", "running", "ok", "failed"}]
      /\ attempts' \in [Node -> 0..MaxAttempts]
      /\ effects' \in [Node -> 0..MaxAttempts]
  <2>1. CASE AttemptSucceeds(n) \/ AttemptFails(n)
    <3>1. /\ attempts[n] + 1 \in 0..MaxAttempts
          /\ effects[n] + 1 \in 0..MaxAttempts
      BY <2>1, OrchestratorAssumption
         DEF TypeOK, ThreadInv, AttemptSucceeds, AttemptFails
    <3>2. attempts' = [attempts EXCEPT ![n] = attempts[n] + 1]
      BY <2>1 DEF AttemptSucceeds, AttemptFails
    <3>3. effects' = effects \/ effects' = [effects EXCEPT ![n] = effects[n] + 1]
      BY <2>1 DEF TypeOK, AttemptSucceeds, AttemptFails, TakesEffect
    <3>4. \/ thread' = thread
          \/ \E t \in {"ok", "failed"} : thread' = [thread EXCEPT ![n] = t]
      BY <2>1 DEF AttemptSucceeds, AttemptFails
    <3>5. attempts' \in [Node -> 0..MaxAttempts]
      BY <3>1, <3>2 DEF TypeOK
    <3>6. effects' \in [Node -> 0..MaxAttempts]
      BY <3>1, <3>3 DEF TypeOK
    <3>7. thread' \in [Node -> {"idle", "running", "ok", "failed"}]
      BY <3>4 DEF TypeOK
    <3> QED
      BY <3>5, <3>6, <3>7
  <2>2. CASE UNCHANGED <<attempts, effects>> /\ (UNCHANGED thread \/ QuotaGranted(n))
    BY <2>2 DEF TypeOK, QuotaGranted
  <2> QED
    BY <2>1, <2>2
       DEF RunNode, SkipBlocked, SkipUnclearWrite, DispatchRaises,
           DispatchReturnsAtOnce, DispatchSearch, DispatchRemote,
           Search, QueryEmbedded, EmbeddingFails, SessionConnects, StatementEnds,
           CallGoogle, QuotaGranted, QuotaFails, ThreadReturns,
           NodeTimesOut, Audit, AuditCommits, AuditFails, remote
<1>5. auditLog' \in [Node -> SUBSET {"success", "error"}]
  <2>1. AuditResult(n) \in {"success", "error"}
    BY DEF AuditResult
  <2> QED
    BY <2>1
       DEF TypeOK, RunNode, SkipBlocked, SkipUnclearWrite, DispatchRaises,
           DispatchReturnsAtOnce, DispatchSearch, DispatchRemote,
           Search, QueryEmbedded, EmbeddingFails, SessionConnects, StatementEnds,
           CallGoogle, QuotaGranted, QuotaFails, AttemptSucceeds, AttemptFails,
           ThreadReturns, NodeTimesOut, Audit, AuditCommits, AuditFails, Logged
<1> QED
  BY <1>1, <1>2, <1>3, <1>4, <1>5 DEF TypeOK, TaskTypeOK, Layer

-----------------------------------------------------------------------------
(* A step of n's task or thread disturbs no other node, nor the report.    *)
Frame(n) ==
    /\ UNCHANGED <<plan, intent, run, li, ri, results, actions>>
    /\ \A m \in Node \ {n} :
           /\ task'[m] = task[m] /\ outcome'[m] = outcome[m]
           /\ thread'[m] = thread[m] /\ attempts'[m] = attempts[m]
           /\ effects'[m] = effects[m] /\ auditLog'[m] = auditLog[m]

(* How far one step takes the task: it is skipped, it begins, or it goes   *)
(* on; it ends with a status or goes on without one.                       *)
Ends(n, statuses) == task'[n] = "returned" /\ outcome'[n] \in statuses
GoesOn(n) == /\ task'[n] \in {"raised"} \cup Awaiting \cup Auditing
             /\ outcome'[n] = outcome[n]

Moves(n) ==
    \/ task'[n] = task[n] /\ outcome'[n] = outcome[n]
    \/ /\ task[n] = "ready"
       /\ BlockedByDependency(n) \/ (IsWrite(n) /\ intent.needsClarification)
       /\ Ends(n, {"skipped"})
    \/ /\ MayDispatch(n) \/ task[n] \in Awaiting \cup Auditing
       /\ Ends(n, {"ok", "error"}) \/ GoesOn(n)

LEMMA NodeMoves ==
    ASSUME TypeOK, NEW n \in Node, NodeStep(n)
    PROVE  Frame(n) /\ Moves(n)
<1> USE DEF TypeOK, Frame, Moves, Ends, GoesOn, Return, GoTo, Caught,
            flow, runVars, remote, Awaiting, Auditing
<1>1. CASE RunNode(n)
  <2>1. CASE SkipBlocked(n)
    BY <2>1 DEF SkipBlocked
  <2>2. CASE SkipUnclearWrite(n)
    BY <2>2 DEF SkipUnclearWrite
  <2>3. CASE DispatchRaises(n)
    BY <2>3 DEF DispatchRaises
  <2>4. CASE DispatchReturnsAtOnce(n)
    BY <2>4 DEF DispatchReturnsAtOnce
  <2>5. CASE DispatchSearch(n)
    BY <2>5 DEF DispatchSearch
  <2>6. CASE DispatchRemote(n)
    BY <2>6 DEF DispatchRemote
  <2> QED
    BY <1>1, <2>1, <2>2, <2>3, <2>4, <2>5, <2>6 DEF RunNode
<1>2. CASE Search(n)
  <2>1. CASE QueryEmbedded(n)
    BY <2>1 DEF QueryEmbedded
  <2>2. CASE EmbeddingFails(n)
    BY <2>2 DEF EmbeddingFails
  <2>3. CASE SessionConnects(n)
    BY <2>3 DEF SessionConnects
  <2>4. CASE StatementEnds(n)
    BY <2>4 DEF StatementEnds
  <2> QED
    BY <1>2, <2>1, <2>2, <2>3, <2>4 DEF Search
<1>3. CASE CallGoogle(n)
  <2>1. CASE QuotaGranted(n)
    BY <2>1 DEF QuotaGranted
  <2>2. CASE QuotaFails(n)
    BY <2>2 DEF QuotaFails
  <2>3. CASE AttemptSucceeds(n)
    BY <2>3 DEF AttemptSucceeds, TakesEffect, taskVars
  <2>4. CASE AttemptFails(n)
    BY <2>4 DEF AttemptFails, TakesEffect, taskVars
  <2>5. CASE ThreadReturns(n)
    BY <2>5 DEF ThreadReturns
  <2> QED
    BY <1>3, <2>1, <2>2, <2>3, <2>4, <2>5 DEF CallGoogle
<1>4. CASE NodeTimesOut(n)
  BY <1>4 DEF NodeTimesOut
<1>5. CASE Audit(n)
  <2>1. CASE AuditCommits(n)
    BY <2>1 DEF AuditCommits, Logged
  <2>2. CASE AuditFails(n)
    BY <2>2 DEF AuditFails, Logged
  <2> QED
    BY <1>5, <2>1, <2>2 DEF Audit
<1> QED
  BY <1>1, <1>2, <1>3, <1>4, <1>5 DEF NodeStep

-----------------------------------------------------------------------------
THEOREM InitIInv == Init => IInv
<1> SUFFICES ASSUME Init PROVE IInv
  OBVIOUS
<1> USE DEF Init
<1>1. TypeOK
  BY InitTypeOK
<1>2. ThreadInv /\ OutcomeInv /\ RecordInv /\ SettledInv
  BY DEF ThreadInv, OutcomeInv, RecordInv, SettledInv
<1>3. LayerInv
  <2> SUFFICES ASSUME NEW i \in 1..Len(plan.layers), NEW m \in NodesIn(plan.layers[i])
               PROVE  ~(i < li) /\ run = "launch" /\ task[m] = "idle"
    BY DEF LayerInv
  <2> QED
    BY LayerNodes
<1>4. SkipInv /\ UnclearInv
  BY PlanFacts DEF SkipInv, UnclearInv, Begun
<1> QED
  BY <1>1, <1>2, <1>3, <1>4 DEF IInv

LEMMA NodeThreadInv ==
    ASSUME IInv, NEW n \in Node, NodeStep(n)
    PROVE  ThreadInv'
<1> USE DEF Return, GoTo, Caught, flow, runVars, remote, taskVars
<1>1. Frame(n) /\ Moves(n)
  BY NodeMoves DEF IInv
<1>2. TypeOK /\ ThreadInv
  BY DEF IInv
<1>3. /\ effects[n] \in Int /\ attempts[n] \in Int /\ MaxAttempts \in Int
      /\ 0 < MaxAttempts
  BY <1>2, OrchestratorAssumption DEF TypeOK
<1> SUFFICES /\ effects'[n] <= attempts'[n]
             /\ thread'[n] = "idle" => attempts'[n] = 0
             /\ thread'[n] = "running" => attempts'[n] < MaxAttempts
             /\ task'[n] \in {"idle", "ready", "embed", "connect", "sql", "quota"}
                    => thread'[n] = "idle"
  BY <1>1, <1>2 DEF Frame, ThreadInv
<1>4. CASE RunNode(n) \/ Search(n) \/ QuotaFails(n) \/ ThreadReturns(n)
             \/ NodeTimesOut(n) \/ Audit(n)
  <2>1. UNCHANGED remote
    BY <1>4 DEF RunNode, SkipBlocked, SkipUnclearWrite, DispatchRaises,
         DispatchReturnsAtOnce, DispatchSearch, DispatchRemote,
         Search, QueryEmbedded, EmbeddingFails, SessionConnects, StatementEnds,
         QuotaFails, ThreadReturns, NodeTimesOut, Audit, AuditCommits, AuditFails
  <2>2. task'[n] \in {"idle", "ready", "embed", "connect", "sql", "quota"}
           => task[n] \in {"idle", "ready", "embed", "connect", "sql", "quota"}
    BY <1>2, <1>4 DEF TypeOK, RunNode, SkipBlocked, SkipUnclearWrite, DispatchRaises,
         DispatchReturnsAtOnce, DispatchSearch, DispatchRemote, MayDispatch,
         Search, QueryEmbedded, EmbeddingFails, SessionConnects, StatementEnds,
         QuotaFails, ThreadReturns, NodeTimesOut, Audit, AuditCommits, AuditFails
  <2> QED
    BY <1>2, <2>1, <2>2 DEF ThreadInv
<1>5. CASE QuotaGranted(n)
  BY <1>2, <1>3, <1>5 DEF QuotaGranted, TypeOK, ThreadInv
<1>6. CASE AttemptSucceeds(n)
  BY <1>2, <1>3, <1>6 DEF AttemptSucceeds, TakesEffect, TypeOK, ThreadInv
<1>7. CASE AttemptFails(n)
  BY <1>2, <1>3, <1>7 DEF AttemptFails, TakesEffect, TypeOK, ThreadInv
<1> QED
  BY <1>4, <1>5, <1>6, <1>7 DEF NodeStep, CallGoogle

(* The parts of the invariant about outcomes and layers need only know how *)
(* far the task moves.                                                     *)
LEMMA NodeReportInv ==
    ASSUME IInv, NEW n \in Node, NodeStep(n)
    PROVE  (OutcomeInv /\ LayerInv /\ RecordInv /\ SettledInv)'
<1>1. Frame(n) /\ Moves(n) /\ TypeOK
  BY NodeMoves DEF IInv
<1>2. task[n] = "idle" => task'[n] = "idle" /\ outcome'[n] = outcome[n]
  BY <1>1 DEF Moves, MayDispatch, Awaiting, Auditing
<1>3. task[n] = "returned" => task'[n] = "returned" /\ outcome'[n] = outcome[n]
  BY <1>1 DEF Moves, MayDispatch, Awaiting, Auditing
<1>4. OutcomeInv'
  <2>1. (outcome'[n] # "none") <=> (task'[n] = "returned")
    BY <1>1 DEF IInv, OutcomeInv, Moves, MayDispatch, Ends, GoesOn, Awaiting, Auditing
  <2>2. results[n] # "none" => results[n] = outcome'[n]
    BY <1>3 DEF IInv, OutcomeInv
  <2> QED
    BY <1>1, <2>1, <2>2 DEF IInv, OutcomeInv, Frame
<1>5. LayerInv'
  <2> SUFFICES ASSUME NEW i \in 1..Len(plan.layers), NEW m \in NodesIn(plan.layers[i])
               PROVE  /\ i < li => results[m] # "none"
                      /\ i > li \/ (i = li /\ run = "launch") => task'[m] = "idle"
                      /\ i = li /\ run = "gather" => results[m] = "none"
                      /\ i = li /\ run = "record" => task'[m] = "returned"
    BY <1>1 DEF LayerInv, Frame
  <2>1. m \in Node
    BY <1>1, LayerNodes DEF TypeOK
  <2>2. /\ i < li => results[m] # "none"
        /\ i > li \/ (i = li /\ run = "launch") => task[m] = "idle"
        /\ i = li /\ run = "gather" => results[m] = "none"
        /\ i = li /\ run = "record" => task[m] = "returned"
    BY DEF IInv, LayerInv
  <2>3. m # n => task'[m] = task[m]
    BY <1>1, <2>1 DEF Frame
  <2> QED
    BY <1>2, <1>3, <2>2, <2>3
<1>6. RecordInv'
  BY <1>1 DEF IInv, RecordInv, Frame, Layer
<1>7. SettledInv'
  BY <1>1, <1>2 DEF IInv, SettledInv, Frame
<1> QED
  BY <1>4, <1>5, <1>6, <1>7

LEMMA NodeSkipInv ==
    ASSUME IInv, NEW n \in Node, NodeStep(n)
    PROVE  SkipInv'
<1>1. Frame(n) /\ Moves(n) /\ TypeOK
  BY NodeMoves DEF IInv
<1>2. plan.nodes \subseteq Node
  BY <1>1, PlanFacts DEF TypeOK
<1>3. \A m : Promise!Runs(m)' <=> Promise!Runs(m)
  BY <1>1 DEF Frame, Promise!Runs
<1>4. ASSUME n \in plan.nodes
      PROVE  /\ outcome'[n] = "skipped" => ~Promise!Runs(n)
             /\ Begun(n)' => Promise!Runs(n)
  <2> USE DEF Begun, Ends, GoesOn, IInv, OutcomeInv, SkipInv, SettledInv
  <2>1. CASE task'[n] = task[n] /\ outcome'[n] = outcome[n]
    BY <1>4, <2>1
  <2>2. CASE /\ task[n] = "ready"
             /\ BlockedByDependency(n) \/ (IsWrite(n) /\ intent.needsClarification)
             /\ Ends(n, {"skipped"})
    BY <2>2 DEF BlockedByDependency, IsWrite, Promise!Runs
  <2>3. CASE /\ MayDispatch(n)
             /\ Ends(n, {"ok", "error"}) \/ GoesOn(n)
    BY <2>3 DEF MayDispatch, BlockedByDependency, IsWrite, Promise!Runs
  <2>4. CASE /\ task[n] \in Awaiting \cup Auditing
             /\ Ends(n, {"ok", "error"}) \/ GoesOn(n)
    BY <1>4, <2>4 DEF Awaiting, Auditing
  <2> QED
    BY <1>1, <2>1, <2>2, <2>3, <2>4 DEF Moves
<1>5. ASSUME NEW m \in plan.nodes, m # n
      PROVE  /\ outcome'[m] = "skipped" => ~Promise!Runs(m)
             /\ Begun(m)' => Promise!Runs(m)
  BY <1>1, <1>2, <1>5 DEF IInv, SkipInv, Frame, Begun
<1> QED
  BY <1>1, <1>3, <1>4, <1>5 DEF SkipInv, Frame

LEMMA NodeUnclearInv ==
    ASSUME IInv, NEW n \in Node, NodeStep(n)
    PROVE  UnclearInv'
<1>1. Frame(n) /\ Moves(n) /\ TypeOK
  BY NodeMoves DEF IInv
<1>2. thread'[n] # thread[n] => thread[n] = "running" \/ task[n] = "quota"
  BY DEF NodeStep, RunNode, SkipBlocked, SkipUnclearWrite, DispatchRaises,
         DispatchReturnsAtOnce, DispatchSearch, DispatchRemote,
         Search, QueryEmbedded, EmbeddingFails, SessionConnects, StatementEnds,
         CallGoogle, QuotaGranted, QuotaFails, AttemptSucceeds, AttemptFails,
         ThreadReturns, NodeTimesOut, Audit, AuditCommits, AuditFails, remote
<1>3. plan.isWrite \subseteq Node
  BY <1>1, PlanFacts DEF TypeOK
<1>4. ASSUME intent.needsClarification, n \in plan.isWrite
      PROVE  task'[n] \in {"idle", "ready", "returned"} /\ thread'[n] = "idle"
  <2>1. task[n] \in {"idle", "ready", "returned"} /\ thread[n] = "idle"
    BY <1>4 DEF IInv, UnclearInv
  <2>2. task'[n] \in {"idle", "ready", "returned"}
    BY <1>1, <1>4, <2>1 DEF Moves, MayDispatch, IsWrite, Ends, Awaiting, Auditing
  <2> QED
    BY <1>2, <2>1, <2>2
<1> QED
  BY <1>1, <1>3, <1>4 DEF IInv, UnclearInv, Frame

-----------------------------------------------------------------------------
(* The steps of run() leave the threads and the outcomes alone.            *)
LEMMA StartLayerInv ==
    ASSUME IInv, StartLayer
    PROVE  (ThreadInv /\ OutcomeInv /\ LayerInv /\ RecordInv /\ SettledInv
              /\ SkipInv /\ UnclearInv)'
<1> DEFINE L == NodesIn(Layer)
<1>1. /\ li <= Len(plan.layers) /\ run = "launch" /\ run' = "gather"
      /\ task' = [n \in Node |-> IF n \in L THEN "ready" ELSE task[n]]
      /\ UNCHANGED <<plan, intent, li, ri, results, outcome, thread, attempts, effects>>
  BY DEF StartLayer, flow, remote
<1>2. /\ TypeOK /\ li \in 1..Len(plan.layers) /\ plan \in Plans
      /\ plan.nodes \subseteq Node /\ L \subseteq plan.nodes
  BY <1>1, LayerFacts, PlanFacts DEF IInv, TypeOK
<1>3. \A n \in L : task[n] = "idle" /\ outcome[n] = "none" /\ results[n] = "none"
  <2>1. \A n \in L : task[n] = "idle"
    BY <1>1, <1>2 DEF IInv, LayerInv, Layer
  <2> QED
    BY <1>2, <2>1 DEF IInv, OutcomeInv
<1>4. ThreadInv' /\ OutcomeInv'
  BY <1>1, <1>3 DEF IInv, ThreadInv, OutcomeInv
<1>5. RecordInv'
  BY <1>1 DEF RecordInv
<1>6. LayerInv'
  <2> SUFFICES ASSUME NEW i \in 1..Len(plan.layers), NEW m \in NodesIn(plan.layers[i])
               PROVE  /\ i < li => results[m] # "none"
                      /\ i > li => task'[m] = "idle"
                      /\ i = li => results[m] = "none"
    BY <1>1 DEF LayerInv
  <2>1. m \in Node /\ (i > li => m \notin L)
    <3>1. m \in Node /\ Len(plan.layers) \in Nat
      BY <1>2, LayerNodes
    <3>2. ASSUME i > li PROVE m \notin Before(plan, i) /\ L \subseteq Before(plan, i)
      <4>1. li \in 1..(i - 1)
        BY <1>2, <3>1, <3>2
      <4>2. L \subseteq Before(plan, i)
        BY <4>1 DEF Before, Layer
      <4>3. m \notin Before(plan, i)
        BY <1>2, LayerApart
      <4> QED
        BY <4>2, <4>3
    <3> QED
      BY <3>1, <3>2
  <2> QED
    BY <1>1, <1>3, <2>1 DEF IInv, LayerInv, Layer
<1>7. SettledInv'
  <2>1. ASSUME NEW n \in L, NEW d \in plan.dependsOn[n] PROVE results[d] # "none"
    <3>1. plan.dependsOn[n] \subseteq Before(plan, li)
      BY <1>2, LayerApart DEF Layer
    <3>2. PICK h \in 1..(li - 1) : d \in NodesIn(plan.layers[h])
      BY <3>1 DEF Before
    <3>3. h \in 1..Len(plan.layers) /\ h < li
      BY <1>2, LayerNodes
    <3> QED
      BY <3>2, <3>3 DEF IInv, LayerInv
  <2> QED
    BY <1>1, <1>2, <2>1 DEF IInv, SettledInv
<1>8. SkipInv'
  BY <1>1, <1>2, <1>3 DEF IInv, SkipInv, Begun, Promise!Runs
<1>9. UnclearInv'
  BY <1>1, <1>2, PlanFacts DEF IInv, UnclearInv
<1> QED
  BY <1>4, <1>5, <1>6, <1>7, <1>8, <1>9

LEMMA BarrierInv ==
    ASSUME IInv, FinishRun \/ GatherReturns \/ GatherRaises
    PROVE  (ThreadInv /\ OutcomeInv /\ LayerInv /\ RecordInv /\ SettledInv
              /\ SkipInv /\ UnclearInv)'
<1>1. UNCHANGED <<plan, intent, li, results, task, outcome, thread, attempts, effects>>
  BY DEF FinishRun, GatherReturns, GatherRaises, flow, taskVars, remote
<1>2. ThreadInv' /\ OutcomeInv' /\ SettledInv' /\ SkipInv' /\ UnclearInv'
  BY <1>1 DEF IInv, ThreadInv, OutcomeInv, SettledInv, SkipInv, UnclearInv,
              Begun, Promise!Runs
<1>3. CASE FinishRun \/ GatherRaises
  <2>1. run' \in {"done", "raised"}
    BY <1>3 DEF FinishRun, GatherRaises
  <2>2. LayerInv'
    BY <1>1, <2>1 DEF IInv, LayerInv
  <2>3. RecordInv'
    BY <2>1 DEF RecordInv
  <2> QED
    BY <1>2, <2>2, <2>3
<1>4. CASE GatherReturns
  <2>1. /\ run = "gather" /\ run' = "record" /\ ri' = 1
        /\ \A n \in NodesIn(Layer) : task[n] = "returned"
    BY <1>4 DEF GatherReturns
  <2>2. LayerInv'
    BY <1>1, <2>1 DEF IInv, LayerInv, Layer
  <2>3. RecordInv'
    <3>1. li \in 1..Len(plan.layers) /\ Layer' = Layer /\ Len(Layer) \in Nat
      BY <1>1, <2>1, LayerFacts DEF IInv, TypeOK, Layer
    <3>2. \A j \in 1..Len(Layer) : results[Layer[j]] = "none"
      BY <2>1, <3>1 DEF IInv, LayerInv, NodesIn, Layer
    <3> QED
      BY <1>1, <2>1, <3>1, <3>2 DEF RecordInv
  <2> QED
    BY <1>2, <2>2, <2>3
<1> QED
  BY <1>3, <1>4

(* What recording one result does, and to whom.                            *)
LEMMA RecordFacts ==
    ASSUME IInv, RecordResult
    PROVE  /\ li \in 1..Len(plan.layers) /\ plan \in Plans
           /\ Len(Layer) \in Nat /\ ri \in 1..Len(Layer)
           /\ Layer[ri] \in NodesIn(Layer)
           /\ Layer[ri] \in plan.nodes /\ Layer[ri] \in Node
           /\ results[Layer[ri]] = "none"
           /\ outcome[Layer[ri]] # "none"
           /\ results' = [results EXCEPT ![Layer[ri]] = outcome[Layer[ri]]]
           /\ UNCHANGED <<plan, intent, task, outcome, thread, attempts, effects>>
           /\ \A d : results[d] # "none" => results'[d] = results[d]
<1>1. /\ run = "record"
      /\ results' = [results EXCEPT ![Layer[ri]] = outcome[Layer[ri]]]
      /\ UNCHANGED <<plan, intent, task, outcome, thread, attempts, effects>>
  BY DEF RecordResult, flow, taskVars, remote
<1>2. /\ li \in 1..Len(plan.layers) /\ plan \in Plans
      /\ Len(Layer) \in Nat /\ ri \in 1..Len(Layer)
  BY <1>1, LayerFacts DEF IInv, TypeOK
<1>3. /\ Layer[ri] \in NodesIn(Layer)
      /\ Layer[ri] \in plan.nodes /\ Layer[ri] \in Node
  BY <1>2, LayerFacts DEF IInv, TypeOK, NodesIn
<1>4. task[Layer[ri]] = "returned" /\ results[Layer[ri]] = "none"
  BY <1>1, <1>2, <1>3 DEF IInv, LayerInv, RecordInv, Layer
<1>5. outcome[Layer[ri]] # "none"
  BY <1>3, <1>4 DEF IInv, OutcomeInv
<1>6. \A d : results[d] # "none" => results'[d] = results[d]
  BY <1>1, <1>3, <1>4 DEF IInv, TypeOK
<1> QED
  BY <1>1, <1>2, <1>3, <1>4, <1>5, <1>6

LEMMA RecordResultInv ==
    ASSUME IInv, RecordResult
    PROVE  (ThreadInv /\ OutcomeInv /\ LayerInv /\ RecordInv /\ SettledInv
              /\ SkipInv /\ UnclearInv)'
<1> DEFINE n == Layer[ri]
<1>1. results \in [Node -> Statuses]
  BY DEF IInv, TypeOK
<1>2. ThreadInv' /\ UnclearInv'
  BY RecordFacts DEF IInv, ThreadInv, UnclearInv
<1>3. OutcomeInv'
  BY <1>1, RecordFacts DEF IInv, OutcomeInv
<1>4. \A d \in Node : results'[d] = IF d = n THEN outcome[n] ELSE results[d]
  BY <1>1, RecordFacts
<1>5. SettledInv'
  BY RecordFacts, PlanFacts DEF IInv, SettledInv
<1>6. SkipInv'
  <2> SUFFICES ASSUME NEW m \in plan.nodes
               PROVE  /\ outcome[m] = "skipped" => ~Promise!Runs(m)'
                      /\ Begun(m) => Promise!Runs(m)'
    BY RecordFacts DEF SkipInv, Begun
  <2>1. m \in Node /\ (outcome[m] # "none" <=> task[m] = "returned")
    BY RecordFacts, PlanFacts DEF IInv, OutcomeInv
  <2>2. outcome[m] = "skipped" \/ Begun(m) => \A d \in plan.dependsOn[m] : results'[d] = results[d]
    BY <2>1, RecordFacts DEF IInv, SettledInv, Begun
  <2>3. outcome[m] = "skipped" \/ Begun(m) => (Promise!Runs(m)' <=> Promise!Runs(m))
    BY <2>2, RecordFacts DEF Promise!Runs
  <2> QED
    BY <2>3 DEF IInv, SkipInv
<1>7. CASE run' = "record" /\ li' = li /\ ri' = ri + 1
  <2>1. run = "record" /\ Layer' = Layer
    BY <1>7, RecordFacts DEF RecordResult, Layer
  <2>2. LayerInv'
    BY <1>7, <2>1, RecordFacts DEF IInv, LayerInv
  <2>3. ASSUME NEW j \in 1..Len(Layer) PROVE results'[Layer[j]] # "none" <=> j < ri + 1
    <3>1. results[Layer[j]] # "none" <=> j < ri
      BY <2>1 DEF IInv, RecordInv
    <3>2. Layer[j] = n => j = ri
      BY RecordFacts, OrchestratorAssumption DEF IsPlan, IsLayering, Layer
    <3>3. Layer[j] \in Node
      BY RecordFacts, LayerFacts DEF IInv, TypeOK
    <3> QED
      BY <1>4, <3>1, <3>2, <3>3, RecordFacts
  <2> QED
    BY <1>2, <1>3, <1>5, <1>6, <1>7, <2>1, <2>2, <2>3 DEF RecordInv
<1>8. CASE run' = "launch" /\ li' = li + 1 /\ ri = Len(Layer)
  <2>1. run = "record"
    BY DEF RecordResult
  <2>2. \A m \in NodesIn(Layer) : results'[m] # "none"
    <3> SUFFICES ASSUME NEW j \in 1..Len(Layer) PROVE results'[Layer[j]] # "none"
      BY DEF NodesIn
    <3>1. j < ri \/ j = ri
      BY <1>8, RecordFacts
    <3> QED
      BY <2>1, <3>1, RecordFacts DEF IInv, RecordInv, TypeOK
  <2>3. LayerInv'
    <3> SUFFICES ASSUME NEW i \in 1..Len(plan.layers), NEW m \in NodesIn(plan.layers[i])
                 PROVE  /\ i < li + 1 => results'[m] # "none"
                        /\ i > li + 1 \/ i = li + 1 => task[m] = "idle"
      BY <1>8, RecordFacts DEF LayerInv
    <3>1. i < li \/ i = li \/ i > li
      BY RecordFacts, LayerNodes
    <3>2. i < li + 1 => ~(i > li)
      BY RecordFacts, LayerNodes
    <3>3. i > li + 1 \/ i = li + 1 => i > li
      BY RecordFacts, LayerNodes
    <3>4. /\ i < li => results[m] # "none"
          /\ i > li => task[m] = "idle"
      BY DEF IInv, LayerInv
    <3>5. i = li => results'[m] # "none"
      BY <2>2 DEF Layer
    <3> QED
      BY <3>1, <3>2, <3>3, <3>4, <3>5, RecordFacts
  <2>4. RecordInv'
    BY <1>8 DEF RecordInv
  <2> QED
    BY <1>2, <1>3, <1>5, <1>6, <2>3, <2>4
<1>9. CASE run' = "raised" /\ li' = li
  <2>1. LayerInv'
    BY <1>9, RecordFacts DEF IInv, LayerInv
  <2>2. RecordInv'
    BY <1>9 DEF RecordInv
  <2> QED
    BY <1>2, <1>3, <1>5, <1>6, <2>1, <2>2
<1> QED
  BY <1>7, <1>8, <1>9 DEF RecordResult

-----------------------------------------------------------------------------
LEMMA Stutter == ASSUME IInv, UNCHANGED vars PROVE IInv'
BY DEF vars, IInv, TypeOK, ThreadInv, OutcomeInv, LayerInv, RecordInv, SettledInv,
       SkipInv, UnclearInv, Layer, Begun, Promise!Runs

LEMMA StepIInv == IInv /\ [Next]_vars => IInv'
<1> SUFFICES ASSUME IInv, [Next]_vars PROVE IInv'
  OBVIOUS
<1>1. CASE RunStep
  BY <1>1, RunTypeOK, StartLayerInv, BarrierInv, RecordResultInv DEF RunStep, IInv
<1>2. ASSUME NEW n \in Node, NodeStep(n) PROVE IInv'
  BY <1>2, NodeTypeOK, NodeThreadInv, NodeReportInv, NodeSkipInv, NodeUnclearInv DEF IInv
<1>3. CASE UNCHANGED vars
  BY <1>3, Stutter
<1> QED
  BY <1>1, <1>2, <1>3 DEF Next, NodeStep

THEOREM Invariance == Spec => []IInv
BY InitIInv, StepIInv, PTL DEF Spec

(* Every state of every run is well formed; in particular no thread makes  *)
(* more than MaxAttempts attempts, so no write has more effects than that. *)
THEOREM TypeCorrect == Spec => []TypeOK
<1>1. IInv => TypeOK
  BY DEF IInv
<1> QED
  BY <1>1, Invariance, PTL

(* No node begins its work before its dependencies are settled in the      *)
(* report, and ok unless it is optional.                                   *)
THEOREM DependencySafety == Spec => []DependenciesSettled
<1>1. IInv => DependenciesSettled
  <2> SUFFICES ASSUME IInv, NEW n \in plan.nodes, Begun(n), NEW d \in plan.dependsOn[n]
               PROVE  results[d] \in IF n \in plan.optional THEN Statuses \ {"none"} ELSE {"ok"}
    BY DEF DependenciesSettled
  <2>1. n \in Node /\ d \in Node
    BY PlanFacts DEF IInv, TypeOK
  <2>2. results[d] \in Statuses /\ results[d] # "none"
    BY <2>1 DEF IInv, TypeOK, SettledInv, Begun
  <2> QED
    BY <2>2 DEF IInv, SkipInv, Promise!Runs
<1> QED
  BY <1>1, Invariance, PTL

(* A query that needs clarification has no effect on Google, however long  *)
(* after the run one looks.                                                *)
THEOREM ClaritySafety == Spec => []UnclearNeverWrites
<1>1. IInv => UnclearNeverWrites
  <2> SUFFICES ASSUME IInv, intent.needsClarification, NEW n \in plan.isWrite
               PROVE  effects[n] = 0 /\ thread[n] = "idle"
    BY DEF UnclearNeverWrites
  <2>1. n \in Node
    BY PlanFacts DEF IInv, TypeOK
  <2>2. thread[n] = "idle" /\ effects[n] <= attempts[n] /\ attempts[n] = 0
    BY <2>1 DEF IInv, UnclearInv, ThreadInv
  <2>3. effects[n] \in 0..MaxAttempts
    BY <2>1 DEF IInv, TypeOK
  <2> QED
    BY <2>2, <2>3
<1> QED
  BY <1>1, Invariance, PTL

-----------------------------------------------------------------------------
(* Recording a result is settling its node, as the promise says it may be. *)
LEMMA RecordSettles ==
    ASSUME IInv, RecordResult
    PROVE  \E n \in plan.nodes : Promise!Settle(n)
<1> DEFINE n == Layer[ri]
<1>1. run = "record" /\ run' \in {"launch", "record", "raised"}
  BY DEF RecordResult
<1>2. \A d \in plan.dependsOn[n] : results[d] # "none"
  BY RecordFacts DEF IInv, SettledInv, OutcomeInv
<1>3. task[n] = "returned" /\ outcome[n] \in Statuses \ {"none"}
  BY RecordFacts DEF IInv, TypeOK, OutcomeInv
<1>4. outcome[n] \in IF Promise!Runs(n) THEN {"ok", "error"} ELSE {"skipped"}
  BY <1>3, RecordFacts DEF IInv, SkipInv, Begun, Statuses
<1>5. Promise!Settle(n)
  BY <1>1, <1>2, <1>4, RecordFacts DEF Promise!Settle, Promise!Settled
<1> QED
  BY <1>5, RecordFacts

(* The run is done when the layers are, and with them every node.          *)
LEMMA FinishCompletes ==
    ASSUME IInv, FinishRun
    PROVE  Promise!Complete
<1>1. /\ run = "launch" /\ run' = "done" /\ li > Len(plan.layers)
      /\ UNCHANGED <<plan, intent, results>>
  BY DEF FinishRun, flow
<1>2. ASSUME NEW n \in plan.nodes PROVE results[n] # "none"
  <2>1. PICK i \in 1..Len(plan.layers) : n \in NodesIn(plan.layers[i])
    BY OrchestratorAssumption DEF IInv, TypeOK, IsPlan, IsLayering
  <2>2. i < li
    BY <1>1, <2>1, LayerNodes DEF IInv, TypeOK
  <2> QED
    BY <2>1, <2>2 DEF IInv, LayerInv
<1> QED
  BY <1>1, <1>2 DEF Promise!Complete, Promise!Settled

LEMMA StepPromise == IInv /\ [Next]_vars => [Promise!Next]_(Promise!vars)
<1> SUFFICES ASSUME IInv, [Next]_vars PROVE [Promise!Next]_(Promise!vars)
  OBVIOUS
<1>1. CASE StartLayer \/ GatherReturns
  BY <1>1 DEF StartLayer, GatherReturns, Promise!vars, flow
<1>2. CASE FinishRun
  BY <1>2, FinishCompletes DEF Promise!Next
<1>3. CASE GatherRaises
  BY <1>3 DEF GatherRaises, Promise!Next, Promise!Abort, flow
<1>4. CASE RecordResult
  BY <1>4, RecordSettles DEF Promise!Next
<1>5. ASSUME NEW n \in Node, NodeStep(n) PROVE UNCHANGED Promise!vars
  BY <1>5, NodeMoves DEF IInv, Frame, Promise!vars
<1>6. CASE UNCHANGED vars
  BY <1>6 DEF vars, Promise!vars
<1> QED
  BY <1>1, <1>2, <1>3, <1>4, <1>5, <1>6 DEF Next, RunStep, NodeStep

(* run() implements PlanExecution: whoever reads the report may forget     *)
(* layers, tasks, sessions and threads.                                    *)
THEOREM Refinement == Spec => ImplementsPlanExecution
<1>1. Init => Promise!Init
  BY DEF Init, Promise!Init
<1> QED
  BY <1>1, Invariance, StepPromise, PTL DEF Spec, ImplementsPlanExecution, Promise!Spec
-----------------------------------------------------------------------------
(* The audit log tells the truth about writes: proved from who may use the *)
(* shared session while a write is in its layer, which is why a broken     *)
(* session stays broken and a row is never written twice.                  *)

(* A task that is neither idle nor returned is of the layer being run.     *)
ActiveInv ==
    \A n \in Node : task[n] \notin {"idle", "returned"} =>
        /\ run \in {"gather", "raised"}
        /\ li <= Len(plan.layers)
        /\ n \in NodesIn(Layer)

(* Only searches hold the session while they connect or query, one at a    *)
(* time while they connect, and only writes audit.                         *)
SessionInv ==
    \A n \in Node :
        /\ task[n] \in {"embed", "connect", "sql"} => Op(n) = "search"
        /\ task[n] \in Auditing \cup {"raised"} => n \in plan.isWrite
        /\ task[n] = "connect" => session = "connecting"
        /\ task[n] = "sql" => session \in {"open", "broken"}
        /\ \A m \in Node : task[n] = "connect" /\ task[m] = "connect" => m = n

(* What the audit log holds of a write whose task has returned, and of any *)
(* node by where its task stands.                                          *)
ReturnedWrite(n) ==
    /\ outcome[n] = "ok"      => effects[n] > 0 /\ auditLog[n] = {"success"}
    /\ outcome[n] = "error"   => auditLog[n] = {"error"}
    /\ outcome[n] = "skipped" => /\ auditLog[n] = {}
                                 /\ effects[n] = 0 /\ thread[n] = "idle"

Audited(n) ==
    /\ "success" \in auditLog[n] => effects[n] > 0
    /\ n \in plan.isWrite /\ thread[n] = "ok" => effects[n] > 0
    /\ task[n] \notin {"returned", "raised", "auditError"} => auditLog[n] = {}
    /\ task[n] = "auditSuccess" => effects[n] > 0
    /\ task[n] = "auditError" => auditLog[n] = {} \/ session = "broken"
    /\ task[n] = "raised" => session = "broken"
    /\ n \in plan.isWrite /\ task[n] = "returned" => ReturnedWrite(n)

AuditInv == \A n \in Node : Audited(n)

ActionsInv ==
    \A n \in plan.isWrite :
        results[n] = "ok" <=> \E k \in 1..Len(actions) : actions[k] = n

RaiseInv ==
    run = "raised" => intent.streaming \/ \E n \in plan.isWrite : task[n] = "raised"

AInv == IInv /\ ActiveInv /\ SessionInv /\ AuditInv /\ ActionsInv /\ RaiseInv

-----------------------------------------------------------------------------
(* A write at work has the session to itself.                              *)
LEMMA WriteAlone ==
    ASSUME AInv, NEW n \in plan.isWrite, NEW m \in Node,
           task[n] \notin {"idle", "returned"}, task[m] \notin {"idle", "returned"}
    PROVE  m = n
<1>1. /\ n \in Node /\ plan \in Plans
      /\ li <= Len(plan.layers) /\ n \in NodesIn(Layer) /\ m \in NodesIn(Layer)
  BY PlanFacts DEF AInv, IInv, TypeOK, ActiveInv
<1>2. li \in 1..Len(plan.layers)
  BY <1>1, LayerFacts DEF AInv, IInv
<1>3. Len(Layer) = 1
  BY <1>1, <1>2, OrchestratorAssumption DEF IsPlan, Layer
<1> QED
  BY <1>1, <1>3 DEF NodesIn

LEMMA WriteOps ==
    ASSUME TypeOK, NEW n \in plan.isWrite
    PROVE  n \in Node /\ n \in plan.nodes /\ Op(n) = "execute" /\ IsWrite(n)
BY PlanFacts DEF TypeOK, Op, IsWrite

LEMMA NodeActive ==
    ASSUME AInv, NEW n \in Node, NodeStep(n)
    PROVE  ActiveInv'
<1>1. Frame(n) /\ Moves(n)
  BY NodeMoves DEF AInv, IInv
<1>2. Layer' = Layer
  BY <1>1 DEF Frame, Layer
<1>3. task'[n] \notin {"idle", "returned"} => task[n] \notin {"idle", "returned"}
  BY <1>1 DEF Moves, MayDispatch, Ends, GoesOn, Awaiting, Auditing
<1> QED
  BY <1>1, <1>2, <1>3 DEF AInv, ActiveInv, Frame

(* Once the session is broken nothing in the run mends it.                 *)
LEMMA BrokenStays ==
    ASSUME AInv, NEW n \in Node, NodeStep(n), session = "broken"
    PROVE  session' = "broken"
<1>1. task[n] # "connect"
  BY DEF AInv, SessionInv
<1> QED
  BY <1>1
     DEF NodeStep, RunNode, SkipBlocked, SkipUnclearWrite, DispatchRaises,
         DispatchReturnsAtOnce, DispatchSearch, DispatchRemote,
         Search, QueryEmbedded, EmbeddingFails, SessionConnects, StatementEnds,
         CallGoogle, QuotaGranted, QuotaFails, AttemptSucceeds, AttemptFails,
         ThreadReturns, NodeTimesOut, Audit, AuditCommits, AuditFails

(* How a step of n may change the session, and where n then stands.        *)
SessionMoves(n) ==
    \/ session' = session /\ (task'[n] \in {"connect", "sql"} => task'[n] = task[n])
    \/ /\ task[n] = "embed"
       /\ \/ session = "open" /\ session' = "open" /\ task'[n] = "sql"
          \/ session = "idle" /\ session' = "connecting" /\ task'[n] = "connect"
    \/ task[n] = "connect" /\ session' = "open" /\ task'[n] = "sql"
    \/ /\ task[n] = "connect" /\ session' = "idle"
       /\ task'[n] \notin {"connect", "sql"}
    \/ /\ task[n] = "sql" /\ session' = "broken"
       /\ task'[n] \notin {"connect", "sql"}
    \/ /\ task[n] \in Auditing /\ session' \in {"idle", "broken"}
       /\ task'[n] \notin {"connect", "sql"}

TaskKinds(n) ==
    /\ task'[n] \in {"embed", "connect", "sql"} =>
           Op(n) = "search" \/ task[n] \in {"embed", "connect", "sql"}
    /\ task'[n] \in Auditing \cup {"raised"} =>
           IsWrite(n) \/ task[n] \in Auditing \cup {"raised"}

LEMMA NodeSessionMoves ==
    ASSUME TypeOK, NEW n \in Node, NodeStep(n)
    PROVE  SessionMoves(n) /\ TaskKinds(n)
<1> USE DEF SessionMoves, TaskKinds, TypeOK, Return, GoTo, Caught, Awaiting, Auditing
<1>1. CASE RunNode(n)
  BY <1>1 DEF RunNode, SkipBlocked, SkipUnclearWrite, DispatchRaises,
              DispatchReturnsAtOnce, DispatchSearch, DispatchRemote
<1>2. CASE Search(n)
  BY <1>2 DEF Search, QueryEmbedded, EmbeddingFails, SessionConnects, StatementEnds
<1>3. CASE CallGoogle(n)
  BY <1>3 DEF CallGoogle, QuotaGranted, QuotaFails, AttemptSucceeds, AttemptFails,
              ThreadReturns, taskVars
<1>4. CASE NodeTimesOut(n)
  BY <1>4 DEF NodeTimesOut
<1>5. CASE Audit(n)
  BY <1>5 DEF Audit, AuditCommits, AuditFails
<1> QED
  BY <1>1, <1>2, <1>3, <1>4, <1>5 DEF NodeStep

LEMMA NodeSession ==
    ASSUME AInv, NEW n \in Node, NodeStep(n)
    PROVE  SessionInv'
<1>1. Frame(n) /\ SessionMoves(n) /\ TaskKinds(n) /\ TypeOK
  BY NodeMoves, NodeSessionMoves DEF AInv, IInv
<1>2. ASSUME NEW m \in Node
      PROVE  /\ task'[m] \in {"embed", "connect", "sql"} => Op(m) = "search"
             /\ task'[m] \in Auditing \cup {"raised"} => m \in plan.isWrite
  BY <1>1 DEF Frame, TaskKinds, AInv, SessionInv, IsWrite
<1>3. ASSUME NEW m \in Node, task[n] \in Auditing
      PROVE  task'[m] \notin {"connect", "sql"}
  <2>1. n \in plan.isWrite /\ task[n] \notin {"idle", "returned"}
    BY <1>3 DEF AInv, SessionInv, Auditing
  <2>2. m # n => task[m] \in {"idle", "returned"}
    BY <2>1, WriteAlone
  <2>3. task'[n] \notin {"connect", "sql"}
    BY <1>1, <1>3 DEF SessionMoves, Auditing
  <2> QED
    BY <1>1, <2>2, <2>3 DEF Frame
<1>4. ASSUME NEW m \in Node
      PROVE  /\ task'[m] = "connect" => session' = "connecting"
             /\ task'[m] = "sql" => session' \in {"open", "broken"}
             /\ task'[m] = "connect" /\ task'[n] = "connect" => m = n
  <2>1. m # n => task'[m] = task[m]
    BY <1>1 DEF Frame
  <2>2. /\ task[m] = "connect" => session = "connecting"
        /\ task[m] = "sql" => session \in {"open", "broken"}
        /\ task[n] = "connect" => session = "connecting"
        /\ task[n] = "sql" => session \in {"open", "broken"}
        /\ task[n] = "connect" /\ task[m] = "connect" => m = n
    BY DEF AInv, SessionInv
  <2>3. CASE task[n] \in Auditing
    BY <1>3, <2>3
  <2>4. CASE task[n] \notin Auditing
    BY <1>1, <2>1, <2>2, <2>4 DEF SessionMoves
  <2> QED
    BY <2>3, <2>4
<1>5. ASSUME NEW m \in Node, NEW k \in Node, task'[m] = "connect", task'[k] = "connect"
      PROVE  m = k
  BY <1>1, <1>4, <1>5 DEF Frame, AInv, SessionInv
<1>6. plan' = plan
  BY <1>1 DEF Frame
<1> QED
  BY <1>2, <1>4, <1>5, <1>6 DEF SessionInv, Op

-----------------------------------------------------------------------------
(* What is written to the log, and what Google is made to do, by one step. *)
AuditMoves(n) ==
    \/ /\ UNCHANGED <<auditLog, effects, thread>>
       /\ task'[n] = task[n] /\ outcome'[n] = outcome[n]
    \/ /\ UNCHANGED <<auditLog, effects>>
       /\ \/ UNCHANGED thread
          \/ /\ task[n] = "quota"
             /\ thread'[n] = "running"
       /\ task[n] \in {"ready"} \cup Awaiting
       /\ \/ task'[n] \in Awaiting
          \/ task'[n] = "auditError"
          \/ task'[n] = "auditSuccess" /\ IsWrite(n) /\ thread[n] = "ok" /\ UNCHANGED thread
          \/ task'[n] = "returned" /\ ~IsWrite(n)
          \/ /\ task[n] = "ready" /\ task'[n] = "returned" /\ outcome'[n] = "skipped"
             /\ UNCHANGED thread
    \/ /\ UNCHANGED auditLog
       /\ task'[n] = task[n] /\ outcome'[n] = outcome[n]
       /\ thread[n] = "running"
       /\ effects'[n] \in {effects[n], effects[n] + 1}
       /\ thread'[n] = "ok" /\ IsWrite(n) => effects'[n] = effects[n] + 1
    \/ /\ task[n] = "auditSuccess" /\ session # "broken"
       /\ task'[n] = "returned" /\ outcome'[n] = "ok"
       /\ auditLog'[n] = auditLog[n] \cup {"success"}
       /\ UNCHANGED <<effects, thread>>
    \/ /\ task[n] = "auditError" /\ session # "broken"
       /\ task'[n] = "returned" /\ outcome'[n] = "error"
       /\ auditLog'[n] = auditLog[n] \cup {"error"}
       /\ UNCHANGED <<effects, thread>>
    \/ /\ task[n] = "auditSuccess" /\ session' = "broken"
       /\ task'[n] \in {"auditError", "returned"}
       /\ IsWrite(n) => task'[n] = "auditError"
       /\ auditLog'[n] \in {auditLog[n], auditLog[n] \cup {"success"}}
       /\ UNCHANGED <<effects, thread>>
    \/ /\ task[n] = "auditError" /\ session' = "broken"
       /\ task'[n] = "raised"
       /\ auditLog'[n] \in {auditLog[n], auditLog[n] \cup {"error"}}
       /\ UNCHANGED <<effects, thread>>

LEMMA NodeAuditMoves ==
    ASSUME TypeOK, NEW n \in Node, NodeStep(n),
           IsWrite(n) => Op(n) = "execute" /\ task[n] # "sql"
    PROVE  AuditMoves(n)
<1> USE DEF AuditMoves, TypeOK, Return, GoTo, Caught, Awaiting, remote
<1>1. CASE RunNode(n)
  BY <1>1 DEF RunNode, SkipBlocked, SkipUnclearWrite, DispatchRaises,
              DispatchReturnsAtOnce, DispatchSearch, DispatchRemote, MayDispatch
<1>2. CASE QueryEmbedded(n) \/ EmbeddingFails(n) \/ SessionConnects(n) \/ NodeTimesOut(n)
  BY <1>2 DEF QueryEmbedded, EmbeddingFails, SessionConnects, NodeTimesOut
<1>3. CASE StatementEnds(n) \/ QuotaGranted(n) \/ QuotaFails(n) \/ ThreadReturns(n)
  BY <1>3 DEF StatementEnds, QuotaGranted, QuotaFails, ThreadReturns
<1>4. CASE AttemptSucceeds(n) \/ AttemptFails(n)
  BY <1>4 DEF AttemptSucceeds, AttemptFails, TakesEffect, taskVars
<1>5. CASE AuditCommits(n)
  BY <1>5 DEF AuditCommits, Logged, AuditResult, Auditing
<1>6. CASE AuditFails(n)
  BY <1>6 DEF AuditFails, Logged, AuditResult, Auditing
<1> QED
  BY <1>1, <1>2, <1>3, <1>4, <1>5, <1>6 DEF NodeStep, Search, CallGoogle, Audit

LEMMA NodeAudit ==
    ASSUME AInv, NEW n \in Node, NodeStep(n)
    PROVE  AuditInv'
<1>1. TypeOK /\ Frame(n) /\ Moves(n) /\ TaskKinds(n)
  BY NodeMoves, NodeSessionMoves DEF AInv, IInv
<1>2. IsWrite(n) => Op(n) = "execute" /\ task[n] # "sql"
  BY <1>1, WriteOps DEF IsWrite, AInv, SessionInv
<1>3. AuditMoves(n)
  BY <1>1, <1>2, NodeAuditMoves
<1>4. session = "broken" => session' = "broken"
  BY BrokenStays
<1>5. ASSUME NEW m \in Node \ {n} PROVE Audited(m)'
  BY <1>1, <1>4, <1>5 DEF AInv, AuditInv, Audited, ReturnedWrite, Frame
<1>6. Audited(n)'
  <2>1. /\ Audited(n) /\ n \in Node
        /\ effects[n] \in Nat /\ auditLog[n] \subseteq {"success", "error"}
        /\ task[n] = "ready" => thread[n] = "idle" /\ effects[n] = 0
    <3>1. /\ effects[n] \in 0..MaxAttempts /\ MaxAttempts \in Nat
          /\ attempts[n] \in 0..MaxAttempts
          /\ auditLog[n] \subseteq {"success", "error"}
      BY <1>1, OrchestratorAssumption DEF TypeOK
    <3>2. task[n] = "ready" => thread[n] = "idle" /\ attempts[n] = 0 /\ effects[n] <= attempts[n]
      BY DEF AInv, IInv, ThreadInv
    <3> QED
      BY <3>1, <3>2 DEF AInv, AuditInv
  <2>2. plan' = plan /\ (n \in plan.isWrite <=> IsWrite(n))
    BY <1>1 DEF Frame, IsWrite
  <2>3. task[n] \in {"auditSuccess", "auditError"} => IsWrite(n)
    BY DEF AInv, SessionInv, Auditing, IsWrite
  <2>4. CASE /\ UNCHANGED <<auditLog, effects, thread>>
             /\ task'[n] = task[n] /\ outcome'[n] = outcome[n]
    BY <1>4, <2>1, <2>2, <2>4 DEF Audited, ReturnedWrite
  <2>5. CASE /\ UNCHANGED <<auditLog, effects>> /\ task[n] \in {"ready"} \cup Awaiting
             /\ UNCHANGED thread \/ thread'[n] = "running"
             /\ \/ task'[n] \in Awaiting \cup {"auditError"}
                \/ task'[n] = "auditSuccess" /\ IsWrite(n) /\ thread[n] = "ok"
                \/ task'[n] = "returned" /\ ~IsWrite(n)
    BY <2>1, <2>2, <2>5 DEF Audited, Awaiting
  <2>6. CASE /\ UNCHANGED <<auditLog, effects, thread>> /\ task[n] = "ready"
             /\ task'[n] = "returned" /\ outcome'[n] = "skipped"
    BY <2>1, <2>2, <2>6 DEF Audited, ReturnedWrite
  <2>7. CASE /\ UNCHANGED auditLog /\ thread[n] = "running"
             /\ task'[n] = task[n] /\ outcome'[n] = outcome[n]
             /\ effects'[n] \in {effects[n], effects[n] + 1}
             /\ thread'[n] = "ok" /\ IsWrite(n) => effects'[n] = effects[n] + 1
    BY <1>4, <2>1, <2>2, <2>7 DEF Audited, ReturnedWrite
  <2>8. CASE /\ UNCHANGED <<effects, thread>> /\ session # "broken"
             /\ task'[n] = "returned"
             /\ \/ task[n] = "auditSuccess" /\ outcome'[n] = "ok"
                   /\ auditLog'[n] = auditLog[n] \cup {"success"}
                \/ task[n] = "auditError" /\ outcome'[n] = "error"
                   /\ auditLog'[n] = auditLog[n] \cup {"error"}
    BY <2>1, <2>2, <2>8 DEF Audited, ReturnedWrite
  <2>9. CASE /\ UNCHANGED <<effects, thread>> /\ session' = "broken"
             /\ \/ task[n] = "auditSuccess" /\ task'[n] = "auditError"
                   /\ auditLog'[n] \in {auditLog[n], auditLog[n] \cup {"success"}}
                \/ task[n] = "auditError" /\ task'[n] = "raised"
                   /\ auditLog'[n] \in {auditLog[n], auditLog[n] \cup {"error"}}
    BY <2>1, <2>2, <2>9 DEF Audited
  <2> QED
    BY <1>3, <2>3, <2>4, <2>5, <2>6, <2>7, <2>8, <2>9 DEF AuditMoves
<1> QED
  BY <1>5, <1>6 DEF AuditInv

LEMMA NodeReported ==
    ASSUME AInv, NEW n \in Node, NodeStep(n)
    PROVE  ActionsInv' /\ RaiseInv'
<1>1. Frame(n) /\ Moves(n)
  BY NodeMoves DEF AInv, IInv
<1>2. task[n] = "raised" => task'[n] = "raised"
  BY <1>1 DEF Moves, MayDispatch, Awaiting, Auditing
<1>3. plan.isWrite \subseteq Node
  BY PlanFacts DEF AInv, IInv, TypeOK
<1> QED
  BY <1>1, <1>2, <1>3 DEF Frame, AInv, ActionsInv, RaiseInv

-----------------------------------------------------------------------------
(* The steps of run() touch neither the session nor the log.               *)
LEMMA RunAudit ==
    ASSUME AInv, RunStep
    PROVE  ActiveInv' /\ SessionInv' /\ AuditInv'
<1>1. UNCHANGED <<plan, intent, outcome, session, thread, effects, auditLog>>
  BY DEF RunStep, StartLayer, FinishRun, GatherReturns, GatherRaises, RecordResult,
         flow, taskVars, remote
<1>2. CASE StartLayer
  <2>1. /\ run = "launch" /\ run' = "gather" /\ li' = li /\ li <= Len(plan.layers)
        /\ task' = [n \in Node |-> IF n \in NodesIn(Layer) THEN "ready" ELSE task[n]]
    BY <1>2 DEF StartLayer
  <2>2. \A n \in Node : task[n] \in {"idle", "returned"}
    BY <2>1 DEF AInv, ActiveInv
  <2>3. \A n \in NodesIn(Layer) : task[n] = "idle"
    <3>1. li \in 1..Len(plan.layers)
      BY <2>1, LayerFacts DEF AInv, IInv
    <3> QED
      BY <2>1, <3>1 DEF AInv, IInv, LayerInv, Layer
  <2>4. ActiveInv'
    BY <1>1, <2>1, <2>2 DEF ActiveInv, Layer
  <2>5. SessionInv'
    BY <1>1, <2>1, <2>2 DEF SessionInv, Auditing
  <2>6. AuditInv'
    <3> SUFFICES ASSUME NEW n \in Node PROVE Audited(n)'
      BY DEF AuditInv
    <3>1. Audited(n) /\ (\/ task'[n] = "ready" /\ task[n] = "idle"
                       \/ task'[n] = task[n])
      BY <2>1, <2>3 DEF AInv, AuditInv
    <3> QED
      BY <1>1, <2>2, <3>1 DEF Audited, ReturnedWrite
  <2> QED
    BY <2>4, <2>5, <2>6
<1>3. CASE FinishRun \/ GatherReturns \/ GatherRaises \/ RecordResult
  <2>1. UNCHANGED task
    BY <1>3 DEF FinishRun, GatherReturns, GatherRaises, RecordResult, taskVars
  <2>2. SessionInv' /\ AuditInv'
    BY <1>1, <2>1 DEF AInv, SessionInv, AuditInv, Audited, ReturnedWrite, Op
  <2>3. CASE GatherRaises
    <3>1. Layer' = Layer /\ li' = li /\ run' = "raised"
      BY <1>1, <2>3 DEF GatherRaises, Layer
    <3> QED
      BY <1>1, <2>1, <2>2, <3>1 DEF AInv, ActiveInv
  <2>4. CASE FinishRun \/ GatherReturns \/ RecordResult
    <3>1. \/ run \in {"launch", "record"}
          \/ \A n \in NodesIn(Layer) : task[n] = "returned"
      BY <2>4 DEF FinishRun, GatherReturns, RecordResult
    <3>2. \A n \in Node : task[n] \in {"idle", "returned"}
      BY <3>1 DEF AInv, ActiveInv
    <3> QED
      BY <2>1, <2>2, <3>2 DEF ActiveInv
  <2> QED
    BY <1>3, <2>2, <2>3, <2>4
<1> QED
  BY <1>2, <1>3 DEF RunStep

LEMMA RunReported ==
    ASSUME AInv, RunStep
    PROVE  ActionsInv' /\ RaiseInv'
<1>1. CASE StartLayer \/ FinishRun \/ GatherReturns
  <2>1. UNCHANGED <<plan, intent, results, actions>> /\ run' # "raised"
    BY <1>1 DEF StartLayer, FinishRun, GatherReturns, flow
  <2> QED
    BY <2>1 DEF AInv, ActionsInv, RaiseInv
<1>2. CASE GatherRaises
  <2>1. /\ UNCHANGED <<plan, intent, results, actions, task>> /\ run = "gather"
        /\ \E n \in NodesIn(Layer) : task[n] = "raised"
    BY <1>2 DEF GatherRaises, flow, taskVars
  <2>2. NodesIn(Layer) \subseteq Node
    BY <2>1, LayerFacts DEF AInv, IInv, TypeOK
  <2> QED
    BY <2>1, <2>2 DEF AInv, ActionsInv, RaiseInv, SessionInv
<1>3. CASE RecordResult
  <2> DEFINE n == Layer[ri]
  <2>1. /\ IInv /\ TypeOK
        /\ n \in Node /\ results[n] = "none" /\ results \in [Node -> Statuses]
        /\ results' = [results EXCEPT ![n] = outcome[n]]
        /\ UNCHANGED <<plan, intent, task>>
    BY <1>3, RecordFacts DEF AInv, IInv, TypeOK
  <2>2. /\ run = "record"
        /\ actions' = IF outcome[n] = "ok" /\ Op(n) = "execute"
                      THEN Append(actions, n) ELSE actions
        /\ run' = "raised" => intent.streaming
    BY <1>3, Zenon DEF RecordResult
  <2>3. RaiseInv'
    BY <2>1, <2>2 DEF RaiseInv
  <2>4. ASSUME NEW m \in plan.isWrite
        PROVE  results'[m] = "ok" <=> \E k \in 1..Len(actions') : actions'[k] = m
    <3>1. m \in Node /\ Op(m) = "execute"
      BY <2>1, WriteOps
    <3>2. results[m] = "ok" <=> \E k \in 1..Len(actions) : actions[k] = m
      BY DEF AInv, ActionsInv
    <3>3. actions \in Seq(Node) /\ Len(actions) \in Nat
      BY <2>1 DEF TypeOK
    <3>4. CASE actions' = Append(actions, n) /\ outcome[n] = "ok"
      <4>1. /\ Len(actions') = Len(actions) + 1
            /\ \A k \in 1..Len(actions) : actions'[k] = actions[k]
            /\ actions'[Len(actions) + 1] = n
        BY <2>1, <3>3, <3>4
      <4>2. (\E k \in 1..Len(actions') : actions'[k] = m)
              <=> m = n \/ \E k \in 1..Len(actions) : actions[k] = m
        BY <3>3, <4>1
      <4> QED
        BY <2>1, <3>1, <3>2, <3>4, <4>2
    <3>5. CASE actions' = actions /\ ~(outcome[n] = "ok" /\ Op(n) = "execute")
      BY <2>1, <3>1, <3>2, <3>5
    <3> QED
      BY <2>2, <3>4, <3>5
  <2> QED
    BY <2>1, <2>3, <2>4 DEF ActionsInv
<1> QED
  BY <1>1, <1>2, <1>3 DEF RunStep

-----------------------------------------------------------------------------
LEMMA InitAInv == Init => AInv
<1> SUFFICES ASSUME Init PROVE AInv
  OBVIOUS
<1>1. IInv /\ TypeOK /\ plan.isWrite \subseteq Node
  BY InitIInv, PlanFacts DEF IInv, TypeOK
<1>2. ActiveInv /\ SessionInv /\ RaiseInv
  BY DEF Init, ActiveInv, SessionInv, RaiseInv, Auditing
<1>3. AuditInv /\ ActionsInv
  BY <1>1 DEF Init, AuditInv, Audited, ActionsInv
<1> QED
  BY <1>1, <1>2, <1>3 DEF AInv

LEMMA StepAInv == AInv /\ [Next]_vars => AInv'
<1> SUFFICES ASSUME AInv, [Next]_vars PROVE AInv'
  OBVIOUS
<1>1. IInv'
  BY StepIInv DEF AInv
<1>2. CASE RunStep
  BY <1>1, <1>2, RunAudit, RunReported DEF AInv
<1>3. ASSUME NEW n \in Node, NodeStep(n) PROVE AInv'
  BY <1>1, <1>3, NodeActive, NodeSession, NodeAudit, NodeReported DEF AInv
<1>4. CASE UNCHANGED vars
  BY <1>1, <1>4 DEF vars, AInv, ActiveInv, SessionInv, AuditInv, Audited, ReturnedWrite,
                    ActionsInv, RaiseInv, Layer, Op
<1> QED
  BY <1>2, <1>3, <1>4 DEF Next, NodeStep

THEOREM AuditInvariance == Spec => []AInv
BY InitAInv, StepAInv, PTL DEF Spec

(* The report of a write, the actions listed to the user, the audit log    *)
(* and Google agree in every reachable state of every plan.                *)
THEOREM ReportSafety == Spec => []ReportMatchesAudit
<1>1. AInv => ReportMatchesAudit
  <2> SUFFICES ASSUME AInv, NEW n \in plan.isWrite
               PROVE  /\ results[n] = "ok" => effects[n] > 0 /\ auditLog[n] = {"success"}
                      /\ results[n] = "error" => auditLog[n] = {"error"}
                      /\ results[n] = "skipped" => effects[n] = 0 /\ auditLog[n] = {}
                      /\ results[n] = "ok" <=> \E k \in 1..Len(actions) : actions[k] = n
    BY DEF ReportMatchesAudit
  <2>1. n \in Node
    BY WriteOps DEF AInv, IInv
  <2>2. results[n] # "none" => results[n] = outcome[n] /\ task[n] = "returned"
    BY <2>1 DEF AInv, IInv, OutcomeInv
  <2>3. task[n] = "returned" => ReturnedWrite(n)
    BY <2>1 DEF AInv, AuditInv, Audited
  <2> QED
    BY <2>2, <2>3 DEF ReturnedWrite, AInv, ActionsInv
<1> QED
  BY <1>1, AuditInvariance, PTL

(* A success row in the audit log is about a write that took effect.       *)
THEOREM AuditTruth == Spec => []AuditedSuccessHappened
<1>1. AInv => AuditedSuccessHappened
  BY DEF AInv, AuditInv, Audited, AuditedSuccessHappened
<1> QED
  BY <1>1, AuditInvariance, PTL

(* Only a lost socket, or a write whose audit could not be committed,      *)
(* makes a run raise.                                                      *)
THEOREM RaiseSafety == Spec => []OnlyAuditOrSocketRaises
<1>1. AInv => OnlyAuditOrSocketRaises
  <2>1. AInv => plan.isWrite \subseteq Node
    BY PlanFacts DEF AInv, IInv, TypeOK
  <2> QED
    BY <2>1 DEF AInv, RaiseInv, AuditInv, Audited, OnlyAuditOrSocketRaises
<1> QED
  BY <1>1, AuditInvariance, PTL

-----------------------------------------------------------------------------
(* What whoever calls run() needs to know of the session it lends: that it *)
(* is connecting for a task only, and, when no task is at work, that       *)
(* nothing the run relies on is lost by using it.                          *)
ConnectInv == session = "connecting" => \E n \in Node : task[n] = "connect"

LEMMA NodeConnects ==
    ASSUME TypeOK, NEW n \in Node, NodeStep(n), session' = "connecting"
    PROVE  task'[n] = "connect" \/ (session = "connecting" /\ task[n] # "connect")
<1> USE DEF TypeOK, Return, GoTo, Caught, Awaiting, Auditing
<1>1. CASE RunNode(n)
  BY <1>1 DEF RunNode, SkipBlocked, SkipUnclearWrite, DispatchRaises,
              DispatchReturnsAtOnce, DispatchSearch, DispatchRemote, MayDispatch
<1>2. CASE Search(n)
  BY <1>2 DEF Search, QueryEmbedded, EmbeddingFails, SessionConnects, StatementEnds
<1>3. CASE CallGoogle(n)
  BY <1>3 DEF CallGoogle, QuotaGranted, QuotaFails, AttemptSucceeds, AttemptFails,
              ThreadReturns, taskVars
<1>4. CASE NodeTimesOut(n)
  BY <1>4 DEF NodeTimesOut
<1>5. CASE Audit(n)
  BY <1>5 DEF Audit, AuditCommits, AuditFails
<1> QED
  BY <1>1, <1>2, <1>3, <1>4, <1>5 DEF NodeStep

LEMMA StepConnectInv == AInv /\ ConnectInv /\ [Next]_vars => ConnectInv'
<1> SUFFICES ASSUME AInv, ConnectInv, [Next]_vars, session' = "connecting"
             PROVE  \E m \in Node : task'[m] = "connect"
  BY DEF ConnectInv
<1>1. CASE RunStep
  <2>1. session = "connecting"
    BY <1>1 DEF RunStep, StartLayer, FinishRun, GatherReturns, GatherRaises, RecordResult
  <2>2. PICK m \in Node : task[m] = "connect"
    BY <2>1 DEF ConnectInv
  <2>3. run # "launch"
    BY <2>2 DEF AInv, ActiveInv
  <2> QED
    BY <1>1, <2>2, <2>3 DEF RunStep, StartLayer, FinishRun, GatherReturns, GatherRaises,
                            RecordResult, taskVars
<1>2. ASSUME NEW n \in Node, NodeStep(n) PROVE \E m \in Node : task'[m] = "connect"
  <2>1. TypeOK /\ Frame(n)
    BY <1>2, NodeMoves DEF AInv, IInv
  <2>2. CASE session = "connecting" /\ task[n] # "connect"
    BY <2>1, <2>2 DEF ConnectInv, Frame
  <2> QED
    BY <1>2, <2>1, <2>2, NodeConnects
<1>3. CASE UNCHANGED vars
  BY <1>3 DEF vars, ConnectInv
<1> QED
  BY <1>1, <1>2, <1>3 DEF Next, NodeStep

(* A run that is done has recorded every node, and records nothing more.   *)
DoneInv == run = "done" => \A n \in plan.nodes : results[n] # "none"

LEMMA StepDoneInv == IInv /\ DoneInv /\ [Next]_vars => DoneInv'
<1> SUFFICES ASSUME IInv, DoneInv, [Next]_vars, run' = "done"
             PROVE  \A n \in plan'.nodes : results'[n] # "none"
  BY DEF DoneInv
<1>1. CASE RunStep
  <2>1. FinishRun
    BY <1>1 DEF RunStep, StartLayer, GatherReturns, GatherRaises, RecordResult
  <2> QED
    BY <2>1, FinishCompletes DEF FinishRun, flow, Promise!Complete, Promise!Settled
<1>2. ASSUME NEW n \in Node, NodeStep(n) PROVE UNCHANGED <<run, plan, results>>
  BY <1>2, NodeMoves DEF IInv, Frame
<1>3. CASE UNCHANGED <<run, plan, results>>
  BY <1>3 DEF DoneInv
<1> QED
  BY <1>1, <1>2, <1>3 DEF Next, NodeStep, vars, flow, runVars

LEMMA SessionFree ==
    ASSUME AInv, \A n \in Node : task[n] \in {"idle", "returned"},
           UNCHANGED <<flow, runVars, taskVars, remote, auditLog>>,
           session' \in {"idle", "open", "broken"}
    PROVE  AInv'
<1> USE DEF flow, runVars, taskVars, remote
<1>1. IInv'
  BY DEF AInv, IInv, TypeOK, ThreadInv, OutcomeInv, LayerInv, RecordInv, SettledInv,
         SkipInv, UnclearInv, Layer, Begun, Promise!Runs
<1>2. ActiveInv' /\ ActionsInv' /\ RaiseInv'
  BY DEF AInv, ActiveInv, ActionsInv, RaiseInv, Layer
<1>3. SessionInv'
  BY DEF SessionInv, Auditing
<1>4. AuditInv'
  BY DEF AInv, AuditInv, Audited, ReturnedWrite
<1> QED
  BY <1>1, <1>2, <1>3, <1>4 DEF AInv
=============================================================================
