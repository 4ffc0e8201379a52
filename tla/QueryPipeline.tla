---------------------------- MODULE QueryPipeline ----------------------------
(***************************************************************************)
(* One request through run_query_pipeline of app/orchestrator/pipeline.py: *)
(* user, rate limit, history, classification, plan, agents, orchestration, *)
(* synthesis, the saved conversation and the answer, all of them on one    *)
(* database session.  Every stage awaits something that may fail; the run  *)
(* itself is module ServiceOrchestrator over the planner's plans, and the  *)
(* worker threads it leaves behind go on while the request does.           *)
(***************************************************************************)
EXTENDS QueryPlanner

CONSTANTS MaxAttempts

VARIABLES
    stage,      \* where the request stands
    failedAt,   \* the stage whose exception ended it
    query,      \* intent name and services of the classification
    history,    \* whether a past turn would resolve "that email"
    row,        \* the conversation row committed, or NoRow
    answer,     \* what the client was sent, or NoAnswer
    plan, intent, run, li, ri, task, outcome, results, actions,
    session, thread, attempts, effects, auditLog

Run == INSTANCE ServiceOrchestrator

ASSUME PipelineAssumption ==
    /\ MaxAttempts \in Nat \ {0}
    /\ ServiceLists \subseteq Seq(DOMAIN SearchOf)

request == <<stage, failedAt, query, history, row, answer>>
running == <<run, li, ri, task, outcome, results, actions, thread, attempts,
             effects, auditLog>>
vars    == <<request, plan, intent, running, session>>

(* Services matter to the plan of a general query only.                    *)
Queries == {q \in [name : Intents, services : ServiceLists] :
                q.name = "general_query" \/ q.services = <<>>}

NoQuery  == [name |-> "none", services |-> <<>>]
NoRow    == [actions |-> <<"none">>, asked |-> FALSE]
NoAnswer == [asks |-> FALSE, actions |-> <<"none">>, errors |-> {}]

Init ==
    /\ stage = "user" /\ failedAt = "none"
    /\ query = NoQuery /\ history = "none"
    /\ row = NoRow /\ answer = NoAnswer
    /\ Run!Init /\ plan = NoPlan /\ session = "idle"
    /\ ~intent.needsClarification

Fail(where) == stage' = "failed" /\ failedAt' = where
Advance(to) == stage' = to /\ UNCHANGED failedAt

-----------------------------------------------------------------------------
(* get_current_user, and the same look-up of the WebSocket: the user is    *)
(* there or, for the demo user, inserted and read back.  An unknown one    *)
(* ends the request, with a 404 or with user.id of None.                   *)
GetUser ==
    /\ stage = "user"
    /\ session' \in {"open", "broken"}
    /\ IF session' = "open" THEN Advance("rate") \/ Fail("user") ELSE Fail("user")
    /\ UNCHANGED <<query, history, row, answer, plan, intent, running>>

CheckRate ==
    /\ stage = "rate"
    /\ Advance("history") \/ Advance("refused") \/ Fail("rate")
    /\ UNCHANGED <<query, history, row, answer, plan, intent, running, session>>

GetHistory ==
    /\ stage = "history"
    /\ \/ history' \in {"none", "match"} /\ Advance("classify") /\ UNCHANGED session
       \/ session' = "broken" /\ Fail("history") /\ UNCHANGED history
    /\ UNCHANGED <<query, row, answer, plan, intent, running>>

(* From the cache or the model; an answer Intent(...) rejects raises.      *)
Classify ==
    /\ stage = "classify"
    /\ \/ /\ query' \in Queries
          /\ \E unclear \in BOOLEAN :
                 intent' = [intent EXCEPT !.needsClarification = unclear]
          /\ Advance("plan")
       \/ Fail("classify") /\ UNCHANGED <<query, intent>>
    /\ UNCHANGED <<history, row, answer, plan, running, session>>

MakePlan ==
    /\ stage = "plan"
    /\ \/ /\ ~BuildRaises(query.name, query.services)
          /\ plan' = Runnable(BuildPlan(query.name, query.services))
          /\ Advance("agents")
       \/ /\ BuildRaises(query.name, query.services) \/ JoinsEntities(query.name)
          /\ Fail("plan")
          /\ UNCHANGED plan
    /\ UNCHANGED <<query, history, row, answer, intent, running, session>>

(* get_credentials commits the token it has refreshed.                     *)
BuildAgents ==
    /\ stage = "agents"
    /\ \/ session' \in {"open", "idle"} /\ Advance("run")
       \/ session' \in {"open", "broken"} /\ Fail("agents")
    /\ UNCHANGED <<query, history, row, answer, plan, intent, running>>

(* Any step of the orchestrator; threads outlive the run.                  *)
RunPlan ==
    /\ stage = "run" \/ run # "launch"
    /\ Run!Next
    /\ UNCHANGED request

(* Mutant: a run that raises is answered with what there is.               *)
RunOverAnyway ==
    /\ stage = "run" /\ run \in {"done", "raised"}
    /\ Advance("synthesize")
    /\ UNCHANGED <<query, history, row, answer, plan, intent, running, session>>

RunOver ==
    /\ stage = "run"
    /\ \/ run = "done" /\ Advance("synthesize")
       \/ run = "raised" /\ Fail("run")
    /\ UNCHANGED <<query, history, row, answer, plan, intent, running, session>>

Synthesize ==
    /\ stage = "synthesize"
    /\ Advance("save") \/ Fail("synthesize")
    /\ UNCHANGED <<query, history, row, answer, plan, intent, running, session>>

-----------------------------------------------------------------------------
NewRow == [actions |-> actions, asked |-> intent.needsClarification]

(* Mutant: a commit that fails is logged and forgotten.                    *)
SaveForgiving ==
    /\ stage = "save"
    /\ Advance("refresh")
    /\ \/ session # "broken" /\ row' = NewRow /\ session' = "idle"
       \/ UNCHANGED <<row, session>>
    /\ UNCHANGED <<query, history, answer, plan, intent, running>>

(* save_conversation: a commit whose answer is lost may have stored the    *)
(* row; on a session some node has broken it always raises.                *)
Save ==
    /\ stage = "save"
    /\ \/ /\ session # "broken"
          /\ row' = NewRow /\ session' = "idle" /\ Advance("refresh")
       \/ /\ session # "broken"
          /\ row' \in {row, NewRow} /\ session' = "broken" /\ Fail("save")
       \/ /\ session = "broken"
          /\ Fail("session") /\ UNCHANGED <<row, session>>
    /\ UNCHANGED <<query, history, answer, plan, intent, running>>

(* resolve_final_clarification: what the resolve_reference node found      *)
(* overrides the classifier.                                               *)
Resolves == results["resolve_reference"] = "ok"

(* Mutant: a reference that was not looked up counts as resolved.          *)
AsksUnlessUnresolved == IF Resolves THEN history = "none" ELSE FALSE

Asks == IF Resolves THEN history = "none" ELSE intent.needsClarification

(* split_results_and_errors keeps one message for each Google service.     *)
Agent(n) == BuildPlan(query.name, query.services)[n].agent
Errors == {Agent(n) : n \in {m \in plan.nodes : results[m] = "error"}} \cap Services

(* session.refresh reads the row back, and the answer leaves.              *)
Answer ==
    /\ stage = "refresh"
    /\ \/ session' = "open" /\ Advance("answered")
          /\ answer' = [asks |-> Asks, actions |-> actions, errors |-> Errors]
       \/ session' = "broken" /\ Fail("refresh") /\ UNCHANGED answer
       \/ intent.streaming /\ session' = "open" /\ Fail("socket") /\ UNCHANGED answer
    /\ UNCHANGED <<query, history, row, plan, intent, running>>

Next == \/ GetUser \/ CheckRate \/ GetHistory \/ Classify \/ MakePlan \/ BuildAgents
        \/ RunPlan \/ RunOver \/ Synthesize \/ Save \/ Answer

Spec == Init /\ [][Next]_vars

-----------------------------------------------------------------------------
Stages == {"user", "rate", "history", "classify", "plan", "agents", "run",
           "synthesize", "save", "refresh", "answered", "refused", "failed"}

TypeOK ==
    /\ Run!TypeOK
    /\ stage \in Stages
    /\ failedAt \in Stages \cup {"none", "session", "socket"}
    /\ failedAt # "none" <=> stage = "failed"
    /\ query \in Queries \cup {NoQuery}
    /\ history \in {"none", "match"}
    /\ row \in [actions : Seq(Node \cup {"none"}), asked : BOOLEAN]
    /\ answer \in [asks : BOOLEAN, actions : Seq(Node \cup {"none"}), errors : SUBSET Services]
    /\ stage \in {"synthesize", "save", "refresh", "answered"} => run = "done"
    /\ stage \in {"synthesize", "save"} => session # "connecting"

(* The clarification in the answer agrees with what was done: a query that *)
(* is answered with a question has had no effect and never will, not even  *)
(* from a thread left behind; and a write held back although all it needed *)
(* was there is always explained by a question (reporting.py:25-43,        *)
(* orchestrator.py:62-63).                                                 *)
QuestionOrAction ==
    stage = "answered" => \A n \in plan.isWrite :
        /\ answer.asks => effects[n] = 0 /\ thread[n] = "idle"
        /\ results[n] = "skipped" /\ (\A d \in plan.dependsOn[n] : results[d] = "ok")
               => answer.asks

(* What the client is told was done is what the conversation row says, and *)
(* what the audit log holds as a success, for every write of the plan      *)
(* (pipeline.py:72-84, orchestrator.py:51-52).                             *)
AnswerIsOnRecord ==
    stage = "answered" =>
        /\ answer.actions = row.actions
        /\ \A n \in plan.isWrite :
               auditLog[n] = {"success"} <=> \E k \in DOMAIN row.actions : row.actions[k] = n

(* The answer holds one message for each service: with the planner's plans *)
(* no two nodes of a service fail in one run, so that no failure hides     *)
(* another (reporting.py:20-21).                                           *)
NoFailureHidesAnother ==
    \A n, m \in {k \in plan.nodes : results[k] = "error"} :
        n # m => Agent(n) # Agent(m) \/ Agent(n) \notin Services

(* A parameter builder finds in the report every id it looks up, with a    *)
(* result that is no failure's unless its node is optional: builders make  *)
(* up for what is missing ("your booking", query_planner.py:51-57), so     *)
(* that an id that is not among its depends_on would send a made-up draft  *)
(* without an error (query_planner.py:51-52, 89, 111, 132, 147).           *)
BuildersFindTheirInputs ==
    \A n \in plan.nodes : Run!Begun(n) =>
        \A d \in BuildPlan(query.name, query.services)[n].reads :
            results[d] = "ok" \/ (n \in plan.optional /\ results[d] # "none")

-----------------------------------------------------------------------------
(* docs/sample_queries.md:113-114, "any single node failure surfaces in    *)
(* errors.<service> while the rest of the response stays intact": no       *)
(* request is lost because a node left the session unusable.               *)
NodeFailureLeavesAnAnswer == failedAt # "session"
=============================================================================
