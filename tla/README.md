# Workspace orchestrator: TLA+ models and proofs

The program answers natural-language queries over Gmail, Calendar and Drive: a
query is classified, turned into a plan (a DAG of searches, computations and
writes), run by an orchestrator against a cache in Postgres and against Google,
and answered. A background sync fills the cache. This directory models it from
the code in `src/app`, checks the models with TLC and proves theorems about
them with TLAPS.

## 1. Inventory

| Component | Code | State | Operations | Talks to |
|---|---|---|---|---|
| Execution DAG | `planner/dag.py` | nodes of one plan | `add_node`, `topological_layers` | planner builds it, orchestrator runs it |
| Query planner | `planner/query_planner.py` | none | `build_plan`, eight templates and a fan-out | intent in, DAG out; parameter builders read the report later |
| Service orchestrator | `orchestrator/orchestrator.py` | report, tasks of a layer | `run`, `_run_node`, `_dispatch`, `_audit` | agents, session, WebSocket callback |
| Pipeline | `orchestrator/pipeline.py`, `context.py`, `reporting.py` | one request | `run_query_pipeline`, history, save, final clarification | everything |
| Compute handlers | `orchestrator/compute.py` | none | `detect_conflicts`, `resolve_reference` | results and history |
| Agents and Google clients | `agents/` | worker threads, the account at Google | `search`, `get_context`, `execute`, fifteen client methods, `_call_google`, `_retry` | session, embeddings, quota, Google |
| Mock clients and data | `agents/mock_clients.py`, `mock_data/` | a store per user | the same fifteen methods | agents |
| Classifier and cache | `intent/`, `cache/query_cache.py` | Redis keys with a TTL | `classify` | model, Redis |
| Rate limiter and quota | `cache/rate_limiter.py`, `cache/google_quota.py` | Redis counters per window | `check_and_increment`, `acquire_google_quota` | Redis |
| OAuth and tokens | `auth/`, `api/v1/auth.py` | tokens on the user row | callback, `get_credentials` | session, Google |
| Sessions and users | `db/base.py`, `dependencies.py` | pool, one session per request or socket | `get_db`, `session_scope`, `get_current_user` | Postgres |
| REST and WebSocket | `api/v1/query.py`, `api/v1/ws.py` | the connection | one query, or a loop of queries | pipeline |
| Background sync | `sync/tasks.py`, `sync/celery_app.py`, `api/v1/sync.py` | cache rows with hashes, status rows | `sync_all_users`, `sync_user_now`, `_update_sync_status`, trigger | Google, embeddings, Postgres, Celery |
| Hybrid search | `search/` | none | one statement, ranking, chunking | session |
| Synthesizer, providers | `synthesizer/`, `llm/` | none | model calls | model services |
| Temporal phrases, serialization | `utils/` | none | `resolve_date_phrase`, JSON | agents |
| Schema, shell | `db/models.py`, `alembic/`, `main.py`, `middleware/`, `scripts/` | none | tables, wiring | |

What is hard, and therefore what the properties are about:

* the tasks of a layer run concurrently and **share one `AsyncSession`**, so that
  the failure or the cancellation of one statement is felt by all of them;
* `wait_for` cancels a task but **not its worker thread**: a write may take
  effect after the report has called it an error;
* a write, its audit row, the report and the conversation row are **four
  separate effects**, any of which may fail or lose its answer;
* the decision to ask the user back is taken by the classifier, enforced by the
  orchestrator and **overridden after the run** by reporting;
* sync tasks **overlap, die and are redelivered**, with the cache row and the
  status row in different transactions, and with an event loop for each task but
  one Redis client for their process;
* the requests of a process **wait for each other's connections**, since one keeps its own
  across calls to models and to Google, and a socket keeps session and user row for hours;
* a user row is **loaded, held and committed by several sessions** while tokens expire, are
  refreshed and are granted anew;
* an HTTP request whose answer is lost is **sent again**, whether or not it had its effect;
* a day has 23, 24 or 25 hours, and a ranking is a sum of ranks from two lists **cut off
  before** they are added;
* limits shared through Redis are **counted in several calls**, between which the
  window ends, others count and a process dies.

`PROJECT.json` lists every hazard with its line and the properties that cover it.

## 2. Modules

| Module | Models | Reads |
|---|---|---|
| `ExecutionDAG` | `topological_layers` over any plan a list of nodes can make | `dag.py` |
| `PlanExecution` | abstract: what `run` promises the reader of its report | `orchestrator.py` |
| `ServiceOrchestrator` | `run` and everything it awaits; instantiates `PlanExecution` | `orchestrator.py`, `google_clients.py`, agents, `vector_store.py` |
| `QueryPlanner` | the plans of all intents, as data | `query_planner.py` |
| `QueryPipeline` | one request; extends `QueryPlanner`, instantiates `ServiceOrchestrator` over its plans | `pipeline.py`, `context.py`, `reporting.py`, `dependencies.py`, `token_manager.py`, `classifier.py` |
| `Sync` | sync tasks of several workers | `sync/tasks.py`, `celery_app.py`, `api/v1/sync.py` |
| `Requests` | the requests of one user under the hourly limit and the quota of Google | `rate_limiter.py`, `google_quota.py` |
| `Api` | the clients of one API process: pool, user row and tokens, cached classifications, sockets, triggers | `db/base.py`, `dependencies.py`, `auth/`, `intent/classifier.py`, `query_cache.py`, `api/v1/` |
| `Workspace` | abstract: what a client of Gmail, Calendar and Drive promises an agent | `mock_clients.py` |
| `Clients` | calls in flight of the real and the mock clients; instantiates `Workspace` | `google_clients.py`, `mock_clients.py`, `client_factory.py`, agents |
| `Temporal` | date phrases and time zones, as operators | `utils/temporal.py` |
| `Search` | an agent's search; extends `Temporal` | `search/vector_store.py`, agents |
| `*Proofs` | theorems | |
| `MC*` | constants for TLC | |

### ExecutionDAG

`topological_layers` is sequential; its loop is modelled iteration by iteration.
`remaining` is `in_degree` (an entry for every edge, repeated ones twice),
`ready` and `layers` are the variables of those names. `UnknownDependency` and
the check in `LoopEnds` are the two `ValueError`s. A plan is what a list of nodes
with arbitrary `depends_on` lists can be: unknown ids, repetitions, self loops
and cycles included.

### ServiceOrchestrator

`run` holds the place of `run()`; `li`, `ri` its two loop counters; `task[n]` the
await a node's `_run_node` stands at; `outcome[n]` the status it returned;
`results` and `actions` are the report. `session` is the state of the shared
`AsyncSession`:

* `idle` after a commit; the first statement then opens a connection
  (`connecting`), during which SQLAlchemy refuses a second statement;
* `open` inside a transaction, where concurrent statements are serialized by the
  driver;
* `broken` once a statement or a commit failed or was cancelled: nothing in
  `src/app` rolls a request's session back (`db/base.py:47-50`), so that every later
  statement and commit on it raises.

`thread[n]`, `attempts[n]` and `effects[n]` are the worker thread of a Google call,
its tenacity attempts, and how often the write took effect; an attempt may take
effect and still fail. `auditLog[n]` is the set of results committed for n. A
parameter builder or a `_dispatch` that raises, a quota that fails, an embedding
that never answers are actions or missing fairness. The mock clients never wait;
their behaviours are among those of the real ones (`Clients`).

`IsPlan` is what the planner's plans have in common and the model relies on: the
writes are the `execute` nodes, and a write has its layer to itself.
`PlansAreRunnable` proves it of every plan of `QueryPlanner`.

### QueryPlanner and QueryPipeline

A plan keeps the agent, operation, dependencies, `optional` and `is_write` of each
node, and in `reads` the ids that its `build_params` looks up in the report, transcribed from the
body of the builder and not from `depends_on`: the two agree in the code because its author made
them so, and `BuildersFindTheirInputs` is about nothing else. `MakePlan` fails for a service named
twice (`add_node`) and for an entity that is neither a string nor a list of strings
(`_entity_text`, which three templates call). `stage` is
the statement `run_query_pipeline` stands at; every stage that awaits may fail, and
`failedAt` says which did (`session`: the conversation could not be saved because a
node had broken the session). Before the run the session is open (the user and the
history were read) or idle (a token was refreshed and committed). Threads left
behind keep stepping after the request has ended.

### Sync

A worker's `pc` follows `sync_user_now`: `bundle` (clients, tokens; outside the try),
then for each service `list`, `hashes`, `commit` (embedding, upserts and commit: one
transaction), then `_update_sync_status` as a SELECT and a write, in the try
(`idle...`) or in the except clause (`error...`).

Workers in `Pool` are processes of Celery's worker and run beat's tasks and triggers; others are
triggers with `wait=true` in an API process, whose one event loop lasts. All have the real clients
(`MOCK_GOOGLE_API` is one setting for all processes). `Die` is the death of a process: with
`task_acks_late` the task runs again from its first user when all of Celery's worker went with it,
and is acknowledged and lost (`pc = "lost"`) when the pool's process died alone, since
`task_reject_on_worker_lost` is not set.

`redis[w]` is what the process has cached of Redis (`redis_client.py:8`): a task closes the database
connections of its loop (`tasks.py:54`) but not that client, so that the next task of the process
finds connections of a closed loop (`old`). redis-py raises and drops such a connection and the next
call connects again. A listing that makes one call fails once for that. Gmail's gets up to 200
messages at once (`Gathered`, `google_clients.py:80`) and leaves several connections behind, of which
a later listing may come by one more (`partly`).

Each service is asked for one page of `LIST_PAGE_SIZE` items. `onPage[u][s]` says whether the item
that the model follows is on it, and `Displace` pushes it off; what has never been on a page is never
cached, and no property says it is. The item stands for all those of a page: they are upserted in one
transaction.

### Requests

`pc[r]` is the call of Redis at which a request stands: it names its window (`NameHour`,
`NameSecond`), increments its counter (`CountQuery`, `CountCall`), gives a counter it has
made an expiry (`ExpireHour`, `ExpireSecond`), and is refused (`AskTtl`), let through, or
waits and tries again (`Nap`). `hours` and `seconds` are the counters, dropped by `Tick`
when their expiry has come. A call that fails may have had its effect.
`inHour` and `inSecond` tell a request that counted itself in the window it had named
from one that came too late for it, for which the code promises nothing. All requests
are of one user, since counters of different users do not touch; the calls of others
on Google's quota are more requests. Redis rounds the rest of a TTL; the model is exact
to the second.

### Api

A client is a `Rest` client, a `Socket` or a `Trigger`, all of the demo user and with real
Google clients; `pc[c]` is what its request waits for, and `Serve` one of the steps of
`get_current_user`, `run_query_pipeline`, `trigger_sync` and `sync_user_now`. A query is only
what it takes from others (`QueryPipeline` has the rest): a connection, the user, a
classification. `holds[c]` counts the connections of the client's sessions. A statement
outside of a transaction takes one, a commit gives it back; `save_conversation` reads its row
back after the commit (`context.py:51-53`), for which a socket's session keeps the connection
of its last answer until its next commit. A trigger with `wait=true` holds the connection of
its look-up while the sync asks for others. `PoolTimesOut` is the thirty seconds of
SQLAlchemy's pool.

`row` is the user in the database, `user[c]` the object that the session of c has loaded:
which grant its tokens belong to, how long the access token lives, and whether the expiry
beside it is a datetime without a timezone, as google-auth makes it. A commit writes the
columns that were set (`Stored`). A refresh runs on the event loop without an await, so that
it and what follows it up to the commit are one step. `cache` is the classification of the
one text that all queries have; `what = "bad"` is one that `Intent` rejects.
`age[c]` is the time since a query looked at its tokens.

### Workspace and Clients

`op[c]` is the method that a call names, `store` the account: what the calls have created, the
labels of a message, the event that they patch or delete, the folders and shares of a file.
`times[c]` counts the effects of a call. In `Workspace` a call begins, acts, and is done or has
failed; one that failed may still act, one that is done may not. `Clients` has the HTTP
requests of each method: `list_messages` gets what it has listed, `share_file` reads the file
back, `move_file` reads the parents that it then removes. `at[c]` and `attempts[c]` are the
request and tenacity's attempts of it. `AttemptFails` may have had its effect (`lost`);
`Abandon` is the timeout of the node, which cancels the coroutine and not the thread. The mock
clients do all of a call in one step.

### Temporal and Search

Time is counted in UTC hours and a zone is a sequence of periods with an offset; `Instant` is
what Python's `zoneinfo` makes of a local time with `fold=0`, `Ordinal` and `MonthOf` are the
Gregorian calendar. `Resolve` is `resolve_date_phrase`. Bounds exclude their last hour where
the code has a last microsecond.

`Search` lets the hours go by (`Tick`) and asks, in some of them, for a table of rows, words, a
date phrase, a tag and a limit. `VectorMatches` and `KeywordMatches` are the two CTEs of
`_hybrid_query`, each with an order of its own (`Nearness`, and any of `Orders`, which is what
`ROW_NUMBER` makes of relevance, equal ones included), `Score` is the sum of reciprocal ranks and recency, in millionths, and `HybridQuery` the
set of orders that the statement may return. `SearchOne` is the search of Gmail and Calendar and of Drive by an exact type,
`DriveSearch` that of Drive by a family of types, which is filtered after the LIMIT.

## 3. Runs

| Run | Shows | Bounds, and why they are enough |
|---|---|---|
| `execution_dag` | layers are right, maximal and end; errors are right | all 9261 plans of three nodes with up to two entries each: cycles of length 1 to 3, double edges, unknown ids, diamonds without a fourth node. The theorems need no bound |
| `service_orchestrator` | all properties below, under fairness, and refinement of `PlanExecution` | the planner's plan shapes on three nodes, three attempts: two parallel tasks and one dependent is the largest shape the planner has with a write |
| `query_pipeline` | report, row, answer and effects agree, with the planner's real plans | the nine intents; no, several, repeated and unknown services; two attempts |
| `sync` | status after commit, nobody skipped, eventual freshness of what is listed with one call | a process of the pool and a trigger that waits in the API, two users, two services (Gmail's listing makes several calls, the calendar's one), one edit of an event of the user both sync, which may leave the first page, and one fault anywhere: two overlapping workers are what a race needs, one fault what a broken step needs |
| `requests` | who is admitted, refused or made to wait; counters that stay | three requests, of which the limit admits two and the quota one; two hours of two seconds, one fault: every order at the turn of a window |
| `api` | nobody waits in a circle, every request ends, tokens are those of the last callback and outlast a run, a bad classification goes away | a REST client, a socket and a trigger on a pool of two, three requests in all: a trigger takes two connections, a socket keeps one, so that the pool is empty with one of three still to be served; a second callback, one fault, a token of two ticks |
| `clients` | real and mock clients implement `Workspace`; repeats only after lost answers | two calls of any two of the fifteen methods, two attempts of a request, three failures: two failures end a call, the third meets the other |
| `search` | phrases agree with the calendar hour by hour; no row is returned before one that outdoes it | three rows of eight kinds, ordered by words as by distance, the other way round, or with the nearest last, two candidates and a limit of two, so that each list and the answer may leave a row out; the hours from 27 December 2023 to 9 April 2024 in New York and Sydney: a turn of the year, 29 February, a change of the clocks in each direction |
| `pipeline_node_failure` | violation of "any single node failure surfaces in errors.<service> while the rest of the response stays intact" (`docs/sample_queries.md:113-114`) | same instance |
| `sync_revoked` | violation of "`last_error` is set when a service's most recent sync attempt failed (e.g. a revoked Google token)" (`API.md:134-135`) | one fault |
| `sync_kept_process` | violation of "pulls Gmail/Calendar/Drive into the pgvector cache tables every `SYNC_INTERVAL_MINUTES`" (`sync/tasks.py:1-2`) | one process of the pool, one edit of a message, no fault |
| `socket_after_refresh` | violation of "repeatable over the same connection" (`API.md:77`): the query after one that refreshed the token compares an expiry without a timezone and ends the socket | same instance as `api` |

Deadlock is not checked in the runs whose systems end: the orchestrator's, the pipeline's,
the requests', the clients' and the DAG's. The sync, API and search runs check it; in `Api` time
can always pass, and that nobody waits for ever is a property of its own.

Named bounds: `MaxAttempts` (5 in the code), `MaxEdits`, `MaxFaults`, `MaxTime` (seconds that
pass), `MaxPolls` (calls counted in one second), `Edited` (whose item changes), `Crowded` (whose
item may leave the first page), `Triggers` (whose sync is triggered on its own), `MaxRequests` and `MaxGrants` (requests and OAuth callbacks
in `Api`), `FirstHour`, `LastHour` and `SearchHours` (the hours that go by, and those in which
something is searched), `Kinds`, `Orders`, `Limits`, `Phrases` and `Tags` (what a row may be like, how
words order the rows, and what is asked). `PoolSize` (30 in the code), `Life`, `Buffer` (120 s), `RunTime`, `CacheTtl` and
`Candidates` are parameters of the code in small. `ApiAssumption` has `RunTime <= Buffer`: the
longest plan that reads has three layers of nodes with a timeout of fifteen seconds, which the
buffer of two minutes covers. The theorems hold for all values that the assumptions allow.

**Properties.** `DependenciesSettled`, `BuildersFindTheirInputs`: a node starts with what it depends
on settled, and what its builder looks up in the report, as a success unless the node is optional.
`UnclearNeverWrites`, `QuestionOrAction`: a query that is answered with a question has no effect on
Google, from no thread, ever; a write held back is explained by a question. `ReportMatchesAudit`,
`AuditedSuccessHappened`, `AnswerIsOnRecord`: report, audit log, Google, conversation row and answer
tell one story. `OnlyAuditOrSocketRaises`: what it takes for a run to fail. `RunEnds`,
`EffectIsAudited`: runs end, and an effect reaches the log even when its task timed out.
`NoFailureHidesAnother`: one error message per service is enough for the planner's plans.
`IdleMeansStored`, `ReturnedMeansReported`, `OthersEventuallyFresh`: a status never runs ahead of
the cache, no failure skips another service, and later passes make good whatever went wrong, for
items of the first page of the calendar and of Drive. Of Gmail they need not: that is
`EventuallyFresh`, which `sync_kept_process` refutes. `AdmittedPerHour`, `CallsPerSecond`: the
limits hold in every order of counting and expiring. `RefusedOnlyAtTheLimit`, `WaitsOnlyForOthers`:
nobody is turned away below them, although refused queries and polls count too.
`RetryAfterLeavesTheHour`: a client that waits as told meets a new window. `CountersExpire`: a
counter stays for good only when the call that should give it an expiry failed.
`QueriesNeverWaitInACircle`: an empty pool has a holder who gets on, but for triggers and idle
sockets, and `EveryRequestEnds` even then, by the pool's timeout. `NoCallbackIsLost`: a commit of a
session that loaded the user before a callback leaves the refresh token alone.
`CredentialsOutlastTheRun`: the buffer is what makes the check of the expiry hold until the run is
over. `BadClassificationHeals`: a classification that fails every request that meets it is not kept
alive by them. `RepeatedOnlyWhenLost`, `ImplementsWorkspace`: effects come before answers, and twice
only for a lost one. `PhrasesMatchTheCalendar`: what was tomorrow becomes today at its first hour
and no other. `SearchKeepsTheBest`: filters reach both lists, and neither their cut nor the sum of
their ranks puts a row before one that is nearer, more relevant and as recent. Each has a mutant in
the modules (comment "Mutant"), a plausible bug that TLC finds with that property.

**Fairness.** Orchestrator: the event loop runs ready tasks (WF of `RunStep`, `RunNode`),
the timer of `wait_for` fires (WF of `NodeTimesOut`), and Postgres answers a commit, which
no timeout guards (WF of `Audit`). Nothing is assumed of embeddings, statements or
Google, so that `RunEnds` rests on the timeout alone. Sync: a worker gets on with its task
(WF of `Work`), and every worker of the pool again and again gets a task of beat's although triggers keep
coming (SF of `StartAll`: the broker's queue is first in first out, for tasks and for the
workers that wait for one). Faults and edits are bounded by
constants, which is "once they end". `topological_layers`: WF of its steps. API: each client's request is served (WF of `Serve` for
each: models, Google and Postgres answer or fail, and a request that waits for a connection is
served or times out), and time passes (WF of `Tick`), which the cached entry's TTL needs; nobody need ask,
disconnect or call back. Clients: a worker thread gets on (WF of `Proceed`): its HTTP requests
have timeouts, and their failures are bounded by `MaxFaults` and by the attempts.

## 4. Theorems

All by TLAPS, for all values of the constants, from the named assumptions only.

* `ExecutionDAGProofs`: `DAGTypeCorrect`, `LayerOrder`, `LayerEarliest`, `ResultCorrect`, for
  every finite plan. The invariant `LoopInv` says that `remaining[n]` is the number of
  entries of n whose dependency has not been processed, that `ready` holds exactly the
  unprocessed nodes for which it is zero, and that a set of nodes that wait on each other
  is disjoint from what was emitted. The properties are not inductive without the count.
* `ServiceOrchestratorProofs`: `TypeCorrect`, `Invariance`, `DependencySafety`, `ClaritySafety`
  and `Refinement` (`Spec => ImplementsPlanExecution`), under `OrchestratorAssumption`.
  `IInv` adds to the type invariant where a thread stands relative to its task, what a
  returned task's outcome is, which layers have been recorded, and why a node was skipped.
  In the same module `ReportSafety`, `AuditTruth` and `RaiseSafety`. `AInv` adds the
  session: while a write is active it is alone, so nobody mends or breaks the session
  between the two audits of one write; a session broken in its first audit is broken in
  its second, which is why a write never ends with a reported result and both audit rows.
* `QueryPipelineProofs`: `PlansAreRunnable`, `TypeCorrect`, `BuilderSafety`, `FailureSafety`, `QuestionSafety` and
  `RecordSafety`, for every query, under `PipelineAssumption`. It is composed: `PlansWellBuilt` proves of
  the planner's templates and fan-outs what the properties need of a plan (each id that a builder looks up is
  one its node depends on; the plan that resolves a reference writes nothing; of two nodes of one service one
  depends on the other and is not optional); `O == INSTANCE ServiceOrchestratorProofs` brings what is
  proved of a run over any plan, with `ConnectInv`, `DoneInv` and `SessionFree` for whoever lends it the
  session; `PInv` ties both to where the request stands. `FailureSafety`, for instance, combines the
  template fact with `SkipInv`: of two such nodes the later one is skipped when the earlier one fails.
* `ApiProofs`: `CallbackSafety`, `CredentialSafety`, `TypeCorrect`, `PoolSafety`, under `ApiAssumption`.
  `IInv` says that a session has
  loaded a user only from a row that exists, so that no row is inserted over another's tokens,
  and that a busy query's token has lost no more time than has passed since it looked
  (`left + age > Buffer`), which alone is kept by a tick. `PoolInv` says that only triggers
  stand where two connections are needed, and that they have one there already; without it a step
  could take two at once, and the bound of the pool would not be inductive.
* `SyncProofs`: `TypeCorrect`, `StatusIsHonest`, `ReturnsWhenReported`, under `SyncAssumption`. `WorkerInv`
  says that the users before a worker's queue and the services before the one it stands at have a status,
  and that a worker about to write `idle` has its row stored, if the item is on the first page
  (`Certain`): an item may leave the page between the listing and the status, and never comes back.
  Other workers keep it because rows of either table are written over and never removed (`Grows`).
* `ClientsProofs`: `RepeatSafety`, `SafetyRefinement` (initial states and steps of `Clients` are those of
  `Workspace`; its fairness is not proved), under `ClientsAssumption`. `IInv` relates a call that still
  has its write before it to its attempts and its lost answers: no effect without either.
* `RequestsProofs`: `TypeCorrect`, `RetrySafety`, `AdmissionSafety`, `QuotaSafety`, `ExpirySafety`,
  `RefusalSafety`, `WaitSafety`, under `RequestsAssumption`. `LimiterInv` says where a query stands relative to its counter: a
  counter's expiry lies beyond its hour, so that no counter goes before its hour is over.
  `AdmissionInv` and `QuotaInv` then bound, for each window, the set of those that count
  in it by its counter.
  `RefusalInv` and `WaitInv` bound it from the other side: a counter never shows more than have counted
  themselves, and whoever is turned away has found it above the limit. `WaitInv` is weaker, because a
  call that polls counts itself again: the counter is explained by the holders of units until
  the units are gone.
* `SearchProofs`: `SearchSafety`, under `SearchAssumption`: up to 500 candidates, whose ranks a score in
  millionths tells apart (the code has 50), and any finite number of rows, of any kinds. The invariant is
  inductive as it is; the work is in the operators. The order of the rows by words is any that tells them
  apart (`Sorts`). `Ranks` shows that the ranks of finitely many rows are
  a bijection with 1, 2, 3..., from which `RankedKeeps` has that a list keeps all its rows or exactly
  `Candidates` of them, and with a row all that are ahead of it. `OutdoingScores` adds up the two lists and
  the boost, `HybridKeepsTheBest` carries the order of the scores over to the LIMIT, and `SelectionKeeps`
  over to the filter of `DriveSearch`. `Sorted` is an induction over the places of a list: the library's
  induction theorems take an operator and cannot be used, but `WFMin` speaks of a set, and `Least`
  (a set of naturals has a least element) follows from it.

`OrchestratorAssumption` says of the plans that they satisfy `IsPlan`. `PipelineAssumption` does not: it
only says that a list of services is one of names `SearchOf` knows ("unknown" stands for any other name). That
the planner's plans satisfy `IsPlan` is `PlansAreRunnable`, which discharges the assumption of the run. It
needs no induction over the recursion in `Emitted`, because no plan has more than two layers
(`EmittedLayers`): the nodes that depend on none, and those that depend on these.

Model-checked only: `RunEnds`, `EffectIsAudited`, `Terminates`, `OthersEventuallyFresh`,
`BadClassificationHeals`, `EveryRequestEnds` and the fairness in `ImplementsWorkspace` (liveness is out of
the prover's reach), and `PhrasesMatchTheCalendar` (the calendar of `Temporal`: divisions of unbounded
days by 146097, 7 and 24, and a search for the month, hour by hour). Every inductive invariant was
evaluated by TLC on the instance of its run before it was proved.

## 5. Where the code and its documents disagree

The four violation runs above; `PROJECT.json` has the lines. Seen, not run:

* `orchestrator.py:82` says "a failing node must not crash the whole DAG"; the audit commit of a
  node (`orchestrator.py:86`), which fails once a statement has broken the session, does.
  `OnlyAuditOrSocketRaises` says exactly that.
* `orchestrator.py:3-4` says "a Gmail failure doesn't take down a parallel Calendar search"; a
  statement that fails or is cancelled (`vector_store.py:107`) takes the shared session down with it.
* `dag.py:28` says that an optional node's "failure does not block dependents"; `orchestrator.py:94`
  reads the flag of the dependent instead of that of the node that failed.
* `API.md:134-135` has an error after a failed attempt; two tasks that end in the order in which they
  did not begin (`sync/tasks.py:112`) leave one beside a success.
* `db/base.py:48` calls a session request-scoped; a socket's keeps a connection between its
  queries.
* A callback while a refresh is under way leaves the refresh token of the new grant beside the
  access token of the old one until that expires (`token_manager.py:23-25`).
* A deletion that is tried again after its answer was lost fails with 404 or 410
  (`google_clients.py:32-44`) and is reported as an error.
* A file that is moved by somebody else between the two requests of `move_file`
  (`google_clients.py:262-273`) ends up in two folders.
* A row without a date gets the whole recency boost: `GREATEST` passes over NULL
  (`vector_store.py:39-40`).
* `drive_agent.py:43-44` filters by a family of types after the LIMIT, and may return fewer files
  than match, although `vector_store.py:5-6` has filters applied in both lists.
* `detect_conflicts` tests only the start of an event (`compute.py:41`).
* In a zone whose clocks go back at midnight (Santiago, Beirut) the second 23rd hour of that day
  belongs to no day's bounds (`temporal.py:31-34`, against its docstring, 5-7). `search` uses
  zones whose clocks change at two or three.
* The sync asks for one page of 200 items of a service and never for the next (`sync/tasks.py:35`). An
  item that is pushed off the page keeps its old text and embedding in the cache however often it is edited:
  `tasks.py:2-3` says that items are skipped "whose content hasn't changed".
* `list_events` orders by start time and the sync gives it no `timeMin`
  (`google_clients.py:142-157`, `sync/tasks.py:165`): of a calendar with more than 200 events the
  oldest are cached, while `tasks.py:1-2` says that the sync pulls the calendar into the cache.
* An entity that is a number or an object fails the query in `_entity_text`
  (`query_planner.py:25`), although `Intent` accepts it (`intent/schemas.py:62`).
* `DESIGN.md:239-241` says failures are audited with the resolved payload; `orchestrator.py:80,86`
  audit `{}`.
* `DESIGN.md:182` says the quota wraps every real call; retries inside the thread are not charged
  (`google_clients.py:28-29,38-44`).
* `classifier.py:31` calls the cache "never a hard dependency"; a classification is cached before
  `Intent` validates it (`classifier.py:54-58`), and then fails until it expires.
* `query_planner.py:5-6` mentions low-confidence intents; confidence is never read.
* `query_planner.py:109-114` reschedules without a patch, and reports it as an action.
* `rate_limiter.py:24-25`: when the call that should have set the expiry failed, the counter has
  none, and the Retry-After is one second however long the hour has to go.
* `API.md:134` lists the state `running`, which nothing writes.

## 6. Not modelled

A crash of the API process (a run keeps no state to recover), cancellation of an HTTP
request by its client, the content of parameters, payloads, prompts and answers (and with it
what `update_event` patches, `query_planner.py:111`), deleted Google items and columns that are
not embedded (`sync/tasks.py:168`: the code never compares them), chunking and embedding texts,
the sync with mock clients (no quota, no Redis, no page: a special case of what is modelled), calls of a
Gmail listing that go on in their threads after another of its calls has failed it,
`json_safe`, the mock providers' keyword rules and the fixtures, logging, tables and migrations,
the wiring in `main.py`. In `Search` the boost is exact at whole half-lives only, distance and
relevance are orders, and whether the index scan finds a row is the row's own flag. The CTE of the
words has a LIMIT and no ORDER BY (`vector_store.py:63-73`); that the rows with the first ranks are kept is
what PostgreSQL's WindowAgg does, which emits rows in the order of its window, and what SQL does not
promise. With up to 50 rows that match the words it makes no difference.

## 7. Plan

Done: all modules of section 2, and the proofs of section 4: every invariant that a run checks is a
theorem.

Next: `PhrasesMatchTheCalendar` from facts about `Temporal` (neighbouring bounds share an instant).
