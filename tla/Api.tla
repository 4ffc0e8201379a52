--------------------------------- MODULE Api ---------------------------------
(***************************************************************************)
(* What the clients of one API process share while it serves them: the     *)
(* pool of database connections (app/db/base.py), the row of the user and  *)
(* its Google tokens (app/dependencies.py, app/auth) and the cached        *)
(* classification of a query (app/intent/classifier.py).  A client sends   *)
(* REST queries, queries over a WebSocket (app/api/v1/ws.py) or triggers   *)
(* of a sync (app/api/v1/sync.py), all of the demo user and of one text,   *)
(* with real Google clients.  QueryPipeline has a query in detail; here a  *)
(* query is what it takes from the others.                                 *)
(***************************************************************************)
EXTENDS Integers, FiniteSets

CONSTANTS Rest, Socket, Trigger,  \* the clients
          None,
          PoolSize,    \* pool_size and max_overflow
          Life,        \* ticks an access token lives
          Buffer,      \* _EXPIRY_BUFFER
          RunTime,     \* bound: ticks a commit and a run take
          CacheTtl,    \* INTENT_TTL_SECONDS
          MaxRequests, \* bound: requests of all clients
          MaxGrants,   \* bound: OAuth callbacks
          MaxFaults    \* bound: failures of Redis, the model or Google

Client == Rest \cup Socket \cup Trigger

ASSUME ApiAssumption ==
    /\ IsFiniteSet(Client)
    /\ Rest \cap Socket = {} /\ Rest \cap Trigger = {} /\ Socket \cap Trigger = {}
    /\ PoolSize \in Nat \ {0} /\ CacheTtl \in Nat \ {0}
    /\ {Life, Buffer, RunTime, MaxRequests, MaxFaults} \subseteq Nat /\ MaxGrants \in Nat \ {0}
    /\ RunTime <= Buffer /\ Buffer < Life

Grant == 0..MaxGrants

(* The tokens of a user, as the database or a session has them: the grants *)
(* (0 is none) to which they belong, how long the access token lives on,   *)
(* which is what the expiry beside it says, and whether that expiry is a   *)
(* datetime without a timezone.                                            *)
User == [access : Grant, refresh : Grant, left : 0..Life, naive : BOOLEAN]
ASSUME NoneAssumption == None \notin User

Linked(g, left) == [access |-> g, refresh |-> g, left |-> left, naive |-> FALSE]
NewUser == Linked(0, 0)
Refreshed(u) == [access |-> u.refresh, refresh |-> u.refresh, left |-> Life, naive |-> TRUE]
Older(u) == IF u = None \/ u.left = 0 THEN u ELSE [u EXCEPT !.left = @ - 1]

Uncached == [what |-> "none", left |-> 0]

VARIABLES row,    \* the user in the database, or None
          grants, \* OAuth callbacks so far
          cache,  \* the classification in Redis: none, good or bad, and its TTL
          pc,     \* client -> what it waits for
          user,   \* client -> the user its session has loaded, or None
          holds,  \* client -> connections it has checked out
          age,    \* client -> ticks since it looked at its tokens
          asked,  \* requests so far
          faults

shared == <<row, grants, cache>>
vars == <<shared, pc, user, holds, asked, age, faults>>

(* The process starts before the user exists or right after a callback.    *)
Init ==
    /\ \/ row = None /\ grants = 0
       \/ row = Linked(1, Life) /\ grants = 1
    /\ cache = Uncached /\ asked = 0 /\ faults = 0
    /\ pc = [c \in Client |-> "idle"]
    /\ user = [c \in Client |-> None]
    /\ holds = [c \in Client |-> 0]
    /\ age = [c \in Client |-> 0]

(* A client has up to two connections at a time.                           *)
Holding(n) == {c \in Client : holds[c] >= n}
Free == PoolSize - Cardinality(Holding(1)) - Cardinality(Holding(2))

GoTo(c, place) == pc' = [pc EXCEPT ![c] = place]
Loads(c, u)    == user' = [user EXCEPT ![c] = u]
Holds(c, n)    == holds' = [holds EXCEPT ![c] = n]
Fault          == faults < MaxFaults /\ faults' = faults + 1

(* Mutant: the history is read in a session of its own.                    *)
DemandWithHistoryApart(c) ==
    CASE pc[c] \in {"trigger", "services", "history"} -> 2
      [] pc[c] = "lookup" /\ user[c] = None -> 1
      [] pc[c] \in {"reload", "save", "readback"} -> 1
      [] OTHER -> 0

(* The connections that the client needs in order to get on: a statement   *)
(* of a session outside of a transaction takes one.                        *)
Demand(c) ==
    CASE pc[c] \in {"trigger", "services"} -> 2
      [] pc[c] = "lookup" /\ user[c] = None -> 1
      [] pc[c] \in {"reload", "history", "save", "readback"} -> 1
      [] OTHER -> 0

(* Mutant: the pool has no limit.                                          *)
TakesBeyondLimit(c, n) == Holds(c, IF holds[c] > n THEN holds[c] ELSE n)

Takes(c, n) == /\ holds[c] >= n \/ Free > 0
               /\ Holds(c, IF holds[c] > n THEN holds[c] ELSE n)

Waits(c) == holds[c] < Demand(c) /\ Free = 0

Connected(c) == Takes(c, Demand(c))

(* The session ends: of a REST request when it is answered or fails, of a  *)
(* socket when an exception leaves its loop or the client is gone.         *)
Closes(c) ==
    /\ GoTo(c, IF c \in Socket THEN "closed" ELSE "idle")
    /\ Loads(c, None) /\ Holds(c, 0)
Replies(c) ==
    IF c \in Socket THEN GoTo(c, "idle") /\ UNCHANGED <<user, holds>> ELSE Closes(c)

Ask(c) ==
    /\ pc[c] = "idle" /\ asked < MaxRequests
    /\ asked' = asked + 1
    /\ GoTo(c, "lookup")
    /\ UNCHANGED <<shared, user, holds, age, faults>>

Disconnect(c) ==
    /\ c \in Socket /\ pc[c] = "idle"
    /\ Closes(c)
    /\ UNCHANGED <<shared, asked, age, faults>>

-----------------------------------------------------------------------------
(* get_current_user, _resolve_ws_user.  A socket finds the user that its   *)
(* session has loaded for an earlier query, without asking the database.   *)

Continues(c) == GoTo(c, IF c \in Trigger THEN "trigger" ELSE "limit")

LookUp(c) ==
    /\ pc[c] = "lookup"
    /\ IF user[c] # None THEN Continues(c) /\ UNCHANGED <<user, holds>>
       ELSE /\ Connected(c)
            /\ IF row = None THEN GoTo(c, "insert") /\ UNCHANGED user
               ELSE Loads(c, row) /\ Continues(c)
    /\ UNCHANGED <<shared, asked, age, faults>>

(* Whoever comes second violates the primary key.                          *)
InsertUser(c) ==
    /\ pc[c] = "insert"
    /\ IF row = None THEN row' = NewUser /\ Holds(c, 0) /\ GoTo(c, "reload") /\ UNCHANGED user
       ELSE Closes(c) /\ UNCHANGED row
    /\ UNCHANGED <<grants, cache, asked, age, faults>>

Reload(c) ==
    /\ pc[c] = "reload"
    /\ Connected(c) /\ Loads(c, row) /\ Continues(c)
    /\ UNCHANGED <<shared, asked, age, faults>>

-----------------------------------------------------------------------------
(* run_query_pipeline                                                      *)

Limit(c) ==
    /\ pc[c] = "limit"
    /\ \/ GoTo(c, "history") /\ UNCHANGED <<user, holds, faults>>
       \/ Replies(c) /\ UNCHANGED faults
       \/ Fault /\ Closes(c)
    /\ UNCHANGED <<shared, asked, age>>

ReadHistory(c) ==
    /\ pc[c] = "history"
    /\ Connected(c) /\ GoTo(c, "classify")
    /\ UNCHANGED <<shared, user, asked, age, faults>>

(* A hit is not validated before it is used.  Redis may fail, and another  *)
(* history is another key: both are a miss.                                *)
ReadCache(c) ==
    /\ pc[c] = "classify"
    /\ \/ GoTo(c, "model") /\ UNCHANGED <<user, holds>>
       \/ cache.what = "good" /\ GoTo(c, "credentials") /\ UNCHANGED <<user, holds>>
       \/ cache.what = "bad" /\ Closes(c)
    /\ UNCHANGED <<shared, asked, age, faults>>

(* Mutant: an entry without an expiry.                                     *)
CachesForGood(what) == cache' \in {cache, [what |-> what, left |-> 0]}

(* set_cached_intent, whose failures are ignored.                          *)
Caches(what) == cache' \in {cache, [what |-> what, left |-> CacheTtl]}

(* What the model says is cached, then validated.                          *)
AskModel(c) ==
    /\ pc[c] = "model"
    /\ \/ Caches("good") /\ GoTo(c, "credentials") /\ UNCHANGED <<user, holds, faults>>
       \/ Fault /\ Caches("bad") /\ Closes(c)
       \/ Fault /\ UNCHANGED cache /\ Closes(c)
    /\ UNCHANGED <<row, grants, asked, age>>

(* Mutant: a token is refreshed when it has expired.                       *)
ExpiredOnly(u) == u.left = 0

Expiring(u) == u.left <= Buffer

(* The session of a trigger's bundle ends with the clients it was for.     *)
Proceeds(c) == IF c \in Trigger THEN GoTo(c, "services") /\ Holds(c, 1) /\ Loads(c, None)
               ELSE GoTo(c, "run") /\ UNCHANGED <<holds, user>>

(* get_credentials.  Comparing a naive expiry raises.  A refresh blocks    *)
(* the event loop: nobody else runs before the new token is in the object. *)
GetCredentials(c) ==
    /\ pc[c] = "credentials"
    /\ LET u == user[c]
       IN  \/ (u.refresh = 0 \/ u.naive) /\ Closes(c) /\ UNCHANGED <<age, faults>>
           \/ /\ u.refresh # 0 /\ ~u.naive
              /\ IF Expiring(u)
                 THEN \/ Loads(c, Refreshed(u)) /\ GoTo(c, "commit")
                         /\ UNCHANGED <<holds, faults>>
                      \/ Fault /\ Closes(c)
                 ELSE Proceeds(c) /\ UNCHANGED faults
              /\ age' = [age EXCEPT ![c] = 0]
    /\ UNCHANGED <<shared, asked>>

(* Mutant: the commit writes the whole object.                             *)
StoredWhole(u) == [u EXCEPT !.naive = FALSE]

(* The UPDATE has the columns that were set.                               *)
Stored(u) == [row EXCEPT !.access = u.access, !.left = u.left]

CommitTokens(c) ==
    /\ pc[c] = "commit"
    /\ row' = Stored(user[c])
    /\ IF c \in Trigger THEN Proceeds(c) ELSE GoTo(c, "run") /\ Holds(c, 0) /\ UNCHANGED user
    /\ UNCHANGED <<grants, cache, asked, age, faults>>

(* The first search that needs a connection gets one, or its node fails; a *)
(* plan may have none.                                                     *)
Run(c) ==
    /\ pc[c] = "run"
    /\ Takes(c, 1) \/ UNCHANGED holds
    /\ GoTo(c, "save")
    /\ UNCHANGED <<shared, user, asked, age, faults>>

(* save_conversation commits, and reads the row back: the connection that  *)
(* this takes stays with a socket until its next commit.                   *)
Save(c) ==
    /\ pc[c] = "save"
    /\ ~Waits(c)
    /\ Holds(c, 0) /\ GoTo(c, "readback")
    /\ UNCHANGED <<shared, user, asked, age, faults>>

Answer(c) ==
    /\ pc[c] = "readback"
    /\ ~Waits(c)
    /\ IF c \in Socket THEN Holds(c, 1) /\ GoTo(c, "idle") /\ UNCHANGED user ELSE Closes(c)
    /\ UNCHANGED <<shared, asked, age, faults>>

-----------------------------------------------------------------------------
(* trigger_sync, with or without wait.  sync_user_now opens sessions of    *)
(* its own while that of the look-up is still open.                        *)

Enqueue(c) ==
    /\ pc[c] = "trigger" /\ Closes(c)
    /\ UNCHANGED <<shared, asked, age, faults>>

GetBundle(c) ==
    /\ pc[c] = "trigger"
    /\ Connected(c) /\ Loads(c, row) /\ GoTo(c, "credentials")
    /\ UNCHANGED <<shared, asked, age, faults>>

(* The sessions of the services and of their status, one after another.    *)
SyncServices(c) ==
    /\ pc[c] = "services"
    /\ ~Waits(c) /\ Closes(c)
    /\ UNCHANGED <<shared, asked, age, faults>>

-----------------------------------------------------------------------------
(* Mutant: the pool lets its clients wait for ever.                        *)
NeverTimesOut(c) == FALSE /\ UNCHANGED vars

(* The pool gives up after thirty seconds and raises, outside of the run   *)
(* for good.                                                               *)
PoolTimesOut(c) ==
    /\ Waits(c) /\ Closes(c)
    /\ UNCHANGED <<shared, asked, age, faults>>

(* google_oauth_callback, of a user that exists.                           *)
Callback ==
    /\ row # None /\ grants < MaxGrants /\ Free > 0
    /\ grants' = grants + 1
    /\ row' = Linked(grants', Life)
    /\ UNCHANGED <<cache, pc, user, holds, asked, age, faults>>

(* Time passes, no further than the timeouts of a run let it.              *)
Busy(c) == pc[c] \in {"commit", "run"}
Tick ==
    /\ \A c \in Client : Busy(c) => age[c] < RunTime
    /\ row' = Older(row)
    /\ user' = [c \in Client |-> Older(user[c])]
    /\ cache' = IF cache.left = 1 THEN Uncached
                ELSE [cache EXCEPT !.left = IF @ = 0 THEN 0 ELSE @ - 1]
    /\ age' = [c \in Client |-> IF Busy(c) THEN age[c] + 1 ELSE 0]
    /\ UNCHANGED <<grants, pc, holds, asked, faults>>

Serve(c) ==
    \/ LookUp(c) \/ InsertUser(c) \/ Reload(c) \/ Limit(c) \/ ReadHistory(c) \/ ReadCache(c)
    \/ AskModel(c) \/ GetCredentials(c) \/ CommitTokens(c) \/ Run(c) \/ Save(c) \/ Answer(c)
    \/ Enqueue(c) \/ GetBundle(c) \/ SyncServices(c) \/ PoolTimesOut(c)

Next == \/ \E c \in Client : Ask(c) \/ Disconnect(c) \/ Serve(c)
        \/ Callback \/ Tick

Fairness == WF_vars(Tick) /\ \A c \in Client : WF_vars(Serve(c))

Spec == Init /\ [][Next]_vars /\ Fairness

-----------------------------------------------------------------------------
TypeOK ==
    /\ row \in User \cup {None} /\ grants \in Grant
    /\ asked \in 0..MaxRequests /\ faults \in 0..MaxFaults
    /\ cache \in [what : {"none", "good", "bad"}, left : 0..CacheTtl]
    /\ pc \in [Client -> {"idle", "closed", "lookup", "insert", "reload", "limit", "history",
                          "classify", "model", "credentials", "commit", "run", "save",
                          "readback", "trigger", "services"}]
    /\ user \in [Client -> User \cup {None}]
    /\ holds \in [Client -> 0..2] /\ Free >= 0
    /\ age \in [Client -> 0..RunTime]

(* Queries never wait for each other in a circle: when the pool is empty,  *)
(* somebody who holds a connection gets on without another, unless a       *)
(* trigger holds one while it asks for the next (sync.py:18) or a socket   *)
(* keeps that of its last answer (context.py:51-53, ws.py:40-41).          *)
QueriesNeverWaitInACircle ==
    Free = 0 => \E c \in Client : holds[c] > 0 /\ (~Waits(c) \/ c \in Trigger)

(* Every request ends although triggers and idle sockets may hold all      *)
(* connections for good (base.py:23, sync.py:14-19).                       *)
EveryRequestEnds ==
    \A c \in Client : pc[c] \notin {"idle", "closed"} ~> pc[c] \in {"idle", "closed"}

(* The refresh token of the row is that of the last callback, although     *)
(* requests that loaded the user before it commit afterwards, and although *)
(* the user may be inserted twice (token_manager.py:23-26, auth.py:56-64,  *)
(* dependencies.py:31-34).                                                 *)
NoCallbackIsLost == row # None => row.refresh = grants

(* The access token a query set out with lives until its run is over       *)
(* (token_manager.py:1-2, 22).                                             *)
CredentialsOutlastTheRun ==
    \A c \in Client : pc[c] = "run" => user[c].left > 0

(* A classification that Intent rejects goes away, although requests that  *)
(* repeat the query hit it (classifier.py:39-58, query_cache.py:33-34).    *)
BadClassificationHeals == cache.what = "bad" ~> cache.what # "bad"

(* A socket goes on answering after one of its queries has refreshed the   *)
(* token: no query compares an expiry without a timezone.                  *)
SocketsServeOn ==
    \A c \in Socket : pc[c] = "credentials" => ~user[c].naive
=============================================================================
