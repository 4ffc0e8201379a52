-------------------------------- MODULE Sync --------------------------------
(***************************************************************************)
(* Background sync, app/sync/tasks.py: workers that run sync_all_users or  *)
(* the sync of one user, service after service, each in a transaction of   *)
(* its own and with a status row written in another one.  Workers overlap, *)
(* die, and start their task again or lose it.  The clients are the real   *)
(* ones.  One item stands for the items of a user in a service that have   *)
(* been on the first page of its listing, the only one that is asked for;  *)
(* all items of a page are upserted together in one transaction.           *)
(***************************************************************************)
EXTENDS Integers, Sequences, FiniteSets

CONSTANTS Worker,
          Pool,       \* processes of Celery's worker; others wait in the API
          Users,      \* in the order the users table returns them
          Services,   \* in the order of sync_user_now
          Gathered,   \* services whose items are fetched one by one, at once
          Triggers,   \* users whose sync is triggered on its own
          Crowded,    \* bound: <<user, service>> that gain a page of items
          Edited,     \* bound: <<user, service>> whose item changes at Google
          MaxEdits,   \* bound: how often
          MaxFaults   \* bound: failing calls and dying workers

User    == {Users[i] : i \in 1..Len(Users)}
Service == {Services[i] : i \in 1..Len(Services)}

ASSUME SyncAssumption ==
    /\ Users \in Seq(User) /\ Users # <<>>
    /\ Services \in Seq(Service) /\ Services # <<>>
    /\ Triggers \subseteq User /\ Pool \subseteq Worker
    /\ Gathered \subseteq Service
    /\ Crowded \subseteq User \X Service /\ Edited \subseteq User \X Service
    /\ MaxEdits \in Nat /\ MaxFaults \in Nat

(* An item is the text that is embedded and hashed; the other columns of a *)
(* row are written with it and never without.                              *)
Item == 0..MaxEdits
First == 0
NoRow == -1

VARIABLES
    google,   \* user -> service -> the item at Google
    onPage,   \* user -> service -> whether the first page has it
    edits, faults,
    cache,    \* user -> service -> the committed cache row, or NoRow
    status,   \* user -> service -> none | idle | error, the status row
    pc,       \* worker -> where its task stands
    job,      \* worker -> the users of its task
    queue,    \* worker -> those it has yet to sync, the current first
    at,       \* worker -> place in Services
    listed,   \* worker -> the item it has listed, or NoRow
    hashed,   \* worker -> text of the cache row when it read the hashes
    found,    \* worker -> whether its SELECT found a status row
    redis     \* worker -> none | current | old | partly: the task whose event
              \* loop the connections to Redis have that its process keeps

world == <<google, onPage, edits>>
tables == <<cache, status>>
locals == <<job, queue, at, listed, hashed, found>>
vars == <<world, faults, tables, pc, locals, redis>>

Init ==
    /\ google = [u \in User |-> [s \in Service |-> First]]
    /\ onPage = [u \in User |-> [s \in Service |-> TRUE]]
    /\ edits = 0 /\ faults = 0
    /\ cache = [u \in User |-> [s \in Service |-> NoRow]]
    /\ status = [u \in User |-> [s \in Service |-> "none"]]
    /\ pc = [w \in Worker |-> "free"]
    /\ job = [w \in Worker |-> <<>>]
    /\ queue = [w \in Worker |-> <<>>]
    /\ at = [w \in Worker |-> 1]
    /\ listed = [w \in Worker |-> NoRow]
    /\ hashed = [w \in Worker |-> NoRow]
    /\ found = [w \in Worker |-> FALSE]
    /\ redis = [w \in Worker |-> "none"]

U(w) == Head(queue[w])
S(w) == Services[at[w]]

GoTo(w, place) == pc' = [pc EXCEPT ![w] = place]

(* Local variables go with the function they belong to.                    *)
Leave(w) == /\ listed' = [listed EXCEPT ![w] = NoRow]
            /\ hashed' = [hashed EXCEPT ![w] = NoRow]
            /\ found' = [found EXCEPT ![w] = FALSE]

Fault == faults < MaxFaults /\ faults' = faults + 1

-----------------------------------------------------------------------------
(* Google's side: an edit gives an item a new text.                        *)
Edit(u, s) ==
    /\ <<u, s>> \in Edited /\ edits < MaxEdits
    /\ edits' = edits + 1
    /\ google' = [google EXCEPT ![u][s] = edits + 1]
    /\ UNCHANGED <<onPage, faults, tables, pc, locals, redis>>

(* LIST_PAGE_SIZE other items come before it in the listing.               *)
Displace(u, s) ==
    /\ <<u, s>> \in Crowded /\ onPage[u][s]
    /\ onPage' = [onPage EXCEPT ![u][s] = FALSE]
    /\ UNCHANGED <<google, edits, faults, tables, pc, locals, redis>>

(* A task of Celery has an event loop of its own and closes what Postgres  *)
(* left in it, but not the Redis client, which the process caches.  An API *)
(* process has one loop for all it does.                                   *)
NextLoop(w) == IF w \in Pool /\ redis[w] # "none" THEN "old" ELSE redis[w]

(* The beat schedule runs a task for all users; a trigger runs one for its *)
(* user, in the pool or, when it waits, in the API process.                *)
Start(w, users) ==
    /\ pc[w] \in {"free", "returned", "raised", "lost"}
    /\ job' = [job EXCEPT ![w] = users]
    /\ queue' = [queue EXCEPT ![w] = users]
    /\ GoTo(w, "bundle")
    /\ redis' = [redis EXCEPT ![w] = NextLoop(w)]
    /\ UNCHANGED <<world, faults, tables, at, listed, hashed, found>>

StartAll(w) == w \in Pool /\ Start(w, Users)
StartOne(w) == \E u \in Triggers : Start(w, <<u>>)

(* sync_user_now finds the user and makes its clients, outside of any try. *)
GetBundle(w) ==
    /\ pc[w] = "bundle"
    /\ GoTo(w, "list")
    /\ at' = [at EXCEPT ![w] = 1]
    /\ UNCHANGED <<world, faults, tables, job, queue, listed, hashed, found, redis>>

BundleFails(w) ==
    /\ pc[w] = "bundle"
    /\ Fault
    /\ GoTo(w, "raised")
    /\ UNCHANGED <<world, tables, locals, redis>>

-----------------------------------------------------------------------------
(* One service: list, read the hashes, then embed what differs, upsert it  *)
(* and commit.  Whatever fails rolls back and is caught.                   *)
(* Google is asked once the quota in Redis allows.                         *)
Connected(w) == [redis EXCEPT ![w] = IF @ = "none" THEN "current" ELSE @]

List(w) ==
    /\ pc[w] = "list"
    /\ redis[w] # "old"
    /\ redis' = Connected(w)
    /\ listed' = [listed EXCEPT ![w] =
                      IF onPage[U(w)][S(w)] THEN google[U(w)][S(w)] ELSE NoRow]
    /\ GoTo(w, "hashes")
    /\ UNCHANGED <<world, faults, tables, job, queue, at, hashed, found>>

(* A connection of a loop that is closed fails.  The library then drops    *)
(* it, so that the next call connects again, under the current loop; only  *)
(* calls made at once may come by a second one that is old.                *)
ListOnOldLoop(w) ==
    /\ pc[w] = "list"
    /\ redis[w] = "old" \/ (redis[w] = "partly" /\ S(w) \in Gathered)
    /\ redis' = [redis EXCEPT ![w] = "partly"]
    /\ GoTo(w, "errorSelect")
    /\ UNCHANGED <<world, faults, tables, locals>>

ReadHashes(w) ==
    /\ pc[w] = "hashes"
    /\ hashed' = [hashed EXCEPT ![w] = cache[U(w)][S(w)]]
    /\ GoTo(w, "commit")
    /\ UNCHANGED <<world, faults, tables, job, queue, at, listed, found, redis>>

(* Mutant: a row that is there is taken to be current.                     *)
ChangedIfMissing(w) == listed[w] # NoRow /\ hashed[w] = NoRow

Changed(w) == listed[w] # NoRow /\ hashed[w] # listed[w]

Stored(w) == IF Changed(w) THEN [cache EXCEPT ![U(w)][S(w)] = listed[w]] ELSE cache

Commit(w) ==
    /\ pc[w] = "commit"
    /\ cache' = Stored(w)
    /\ GoTo(w, "idleSelect")
    /\ Leave(w)
    /\ UNCHANGED <<world, faults, status, job, queue, at, redis>>

(* Mutant: the error of a service is reported as if it had been synced.    *)
ServiceFailsQuietly(w) ==
    /\ pc[w] \in {"list", "hashes", "commit"}
    /\ Fault
    /\ GoTo(w, "idleSelect")
    /\ UNCHANGED <<world, tables, locals, redis>>

(* Mutant: no except around a service.                                     *)
ServiceFailsUncaught(w) ==
    /\ pc[w] \in {"list", "hashes", "commit"}
    /\ Fault
    /\ GoTo(w, "returned")
    /\ UNCHANGED <<world, tables, locals, redis>>

(* A commit whose answer is lost may have stored its rows.                 *)
ServiceFails(w) ==
    /\ pc[w] \in {"list", "hashes", "commit"}
    /\ Fault
    /\ GoTo(w, "errorSelect")
    /\ cache' \in IF pc[w] = "commit" THEN {cache, Stored(w)} ELSE {cache}
    /\ redis' \in IF pc[w] = "list" /\ redis[w] # "old" THEN {redis, Connected(w)} ELSE {redis}
    /\ Leave(w)
    /\ UNCHANGED <<world, status, job, queue, at>>

-----------------------------------------------------------------------------
(* _update_sync_status: select the row, then update or insert it.  For     *)
(* "idle" this is inside the try of the service, for "error" in its except *)
(* clause, from where an exception leaves sync_user_now.                   *)
State(w) == IF pc[w] \in {"idleSelect", "idleWrite"} THEN "idle" ELSE "error"

StatusRaises(w) == GoTo(w, IF State(w) = "idle" THEN "errorSelect" ELSE "raised")

SelectStatus(w) ==
    /\ pc[w] \in {"idleSelect", "errorSelect"}
    /\ found' = [found EXCEPT ![w] = status[U(w)][S(w)] # "none"]
    /\ GoTo(w, IF State(w) = "idle" THEN "idleWrite" ELSE "errorWrite")
    /\ UNCHANGED <<world, faults, tables, job, queue, at, listed, hashed, redis>>

(* Mutant: the loop runs one service too far.                              *)
ContinuePastTheEnd(w) ==
    IF at[w] <= Len(Services)
    THEN /\ at' = [at EXCEPT ![w] = @ + 1]
         /\ GoTo(w, "list")
         /\ UNCHANGED queue
    ELSE /\ at' = [at EXCEPT ![w] = 1]
         /\ queue' = [queue EXCEPT ![w] = Tail(@)]
         /\ GoTo(w, IF Len(queue[w]) > 1 THEN "bundle" ELSE "returned")

(* The loop goes on with the next service, else with the next user.        *)
Continue(w) ==
    IF at[w] < Len(Services)
    THEN /\ at' = [at EXCEPT ![w] = @ + 1]
         /\ GoTo(w, "list")
         /\ UNCHANGED queue
    ELSE /\ at' = [at EXCEPT ![w] = 1]
         /\ queue' = [queue EXCEPT ![w] = Tail(@)]
         /\ GoTo(w, IF Len(queue[w]) > 1 THEN "bundle" ELSE "returned")

WriteStatus(w) ==
    /\ pc[w] \in {"idleWrite", "errorWrite"}
    /\ \/ /\ found[w] \/ status[U(w)][S(w)] = "none"
          /\ status' = [status EXCEPT ![U(w)][S(w)] = State(w)]
          /\ Continue(w)
       \/ /\ ~found[w] /\ status[U(w)][S(w)] # "none"    \* inserted twice
          /\ StatusRaises(w)
          /\ UNCHANGED <<status, queue, at>>
    /\ Leave(w)
    /\ UNCHANGED <<world, faults, cache, job, redis>>

StatusFails(w) ==
    /\ pc[w] \in {"idleSelect", "idleWrite", "errorSelect", "errorWrite"}
    /\ Fault
    /\ StatusRaises(w)
    /\ Leave(w)
    /\ UNCHANGED <<world, tables, job, queue, at, redis>>

(* task_acks_late: a task is delivered again, whole, when all of Celery's  *)
(* worker went with the process that ran it.  When that process died alone *)
(* the task is acknowledged and lost, since task_reject_on_worker_lost is  *)
(* not set, as is the sync of a trigger that waits in the API.             *)
Die(w) ==
    /\ pc[w] \notin {"free", "returned", "raised", "lost"}
    /\ Fault
    /\ \/ w \in Pool /\ GoTo(w, "bundle") /\ queue' = [queue EXCEPT ![w] = job[w]]
       \/ GoTo(w, "lost") /\ UNCHANGED queue
    /\ at' = [at EXCEPT ![w] = 1]
    /\ redis' = [redis EXCEPT ![w] = "none"]
    /\ Leave(w)
    /\ UNCHANGED <<world, tables, job>>

Work(w) == \/ GetBundle(w) \/ List(w) \/ ListOnOldLoop(w) \/ ReadHashes(w)
           \/ Commit(w) \/ SelectStatus(w) \/ WriteStatus(w)

Fail(w) == BundleFails(w) \/ ServiceFails(w) \/ StatusFails(w) \/ Die(w)

Next == \/ \E u \in User, s \in Service : Edit(u, s) \/ Displace(u, s)
        \/ \E w \in Worker : StartAll(w) \/ StartOne(w) \/ Work(w) \/ Fail(w)

(* Beat fires again and again, and the broker's queue is first in first    *)
(* out, for tasks and for the workers that wait for one, so that a worker  *)
(* of the pool gets a task of beat's although triggers keep coming; and    *)
(* any worker gets on with the task it has.                                *)
Fairness == /\ \A w \in Pool : SF_vars(StartAll(w))
            /\ \A w \in Worker : WF_vars(Work(w))

Spec == Init /\ [][Next]_vars
FairSpec == Spec /\ Fairness

-----------------------------------------------------------------------------
Row == Item \cup {NoRow}

TypeOK ==
    /\ google \in [User -> [Service -> Item]]
    /\ onPage \in [User -> [Service -> BOOLEAN]]
    /\ edits \in 0..MaxEdits /\ faults \in 0..MaxFaults
    /\ cache \in [User -> [Service -> Row]]
    /\ status \in [User -> [Service -> {"none", "idle", "error"}]]
    /\ pc \in [Worker -> {"free", "bundle", "list", "hashes", "commit", "idleSelect",
                          "idleWrite", "errorSelect", "errorWrite", "returned", "raised",
                          "lost"}]
    /\ job \in [Worker -> Seq(User)] /\ queue \in [Worker -> Seq(User)]
    /\ \A w \in Worker : pc[w] \notin {"free", "returned"} => queue[w] # <<>>
    /\ at \in [Worker -> 1..Len(Services)]
    /\ listed \in [Worker -> Row]
    /\ hashed \in [Worker -> Row]
    /\ found \in [Worker -> BOOLEAN]
    /\ redis \in [Worker -> {"none", "current", "old", "partly"}]

(* An item of the first page of a service whose status row says idle has   *)
(* been stored at least once, in whatever order workers, faults and        *)
(* redelivered tasks came: the status is written after the commit it is    *)
(* about, in a transaction of its own (tasks.py:95-102).                   *)
IdleMeansStored ==
    \A u \in User, s \in Service :
        status[u][s] = "idle" /\ onPage[u][s] => cache[u][s] # NoRow

(* A task that returns has left a status row for every service of each of  *)
(* its users: no failure of a service made it skip another                 *)
(* (tasks.py:90-102).                                                      *)
ReturnedMeansReported ==
    \A w \in Worker : pc[w] = "returned" =>
        \A i \in 1..Len(job[w]), s \in Service : status[job[w][i]][s] # "none"

(* Once faults and edits end, the cache comes to hold the text Google has, *)
(* and keeps it, for all that is on the first page of a service that needs *)
(* one call at a time: a sync that stored an older listing over a newer    *)
(* one, a rolled back transaction, a lost task and the call that an old    *)
(* connection failed are all made good by a later service or pass, because *)
(* the hash is that of the row it stands in (tasks.py:91-161).             *)
OthersEventuallyFresh ==
    <>[](\A u \in User, s \in Service \ Gathered :
            onPage[u][s] => cache[u][s] = google[u][s])

-----------------------------------------------------------------------------
(* Claims of the repository that the code does not keep.                   *)

(* tasks.py:1-2, "pulls Gmail/Calendar/Drive into the pgvector cache       *)
(* tables": of every service the cache comes to hold the text Google has.  *)
EventuallyFresh ==
    <>[](\A u \in User, s \in Service : cache[u][s] = google[u][s])

(* API.md:134-135, "last_error is set when a service's most recent sync    *)
(* attempt failed (e.g. a revoked Google token)": an attempt that failed   *)
(* has left an error in a status row of its user.                          *)
FailedAttemptIsReported ==
    \A w \in Worker : pc[w] = "raised" => \E s \in Service : status[U(w)][s] = "error"
=============================================================================
