----------------------------- MODULE SyncProofs -----------------------------
(***************************************************************************)
(* What the background sync of Sync guarantees for any number of workers,  *)
(* users and services, of tasks that overlap, and of faults.               *)
(***************************************************************************)
EXTENDS Sync, TLAPS

USE DEF GoTo, world, tables, locals, Leave, Fault

-----------------------------------------------------------------------------
(* Facts about what the actions are built from.                            *)
LEMMA ServiceAt == \A i \in 1..Len(Services) : Services[i] \in Service
  BY DEF Service

LEMMA LenServices == Len(Services) \in Nat \ {0}
  BY SyncAssumption

(* A table that has got a new row has it, and is otherwise as it was.      *)
LEMMA Updated ==
  ASSUME NEW R, NEW table \in [User -> [Service -> R]],
         NEW u \in User, NEW s \in Service, NEW x \in R
  PROVE  /\ [table EXCEPT ![u][s] = x] \in [User -> [Service -> R]]
         /\ \A v \in User, t \in Service :
                [table EXCEPT ![u][s] = x][v][t] = IF v = u /\ t = s THEN x ELSE table[v][t]
  OBVIOUS

LEMMA FirstOfMany ==
  ASSUME NEW q \in Seq(User), q # <<>>
  PROVE  /\ Head(q) \in User /\ Head(q) = q[1] /\ Tail(q) \in Seq(User)
         /\ Len(q) \in Nat \ {0} /\ Len(Tail(q)) = Len(q) - 1
         /\ \A i \in 1 .. Len(q) - 1 : Tail(q)[i] = q[i + 1]
         /\ Len(q) > 1 <=> Tail(q) # <<>>
  OBVIOUS

(* Places in a list of j that has one less of its last q left.             *)
LEMMA LastOfMany ==
  ASSUME NEW j \in Nat, NEW q \in Nat \ {0}, NEW p, p = q - 1
  PROVE  /\ \A i \in 1 .. j - p : i \in 1 .. j - q \/ i = j - p
         /\ \A i \in 1..p : i \in 1 .. q - 1 /\ i + 1 \in 1..q /\ j - q + (i + 1) = j - p + i
  OBVIOUS

-----------------------------------------------------------------------------
(* The types, and a task that a worker which has had one can start again.  *)
TypeInv == TypeOK /\ \A w \in Worker : pc[w] # "free" => job[w] # <<>>

LEMMA TypeInit == Init => TypeInv
<1> USE SyncAssumption DEF Init, TypeInv, TypeOK, Item, Row, First, NoRow
<1> SUFFICES ASSUME Init PROVE TypeInv
  OBVIOUS
<1>1. 1 \in 1..Len(Services)
  BY LenServices
<1>2. <<>> \in Seq(User)
  OBVIOUS
<1> QED
  BY <1>1, <1>2

(* Where a worker that is in a service stands.                             *)
LEMMA InService ==
  ASSUME TypeInv, NEW w \in Worker, pc[w] \notin {"free", "returned"}
  PROVE  /\ queue[w] \in Seq(User) /\ queue[w] # <<>>
         /\ U(w) \in User /\ S(w) \in Service /\ at[w] \in 1..Len(Services)
<1>1. queue[w] \in Seq(User) /\ queue[w] # <<>> /\ at[w] \in 1..Len(Services)
  BY DEF TypeInv, TypeOK
<1> QED
  BY <1>1, FirstOfMany, ServiceAt DEF U, S

LEMMA StoredRow ==
  ASSUME TypeInv, NEW w \in Worker, pc[w] = "commit"
  PROVE  /\ Stored(w) \in [User -> [Service -> Row]]
         /\ \A v \in User, t \in Service :
                Stored(w)[v][t] = IF Changed(w) /\ v = U(w) /\ t = S(w) THEN listed[w]
                                  ELSE cache[v][t]
         /\ Changed(w) => listed[w] # NoRow
<1>1. U(w) \in User /\ S(w) \in Service
  BY InService
<1>2. listed[w] \in Row /\ cache \in [User -> [Service -> Row]]
  BY DEF TypeInv, TypeOK
<1>3. CASE Changed(w)
  <2>1. Stored(w) = [cache EXCEPT ![U(w)][S(w)] = listed[w]]
    BY <1>3 DEF Stored
  <2>2. /\ [cache EXCEPT ![U(w)][S(w)] = listed[w]] \in [User -> [Service -> Row]]
        /\ \A v \in User, t \in Service :
               [cache EXCEPT ![U(w)][S(w)] = listed[w]][v][t] =
                   IF v = U(w) /\ t = S(w) THEN listed[w] ELSE cache[v][t]
    BY <1>1, <1>2, Updated
  <2> QED
    BY <1>2, <1>3, <2>1, <2>2 DEF Changed
<1>4. CASE ~Changed(w)
  BY <1>2, <1>4 DEF Stored
<1> QED
  BY <1>3, <1>4

(* The next service, or the next user, or the end.                         *)
LEMMA ContinueType ==
  ASSUME TypeInv, NEW w \in Worker, pc[w] \in {"idleWrite", "errorWrite"}, Continue(w)
  PROVE  /\ pc' \in [Worker -> {"free", "bundle", "list", "hashes", "commit", "idleSelect",
                               "idleWrite", "errorSelect", "errorWrite", "returned", "raised",
                               "lost"}]
         /\ at' \in [Worker -> 1..Len(Services)]
         /\ queue' \in [Worker -> Seq(User)]
         /\ \A d \in Worker \ {w} : UNCHANGED <<pc[d], at[d], queue[d]>>
         /\ \/ /\ at[w] < Len(Services) /\ at'[w] = at[w] + 1 /\ pc'[w] = "list"
               /\ queue'[w] = queue[w]
            \/ /\ at[w] = Len(Services) /\ at'[w] = 1 /\ queue'[w] = Tail(queue[w])
               /\ \/ pc'[w] = "bundle" /\ queue'[w] # <<>>
                  \/ pc'[w] = "returned" /\ queue'[w] = <<>>
<1>1. /\ queue[w] \in Seq(User) /\ queue[w] # <<>> /\ at[w] \in 1..Len(Services)
      /\ queue \in [Worker -> Seq(User)] /\ at \in [Worker -> 1..Len(Services)]
      /\ pc \in [Worker -> {"free", "bundle", "list", "hashes", "commit", "idleSelect",
                            "idleWrite", "errorSelect", "errorWrite", "returned", "raised",
                            "lost"}]
  BY InService DEF TypeInv, TypeOK
<1>2. CASE at[w] < Len(Services)
  <2>1. at' = [at EXCEPT ![w] = @ + 1] /\ pc' = [pc EXCEPT ![w] = "list"] /\ UNCHANGED queue
    BY <1>2 DEF Continue
  <2>2. at[w] + 1 \in 1..Len(Services)
    BY <1>1, <1>2, LenServices
  <2> QED
    BY <1>1, <1>2, <2>1, <2>2
<1>3. CASE ~(at[w] < Len(Services))
  <2>1. /\ at' = [at EXCEPT ![w] = 1] /\ queue' = [queue EXCEPT ![w] = Tail(@)]
        /\ pc' = [pc EXCEPT ![w] = IF Len(queue[w]) > 1 THEN "bundle" ELSE "returned"]
    BY <1>3 DEF Continue
  <2>2. at[w] = Len(Services) /\ 1 \in 1..Len(Services)
    BY <1>1, <1>3, LenServices
  <2>3. Tail(queue[w]) \in Seq(User) /\ (Len(queue[w]) > 1 <=> Tail(queue[w]) # <<>>)
    BY <1>1, FirstOfMany
  <2> QED
    BY <1>1, <1>3, <2>1, <2>2, <2>3
<1> QED
  BY <1>2, <1>3

LEMMA TypeStep == TypeInv /\ [Next]_vars => TypeInv'
<1> SUFFICES ASSUME TypeInv, [Next]_vars PROVE TypeInv'
  OBVIOUS
<1> USE SyncAssumption DEF TypeInv, TypeOK
<1>c. First \in Item /\ NoRow \in Row /\ 1 \in 1..Len(Services) /\ \A i \in Item : i \in Row
  BY LenServices DEF First, Item, NoRow, Row
<1>1. ASSUME NEW u \in User, NEW s \in Service, Edit(u, s) PROVE TypeInv'
  <2>1. edits + 1 \in Item /\ edits + 1 \in 0..MaxEdits
    BY <1>1 DEF Edit, Item
  <2>2. google' \in [User -> [Service -> Item]]
    BY <1>1, <2>1, Updated DEF Edit
  <2> QED
    BY <1>1, <2>1, <2>2 DEF Edit
<1>2. ASSUME NEW w \in Worker, NEW users \in Seq(User), users # <<>>, Start(w, users)
      PROVE TypeInv'
  BY <1>2 DEF Start, NextLoop
<1>3. ASSUME NEW w \in Worker, GetBundle(w) PROVE TypeInv'
  BY <1>c, <1>3 DEF GetBundle
<1>4. ASSUME NEW w \in Worker, BundleFails(w) PROVE TypeInv'
  BY <1>4 DEF BundleFails
<1>5. ASSUME NEW w \in Worker, List(w) PROVE TypeInv'
  <2> DEFINE shown == IF onPage[U(w)][S(w)] THEN google[U(w)][S(w)] ELSE NoRow
  <2>1. U(w) \in User /\ S(w) \in Service
    BY <1>5, InService DEF List
  <2>2. shown \in Row
    BY <1>c, <2>1
  <2>3. redis' \in [Worker -> {"none", "current", "old", "partly"}]
    BY <1>5 DEF List, Connected
  <2>4. /\ pc[w] = "list" /\ pc' = [pc EXCEPT ![w] = "hashes"]
        /\ listed' = [listed EXCEPT ![w] = shown]
        /\ UNCHANGED <<world, faults, tables, job, queue, at, hashed, found>>
    BY <1>5 DEF List
  <2> HIDE DEF shown
  <2> QED
    BY <2>2, <2>3, <2>4
<1>6. ASSUME NEW w \in Worker, ListOnOldLoop(w) PROVE TypeInv'
  BY <1>6 DEF ListOnOldLoop
<1>7. ASSUME NEW w \in Worker, ReadHashes(w) PROVE TypeInv'
  <2>1. cache[U(w)][S(w)] \in Row
    BY <1>7, InService DEF ReadHashes
  <2> QED
    BY <1>7, <2>1 DEF ReadHashes
<1>8. ASSUME NEW w \in Worker, Commit(w) PROVE TypeInv'
  <2>1. cache' \in [User -> [Service -> Row]]
    BY <1>8, StoredRow DEF Commit
  <2> QED
    BY <1>c, <1>8, <2>1 DEF Commit
<1>9. ASSUME NEW w \in Worker, ServiceFails(w) PROVE TypeInv'
  <2>1. cache' \in [User -> [Service -> Row]]
    BY <1>9, StoredRow DEF ServiceFails
  <2>2. redis' \in [Worker -> {"none", "current", "old", "partly"}]
    BY <1>9 DEF ServiceFails, Connected
  <2>3. /\ pc[w] \in {"list", "hashes", "commit"} /\ pc' = [pc EXCEPT ![w] = "errorSelect"]
        /\ faults' \in 0..MaxFaults /\ Leave(w)
        /\ UNCHANGED <<world, status, job, queue, at>>
    BY <1>9 DEF ServiceFails
  <2> QED
    BY <1>c, <2>1, <2>2, <2>3
<1>10. ASSUME NEW w \in Worker, SelectStatus(w) PROVE TypeInv'
  BY <1>10 DEF SelectStatus
<1>11. ASSUME NEW w \in Worker, WriteStatus(w) PROVE TypeInv'
  <2>1. CASE /\ status' = [status EXCEPT ![U(w)][S(w)] = State(w)]
             /\ Continue(w)
    <3>1. State(w) \in {"none", "idle", "error"}
      BY DEF State
    <3>3. pc[w] \in {"idleWrite", "errorWrite"}
      BY <1>11 DEF WriteStatus
    <3>5. U(w) \in User /\ S(w) \in Service
      BY <3>3, InService
    <3>2. status' \in [User -> [Service -> {"none", "idle", "error"}]]
      <4>1. status \in [User -> [Service -> {"none", "idle", "error"}]]
        OBVIOUS
      <4> QED
        BY ONLY <2>1, <3>1, <3>5, <4>1, Updated
    <3>4. Leave(w) /\ UNCHANGED <<world, faults, cache, job, redis>>
      BY <1>11 DEF WriteStatus
    <3> QED
      BY <1>c, <2>1, <3>2, <3>3, <3>4, ContinueType
  <2>2. CASE StatusRaises(w) /\ UNCHANGED <<status, queue, at>>
    BY <1>c, <1>11, <2>2 DEF WriteStatus, StatusRaises
  <2> QED
    BY <1>11, <2>1, <2>2 DEF WriteStatus
<1>12. ASSUME NEW w \in Worker, StatusFails(w) PROVE TypeInv'
  BY <1>c, <1>12 DEF StatusFails, StatusRaises
<1>13. ASSUME NEW w \in Worker, Die(w) PROVE TypeInv'
  <2>1. /\ pc[w] \notin {"free", "returned", "raised", "lost"} /\ faults' \in 0..MaxFaults
        /\ at' = [at EXCEPT ![w] = 1] /\ redis' = [redis EXCEPT ![w] = "none"]
        /\ Leave(w) /\ UNCHANGED <<world, tables, job>>
    BY <1>13 DEF Die
  <2>2. CASE pc' = [pc EXCEPT ![w] = "bundle"] /\ queue' = [queue EXCEPT ![w] = job[w]]
    BY <1>c, <2>1, <2>2
  <2>3. CASE pc' = [pc EXCEPT ![w] = "lost"] /\ UNCHANGED queue
    BY <1>c, <2>1, <2>3
  <2> QED
    BY <1>13, <2>2, <2>3 DEF Die
<1>14. CASE UNCHANGED vars
  BY <1>14 DEF vars
<1>16. ASSUME NEW u \in User, NEW s \in Service, Displace(u, s) PROVE TypeInv'
  <2>1. onPage' \in [User -> [Service -> BOOLEAN]]
    BY <1>16, Updated DEF Displace
  <2> QED
    BY <1>16, <2>1 DEF Displace
<1>15. ASSUME NEW w \in Worker, StartAll(w) \/ StartOne(w) PROVE TypeInv'
  <2>1. \A u \in Triggers : <<u>> \in Seq(User) /\ <<u>> # <<>>
    OBVIOUS
  <2> QED
    BY <1>2, <1>15, <2>1 DEF StartAll, StartOne
<1> QED
  BY <1>1, <1>3, <1>4, <1>5, <1>6, <1>7, <1>8, <1>9, <1>10, <1>11, <1>12, <1>13, <1>14, <1>15, <1>16
  DEF Next, Work, Fail

(* The variables keep their types.                                         *)
THEOREM TypeCorrect == Spec => []TypeOK
<1>1. Spec => []TypeInv
  BY TypeInit, TypeStep, PTL DEF Spec
<1>2. TypeInv => TypeOK
  BY DEF TypeInv
<1> QED
  BY <1>1, <1>2, PTL

-----------------------------------------------------------------------------
(* Where a worker stands: what is left of its task is its end, the users   *)
(* and services before have been reported, and a status of idle is written *)
(* when the row is there, or no page has shown the item.                   *)
AtService == {"list", "hashes", "commit", "idleSelect", "idleWrite", "errorSelect", "errorWrite"}

Cached(u, s) == onPage[u][s] => cache[u][s] # NoRow

(* What the worker has seen tells it that the row is there, or need not.   *)
Certain(w) == \/ pc[w] \in {"idleSelect", "idleWrite"}
              \/ pc[w] = "commit" /\ hashed[w] # NoRow
              \/ pc[w] \in {"hashes", "commit"} /\ listed[w] = NoRow

WorkerInv(w) ==
    /\ Len(queue[w]) <= Len(job[w])
    /\ \A i \in 1..Len(queue[w]) : queue[w][i] = job[w][Len(job[w]) - Len(queue[w]) + i]
    /\ pc[w] = "returned" => queue[w] = <<>>
    /\ \A i \in 1 .. Len(job[w]) - Len(queue[w]), s \in Service : status[job[w][i]][s] # "none"
    /\ pc[w] \in AtService => \A j \in 1 .. at[w] - 1 : status[U(w)][Services[j]] # "none"
    /\ Certain(w) => Cached(U(w), S(w))

IInv == TypeInv /\ IdleMeansStored /\ \A w \in Worker : WorkerInv(w)

(* Rows of either table are written over, and never removed.               *)
Grows == \A u \in User, s \in Service :
             /\ Cached(u, s) => Cached(u, s)'
             /\ status[u][s] # "none" => status'[u][s] # "none"

LEMMA Untouched ==
  ASSUME TypeInv, TypeInv', Grows, NEW d \in Worker, WorkerInv(d),
         UNCHANGED <<pc[d], job[d], queue[d], at[d], hashed[d], listed[d]>>
  PROVE  WorkerInv(d)'
<1>1. U(d)' = U(d) /\ S(d)' = S(d)
  BY DEF U, S
<1>2. /\ job[d] \in Seq(User) /\ queue[d] \in Seq(User) /\ Len(queue[d]) \in Nat
      /\ at[d] \in 1..Len(Services)
  BY DEF TypeInv, TypeOK
<1>3. \A i \in 1 .. Len(job[d]) - Len(queue[d]) : job[d][i] \in User
  BY <1>2
<1>4. pc[d] \in AtService \cup {"commit"} => U(d) \in User /\ S(d) \in Service
  BY InService DEF AtService
<1>5. \A j \in 1 .. at[d] - 1 : Services[j] \in Service
  BY <1>2, ServiceAt, LenServices
<1>6. \A i \in 1 .. Len(job[d]) - Len(queue[d]), s \in Service : status'[job[d][i]][s] # "none"
  BY <1>3 DEF WorkerInv, Grows
<1>7. pc[d] \in AtService => \A j \in 1 .. at[d] - 1 : status'[U(d)][Services[j]] # "none"
  BY <1>4, <1>5 DEF WorkerInv, Grows
<1>8. Certain(d)' => Cached(U(d), S(d))'
  <2>1. Certain(d)' => Certain(d)
    BY DEF Certain
  <2>2. Certain(d) => U(d) \in User /\ S(d) \in Service
    BY <1>4 DEF Certain, AtService
  <2>3. Certain(d) => Cached(U(d), S(d))
    BY DEF WorkerInv
  <2>4. Cached(U(d), S(d))' <=> (onPage'[U(d)][S(d)] => cache'[U(d)][S(d)] # NoRow)
    BY <1>1 DEF Cached
  <2>5. \A u \in User, s \in Service :
            Cached(u, s) => (onPage'[u][s] => cache'[u][s] # NoRow)
    BY DEF Grows, Cached
  <2> QED
    BY <2>1, <2>2, <2>3, <2>4, <2>5
<1> QED
  BY <1>1, <1>6, <1>7, <1>8 DEF WorkerInv

LEMMA InvInit == Init => IInv
<1> SUFFICES ASSUME Init PROVE IInv
  OBVIOUS
<1>1. TypeInv
  BY TypeInit
<1>2. ASSUME NEW w \in Worker PROVE WorkerInv(w)
  <2>1. pc[w] = "free" /\ job[w] = <<>> /\ queue[w] = <<>> /\ Len(<<>>) = 0
    BY DEF Init
  <2> QED
    BY <2>1 DEF WorkerInv, AtService, Certain
<1>3. IdleMeansStored
  BY DEF Init, IdleMeansStored
<1> QED
  BY <1>1, <1>2, <1>3 DEF IInv

(* A worker that stays in its service with its user, where nothing of what *)
(* it relies on is lost.                                                   *)
LEMMA Stays ==
  ASSUME TypeInv, TypeInv', Grows, NEW w \in Worker, WorkerInv(w),
         UNCHANGED <<job[w], queue[w]>>, pc'[w] # "returned",
         pc'[w] \in AtService => pc[w] \in AtService /\ at'[w] = at[w],
         Certain(w)' => Cached(U(w), S(w))'
  PROVE  WorkerInv(w)'
<1>1. U(w)' = U(w)
  BY DEF U
<1>2. /\ job[w] \in Seq(User) /\ queue[w] \in Seq(User) /\ Len(queue[w]) \in Nat
      /\ at[w] \in 1..Len(Services)
  BY DEF TypeInv, TypeOK
<1>3. \A i \in 1 .. Len(job[w]) - Len(queue[w]) : job[w][i] \in User
  <2>1. Len(job[w]) \in Nat /\ \A i \in 1..Len(job[w]) : job[w][i] \in User
    BY ONLY <1>2
  <2>2. \A i \in 1 .. Len(job[w]) - Len(queue[w]) : i \in 1..Len(job[w])
    BY ONLY <1>2, <2>1
  <2> QED
    BY ONLY <2>1, <2>2
<1>4. pc'[w] \in AtService => U(w) \in User /\ S(w)' = S(w)
  BY InService DEF AtService, S
<1>5. \A j \in 1 .. at[w] - 1 : Services[j] \in Service
  BY <1>2, ServiceAt, LenServices
<1>6. \A i \in 1 .. Len(job[w]) - Len(queue[w]), s \in Service : status'[job[w][i]][s] # "none"
  BY <1>3 DEF WorkerInv, Grows
<1>7. pc'[w] \in AtService => \A j \in 1 .. at[w] - 1 : status'[U(w)][Services[j]] # "none"
  BY <1>4, <1>5 DEF WorkerInv, Grows
<1>9. /\ Len(queue[w]) <= Len(job[w])
      /\ \A i \in 1..Len(queue[w]) : queue[w][i] = job[w][Len(job[w]) - Len(queue[w]) + i]
  BY DEF WorkerInv
<1>10. pc'[w] \in AtService => \A j \in 1 .. at'[w] - 1 : status'[U(w)'][Services[j]] # "none"
  BY <1>1, <1>7
<1> QED
  BY <1>6, <1>9, <1>10 DEF WorkerInv

(* A worker before the first service of the first user of its task.        *)
LEMMA Begins ==
  ASSUME TypeInv', NEW w \in Worker, queue'[w] = job'[w], at'[w] = 1 \/ pc'[w] \notin AtService,
         pc'[w] \in {"bundle", "list", "raised"}
  PROVE  WorkerInv(w)'
<1>1. /\ job'[w] \in Seq(User) /\ Len(job'[w]) \in Nat
      /\ Len(job'[w]) - Len(queue'[w]) = 0
  BY DEF TypeInv, TypeOK
<1> QED
  BY <1>1 DEF WorkerInv, AtService, Certain

(* An action that leaves the status rows alone and forgets no cached row,  *)
(* of a worker w that ends with WorkerInv.                                 *)
LEMMA RowsKept ==
  ASSUME IInv, TypeInv', NEW w \in Worker, UNCHANGED status,
         \A u \in User, s \in Service : Cached(u, s) => Cached(u, s)',
         \A d \in Worker \ {w} : UNCHANGED <<pc[d], job[d], queue[d], at[d], hashed[d], listed[d]>>,
         Grows => WorkerInv(w)'
  PROVE  IInv'
<1>1. Grows
  BY DEF Grows
<1>2. \A d \in Worker \ {w} : WorkerInv(d)'
  BY <1>1, Untouched DEF IInv
<1>3. \A d \in Worker : WorkerInv(d)'
  BY <1>1, <1>2
<1>4. IdleMeansStored'
  BY DEF IInv, IdleMeansStored, Cached
<1> QED
  BY <1>3, <1>4 DEF IInv

LEMMA StartInv ==
  ASSUME IInv, TypeInv', NEW w \in Worker, NEW users, Start(w, users)
  PROVE  IInv'
<1> USE DEF IInv, TypeInv, TypeOK
<1>1. job'[w] = users /\ queue'[w] = users /\ pc'[w] = "bundle"
  BY DEF Start
<1>2. WorkerInv(w)'
  BY <1>1, Begins DEF AtService
<1>3. \A d \in Worker \ {w} : UNCHANGED <<pc[d], job[d], queue[d], at[d], hashed[d], listed[d]>>
  BY DEF Start
<1>4. UNCHANGED <<status, cache, onPage>>
  BY DEF Start
<1>5. \A u \in User, s \in Service : Cached(u, s) => Cached(u, s)'
  BY <1>4 DEF Cached
<1> QED
  BY ONLY <1>2, <1>3, <1>4, <1>5, RowsKept, IInv, TypeInv'

LEMMA GetBundleInv ==
  ASSUME IInv, TypeInv', NEW w \in Worker, GetBundle(w)
  PROVE  IInv'
<1>1. /\ pc[w] = "bundle" /\ pc'[w] = "list" /\ at'[w] = 1
      /\ UNCHANGED <<status, cache, onPage, job, queue, hashed, listed>>
  BY DEF GetBundle, IInv, TypeInv, TypeOK
<1>2. \A d \in Worker \ {w} : UNCHANGED <<pc[d], job[d], queue[d], at[d], hashed[d], listed[d]>>
  BY DEF GetBundle, IInv, TypeInv, TypeOK
<1>3. WorkerInv(w)'
  <2>1. WorkerInv(w)
    BY DEF IInv
  <2>2. \A j \in 1 .. at'[w] - 1 : FALSE
    BY <1>1
  <2>3. /\ UNCHANGED <<job[w], queue[w], status>> /\ pc'[w] # "returned"
    BY <1>1
  <2>4. ~Certain(w)'
    BY <1>1 DEF Certain
  <2> QED
    BY <2>1, <2>2, <2>3, <2>4 DEF WorkerInv
<1>4. \A u \in User, s \in Service : Cached(u, s) => Cached(u, s)'
  BY <1>1 DEF Cached
<1> QED
  BY <1>1, <1>2, <1>3, <1>4, RowsKept

(* An action that neither ends the task nor moves on in it.                *)
LEMMA InPlace ==
  ASSUME IInv, TypeInv', NEW w \in Worker, UNCHANGED <<status, job, queue>>,
         \A u \in User, s \in Service : Cached(u, s) => Cached(u, s)',
         \A d \in Worker \ {w} : UNCHANGED <<pc[d], at[d], hashed[d], listed[d]>>,
         pc'[w] # "returned",
         pc'[w] \in AtService => pc[w] \in AtService /\ at'[w] = at[w],
         Certain(w)' => Cached(U(w), S(w))'
  PROVE  IInv'
<1>1. ASSUME Grows PROVE WorkerInv(w)'
  <2>1. TypeInv /\ WorkerInv(w) /\ UNCHANGED <<job[w], queue[w]>>
    BY DEF IInv
  <2> QED
    BY <1>1, <2>1, Stays
<1>2. \A d \in Worker \ {w} : UNCHANGED <<pc[d], job[d], queue[d], at[d], hashed[d], listed[d]>>
  OBVIOUS
<1> QED
  BY <1>1, <1>2, RowsKept

LEMMA CommitInv ==
  ASSUME IInv, TypeInv', NEW w \in Worker, Commit(w)
  PROVE  IInv'
<1>1. /\ pc[w] = "commit" /\ pc'[w] = "idleSelect" /\ UNCHANGED <<status, job, queue, at, onPage>>
      /\ cache' = Stored(w)
      /\ \A d \in Worker \ {w} : UNCHANGED <<pc[d], at[d], hashed[d], listed[d]>>
  BY DEF Commit, IInv, TypeInv, TypeOK
<1>2. /\ U(w) \in User /\ S(w) \in Service
      /\ \A v \in User, t \in Service :
             cache'[v][t] = IF Changed(w) /\ v = U(w) /\ t = S(w) THEN listed[w]
                            ELSE cache[v][t]
      /\ Changed(w) => listed[w] # NoRow
  BY <1>1, InService, StoredRow DEF IInv
<1>3. Cached(U(w), S(w))'
  <2>1. U(w)' = U(w) /\ S(w)' = S(w)
    BY <1>1 DEF U, S
  <2>2. CASE Changed(w)
    BY <1>2, <2>1, <2>2 DEF Cached
  <2>3. CASE ~Changed(w)
    <3>1. Certain(w)
      BY <1>1, <2>3 DEF Certain, Changed
    <3>2. Cached(U(w), S(w))
      BY <3>1 DEF IInv, WorkerInv
    <3> QED
      BY <1>1, <1>2, <2>1, <2>3, <3>2 DEF Cached
  <2> QED
    BY <2>2, <2>3
<1>4. \A u \in User, s \in Service : Cached(u, s) => Cached(u, s)'
  BY <1>1, <1>2 DEF Cached
<1>5. Certain(w)' => Cached(U(w), S(w))'
  BY <1>3
<1> QED
  BY <1>1, <1>4, <1>5, InPlace DEF AtService

LEMMA ServiceFailsInv ==
  ASSUME IInv, TypeInv', NEW w \in Worker, ServiceFails(w)
  PROVE  IInv'
<1>1. /\ pc[w] \in AtService /\ pc'[w] = "errorSelect"
      /\ UNCHANGED <<status, job, queue, at, onPage>>
      /\ \A d \in Worker \ {w} : UNCHANGED <<pc[d], at[d], hashed[d], listed[d]>>
  BY DEF ServiceFails, IInv, TypeInv, TypeOK, AtService
<1>2. \A u \in User, s \in Service : cache[u][s] # NoRow => cache'[u][s] # NoRow
  <2>1. CASE cache' = cache
    BY <2>1
  <2>2. CASE pc[w] = "commit" /\ cache' = Stored(w)
    BY <2>2, StoredRow DEF IInv
  <2> QED
    BY <2>1, <2>2 DEF ServiceFails
<1>3. \A u \in User, s \in Service : Cached(u, s) => Cached(u, s)'
  BY <1>1, <1>2 DEF Cached
<1>4. ~Certain(w)'
  BY <1>1 DEF Certain
<1> QED
  BY <1>1, <1>3, <1>4, InPlace DEF AtService

LEMMA StatusRaisesInv ==
  ASSUME IInv, TypeInv', NEW w \in Worker, StatusRaises(w), Leave(w),
         pc[w] \in {"idleSelect", "idleWrite", "errorSelect", "errorWrite"},
         UNCHANGED <<world, tables, job, queue, at>>
  PROVE  IInv'
<1>1. /\ pc[w] \in AtService /\ pc'[w] \in {"errorSelect", "raised"}
      /\ \A d \in Worker \ {w} : UNCHANGED <<pc[d], at[d], hashed[d], listed[d]>>
  BY DEF StatusRaises, IInv, TypeInv, TypeOK, AtService
<1>2. \A u \in User, s \in Service : Cached(u, s) => Cached(u, s)'
  BY DEF Cached
<1>3. ~Certain(w)'
  BY <1>1 DEF Certain
<1> QED
  BY <1>1, <1>2, <1>3, InPlace DEF AtService

LEMMA DieInv ==
  ASSUME IInv, TypeInv', NEW w \in Worker, Die(w)
  PROVE  IInv'
<1>1. /\ UNCHANGED <<status, cache, onPage, job>>
      /\ \A d \in Worker \ {w} : UNCHANGED <<pc[d], job[d], queue[d], at[d], hashed[d], listed[d]>>
  BY DEF Die, IInv, TypeInv, TypeOK
<1>4. \A u \in User, s \in Service : Cached(u, s) => Cached(u, s)'
  BY <1>1 DEF Cached
<1>2. CASE pc' = [pc EXCEPT ![w] = "bundle"] /\ queue' = [queue EXCEPT ![w] = job[w]]
  <2>1. pc'[w] = "bundle" /\ queue'[w] = job'[w]
    BY <1>1, <1>2 DEF IInv, TypeInv, TypeOK
  <2>2. WorkerInv(w)'
    BY <2>1, Begins DEF AtService
  <2> QED
    BY <1>1, <1>4, <2>2, RowsKept
<1>3. CASE pc' = [pc EXCEPT ![w] = "lost"] /\ UNCHANGED queue
  <2>1. pc'[w] = "lost"
    BY <1>3 DEF IInv, TypeInv, TypeOK
  <2>2. ~Certain(w)'
    BY <2>1 DEF Certain
  <2> QED
    BY <1>1, <1>3, <1>4, <2>1, <2>2, InPlace DEF AtService
<1> QED
  BY <1>2, <1>3 DEF Die

(* The user or the service before the next is done with.                   *)
LEMMA WriteStatusInv ==
  ASSUME IInv, TypeInv', NEW w \in Worker, WriteStatus(w)
  PROVE  IInv'
<1>1. /\ pc[w] \in {"idleWrite", "errorWrite"} /\ Leave(w)
      /\ UNCHANGED <<world, cache, job>>
  BY DEF WriteStatus
<1>2. CASE StatusRaises(w) /\ UNCHANGED <<status, queue, at>>
  BY <1>1, <1>2, StatusRaisesInv
<1>3. CASE status' = [status EXCEPT ![U(w)][S(w)] = State(w)] /\ Continue(w)
  <2>1. U(w) \in User /\ S(w) \in Service /\ at[w] \in 1..Len(Services)
    BY <1>1, InService DEF IInv
  <2>2. State(w) \in {"idle", "error"} /\ (State(w) = "idle" => pc[w] = "idleWrite")
    BY <1>1 DEF State
  <2>3. \A v \in User, t \in Service :
            status'[v][t] = IF v = U(w) /\ t = S(w) THEN State(w) ELSE status[v][t]
    <3>1. status \in [User -> [Service -> {"none", "idle", "error"}]]
      BY DEF IInv, TypeInv, TypeOK
    <3>2. State(w) \in {"none", "idle", "error"}
      BY <2>2
    <3> QED
      BY ONLY <1>3, <2>1, <3>1, <3>2, Updated
  <2>4. Grows
    BY <1>1, <2>2, <2>3 DEF Grows, Cached
  <2>5. IdleMeansStored'
    <3>1. State(w) = "idle" => Cached(U(w), S(w))
      BY <2>2 DEF IInv, WorkerInv, Certain
    <3> QED
      BY <1>1, <2>3, <3>1 DEF IInv, IdleMeansStored, Cached
  <2>6. /\ \A d \in Worker \ {w} : UNCHANGED <<pc[d], at[d], queue[d]>>
        /\ \/ /\ at[w] < Len(Services) /\ at'[w] = at[w] + 1 /\ pc'[w] = "list"
              /\ queue'[w] = queue[w]
           \/ /\ at[w] = Len(Services) /\ at'[w] = 1 /\ queue'[w] = Tail(queue[w])
              /\ \/ pc'[w] = "bundle" /\ queue'[w] # <<>>
                 \/ pc'[w] = "returned" /\ queue'[w] = <<>>
    <3>1. TypeInv
      BY DEF IInv
    <3> QED
      BY ONLY <1>1, <1>3, <3>1, ContinueType
  <2>7. \A d \in Worker \ {w} : WorkerInv(d)'
    <3>1. \A d \in Worker \ {w} : UNCHANGED <<pc[d], job[d], queue[d], at[d], hashed[d], listed[d]>>
      BY <1>1, <2>6 DEF IInv, TypeInv, TypeOK
    <3> QED
      BY <2>4, <3>1, Untouched DEF IInv
  <2>8. WorkerInv(w)'
    <3>1. /\ job[w] \in Seq(User) /\ queue[w] \in Seq(User) /\ queue[w] # <<>>
          /\ Len(job[w]) \in Nat /\ Len(queue[w]) \in Nat
      <4>1. queue[w] \in Seq(User) /\ queue[w] # <<>>
        BY <1>1, InService DEF IInv
      <4>2. job[w] \in Seq(User)
        BY DEF IInv, TypeInv, TypeOK
      <4> QED
        BY ONLY <4>1, <4>2
    <3>2. WorkerInv(w)
      BY DEF IInv
    <3>3. \A j \in 1..at[w] : status'[U(w)][Services[j]] # "none"
      <4>1. \A j \in 1 .. at[w] - 1 : status[U(w)][Services[j]] # "none"
        BY <1>1, <3>2 DEF WorkerInv, AtService
      <4>2. \A j \in 1..at[w] : j = at[w] \/ j \in 1 .. at[w] - 1
        BY <2>1, LenServices
      <4>3. \A j \in 1..at[w] : Services[j] \in Service
        BY <2>1, ServiceAt, LenServices
      <4>4. status'[U(w)][Services[at[w]]] # "none"
        BY <2>1, <2>2, <2>3 DEF S
      <4> QED
        BY <2>1, <2>4, <4>1, <4>2, <4>3, <4>4 DEF Grows
    <3>4. \A i \in 1 .. Len(job[w]) - Len(queue[w]), s \in Service :
              status'[job[w][i]][s] # "none"
      <4>1. \A i \in 1 .. Len(job[w]) - Len(queue[w]) : job[w][i] \in User
        BY ONLY <3>1
      <4> QED
        BY <2>4, <3>2, <4>1 DEF WorkerInv, Grows
    <3>5. CASE /\ at[w] < Len(Services) /\ at'[w] = at[w] + 1 /\ pc'[w] = "list"
               /\ queue'[w] = queue[w]
      <4>1. at'[w] - 1 = at[w] /\ U(w)' = U(w) /\ job'[w] = job[w]
        BY <1>1, <2>1, <3>5, LenServices DEF U
      <4>2. ~Certain(w)'
        BY <3>5 DEF Certain
      <4> QED
        BY <3>2, <3>3, <3>4, <3>5, <4>1, <4>2 DEF WorkerInv
    <3>6. CASE /\ at[w] = Len(Services) /\ queue'[w] = Tail(queue[w])
               /\ \/ pc'[w] = "bundle"
                  \/ pc'[w] = "returned" /\ queue'[w] = <<>>
      <4>1. \A s \in Service : status'[U(w)][s] # "none"
        BY <3>3, <3>6 DEF Service
      <4>2. /\ U(w) = queue[w][1] /\ Len(queue'[w]) = Len(queue[w]) - 1
            /\ \A i \in 1 .. Len(queue[w]) - 1 : queue'[w][i] = queue[w][i + 1]
            /\ Len(queue[w]) \in Nat \ {0}
        BY <3>1, <3>6, FirstOfMany DEF U
      <4>3. Len(queue[w]) <= Len(job[w])
        BY <3>2 DEF WorkerInv
      <4>4. \A i \in 1..Len(queue[w]) : queue[w][i] = job[w][Len(job[w]) - Len(queue[w]) + i]
        BY <3>2 DEF WorkerInv
      <4>5. U(w) = job[w][Len(job[w]) - Len(queue'[w])]
        <5>1. Len(job[w]) - Len(queue[w]) + 1 = Len(job[w]) - Len(queue'[w])
          BY ONLY <3>1, <4>2
        <5>2. 1 \in 1..Len(queue[w])
          BY ONLY <4>2
        <5> QED
          BY ONLY <4>2, <4>4, <5>1, <5>2
      <4>6. \A i \in 1..Len(queue'[w]) :
                queue'[w][i] = job[w][Len(job[w]) - Len(queue'[w]) + i]
        <5>1. \A i \in 1..Len(queue'[w]) :
                  /\ i \in 1 .. Len(queue[w]) - 1 /\ i + 1 \in 1..Len(queue[w])
                  /\ Len(job[w]) - Len(queue[w]) + (i + 1) = Len(job[w]) - Len(queue'[w]) + i
          BY ONLY <3>1, <4>2, LastOfMany
        <5> QED
          BY ONLY <4>2, <4>4, <5>1
      <4>7. \A i \in 1 .. Len(job[w]) - Len(queue'[w]), s \in Service :
                status'[job[w][i]][s] # "none"
        <5>1. \A i \in 1 .. Len(job[w]) - Len(queue'[w]) :
                  \/ i \in 1 .. Len(job[w]) - Len(queue[w])
                  \/ i = Len(job[w]) - Len(queue'[w])
          BY ONLY <3>1, <4>2, LastOfMany
        <5> QED
          BY ONLY <3>4, <4>1, <4>5, <5>1
      <4>8. Len(queue'[w]) <= Len(job[w]) /\ job'[w] = job[w] /\ pc'[w] \notin AtService
        BY <1>1, <3>1, <3>6, <4>2, <4>3 DEF AtService
      <4>9. pc'[w] = "returned" => queue'[w] = <<>>
        BY <3>6
      <4>10. ~Certain(w)'
        BY <3>6 DEF Certain
      <4> QED
        BY <4>6, <4>7, <4>8, <4>9, <4>10 DEF WorkerInv
    <3> QED
      BY <2>6, <3>5, <3>6
  <2> QED
    BY <2>5, <2>7, <2>8 DEF IInv
<1> QED
  BY <1>2, <1>3 DEF WriteStatus

LEMMA StepInv == IInv /\ [Next]_vars => IInv'
<1> SUFFICES ASSUME IInv, [Next]_vars PROVE IInv'
  OBVIOUS
<1>t. TypeInv'
  BY TypeStep DEF IInv
<1> USE <1>t
<1>1. ASSUME UNCHANGED <<tables, pc, locals>>,
             \A u \in User, s \in Service : onPage'[u][s] => onPage[u][s]
      PROVE  IInv'
  <2>1. Grows
    BY <1>1 DEF Grows, Cached
  <2>2. \A d \in Worker : WorkerInv(d)'
    BY <1>1, <2>1, Untouched DEF IInv
  <2>3. IdleMeansStored'
    BY <1>1 DEF IInv, IdleMeansStored
  <2> QED
    BY <2>2, <2>3 DEF IInv
<1>p. UNCHANGED <<onPage, cache>> => \A u \in User, s \in Service : Cached(u, s) => Cached(u, s)'
  BY DEF Cached
<1>2. ASSUME NEW w \in Worker, StartAll(w) \/ StartOne(w) PROVE IInv'
  BY <1>2, StartInv DEF StartAll, StartOne
<1>3. ASSUME NEW w \in Worker, BundleFails(w) PROVE IInv'
  <2>1. /\ pc'[w] = "raised" /\ UNCHANGED <<world, tables, locals>>
        /\ \A d \in Worker \ {w} : UNCHANGED pc[d]
    BY <1>3 DEF BundleFails, IInv, TypeInv, TypeOK
  <2>2. ~Certain(w)'
    BY <2>1 DEF Certain
  <2> QED
    BY <1>p, <2>1, <2>2, InPlace DEF AtService
<1>4. ASSUME NEW w \in Worker, List(w) PROVE IInv'
  <2>1. /\ pc[w] = "list" /\ pc'[w] = "hashes"
        /\ UNCHANGED <<world, tables, job, queue, at, hashed>>
        /\ \A d \in Worker \ {w} : UNCHANGED <<pc[d], listed[d]>>
        /\ listed'[w] = IF onPage[U(w)][S(w)] THEN google[U(w)][S(w)] ELSE NoRow
    BY <1>4 DEF List, IInv, TypeInv, TypeOK
  <2>2. Certain(w)' => Cached(U(w), S(w))'
    <3>1. U(w) \in User /\ S(w) \in Service /\ U(w)' = U(w) /\ S(w)' = S(w)
      BY <2>1, InService DEF IInv, U, S
    <3>2. google[U(w)][S(w)] # NoRow
      BY <3>1, SyncAssumption DEF IInv, TypeInv, TypeOK, Item, NoRow
    <3> QED
      BY <2>1, <3>1, <3>2 DEF Certain, Cached
  <2> QED
    BY <1>p, <2>1, <2>2, InPlace DEF AtService
<1>5. ASSUME NEW w \in Worker, ListOnOldLoop(w) PROVE IInv'
  <2>1. /\ pc[w] = "list" /\ pc'[w] = "errorSelect" /\ UNCHANGED <<world, tables, locals>>
        /\ \A d \in Worker \ {w} : UNCHANGED pc[d]
    BY <1>5 DEF ListOnOldLoop, IInv, TypeInv, TypeOK
  <2>2. ~Certain(w)'
    BY <2>1 DEF Certain
  <2> QED
    BY <1>p, <2>1, <2>2, InPlace DEF AtService
<1>6. ASSUME NEW w \in Worker, ReadHashes(w) PROVE IInv'
  <2>1. /\ pc[w] = "hashes" /\ pc'[w] = "commit"
        /\ UNCHANGED <<world, tables, job, queue, at, listed>>
        /\ hashed'[w] = cache[U(w)][S(w)]
        /\ \A d \in Worker \ {w} : UNCHANGED <<pc[d], hashed[d]>>
    BY <1>6 DEF ReadHashes, IInv, TypeInv, TypeOK
  <2>2. Certain(w)' => Cached(U(w), S(w))'
    <3>1. U(w)' = U(w) /\ S(w)' = S(w)
      BY <2>1 DEF U, S
    <3>2. listed[w] = NoRow => Cached(U(w), S(w))
      BY <2>1 DEF Certain, IInv, WorkerInv
    <3> QED
      BY <2>1, <3>1, <3>2 DEF Certain, Cached
  <2> QED
    BY <1>p, <2>1, <2>2, InPlace DEF AtService
<1>7. ASSUME NEW w \in Worker, SelectStatus(w) PROVE IInv'
  <2>1. /\ UNCHANGED <<world, tables, job, queue, at, hashed, listed>>
        /\ \A d \in Worker \ {w} : UNCHANGED pc[d]
    BY <1>7 DEF SelectStatus, IInv, TypeInv, TypeOK
  <2>2. \/ pc[w] = "idleSelect" /\ pc'[w] = "idleWrite"
        \/ pc[w] = "errorSelect" /\ pc'[w] = "errorWrite"
    BY <1>7 DEF SelectStatus, State, IInv, TypeInv, TypeOK
  <2>3. Certain(w)' => Cached(U(w), S(w))'
    <3>1. U(w)' = U(w) /\ S(w)' = S(w)
      BY <2>1 DEF U, S
    <3>2. pc[w] = "idleSelect" => Cached(U(w), S(w))
      BY DEF IInv, WorkerInv, Certain
    <3> QED
      BY <2>1, <2>2, <3>1, <3>2 DEF Certain, Cached
  <2> QED
    BY <1>p, <2>1, <2>2, <2>3, InPlace DEF AtService
<1>8. ASSUME NEW w \in Worker, StatusFails(w) PROVE IInv'
  BY <1>8, StatusRaisesInv DEF StatusFails
<1>9. ASSUME NEW u \in User, NEW s \in Service, Edit(u, s) PROVE IInv'
  BY <1>1, <1>9 DEF Edit
<1>11. ASSUME NEW u \in User, NEW s \in Service, Displace(u, s) PROVE IInv'
  <2>1. \A v \in User, t \in Service : onPage'[v][t] => onPage[v][t]
    <3>1. onPage \in [User -> [Service -> BOOLEAN]] /\ FALSE \in BOOLEAN
      BY DEF IInv, TypeInv, TypeOK
    <3>2. onPage' = [onPage EXCEPT ![u][s] = FALSE]
      BY <1>11 DEF Displace
    <3> QED
      BY ONLY <3>1, <3>2, Updated
  <2> QED
    BY <1>1, <1>11, <2>1 DEF Displace
<1>10. CASE UNCHANGED vars
  BY <1>1, <1>10 DEF vars
<1> QED
  BY <1>2, <1>3, <1>4, <1>5, <1>6, <1>7, <1>8, <1>9, <1>10, <1>11, GetBundleInv, CommitInv,
     ServiceFailsInv, WriteStatusInv, DieInv
  DEF Next, Work, Fail

(* Whatever a worker has left behind it is reported, and what it is about  *)
(* to call stored is stored.                                               *)
THEOREM Invariance == Spec => []IInv
  BY InvInit, StepInv, PTL DEF Spec

(* A status of idle is never ahead of the rows it speaks of: the worker    *)
(* that writes it has committed them, and no other ever takes them away.   *)
THEOREM StatusIsHonest == Spec => []IdleMeansStored
<1>1. IInv => IdleMeansStored
  BY DEF IInv
<1> QED
  BY <1>1, Invariance, PTL

(* A task that returns has reported on every service of all its users,     *)
(* however often it was started again and whatever failed.                 *)
THEOREM ReturnsWhenReported == Spec => []ReturnedMeansReported
<1>1. IInv => ReturnedMeansReported
  <2> SUFFICES ASSUME IInv, NEW w \in Worker, pc[w] = "returned"
               PROVE  \A i \in 1..Len(job[w]), s \in Service : status[job[w][i]][s] # "none"
    BY DEF ReturnedMeansReported
  <2>1. WorkerInv(w) /\ queue[w] = <<>> /\ Len(job[w]) \in Nat
    BY DEF IInv, WorkerInv, TypeInv, TypeOK
  <2>2. Len(job[w]) - Len(queue[w]) = Len(job[w])
    BY <2>1
  <2> QED
    BY <2>1, <2>2 DEF WorkerInv
<1> QED
  BY <1>1, Invariance, PTL
=============================================================================
