------------------------------ MODULE ApiProofs ------------------------------
(***************************************************************************)
(* Api, for any number of clients and of requests, callbacks and failures  *)
(* and a pool of any size: what a callback stored survives whoever else    *)
(* commits, a query that sets out keeps a token that lives as long as its  *)
(* run, and queries never wait for each other's connections in a circle.   *)
(***************************************************************************)
EXTENDS Api, TLAPS, FiniteSetTheorems

Place == {"idle", "closed", "lookup", "insert", "reload", "limit", "history", "classify",
          "model", "credentials", "commit", "run", "save", "readback", "trigger", "services"}

ApiType ==
    /\ row \in User \cup {None} /\ grants \in Grant
    /\ pc \in [Client -> Place]
    /\ user \in [Client -> User \cup {None}]
    /\ age \in [Client -> Nat]

(* Where a request needs the user that its session has loaded.             *)
WithUser == {"trigger", "limit", "history", "classify", "model", "credentials", "commit", "run"}

(* A user is loaded from a row that exists, and since its tokens were      *)
(* looked at no more time has passed than the access token has lost.       *)
ClientInv(c) ==
    /\ user[c] # None \/ pc[c] = "reload" => row # None
    /\ pc[c] \in WithUser => user[c] # None
    /\ Busy(c) => user[c].left + age[c] > Buffer /\ age[c] <= RunTime

IInv == /\ ApiType
        /\ row = None => grants = 0
        /\ NoCallbackIsLost
        /\ \A c \in Client : ClientInv(c)

USE DEF shared, GoTo, Loads, Holds

-----------------------------------------------------------------------------
LEMMA NewUserIsUser == NewUser \in User /\ NewUser.refresh = 0 /\ NewUser # None
<1>1. NewUser \in User
  BY ApiAssumption DEF NewUser, Linked, User, Grant
<1>2. NewUser.refresh = 0
  BY DEF NewUser, Linked
<1> QED
  BY <1>1, <1>2, NoneAssumption

(* A client of which nothing changes keeps its part of the invariant while *)
(* the row exists.                                                         *)
LEMMA Untouched ==
  ASSUME NEW d, ClientInv(d), row # None => row' # None, UNCHANGED <<pc[d], user[d], age[d]>>
  PROVE  ClientInv(d)'
  BY DEF ClientInv, Busy

(* One client moves on, and the row stays as it is.                        *)
LEMMA OneMoves ==
  ASSUME IInv, UNCHANGED <<row, grants, age>>, NEW c \in Client,
         NEW place \in Place \ {"commit", "run"}, GoTo(c, place),
         NEW u \in User \cup {None}, Loads(c, u),
         u # None \/ place = "reload" => row # None,
         place \in WithUser => u # None
  PROVE  IInv'
<1>1. ApiType'
  BY DEF IInv, ApiType
<1>2. ASSUME NEW d \in Client, d # c PROVE ClientInv(d)'
  BY <1>2, Untouched DEF IInv, ApiType
<1>3. ClientInv(c)'
  <2>1. pc'[c] = place /\ user'[c] = u
    BY DEF IInv, ApiType
  <2> QED
    BY <2>1 DEF ClientInv, Busy
<1> QED
  BY <1>1, <1>2, <1>3 DEF IInv, NoCallbackIsLost

LEMMA ClosesInv ==
  ASSUME IInv, UNCHANGED <<row, grants, age>>, NEW c \in Client, Closes(c)
  PROVE  IInv'
<1> DEFINE place == IF c \in Socket THEN "closed" ELSE "idle"
<1>1. place \in Place \ {"commit", "run"} /\ place # "reload" /\ place \notin WithUser
  BY DEF Place, WithUser
<1>2. GoTo(c, place) /\ Loads(c, None)
  BY DEF Closes
<1> HIDE DEF place
<1> QED
  BY <1>1, <1>2, OneMoves

LEMMA GoesInv ==
  ASSUME IInv, UNCHANGED <<row, grants, age, user>>, NEW c \in Client,
         NEW place \in Place \ {"commit", "run"}, GoTo(c, place),
         place # "reload",
         place \in WithUser => pc[c] \in WithUser \/ user[c] # None
  PROVE  IInv'
<1> DEFINE u == user[c]
<1>1. u \in User \cup {None} /\ Loads(c, u)
  BY DEF IInv, ApiType
<1>2. (u # None => row # None) /\ (place \in WithUser => u # None)
  BY DEF IInv, ClientInv
<1> HIDE DEF u
<1> QED
  BY <1>1, <1>2, OneMoves

LEMMA LoadsRowInv ==
  ASSUME IInv, UNCHANGED <<row, grants, age>>, NEW c \in Client, row # None, Loads(c, row),
         NEW place \in Place \ {"commit", "run"}, GoTo(c, place)
  PROVE  IInv'
<1> DEFINE u == row
<1>1. u \in User \cup {None} /\ u # None /\ row # None /\ Loads(c, u)
  BY DEF IInv, ApiType
<1> HIDE DEF u
<1> QED
  BY <1>1, OneMoves

-----------------------------------------------------------------------------
LEMMA InitInv == Init => IInv
<1> SUFFICES ASSUME Init PROVE IInv
  OBVIOUS
<1>1. /\ row \in User \cup {None} /\ grants \in Grant
      /\ (row = None => grants = 0) /\ NoCallbackIsLost
  <2>1. CASE row = None /\ grants = 0
    BY <2>1, ApiAssumption DEF Grant, NoCallbackIsLost
  <2>2. CASE row = Linked(1, Life) /\ grants = 1
    <3>1. 0 <= Life /\ Life \in Nat /\ 1 \in Grant
      BY ApiAssumption DEF Grant
    <3>2. row \in User /\ row.refresh = 1
      BY <2>2, <3>1 DEF Linked, User
    <3> QED
      BY <2>2, <3>1, <3>2, NoneAssumption DEF NoCallbackIsLost
  <2> QED
    BY <2>1, <2>2 DEF Init
<1>2. ApiType
  BY <1>1 DEF Init, ApiType, Place
<1>3. ASSUME NEW c \in Client PROVE ClientInv(c)
  BY DEF Init, ClientInv, Busy, WithUser
<1> QED
  BY <1>1, <1>2, <1>3 DEF IInv

LEMMA AskInv ==
  ASSUME IInv, NEW c \in Client, Ask(c)
  PROVE  IInv'
  BY GoesInv DEF Ask, Place, WithUser

LEMMA DisconnectInv ==
  ASSUME IInv, NEW c \in Client, Disconnect(c)
  PROVE  IInv'
  BY ClosesInv DEF Disconnect

LEMMA LookUpInv ==
  ASSUME IInv, NEW c \in Client, LookUp(c)
  PROVE  IInv'
<1> DEFINE next == IF c \in Trigger THEN "trigger" ELSE "limit"
<1>1. next \in Place \ {"commit", "run"} /\ next # "reload"
  BY DEF Place
<1>2. (Continues(c) => GoTo(c, next)) /\ UNCHANGED <<row, grants, age>>
  BY DEF LookUp, Continues
<1> HIDE DEF next
<1>3. CASE user[c] # None
  <2>1. UNCHANGED user /\ GoTo(c, next)
    BY <1>2, <1>3 DEF LookUp
  <2> QED
    BY <1>1, <1>2, <1>3, <2>1, GoesInv
<1>4. CASE user[c] = None /\ row = None
  <2>1. UNCHANGED user /\ GoTo(c, "insert")
    BY <1>4 DEF LookUp
  <2> QED
    BY <1>2, <2>1, GoesInv DEF Place, WithUser
<1>5. CASE user[c] = None /\ row # None
  <2>1. Loads(c, row) /\ GoTo(c, next)
    BY <1>2, <1>5 DEF LookUp
  <2> QED
    BY <1>1, <1>2, <1>5, <2>1, LoadsRowInv
<1> QED
  BY <1>3, <1>4, <1>5

LEMMA InsertUserInv ==
  ASSUME IInv, NEW c \in Client, InsertUser(c)
  PROVE  IInv'
<1>1. CASE row = None
  <2>0. row' = NewUser /\ pc' = [pc EXCEPT ![c] = "reload"] /\ UNCHANGED <<user, grants, age>>
    BY <1>1 DEF InsertUser
  <2>1. grants = 0 /\ row' \in User /\ row' # None /\ row'.refresh = 0
    BY <1>1, <2>0, NewUserIsUser DEF IInv
  <2>2. ApiType'
    BY <2>0, <2>1 DEF IInv, ApiType, Place
  <2>3. ASSUME NEW d \in Client, d # c PROVE ClientInv(d)'
    BY <2>0, <2>1, <2>3, Untouched DEF IInv, ApiType
  <2>4. ClientInv(c)'
    BY <2>0, <2>1 DEF IInv, ApiType, ClientInv, Busy, WithUser
  <2> QED
    BY <2>0, <2>1, <2>2, <2>3, <2>4 DEF IInv, NoCallbackIsLost
<1>2. CASE row # None
  BY <1>2, ClosesInv DEF InsertUser
<1> QED
  BY <1>1, <1>2

LEMMA ReloadInv ==
  ASSUME IInv, NEW c \in Client, Reload(c)
  PROVE  IInv'
<1> DEFINE next == IF c \in Trigger THEN "trigger" ELSE "limit"
<1>1. next \in Place \ {"commit", "run"} /\ GoTo(c, next)
  BY DEF Place, Reload, Continues
<1>2. row # None /\ Loads(c, row) /\ UNCHANGED <<row, grants, age>>
  BY DEF Reload, IInv, ClientInv
<1> HIDE DEF next
<1> QED
  BY <1>1, <1>2, LoadsRowInv

LEMMA RepliesInv ==
  ASSUME IInv, UNCHANGED <<row, grants, age>>, NEW c \in Client, Replies(c)
  PROVE  IInv'
<1>1. CASE c \in Socket
  BY <1>1, GoesInv DEF Replies, Place, WithUser
<1>2. CASE c \notin Socket
  BY <1>2, ClosesInv DEF Replies
<1> QED
  BY <1>1, <1>2

LEMMA LimitInv ==
  ASSUME IInv, NEW c \in Client, Limit(c)
  PROVE  IInv'
<1>1. UNCHANGED <<row, grants, age>> /\ pc[c] \in WithUser
  BY DEF Limit, WithUser
<1>2. CASE GoTo(c, "history") /\ UNCHANGED user
  BY <1>1, <1>2, GoesInv DEF Place
<1> QED
  BY <1>1, <1>2, RepliesInv, ClosesInv DEF Limit

LEMMA ReadHistoryInv ==
  ASSUME IInv, NEW c \in Client, ReadHistory(c)
  PROVE  IInv'
  BY GoesInv DEF ReadHistory, Place, WithUser

LEMMA ReadCacheInv ==
  ASSUME IInv, NEW c \in Client, ReadCache(c)
  PROVE  IInv'
<1>1. UNCHANGED <<row, grants, age>> /\ pc[c] \in WithUser
  BY DEF ReadCache, WithUser
<1>2. CASE GoTo(c, "model") /\ UNCHANGED user
  BY <1>1, <1>2, GoesInv DEF Place
<1>3. CASE GoTo(c, "credentials") /\ UNCHANGED user
  BY <1>1, <1>3, GoesInv DEF Place
<1> QED
  BY <1>1, <1>2, <1>3, ClosesInv DEF ReadCache

LEMMA AskModelInv ==
  ASSUME IInv, NEW c \in Client, AskModel(c)
  PROVE  IInv'
<1>1. UNCHANGED <<row, grants, age>> /\ pc[c] \in WithUser
  BY DEF AskModel, WithUser
<1>2. CASE GoTo(c, "credentials") /\ UNCHANGED user
  BY <1>1, <1>2, GoesInv DEF Place
<1> QED
  BY <1>1, <1>2, ClosesInv DEF AskModel

(* A query sets out with a token that lives longer than the buffer.        *)
LEMMA SetsOut ==
  ASSUME IInv, UNCHANGED <<row, grants>>, NEW c \in Client, user[c] # None,
         NEW place \in {"commit", "run"}, GoTo(c, place),
         NEW u \in User, u.left > Buffer, Loads(c, u),
         age' = [age EXCEPT ![c] = 0]
  PROVE  IInv'
<1>1. ApiType'
  BY DEF IInv, ApiType, Place
<1>2. ASSUME NEW d \in Client, d # c PROVE ClientInv(d)'
  BY <1>2, Untouched DEF IInv, ApiType
<1>3. ClientInv(c)'
  <2>1. pc'[c] = place /\ user'[c] = u /\ age'[c] = 0 /\ row' # None /\ u # None
    BY NoneAssumption DEF IInv, ApiType, ClientInv
  <2>2. u.left + 0 > Buffer /\ 0 <= RunTime
    BY ApiAssumption DEF User
  <2> QED
    BY <2>1, <2>2 DEF ClientInv, Busy
<1> QED
  BY <1>1, <1>2, <1>3 DEF IInv, NoCallbackIsLost

(* Looking at one's tokens, without setting out, changes only the clock    *)
(* that nobody reads.                                                      *)
LEMMA LooksInv ==
  ASSUME IInv, UNCHANGED <<row, grants>>, NEW c \in Client,
         NEW place \in Place \ {"commit", "run"}, place # "reload", place \notin WithUser,
         GoTo(c, place), Loads(c, None), age' \in {age, [age EXCEPT ![c] = 0]}
  PROVE  IInv'
<1>1. ApiType'
  BY DEF IInv, ApiType
<1>2. ASSUME NEW d \in Client, d # c PROVE ClientInv(d)'
  BY <1>2, Untouched DEF IInv, ApiType
<1>3. ClientInv(c)'
  <2>1. pc'[c] = place /\ user'[c] = None
    BY DEF IInv, ApiType
  <2> QED
    BY <2>1 DEF ClientInv, Busy
<1> QED
  BY <1>1, <1>2, <1>3 DEF IInv, NoCallbackIsLost

LEMMA RefreshedLives ==
  ASSUME NEW u \in User
  PROVE  Refreshed(u) \in User /\ Refreshed(u).left > Buffer
  BY ApiAssumption DEF User, Refreshed, Grant

LEMMA GetCredentialsInv ==
  ASSUME IInv, NEW c \in Client, GetCredentials(c)
  PROVE  IInv'
<1> DEFINE place == IF c \in Socket THEN "closed" ELSE "idle"
<1>1. place \in Place \ {"commit", "run"} /\ place # "reload" /\ place \notin WithUser
  BY DEF Place, WithUser
<1>2. Closes(c) => GoTo(c, place) /\ Loads(c, None)
  BY DEF Closes
<1> HIDE DEF place
<1>3. /\ UNCHANGED <<row, grants>> /\ user[c] \in User /\ user[c] # None
      /\ age' \in {age, [age EXCEPT ![c] = 0]}
  BY DEF GetCredentials, IInv, ApiType, ClientInv, WithUser
<1>4. CASE Closes(c)
  BY <1>1, <1>2, <1>3, <1>4, LooksInv
<1>5. CASE ~Closes(c)
  <2>1. age' = [age EXCEPT ![c] = 0]
    BY <1>5 DEF GetCredentials
  <2>2. CASE Loads(c, Refreshed(user[c])) /\ GoTo(c, "commit")
    BY <1>3, <2>1, <2>2, RefreshedLives, SetsOut
  <2>3. CASE ~Expiring(user[c]) /\ Proceeds(c)
    <3>1. CASE c \in Trigger
      BY <1>3, <2>3, <3>1, LooksInv DEF Proceeds, Place, WithUser
    <3>2. CASE c \notin Trigger
      <4>1. GoTo(c, "run") /\ UNCHANGED user
        BY <2>3, <3>2 DEF Proceeds
      <4>2. Loads(c, user[c])
        BY <4>1 DEF IInv, ApiType
      <4>3. user[c].left > Buffer
        BY <1>3, <2>3, ApiAssumption DEF Expiring, User
      <4> QED
        BY <1>3, <2>1, <4>1, <4>2, <4>3, SetsOut
    <3> QED
      BY <3>1, <3>2
  <2> QED
    BY <1>5, <2>2, <2>3 DEF GetCredentials
<1> QED
  BY <1>4, <1>5

LEMMA StoredIsUser ==
  ASSUME NEW u \in User, row \in User
  PROVE  Stored(u) \in User /\ Stored(u).refresh = row.refresh
  BY DEF Stored, User

LEMMA CommitTokensInv ==
  ASSUME IInv, NEW c \in Client, CommitTokens(c)
  PROVE  IInv'
<1>1. /\ user[c] \in User /\ row \in User /\ row # None /\ row.refresh = grants
      /\ row' = Stored(user[c]) /\ UNCHANGED <<grants, age>> /\ pc[c] = "commit"
  BY DEF CommitTokens, IInv, ApiType, ClientInv, WithUser, NoCallbackIsLost
<1>2. row' \in User /\ row'.refresh = grants /\ row' # None
  BY <1>1, StoredIsUser, NoneAssumption
<1>3. CASE c \in Trigger
  <2>1. pc' = [pc EXCEPT ![c] = "services"] /\ user' = [user EXCEPT ![c] = None]
    BY <1>3 DEF CommitTokens, Proceeds
  <2>2. ApiType'
    BY <1>1, <1>2, <2>1 DEF IInv, ApiType, Place
  <2>3. ASSUME NEW d \in Client, d # c PROVE ClientInv(d)'
    BY <1>1, <1>2, <2>1, <2>3, Untouched DEF IInv, ApiType
  <2>4. ClientInv(c)'
    BY <2>1 DEF IInv, ApiType, ClientInv, Busy, WithUser
  <2> QED
    BY <1>1, <1>2, <2>2, <2>3, <2>4 DEF IInv, NoCallbackIsLost
<1>4. CASE c \notin Trigger
  <2>1. pc' = [pc EXCEPT ![c] = "run"] /\ UNCHANGED user
    BY <1>4 DEF CommitTokens
  <2>2. ApiType'
    BY <1>1, <1>2, <2>1 DEF IInv, ApiType, Place
  <2>3. ASSUME NEW d \in Client, d # c PROVE ClientInv(d)'
    BY <1>1, <1>2, <2>1, <2>3, Untouched DEF IInv, ApiType
  <2>4. ClientInv(c)'
    BY <1>1, <1>2, <2>1 DEF IInv, ApiType, ClientInv, Busy, WithUser
  <2> QED
    BY <1>1, <1>2, <2>2, <2>3, <2>4 DEF IInv, NoCallbackIsLost
<1> QED
  BY <1>3, <1>4

LEMMA RunInv ==
  ASSUME IInv, NEW c \in Client, Run(c)
  PROVE  IInv'
  BY GoesInv DEF Run, Place, WithUser

LEMMA SaveInv ==
  ASSUME IInv, NEW c \in Client, Save(c)
  PROVE  IInv'
  BY GoesInv DEF Save, Place, WithUser

LEMMA AnswerInv ==
  ASSUME IInv, NEW c \in Client, Answer(c)
  PROVE  IInv'
<1>1. UNCHANGED <<row, grants, age>>
  BY DEF Answer
<1>2. CASE GoTo(c, "idle") /\ UNCHANGED user
  BY <1>1, <1>2, GoesInv DEF Place, WithUser
<1> QED
  BY <1>1, <1>2, ClosesInv DEF Answer

LEMMA GetBundleInv ==
  ASSUME IInv, NEW c \in Client, GetBundle(c)
  PROVE  IInv'
<1>1. row # None
  BY DEF GetBundle, IInv, ClientInv, WithUser
<1> QED
  BY <1>1, LoadsRowInv DEF GetBundle, Place

LEMMA EndsInv ==
  ASSUME IInv, NEW c \in Client, Enqueue(c) \/ SyncServices(c) \/ PoolTimesOut(c)
  PROVE  IInv'
  BY ClosesInv DEF Enqueue, SyncServices, PoolTimesOut

LEMMA CallbackInv ==
  ASSUME IInv, Callback
  PROVE  IInv'
<1>1. /\ grants' = grants + 1 /\ grants' \in Grant /\ row # None
      /\ row' = Linked(grants', Life) /\ UNCHANGED <<pc, user, age>>
  BY ApiAssumption DEF Callback, IInv, ApiType, Grant
<1>2. row' \in User /\ row'.refresh = grants'
  BY <1>1, ApiAssumption DEF Linked, User
<1>3. row' # None
  BY <1>2, NoneAssumption
<1>4. ApiType'
  BY <1>1, <1>2 DEF IInv, ApiType
<1>5. ASSUME NEW d \in Client PROVE ClientInv(d)'
  BY <1>1, <1>3, <1>5, Untouched DEF IInv
<1> QED
  BY <1>1, <1>2, <1>3, <1>4, <1>5 DEF IInv, NoCallbackIsLost

(* A tick later a user is what it was, with less time left.                *)
LEMMA OlderUser ==
  ASSUME NEW u \in User \cup {None}
  PROVE  /\ Older(u) \in User \cup {None}
         /\ Older(u) = None <=> u = None
         /\ u # None => /\ Older(u).refresh = u.refresh
                        /\ u.left > 0 => Older(u).left = u.left - 1
<1>1. CASE u = None \/ u.left = 0
  BY <1>1 DEF Older, User
<1>2. CASE u # None /\ u.left # 0
  <2>1. u \in User /\ u.left \in 1..Life /\ Older(u) = [u EXCEPT !.left = @ - 1]
    BY <1>2, ApiAssumption DEF Older, User
  <2>2. Older(u) \in User /\ Older(u).refresh = u.refresh /\ Older(u).left = u.left - 1
    BY <2>1, ApiAssumption DEF User
  <2> QED
    BY <1>2, <2>2, NoneAssumption
<1> QED
  BY <1>1, <1>2

LEMMA TickInv ==
  ASSUME IInv, Tick
  PROVE  IInv'
<1>1. /\ row' = Older(row) /\ UNCHANGED <<grants, pc>>
      /\ user' = [c \in Client |-> Older(user[c])]
      /\ age' = [c \in Client |-> IF Busy(c) THEN age[c] + 1 ELSE 0]
  BY DEF Tick
<1>2. row' \in User \cup {None} /\ (row' = None <=> row = None)
      /\ (row # None => row'.refresh = row.refresh)
  BY <1>1, OlderUser DEF IInv, ApiType
<1>3. ApiType'
  BY <1>1, <1>2, OlderUser DEF IInv, ApiType
<1>4. ASSUME NEW c \in Client PROVE ClientInv(c)'
  <2>1. /\ user'[c] = Older(user[c]) /\ user[c] \in User \cup {None}
        /\ age'[c] = (IF Busy(c) THEN age[c] + 1 ELSE 0) /\ age[c] \in Nat
        /\ pc'[c] = pc[c] /\ ClientInv(c)
    BY <1>1 DEF IInv, ApiType
  <2>2. user'[c] = None <=> user[c] = None
    BY <2>1, OlderUser
  <2>3. CASE Busy(c)
    <3>1. age[c] < RunTime /\ user[c] \in User /\ user[c] # None
      BY <2>1, <2>3 DEF Tick, ClientInv, Busy, WithUser
    <3>2. user[c].left + age[c] > Buffer /\ user[c].left \in Nat
      BY <2>1, <2>3, <3>1, ApiAssumption DEF ClientInv, User
    <3>3. user[c].left > 0
      BY <2>1, <3>1, <3>2, ApiAssumption
    <3>4. user'[c].left = user[c].left - 1
      BY <2>1, <3>1, <3>3, OlderUser
    <3>5. user'[c].left + age'[c] > Buffer /\ age'[c] <= RunTime
      BY <2>1, <2>3, <3>1, <3>2, <3>4, ApiAssumption
    <3> QED
      BY <1>2, <2>1, <2>2, <3>5 DEF ClientInv
  <2>4. CASE ~Busy(c)
    BY <1>2, <2>1, <2>2, <2>4 DEF ClientInv, Busy
  <2> QED
    BY <2>3, <2>4
<1> QED
  BY <1>1, <1>2, <1>3, <1>4 DEF IInv, NoCallbackIsLost

LEMMA StepInv == IInv /\ [Next]_vars => IInv'
<1> SUFFICES ASSUME IInv, [Next]_vars PROVE IInv'
  OBVIOUS
<1>1. CASE UNCHANGED vars
  BY <1>1 DEF vars, IInv, ApiType, ClientInv, Busy, NoCallbackIsLost
<1>2. ASSUME NEW c \in Client, Ask(c) \/ Disconnect(c) PROVE IInv'
  BY <1>2, AskInv, DisconnectInv
<1>3. ASSUME NEW c \in Client, Serve(c) PROVE IInv'
  BY <1>3, LookUpInv, InsertUserInv, ReloadInv, LimitInv, ReadHistoryInv, ReadCacheInv,
     AskModelInv, GetCredentialsInv, CommitTokensInv, RunInv, SaveInv, AnswerInv,
     GetBundleInv, EndsInv DEF Serve
<1> QED
  BY <1>1, <1>2, <1>3, CallbackInv, TickInv DEF Next

-----------------------------------------------------------------------------
LEMMA Invariance == Spec => []IInv
  BY InitInv, StepInv, PTL DEF Spec

(* What a callback stored is what the database keeps, whoever loaded the   *)
(* user before it and commits after it (token_manager.py:23-26,            *)
(* auth.py:56-64, dependencies.py:31-34).                                  *)
THEOREM CallbackSafety == Spec => []NoCallbackIsLost
<1>1. IInv => NoCallbackIsLost
  BY DEF IInv
<1> QED
  BY <1>1, Invariance, PTL

(* The token with which a query sets out lives until its run is over, for  *)
(* every buffer that is no shorter than a run (token_manager.py:1-2, 22).  *)
THEOREM CredentialSafety == Spec => []CredentialsOutlastTheRun
<1>1. ASSUME IInv, NEW c \in Client, pc[c] = "run" PROVE user[c].left > 0
  <2>1. /\ user[c] \in User /\ age[c] \in Nat
        /\ user[c].left + age[c] > Buffer /\ age[c] <= RunTime
    BY <1>1 DEF IInv, ApiType, ClientInv, Busy, WithUser
  <2> QED
    BY <2>1, ApiAssumption DEF User
<1>2. IInv => CredentialsOutlastTheRun
  BY <1>1 DEF CredentialsOutlastTheRun
<1> QED
  BY <1>2, Invariance, PTL
-----------------------------------------------------------------------------
(* The pool of connections: what a client holds where it stands, and who   *)
(* may stand where.                                                        *)
HeldAt(c, place, n, u) ==
    /\ place \in {"limit", "history", "classify", "model", "run", "save", "readback"}
           => c \notin Trigger
    /\ place \in {"trigger", "services"} => c \in Trigger
    /\ c \in Trigger /\ place \in {"trigger", "credentials", "commit", "services"} => n >= 1
    /\ c \notin Socket /\ place \in {"idle", "lookup"} => u = None

PoolInv ==
    /\ holds \in [Client -> 0..2]
    /\ Free >= 0
    /\ \A c \in Client : HeldAt(c, pc[c], holds[c], user[c])

LEMMA HoldingFinite ==
  ASSUME NEW S, S \subseteq Client
  PROVE  IsFiniteSet(S) /\ Cardinality(S) \in Nat
  BY ApiAssumption, FS_Subset, FS_CardinalityType

LEMMA FreeIsInt == Free \in Int
<1>1. Holding(1) \subseteq Client /\ Holding(2) \subseteq Client
  BY DEF Holding
<1>2. Cardinality(Holding(1)) \in Nat /\ Cardinality(Holding(2)) \in Nat
  BY <1>1, HoldingFinite
<1> QED
  BY <1>2, ApiAssumption DEF Free

LEMMA Choices == None \in User \cup {None} /\ \A n \in {0, 1, 2} : n \in 0..2
  OBVIOUS

LEMMA OneMore ==
  ASSUME NEW S, S \subseteq Client, NEW c \in Client, NEW T, T \subseteq S \cup {c}
  PROVE  Cardinality(T) <= Cardinality(S) + 1
<1>1. IsFiniteSet(S \cup {c}) /\ Cardinality(S) \in Nat /\ IsFiniteSet(S)
  BY HoldingFinite
<1>2. Cardinality(S \cup {c}) <= Cardinality(S) + 1
  BY <1>1, FS_AddElement
<1>3. Cardinality(T) <= Cardinality(S \cup {c}) /\ Cardinality(T) \in Nat /\ Cardinality(S \cup {c}) \in Nat
  BY <1>1, FS_Subset, FS_CardinalityType, HoldingFinite
<1> QED
  BY <1>1, <1>2, <1>3

(* Whoever takes one connection more finds one free.                       *)
MayHold(c, n) == n <= holds[c] \/ (n = holds[c] + 1 /\ Free > 0)

LEMMA FreeAfter ==
  ASSUME holds \in [Client -> 0..2], Free >= 0, NEW c \in Client, NEW n \in 0..2,
         holds' = [holds EXCEPT ![c] = n], MayHold(c, n)
  PROVE  Free' >= 0
<1> DEFINE One == Cardinality(Holding(1))
           Two == Cardinality(Holding(2))
<1>1. /\ Holding(1) \subseteq Client /\ Holding(2) \subseteq Client
      /\ Holding(1)' \subseteq Client /\ Holding(2)' \subseteq Client
  BY DEF Holding
<1>2. One \in Nat /\ Two \in Nat /\ One' \in Nat /\ Two' \in Nat
  BY <1>1, HoldingFinite
<1>3. Free = PoolSize - One - Two /\ Free' = PoolSize - One' - Two' /\ PoolSize \in Nat
  BY ApiAssumption DEF Free
<1>4. ASSUME Holding(1)' \subseteq Holding(1) PROVE One' <= One
  BY <1>1, <1>4, HoldingFinite, FS_Subset
<1>5. ASSUME Holding(2)' \subseteq Holding(2) PROVE Two' <= Two
  BY <1>1, <1>5, HoldingFinite, FS_Subset
<1>6. CASE n <= holds[c]
  <2>1. Holding(1)' \subseteq Holding(1) /\ Holding(2)' \subseteq Holding(2)
    BY <1>6 DEF Holding
  <2> QED
    BY <1>2, <1>3, <1>4, <1>5, <2>1
<1>7. CASE n = 1 /\ holds[c] = 0 /\ Free > 0
  <2>1. Holding(1)' \subseteq Holding(1) \cup {c} /\ Holding(2)' \subseteq Holding(2)
    BY <1>7 DEF Holding
  <2>2. One' <= One + 1 /\ Two' <= Two
    BY <1>1, <1>5, <2>1, OneMore
  <2> QED
    BY <1>2, <1>3, <1>7, <2>2
<1>8. CASE n = 2 /\ holds[c] = 1 /\ Free > 0
  <2>1. Holding(2)' \subseteq Holding(2) \cup {c} /\ Holding(1)' \subseteq Holding(1)
    BY <1>8 DEF Holding
  <2>2. One' <= One /\ Two' <= Two + 1
    BY <1>1, <1>4, <2>1, OneMore
  <2> QED
    BY <1>2, <1>3, <1>8, <2>2
<1> QED
  BY <1>6, <1>7, <1>8 DEF MayHold

LEMMA OnePool ==
  ASSUME IInv, PoolInv, NEW c \in Client,
         NEW place, GoTo(c, place),
         NEW u \in User \cup {None}, Loads(c, u),
         NEW n \in 0..2, Holds(c, n),
         MayHold(c, n), HeldAt(c, place, n, u)
  PROVE  PoolInv'
<1>1. holds' \in [Client -> 0..2] /\ Free' >= 0
  BY FreeAfter DEF PoolInv
<1>2. ASSUME NEW d \in Client PROVE HeldAt(d, pc'[d], holds'[d], user'[d])
  <2>1. CASE d = c
    <3>1. pc'[d] = place /\ holds'[d] = n /\ user'[d] = u
      BY <2>1 DEF PoolInv, IInv, ApiType
    <3> QED
      BY <2>1, <3>1
  <2>2. CASE d # c
    <3>1. pc'[d] = pc[d] /\ holds'[d] = holds[d] /\ user'[d] = user[d]
      BY <2>2 DEF PoolInv, IInv, ApiType
    <3> QED
      BY <3>1 DEF PoolInv
  <2> QED
    BY <2>1, <2>2
<1>3. \A d \in Client : HeldAt(d, pc[d], holds[d], user[d])'
  BY <1>2 DEF HeldAt
<1> QED
  BY <1>1, <1>3 DEF PoolInv

(* The same, of a client whose session or whose connections stay.          *)
LEMMA Stays ==
  ASSUME IInv, PoolInv, NEW c \in Client
  PROVE  /\ holds[c] \in 0..2 /\ MayHold(c, holds[c]) /\ MayHold(c, 0)
         /\ UNCHANGED holds => Holds(c, holds[c])
         /\ user[c] \in User \cup {None}
         /\ UNCHANGED user => Loads(c, user[c])
         /\ HeldAt(c, pc[c], holds[c], user[c])
<1>1. holds[c] \in 0..2 /\ user[c] \in User \cup {None}
  BY DEF IInv, ApiType, PoolInv
<1>2. MayHold(c, holds[c]) /\ MayHold(c, 0)
  BY <1>1 DEF MayHold
<1>3. (UNCHANGED holds => Holds(c, holds[c])) /\ (UNCHANGED user => Loads(c, user[c]))
  BY DEF IInv, ApiType, PoolInv
<1> QED
  BY <1>1, <1>2, <1>3 DEF PoolInv

LEMMA GoesPool ==
  ASSUME IInv, PoolInv, NEW c \in Client, UNCHANGED <<user, holds>>,
         NEW place, GoTo(c, place), HeldAt(c, place, holds[c], user[c])
  PROVE  PoolInv'
<1> DEFINE u == user[c]
           n == holds[c]
<1>1. /\ u \in User \cup {None} /\ Loads(c, u) /\ n \in 0..2 /\ Holds(c, n) /\ MayHold(c, n)
      /\ HeldAt(c, place, n, u)
  BY Stays
<1> HIDE DEF u, n
<1> QED
  BY <1>1, OnePool

LEMMA ClosesPool ==
  ASSUME IInv, PoolInv, NEW c \in Client, Closes(c)
  PROVE  PoolInv'
<1> DEFINE place == IF c \in Socket THEN "closed" ELSE "idle"
<1>1. GoTo(c, place) /\ Loads(c, None) /\ Holds(c, 0)
  BY DEF Closes
<1>2. HeldAt(c, place, 0, None)
  BY DEF HeldAt
<1>3. MayHold(c, 0)
  BY Stays
<1> HIDE DEF place
<1> QED
  BY <1>1, <1>2, <1>3, Choices, OnePool

(* A client takes a connection, and has one more at most.                  *)
LEMMA TakesPool ==
  ASSUME IInv, PoolInv, NEW c \in Client, NEW n \in 0..2, Takes(c, n), n <= holds[c] + 1,
         NEW place, GoTo(c, place), NEW u \in User \cup {None}, Loads(c, u),
         \A m \in 0..2 : m >= n /\ m >= holds[c] => HeldAt(c, place, m, u)
  PROVE  PoolInv'
<1> DEFINE m == IF holds[c] > n THEN holds[c] ELSE n
<1>1. holds[c] \in 0..2
  BY Stays
<1>2. m \in 0..2 /\ m >= n /\ m >= holds[c] /\ Holds(c, m)
  BY <1>1 DEF Takes
<1>3. MayHold(c, m)
  <2>1. holds[c] >= n \/ Free > 0
    BY DEF Takes
  <2>2. (m = n /\ holds[c] <= n) \/ m = holds[c]
    BY <1>1
  <2>3. m <= holds[c] \/ (m = holds[c] + 1 /\ Free > 0)
    BY <1>1, <2>1, <2>2
  <2> HIDE DEF m
  <2> QED
    BY <2>3 DEF MayHold
<1> HIDE DEF m
<1> QED
  BY <1>2, <1>3, OnePool

LEMMA ConnectedPool ==
  ASSUME IInv, PoolInv, NEW c \in Client, Connected(c), Demand(c) = 1,
         NEW place, GoTo(c, place), NEW u \in User \cup {None}, Loads(c, u),
         \A m \in 1..2 : HeldAt(c, place, m, u)
  PROVE  PoolInv'
<1>1. Takes(c, 1)
  BY DEF Connected
<1>2. 1 <= holds[c] + 1 /\ 1 \in 0..2
  <2>1. holds[c] \in 0..2
    BY Stays
  <2> QED
    BY <2>1
<1>3. \A m \in 0..2 : m >= 1 /\ m >= holds[c] => HeldAt(c, place, m, u)
  <2> SUFFICES ASSUME NEW m \in 0..2, m >= 1 PROVE HeldAt(c, place, m, u)
    OBVIOUS
  <2>1. m \in 1..2
    OBVIOUS
  <2> QED
    BY <2>1
<1> QED
  BY <1>1, <1>2, <1>3, TakesPool

-----------------------------------------------------------------------------
LEMMA InitPool == Init => PoolInv
<1> SUFFICES ASSUME Init PROVE PoolInv
  OBVIOUS
<1>1. holds \in [Client -> 0..2]
  BY DEF Init
<1>2. Holding(1) = {} /\ Holding(2) = {}
  BY DEF Init, Holding
<1>3. Free >= 0
  BY <1>2, FS_EmptySet, ApiAssumption DEF Free
<1>4. ASSUME NEW c \in Client PROVE HeldAt(c, pc[c], holds[c], user[c])
  BY DEF Init, HeldAt
<1> QED
  BY <1>1, <1>3, <1>4 DEF PoolInv

LEMMA AskPool ==
  ASSUME IInv, PoolInv, NEW c \in Client, Ask(c)
  PROVE  PoolInv'
<1>1. GoTo(c, "lookup") /\ UNCHANGED <<user, holds>> /\ pc[c] = "idle"
  BY DEF Ask
<1>2. HeldAt(c, "lookup", holds[c], user[c])
  BY <1>1, Stays DEF HeldAt
<1> QED
  BY <1>1, <1>2, GoesPool

LEMMA ContinuesPool ==
  ASSUME NEW c \in Client
  PROVE  \E place : /\ Continues(c) => GoTo(c, place)
                    /\ \A m \in 1..2 : \A u : HeldAt(c, place, m, u)
                    /\ c \notin Trigger => \A m, u : HeldAt(c, place, m, u)
<1> DEFINE next == IF c \in Trigger THEN "trigger" ELSE "limit"
<1>1. Continues(c) => GoTo(c, next)
  BY DEF Continues
<1>2. /\ \A m \in 1..2 : \A u : HeldAt(c, next, m, u)
      /\ c \notin Trigger => \A m, u : HeldAt(c, next, m, u)
  BY DEF HeldAt
<1> QED
  BY <1>1, <1>2

LEMMA LookUpPool ==
  ASSUME IInv, PoolInv, NEW c \in Client, LookUp(c)
  PROVE  PoolInv'
<1>1. pc[c] = "lookup" /\ HeldAt(c, pc[c], holds[c], user[c])
  BY Stays DEF LookUp
<1>2. PICK next : /\ Continues(c) => GoTo(c, next)
                  /\ \A m \in 1..2 : \A u : HeldAt(c, next, m, u)
                  /\ c \notin Trigger => \A m, u : HeldAt(c, next, m, u)
  BY ContinuesPool
<1>3. CASE user[c] # None
  <2>1. UNCHANGED <<user, holds>> /\ GoTo(c, next)
    BY <1>2, <1>3 DEF LookUp
  <2>2. c \notin Trigger
    BY <1>1, <1>3, ApiAssumption DEF HeldAt
  <2> QED
    BY <1>2, <2>1, <2>2, GoesPool
<1>4. CASE user[c] = None
  <2>1. Demand(c) = 1
    BY <1>1, <1>4 DEF Demand
  <2>2. Connected(c)
    BY <1>4 DEF LookUp
  <2>3. CASE row = None
    <3>1. GoTo(c, "insert") /\ UNCHANGED user
      BY <1>4, <2>3 DEF LookUp
    <3>2. \A m \in 1..2 : \A u : HeldAt(c, "insert", m, u)
      BY DEF HeldAt
    <3>3. user[c] \in User \cup {None} /\ Loads(c, user[c])
      BY <3>1, Stays
    <3> QED
      BY <2>1, <2>2, <3>1, <3>2, <3>3, ConnectedPool
  <2>4. CASE row # None
    <3>1. GoTo(c, next) /\ Loads(c, row) /\ row \in User \cup {None}
      BY <1>2, <1>4, <2>4 DEF LookUp, IInv, ApiType
    <3> QED
      BY <1>2, <2>1, <2>2, <3>1, ConnectedPool
  <2> QED
    BY <2>3, <2>4
<1> QED
  BY <1>3, <1>4

LEMMA InsertUserPool ==
  ASSUME IInv, PoolInv, NEW c \in Client, InsertUser(c)
  PROVE  PoolInv'
<1>1. CASE row = None
  <2>1. Holds(c, 0) /\ GoTo(c, "reload") /\ UNCHANGED user
    BY <1>1 DEF InsertUser
  <2>2. user[c] \in User \cup {None} /\ Loads(c, user[c]) /\ MayHold(c, 0)
    BY <2>1, Stays
  <2>3. HeldAt(c, "reload", 0, user[c])
    BY DEF HeldAt
  <2> QED
    BY <2>1, <2>2, <2>3, Choices, OnePool
<1>2. CASE row # None
  BY <1>2, ClosesPool DEF InsertUser
<1> QED
  BY <1>1, <1>2

LEMMA ReloadPool ==
  ASSUME IInv, PoolInv, NEW c \in Client, Reload(c)
  PROVE  PoolInv'
<1>1. PICK next : /\ Continues(c) => GoTo(c, next)
                  /\ \A m \in 1..2 : \A u : HeldAt(c, next, m, u)
  BY ContinuesPool
<1>2. Connected(c) /\ GoTo(c, next) /\ Loads(c, row) /\ row \in User \cup {None}
  BY <1>1 DEF Reload, IInv, ApiType
<1>3. Demand(c) = 1
  BY DEF Reload, Demand
<1> QED
  BY <1>1, <1>2, <1>3, ConnectedPool

LEMMA QueryPool ==
  ASSUME IInv, PoolInv, NEW c \in Client,
         Limit(c) \/ ReadHistory(c) \/ ReadCache(c) \/ AskModel(c)
  PROVE  PoolInv'
<1>1. c \notin Trigger
  BY Stays DEF HeldAt, Limit, ReadHistory, ReadCache, AskModel
<1>2. \A place \in {"history", "classify", "model", "credentials"} : \A m, u : HeldAt(c, place, m, u)
  BY <1>1 DEF HeldAt
<1>3. ASSUME NEW place \in {"history", "model", "credentials"}, GoTo(c, place),
             UNCHANGED <<user, holds>>
      PROVE  PoolInv'
  BY <1>2, <1>3, GoesPool
<1>4. CASE Replies(c)
  <2>1. CASE c \in Socket
    <3>1. HeldAt(c, "idle", holds[c], user[c])
      BY <2>1 DEF HeldAt
    <3> QED
      BY <1>4, <2>1, <3>1, GoesPool DEF Replies
  <2> QED
    BY <1>4, <2>1, ClosesPool DEF Replies
<1>5. CASE ReadHistory(c)
  <2>1. Connected(c) /\ Demand(c) = 1 /\ GoTo(c, "classify") /\ UNCHANGED user
    BY <1>5 DEF ReadHistory, Demand
  <2>2. user[c] \in User \cup {None} /\ Loads(c, user[c])
    BY <2>1, Stays
  <2> QED
    BY <1>2, <2>1, <2>2, ConnectedPool
<1>6. CASE Limit(c)
  BY <1>3, <1>4, <1>6, ClosesPool DEF Limit
<1>7. CASE ReadCache(c)
  BY <1>3, <1>7, ClosesPool DEF ReadCache
<1>8. CASE AskModel(c)
  BY <1>3, <1>8, ClosesPool DEF AskModel
<1> QED
  BY <1>5, <1>6, <1>7, <1>8

LEMMA ProceedsPool ==
  ASSUME IInv, PoolInv, NEW c \in Client, pc[c] \in {"credentials", "commit"}, Proceeds(c)
  PROVE  PoolInv'
<1>1. CASE c \in Trigger
  <2>1. GoTo(c, "services") /\ Holds(c, 1) /\ Loads(c, None)
    BY <1>1 DEF Proceeds
  <2>2. holds[c] \in 0..2 /\ holds[c] >= 1
    BY <1>1, Stays DEF HeldAt
  <2>3. MayHold(c, 1)
    BY <2>2, FreeIsInt DEF MayHold
  <2>4. HeldAt(c, "services", 1, None)
    BY <1>1 DEF HeldAt
  <2> QED
    BY <2>1, <2>3, <2>4, Choices, OnePool
<1>2. CASE c \notin Trigger
  <2>1. GoTo(c, "run") /\ UNCHANGED <<user, holds>>
    BY <1>2 DEF Proceeds
  <2>2. HeldAt(c, "run", holds[c], user[c])
    BY <1>2 DEF HeldAt
  <2> QED
    BY <2>1, <2>2, GoesPool
<1> QED
  BY <1>1, <1>2

LEMMA GetCredentialsPool ==
  ASSUME IInv, PoolInv, NEW c \in Client, GetCredentials(c)
  PROVE  PoolInv'
<1>1. pc[c] = "credentials"
  BY DEF GetCredentials
<1>2. CASE Loads(c, Refreshed(user[c])) /\ GoTo(c, "commit") /\ UNCHANGED holds
  <2>1. user[c] \in User
    BY <1>1 DEF IInv, ApiType, ClientInv, WithUser
  <2>2. Refreshed(user[c]) \in User
    BY <2>1, RefreshedLives
  <2>3. HeldAt(c, "commit", holds[c], Refreshed(user[c]))
    BY <1>1, Stays DEF HeldAt
  <2>4. holds[c] \in 0..2 /\ MayHold(c, holds[c]) /\ Holds(c, holds[c])
    BY <1>2, Stays
  <2> QED
    BY <1>2, <2>2, <2>3, <2>4, OnePool
<1> QED
  BY <1>1, <1>2, ClosesPool, ProceedsPool DEF GetCredentials

LEMMA CommitTokensPool ==
  ASSUME IInv, PoolInv, NEW c \in Client, CommitTokens(c)
  PROVE  PoolInv'
<1>1. pc[c] = "commit"
  BY DEF CommitTokens
<1>2. CASE c \in Trigger
  BY <1>1, <1>2, ProceedsPool DEF CommitTokens
<1>3. CASE c \notin Trigger
  <2>1. GoTo(c, "run") /\ Holds(c, 0) /\ UNCHANGED user
    BY <1>3 DEF CommitTokens
  <2>2. HeldAt(c, "run", 0, user[c])
    BY <1>3 DEF HeldAt
  <2>3. user[c] \in User \cup {None} /\ Loads(c, user[c]) /\ MayHold(c, 0)
    BY <2>1, Stays
  <2> QED
    BY <2>1, <2>2, <2>3, Choices, OnePool
<1> QED
  BY <1>2, <1>3

LEMMA RunPool ==
  ASSUME IInv, PoolInv, NEW c \in Client, Run(c)
  PROVE  PoolInv'
<1>1. GoTo(c, "save") /\ UNCHANGED user /\ c \notin Trigger
  BY Stays DEF Run, HeldAt
<1>2. \A m, u : HeldAt(c, "save", m, u)
  BY <1>1 DEF HeldAt
<1>3. CASE UNCHANGED holds
  BY <1>1, <1>2, <1>3, GoesPool
<1>4. CASE Takes(c, 1)
  <2>1. user[c] \in User \cup {None} /\ Loads(c, user[c]) /\ 1 <= holds[c] + 1
    BY <1>1, Stays
  <2> QED
    BY <1>1, <1>2, <1>4, <2>1, Choices, TakesPool
<1> QED
  BY <1>3, <1>4 DEF Run

LEMMA SavePool ==
  ASSUME IInv, PoolInv, NEW c \in Client, Save(c)
  PROVE  PoolInv'
<1>1. GoTo(c, "readback") /\ Holds(c, 0) /\ UNCHANGED user /\ c \notin Trigger
  BY Stays DEF Save, HeldAt
<1>2. HeldAt(c, "readback", 0, user[c])
  BY <1>1 DEF HeldAt
<1>3. user[c] \in User \cup {None} /\ Loads(c, user[c]) /\ MayHold(c, 0)
  BY <1>1, Stays
<1> QED
  BY <1>1, <1>2, <1>3, Choices, OnePool

LEMMA AnswerPool ==
  ASSUME IInv, PoolInv, NEW c \in Client, Answer(c)
  PROVE  PoolInv'
<1>1. CASE c \in Socket
  <2>1. GoTo(c, "idle") /\ Holds(c, 1) /\ UNCHANGED user
    BY <1>1 DEF Answer
  <2>2. HeldAt(c, "idle", 1, user[c])
    BY <1>1 DEF HeldAt
  <2>3. user[c] \in User \cup {None} /\ Loads(c, user[c]) /\ holds[c] \in 0..2
    BY <2>1, Stays
  <2>4. holds[c] >= 1 \/ Free # 0
    <3>1. Demand(c) = 1
      BY DEF Answer, Demand
    <3>2. ~(holds[c] < 1) \/ Free # 0
      BY <3>1 DEF Answer, Waits
    <3> QED
      BY <2>3, <3>2
  <2>5. Free \in Int /\ Free >= 0
    BY FreeIsInt DEF PoolInv
  <2>6. MayHold(c, 1)
    BY <2>3, <2>4, <2>5 DEF MayHold
  <2> QED
    BY <2>1, <2>2, <2>3, <2>6, Choices, OnePool
<1> QED
  BY <1>1, ClosesPool DEF Answer

LEMMA GetBundlePool ==
  ASSUME IInv, PoolInv, NEW c \in Client, GetBundle(c)
  PROVE  PoolInv'
<1>1. /\ Takes(c, 2) /\ GoTo(c, "credentials") /\ Loads(c, row)
      /\ row \in User \cup {None}
  BY DEF GetBundle, Connected, Demand, IInv, ApiType
<1>2. holds[c] \in 0..2 /\ holds[c] >= 1
  BY Stays DEF GetBundle, HeldAt
<1>3. \A m \in 0..2 : m >= 2 => HeldAt(c, "credentials", m, row)
  BY DEF HeldAt
<1>4. 2 <= holds[c] + 1
  BY <1>2
<1> QED
  BY <1>1, <1>3, <1>4, Choices, TakesPool

LEMMA OthersPool ==
  ASSUME IInv, PoolInv, UNCHANGED <<pc, holds>>,
         \A c \in Client : user[c] = None => user'[c] = None
  PROVE  PoolInv'
<1>1. Free' = Free
  BY DEF Free, Holding
<1> QED
  BY <1>1 DEF PoolInv, HeldAt

LEMMA StepPool == IInv /\ PoolInv /\ [Next]_vars => PoolInv'
<1> SUFFICES ASSUME IInv, PoolInv, [Next]_vars PROVE PoolInv'
  OBVIOUS
<1>1. CASE UNCHANGED vars \/ Callback
  BY <1>1, OthersPool DEF vars, Callback
<1>2. CASE Tick
  BY <1>2, OthersPool DEF Tick, Older
<1>3. ASSUME NEW c \in Client, Ask(c) \/ Disconnect(c) PROVE PoolInv'
  BY <1>3, AskPool, ClosesPool DEF Disconnect
<1>4. ASSUME NEW c \in Client, Enqueue(c) \/ SyncServices(c) \/ PoolTimesOut(c) PROVE PoolInv'
  BY <1>4, ClosesPool DEF Enqueue, SyncServices, PoolTimesOut
<1>5. ASSUME NEW c \in Client, Serve(c) PROVE PoolInv'
  BY <1>4, <1>5, LookUpPool, InsertUserPool, ReloadPool, QueryPool, GetCredentialsPool,
     CommitTokensPool, RunPool, SavePool, AnswerPool, GetBundlePool DEF Serve
<1> QED
  BY <1>1, <1>2, <1>3, <1>5 DEF Next

LEMMA PoolInvariance == Spec => [](IInv /\ PoolInv)
<1>1. IInv /\ PoolInv /\ [Next]_vars => (IInv /\ PoolInv)'
  BY StepInv, StepPool
<1> QED
  BY <1>1, InitInv, InitPool, PTL DEF Spec

(* When the pool is empty, a client that is not asking for a second        *)
(* connection has one, unless a trigger has it: queries that hold a        *)
(* connection never wait, so they cannot wait in a circle (sync.py:18,     *)
(* context.py:51-53, ws.py:40-41).                                         *)
THEOREM PoolSafety == Spec => []QueriesNeverWaitInACircle
<1>1. IInv /\ PoolInv => QueriesNeverWaitInACircle
  <2> SUFFICES ASSUME IInv, PoolInv, Free = 0
               PROVE  \E c \in Client : holds[c] > 0 /\ (~Waits(c) \/ c \in Trigger)
    BY DEF QueriesNeverWaitInACircle
  <2>1. PICK c \in Client : holds[c] >= 1
    <3> SUFFICES ASSUME \A c \in Client : ~(holds[c] >= 1) PROVE FALSE
      OBVIOUS
    <3>1. \A c \in Client : holds[c] \in 0..2
      BY DEF PoolInv
    <3>2. Holding(1) = {} /\ Holding(2) = {}
      BY <3>1 DEF Holding
    <3> QED
      BY <3>2, FS_EmptySet, ApiAssumption DEF Free
  <2>2. holds[c] \in 0..2 /\ HeldAt(c, pc[c], holds[c], user[c])
    BY Stays
  <2>3. c \notin Trigger => Demand(c) \in {0, 1}
    BY <2>2 DEF HeldAt, Demand
  <2> QED
    BY <2>1, <2>2, <2>3 DEF Waits
<1> QED
  BY <1>1, PoolInvariance, PTL

-----------------------------------------------------------------------------
(* The rest of the types: the cache and the bounds.                        *)
Bounds ==
    /\ cache \in [what : {"none", "good", "bad"}, left : 0..CacheTtl]
    /\ asked \in 0..MaxRequests /\ faults \in 0..MaxFaults
    /\ age \in [Client -> 0..RunTime]

LEMMA InitBounds == Init => Bounds
<1> SUFFICES ASSUME Init PROVE Bounds
  OBVIOUS
<1>1. 0 \in 0..CacheTtl /\ 0 \in 0..MaxRequests /\ 0 \in 0..MaxFaults /\ 0 \in 0..RunTime
  BY ApiAssumption
<1> QED
  BY <1>1 DEF Init, Bounds, Uncached

LEMMA StepBounds == Bounds /\ [Next]_vars => Bounds'
<1> SUFFICES ASSUME Bounds, [Next]_vars PROVE Bounds'
  OBVIOUS
<1> USE ApiAssumption
<1>1. CASE UNCHANGED vars \/ Callback
  BY <1>1 DEF vars, Callback, Bounds
<1>2. CASE Tick
  <2>1. age' \in [Client -> 0..RunTime]
    BY <1>2 DEF Tick, Bounds
  <2>2. cache' \in [what : {"none", "good", "bad"}, left : 0..CacheTtl]
    BY <1>2 DEF Tick, Bounds, Uncached
  <2> QED
    BY <1>2, <2>1, <2>2 DEF Tick, Bounds
<1>3. ASSUME NEW c \in Client, Ask(c) \/ Disconnect(c) PROVE Bounds'
  BY <1>3 DEF Ask, Disconnect, Bounds
<1>4. ASSUME NEW c \in Client, Serve(c) PROVE Bounds'
  <2>1. CASE AskModel(c)
    <3>1. \A what \in {"good", "bad"} : Caches(what) =>
              cache' \in [what : {"none", "good", "bad"}, left : 0..CacheTtl]
      BY DEF Bounds, Caches
    <3>2. cache' \in [what : {"none", "good", "bad"}, left : 0..CacheTtl]
      BY <2>1, <3>1 DEF AskModel, Bounds
    <3>3. faults' \in 0..MaxFaults /\ UNCHANGED <<asked, age>>
      BY <2>1 DEF AskModel, Fault, Bounds
    <3> QED
      BY <3>2, <3>3 DEF Bounds
  <2>2. CASE GetCredentials(c)
    <3>1. faults' \in 0..MaxFaults /\ UNCHANGED <<asked, cache>>
      BY <2>2 DEF GetCredentials, Fault, Bounds
    <3>2. age' \in {age, [age EXCEPT ![c] = 0]}
      BY <2>2 DEF GetCredentials
    <3>3. age' \in [Client -> 0..RunTime]
      BY <3>2 DEF Bounds
    <3> QED
      BY <3>1, <3>3 DEF Bounds
  <2>3. CASE Limit(c)
    <3>1. faults' \in 0..MaxFaults /\ UNCHANGED <<asked, age, cache>>
      BY <2>3 DEF Limit, Fault, Bounds
    <3> QED
      BY <3>1 DEF Bounds
  <2>4. CASE UNCHANGED <<cache, asked, age, faults>>
    BY <2>4 DEF Bounds
  <2> QED
    BY <1>4, <2>1, <2>2, <2>3, <2>4
       DEF Serve, LookUp, InsertUser, Reload, ReadHistory, ReadCache, CommitTokens, Run, Save,
           Answer, Enqueue, GetBundle, SyncServices, PoolTimesOut
<1> QED
  BY <1>1, <1>2, <1>3, <1>4 DEF Next

(* Every client is at a place, with a user and with connections that it    *)
(* can have there, and the pool never gives out more than it has.          *)
THEOREM TypeCorrect == Spec => []TypeOK
<1>1. Spec => []Bounds
  BY InitBounds, StepBounds, PTL DEF Spec
<1>2. IInv /\ PoolInv /\ Bounds => TypeOK
  BY DEF IInv, ApiType, PoolInv, Bounds, TypeOK, Place
<1> QED
  BY <1>1, <1>2, PoolInvariance, PTL
=============================================================================
