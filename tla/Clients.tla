------------------------------- MODULE Clients -------------------------------
(***************************************************************************)
(* The clients of one user's account while several calls of agents are in  *)
(* flight: the real ones (app/agents/google_clients.py), which send one or *)
(* two HTTP requests from worker threads and try each of them again when   *)
(* Google answers 403, 429, 500 or 503, whether or not it had its effect;  *)
(* and the mock ones, which settings.mock_google_api puts in their place.  *)
(***************************************************************************)
EXTENDS Integers, Sequences, FiniteSets

CONSTANTS Call,
          MaxAttempts,  \* stop_after_attempt: 5
          MaxFaults     \* bound: requests that fail

ASSUME ClientsAssumption == MaxAttempts \in Nat \ {0} /\ MaxFaults \in Nat

VARIABLES op, store, times,  \* as in Workspace
          mock,      \* settings.mock_google_api
          pc,        \* call -> free | calling | done | failed | abandoned
          at,        \* call -> which of its requests it has reached
          attempts,  \* call -> attempts of this request so far
          seen,      \* call -> the folder in which it has seen the file
          lost,      \* call -> effects whose answer it did not get
          faults

account  == <<op, store, times>>
progress == <<pc, at, attempts, seen>>
vars     == <<account, mock, progress, lost, faults>>

State == [c \in Call |-> CASE pc[c] = "calling"   -> "called"
                           [] pc[c] = "abandoned" -> "failed"
                           [] OTHER               -> pc[c]]
Promise == INSTANCE Workspace WITH state <- State, MaxTimes <- MaxAttempts

(* The HTTP requests of each method.  list_messages gets each message that *)
(* it has listed, and move_file the file before it writes its folders.     *)
GmailRequests ==
    [list_messages |-> <<"read", "read">>, get_message |-> <<"read">>,
     send_message |-> <<"write">>, create_draft |-> <<"write">>, modify_labels |-> <<"write">>]

CalendarRequests ==
    [list_events |-> <<"read">>, get_event |-> <<"read">>, create_event |-> <<"write">>,
     update_event |-> <<"write">>, delete_event |-> <<"write">>]

DriveRequests ==
    [list_files |-> <<"read">>, get_file |-> <<"read">>, share_file |-> <<"write", "read">>,
     create_folder |-> <<"write">>, move_file |-> <<"read", "write">>]

RequestsOf ==
    [o \in Promise!Mail \cup Promise!Calendar \cup Promise!Drive |->
        IF o \in Promise!Mail THEN GmailRequests[o]
        ELSE IF o \in Promise!Calendar THEN CalendarRequests[o] ELSE DriveRequests[o]]

Init ==
    /\ op \in [Call -> DOMAIN RequestsOf]
    /\ store = Promise!Seeded /\ times = [c \in Call |-> 0]
    /\ mock \in BOOLEAN
    /\ pc = [c \in Call |-> "free"] /\ at = [c \in Call |-> 1]
    /\ attempts = [c \in Call |-> 0] /\ seen = [c \in Call |-> "root"]
    /\ lost = [c \in Call |-> 0] /\ faults = 0

(* Agents pass a call on to the client; execute refuses an unknown action  *)
(* and an event that nothing has resolved, before anything happens.        *)
Begin(c) ==
    /\ pc[c] = "free"
    /\ pc' = [pc EXCEPT ![c] = "calling"]
    /\ UNCHANGED <<account, mock, at, attempts, seen, lost, faults>>

Refuse(c) ==
    /\ pc[c] = "calling" /\ at[c] = 1 /\ attempts[c] = 0
    /\ op[c] \notin Promise!Reads
    /\ pc' = [pc EXCEPT ![c] = "failed"]
    /\ UNCHANGED <<account, mock, at, attempts, seen, lost, faults>>

(* A mock client does all of it in one step of the event loop, or raises   *)
(* KeyError.                                                               *)
MockCall(c) ==
    /\ mock /\ pc[c] = "calling"
    /\ IF Promise!Found(c)
       THEN /\ pc' = [pc EXCEPT ![c] = "done"]
            /\ IF op[c] \in Promise!Reads THEN UNCHANGED <<store, times>>
               ELSE /\ \E from \in store.parents : store' = Promise!Effect(c, store, from)
                    /\ times' = [times EXCEPT ![c] = @ + 1]
       ELSE pc' = [pc EXCEPT ![c] = "failed"] /\ UNCHANGED <<store, times>>
    /\ UNCHANGED <<op, mock, at, attempts, seen, lost, faults>>

-----------------------------------------------------------------------------
Request(c) == RequestsOf[op[c]][at[c]]

(* Google does what it is asked.  A move takes the file out of the folder  *)
(* in which it was seen, wherever it may be now.                           *)
Served(c) ==
    IF Request(c) = "write"
    THEN /\ store' = Promise!Effect(c, store, seen[c])
         /\ times' = [times EXCEPT ![c] = @ + 1]
    ELSE UNCHANGED <<store, times>>

Fails(c) == /\ pc' = [pc EXCEPT ![c] = IF @ = "calling" THEN "failed" ELSE @]
            /\ attempts' = [attempts EXCEPT ![c] = MaxAttempts]

InThread(c) == ~mock /\ pc[c] \in {"calling", "abandoned"} /\ attempts[c] < MaxAttempts

(* The answer arrives.  The next request is made by the coroutine, which   *)
(* may be gone: then the thread has nothing more to do.                    *)
Answered(c) ==
    /\ InThread(c) /\ Promise!Found(c) /\ Served(c)
    /\ IF op[c] = "move_file" /\ at[c] = 1
       THEN \E folder \in store.parents : seen' = [seen EXCEPT ![c] = folder]
       ELSE UNCHANGED seen
    /\ CASE pc[c] = "abandoned" ->
              attempts' = [attempts EXCEPT ![c] = MaxAttempts] /\ UNCHANGED <<pc, at>>
         [] pc[c] = "calling" /\ at[c] < Len(RequestsOf[op[c]]) ->
              at' = [at EXCEPT ![c] = 2] /\ attempts' = [attempts EXCEPT ![c] = 0] /\ UNCHANGED pc
         [] OTHER ->
              /\ pc' = [pc EXCEPT ![c] = "done"]
              /\ attempts' = [attempts EXCEPT ![c] = MaxAttempts] /\ UNCHANGED at
    /\ UNCHANGED <<op, mock, lost, faults>>

(* 404 and 410 are not tried again: of a deletion whose answer was lost,   *)
(* too.                                                                    *)
NotFound(c) ==
    /\ InThread(c) /\ ~Promise!Found(c)
    /\ Fails(c)
    /\ UNCHANGED <<account, mock, at, seen, lost, faults>>

(* Mutant: attempts are not counted.                                       *)
TriesForEver(c) == UNCHANGED <<pc, at, attempts>>

(* Mutant: a method is tried again from its first request.                 *)
TriesAllAgain(c) ==
    IF attempts[c] + 1 = MaxAttempts THEN Fails(c) /\ UNCHANGED at
    ELSE /\ attempts' = [attempts EXCEPT ![c] = @ + 1] /\ at' = [at EXCEPT ![c] = 1]
         /\ UNCHANGED pc

(* _retry: five attempts of a request.                                     *)
TriesAgain(c) ==
    IF attempts[c] + 1 = MaxAttempts THEN Fails(c) /\ UNCHANGED at
    ELSE attempts' = [attempts EXCEPT ![c] = @ + 1] /\ UNCHANGED <<pc, at>>

(* An attempt fails, before or after its effect, with an error that is     *)
(* tried again or with another.                                            *)
AttemptFails(c) ==
    /\ InThread(c) /\ faults < MaxFaults /\ faults' = faults + 1
    /\ \/ Promise!Found(c) /\ Served(c)
       \/ UNCHANGED <<store, times>>
    /\ lost' = [lost EXCEPT ![c] = @ + (times'[c] - times[c])]
    /\ TriesAgain(c) \/ (Fails(c) /\ UNCHANGED at)
    /\ UNCHANGED <<op, mock, seen>>

(* The timeout of the node cancels the coroutine, not its thread; between  *)
(* two requests there is no thread.                                        *)
Abandon(c) ==
    /\ ~mock /\ pc[c] = "calling"
    /\ pc' = [pc EXCEPT ![c] = "abandoned"]
    /\ attempts' \in {attempts, [attempts EXCEPT ![c] = IF @ = 0 THEN MaxAttempts ELSE @]}
    /\ UNCHANGED <<account, mock, at, seen, lost, faults>>

Proceed(c) == MockCall(c) \/ Answered(c) \/ NotFound(c) \/ AttemptFails(c)

Next == \E c \in Call : Begin(c) \/ Refuse(c) \/ Proceed(c) \/ Abandon(c)

Fairness == \A c \in Call : WF_vars(Proceed(c))

Spec == Init /\ [][Next]_vars /\ Fairness

-----------------------------------------------------------------------------
(* Mock or real, the clients keep the promise of Workspace: an answer      *)
(* comes after the effect, nothing happens after it, no request is made    *)
(* more often than five times, and every call ends (google_clients.py:1-3, *)
(* 25-44; gmail_agent.py:58-67).                                           *)
ImplementsWorkspace == Promise!Spec

(* A call takes effect again only because the answer to its effect was     *)
(* lost; a mock client, which loses none, does everything once             *)
(* (google_clients.py:38-44, 109-113, 241-249).                            *)
RepeatedOnlyWhenLost == \A c \in Call : times[c] <= 1 + lost[c]
=============================================================================
