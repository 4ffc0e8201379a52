---------------------------- MODULE ClientsProofs ----------------------------
(***************************************************************************)
(* What the clients of Clients guarantee for any number of calls, attempts *)
(* and failures: a write is repeated only when its answer was lost, and    *)
(* every step is one that Workspace allows.                                *)
(***************************************************************************)
EXTENDS Clients, TLAPS

Folder == {"root"} \cup Call
Account == [made : [Call -> Nat], labels : SUBSET Call, event : {"seeded", "deleted"} \cup Call,
            parents : SUBSET Folder, shares : SUBSET Call]

ClientsType ==
    /\ op \in [Call -> DOMAIN RequestsOf]
    /\ store \in Account
    /\ times \in [Call -> Nat]
    /\ mock \in BOOLEAN
    /\ pc \in [Call -> {"free", "calling", "done", "failed", "abandoned"}]
    /\ at \in [Call -> 1..2]
    /\ attempts \in [Call -> 0..MaxAttempts]
    /\ seen \in [Call -> Folder]
    /\ lost \in [Call -> Nat]
    /\ faults \in Nat

(* The calls for which a request may still be made, and those that have    *)
(* their write before them.                                                *)
Live(c) == pc[c] \in {"free", "calling", "abandoned"} /\ attempts[c] < MaxAttempts

WriteAhead(c) ==
    Request(c) = "write" \/ (at[c] = 1 /\ RequestsOf[op[c]] = <<"read", "write">>)

(* A call that may still write has had at most one effect for each attempt *)
(* of its write, and no answer to any; one that is past its write has had  *)
(* an effect.                                                              *)
CallInv(c) ==
    /\ at[c] <= Len(RequestsOf[op[c]])
    /\ times[c] <= 1 + lost[c]
    /\ pc[c] = "free" => at[c] = 1 /\ attempts[c] = 0 /\ times[c] = 0
    /\ mock => at[c] = 1 /\ attempts[c] = 0 /\ (pc[c] = "calling" => times[c] = 0)
    /\ Live(c) /\ WriteAhead(c) =>
           /\ times[c] <= lost[c]
           /\ Request(c) = "write" => times[c] <= attempts[c]
           /\ Request(c) # "write" => times[c] = 0
    /\ pc[c] = "calling" /\ ~WriteAhead(c) => op[c] \in Promise!Reads \/ times[c] > 0
    /\ pc[c] = "calling" => attempts[c] < MaxAttempts

IInv == ClientsType /\ \A c \in Call : CallInv(c)

USE DEF account, progress

-----------------------------------------------------------------------------
(* The methods: one or two requests, of which at most one is a write, and  *)
(* none in a method that only reads.                                       *)
LEMMA Methods ==
  ASSUME NEW o \in DOMAIN RequestsOf
  PROVE  /\ RequestsOf[o] \in {<<"read">>, <<"write">>, <<"read", "read">>,
                               <<"write", "read">>, <<"read", "write">>}
         /\ o \in Promise!Reads <=> RequestsOf[o] \in {<<"read">>, <<"read", "read">>}
         /\ o = "move_file" <=> RequestsOf[o] = <<"read", "write">>
         /\ o \in Promise!Mail \cup Promise!Calendar \cup Promise!Drive
<1> USE DEF RequestsOf, GmailRequests, CalendarRequests, DriveRequests, Promise!Mail,
            Promise!Calendar, Promise!Drive, Promise!Reads
<1>1. CASE o \in Promise!Mail
  BY <1>1
<1>2. CASE o \in Promise!Calendar
  BY <1>2
<1>3. CASE o \in Promise!Drive
  BY <1>3
<1> QED
  BY <1>1, <1>2, <1>3

(* What a write does leaves the account an account.                        *)
LEMMA EffectIsAccount ==
  ASSUME ClientsType, NEW c \in Call, op[c] \notin Promise!Reads, NEW from
  PROVE  Promise!Effect(c, store, from) \in Account
<1>1. /\ op[c] \in Promise!Mail \cup Promise!Calendar \cup Promise!Drive
      /\ store \in Account
  BY Methods DEF ClientsType
<1>2. Promise!Made(c, store) \in Account
  BY <1>1 DEF Promise!Made, Account
<1>3. CASE op[c] \in Promise!Mail
  <2>1. Promise!Effect(c, store, from) = Promise!MailEffect(c, store)
    BY <1>3 DEF Promise!Effect, Promise!Mail, Promise!Calendar, Promise!Drive
  <2> QED
    BY <1>1, <1>2, <2>1 DEF Promise!MailEffect, Account
<1>4. CASE op[c] \in Promise!Calendar
  <2>1. op[c] \in {"create_event", "update_event", "delete_event"}
    BY <1>4 DEF Promise!Calendar, Promise!Reads
  <2>2. Promise!Effect(c, store, from) = Promise!CalendarEffect(c, store)
    BY <2>1 DEF Promise!Effect, Promise!Mail, Promise!Calendar, Promise!Drive
  <2> QED
    BY <1>1, <1>2, <2>1, <2>2 DEF Promise!CalendarEffect, Account
<1>5. CASE op[c] \in Promise!Drive
  <2>1. op[c] \in {"share_file", "create_folder", "move_file"}
    BY <1>5 DEF Promise!Drive, Promise!Reads
  <2>2. Promise!Effect(c, store, from) = Promise!DriveEffect(c, store, from)
    BY <2>1 DEF Promise!Effect, Promise!Mail, Promise!Calendar, Promise!Drive
  <2> QED
    BY <1>1, <1>2, <2>1, <2>2 DEF Promise!DriveEffect, Account, Folder
<1> QED
  BY <1>1, <1>3, <1>4, <1>5

(* A call of which nothing changes keeps its part of the invariant.        *)
LEMMA Untouched ==
  ASSUME NEW d, CallInv(d), UNCHANGED <<op, mock>>,
         UNCHANGED <<pc[d], at[d], attempts[d], times[d], lost[d]>>
  PROVE  CallInv(d)'
  BY DEF CallInv, Live, WriteAhead, Request

(* A request that is served: only a write does something to the account.   *)
LEMMA ServedRequest ==
  ASSUME ClientsType, NEW c \in Call, at[c] <= Len(RequestsOf[op[c]]), Served(c)
  PROVE  /\ Request(c) \in {"read", "write"}
         /\ Request(c) = "write" => /\ op[c] \notin Promise!Reads
                                   /\ store' = Promise!Effect(c, store, seen[c])
                                   /\ times' = [times EXCEPT ![c] = @ + 1]
         /\ Request(c) # "write" => UNCHANGED <<store, times>>
         /\ store' \in Account /\ times' \in [Call -> Nat]
<1>1. op[c] \in DOMAIN RequestsOf /\ at[c] \in 1..2
  BY DEF ClientsType
<1>2. /\ Request(c) \in {"read", "write"}
      /\ Request(c) = "write" => op[c] \notin Promise!Reads
  BY <1>1, Methods DEF Request
<1>3. CASE Request(c) = "write"
  BY <1>2, <1>3, EffectIsAccount DEF Served, ClientsType
<1>4. CASE Request(c) # "write"
  BY <1>2, <1>4 DEF Served, ClientsType
<1> QED
  BY <1>2, <1>3, <1>4

-----------------------------------------------------------------------------
(* The invariant holds at first and in every step.                         *)
LEMMA InitInv == Init => IInv
<1> SUFFICES ASSUME Init PROVE IInv
  OBVIOUS
<1>1. ClientsType
  BY ClientsAssumption DEF Init, ClientsType, Promise!Seeded, Folder, Account
<1>2. ASSUME NEW c \in Call PROVE CallInv(c)
  <2>1. op[c] \in DOMAIN RequestsOf
    BY DEF Init
  <2>2. 1 <= Len(RequestsOf[op[c]])
    BY <2>1, Methods
  <2>3. /\ pc[c] = "free" /\ at[c] = 1
        /\ attempts[c] = 0 /\ times[c] = 0 /\ lost[c] = 0
    BY DEF Init
  <2> QED
    BY <2>2, <2>3 DEF CallInv
<1> QED
  BY <1>1, <1>2 DEF IInv

LEMMA BeginInv ==
  ASSUME IInv, NEW c \in Call, Begin(c)
  PROVE  IInv'
<1>1. ClientsType'
  BY DEF IInv, ClientsType, Begin
<1>2. ASSUME NEW d \in Call, d # c PROVE CallInv(d)'
  BY <1>2, Untouched DEF IInv, ClientsType, Begin
<1>3. CallInv(c)'
  <2>1. op[c] \in DOMAIN RequestsOf /\ CallInv(c)
    BY DEF IInv, ClientsType
  <2> QED
    BY <2>1, Methods, ClientsAssumption
    DEF IInv, ClientsType, Begin, CallInv, Live, WriteAhead, Request
<1> QED
  BY <1>1, <1>2, <1>3 DEF IInv

LEMMA RefuseInv ==
  ASSUME IInv, NEW c \in Call, Refuse(c)
  PROVE  IInv'
<1>1. ClientsType'
  BY DEF IInv, ClientsType, Refuse
<1>2. ASSUME NEW d \in Call, d # c PROVE CallInv(d)'
  BY <1>2, Untouched DEF IInv, ClientsType, Refuse
<1>3. CallInv(c)'
  BY DEF IInv, ClientsType, Refuse, CallInv, Live, WriteAhead, Request
<1> QED
  BY <1>1, <1>2, <1>3 DEF IInv

LEMMA MockCallInv ==
  ASSUME IInv, NEW c \in Call, MockCall(c)
  PROVE  IInv'
<1>1. ClientsType'
  <2>1. store' \in Account /\ times' \in [Call -> Nat]
    <3>1. CASE UNCHANGED <<store, times>>
      BY <3>1 DEF IInv, ClientsType
    <3>2. CASE ~UNCHANGED <<store, times>>
      <4>1. op[c] \notin Promise!Reads /\ times' = [times EXCEPT ![c] = @ + 1]
        BY <3>2 DEF MockCall
      <4>2. PICK from \in store.parents : store' = Promise!Effect(c, store, from)
        BY <3>2 DEF MockCall
      <4> QED
        BY <4>1, <4>2, EffectIsAccount DEF IInv, ClientsType
    <3> QED
      BY <3>1, <3>2
  <2> QED
    BY <2>1 DEF IInv, ClientsType, MockCall
<1>2. ASSUME NEW d \in Call, d # c PROVE CallInv(d)'
  BY <1>2, Untouched DEF IInv, ClientsType, MockCall
<1>3. CallInv(c)'
  <2>1. times[c] \in Nat /\ times'[c] \in {times[c], times[c] + 1}
    BY DEF IInv, ClientsType, MockCall
  <2>2. pc'[c] \in {"done", "failed"} /\ UNCHANGED <<op, mock, at[c], attempts[c], lost[c]>>
    BY DEF IInv, ClientsType, MockCall
  <2>3. mock /\ CallInv(c) /\ pc[c] = "calling" /\ lost[c] \in Nat
    BY DEF IInv, ClientsType, MockCall
  <2> QED
    BY <2>1, <2>2, <2>3 DEF CallInv, Live, WriteAhead, Request
<1> QED
  BY <1>1, <1>2, <1>3 DEF IInv

LEMMA NotFoundInv ==
  ASSUME IInv, NEW c \in Call, NotFound(c)
  PROVE  IInv'
<1>1. ClientsType'
  BY ClientsAssumption DEF IInv, ClientsType, NotFound, Fails
<1>2. ASSUME NEW d \in Call, d # c PROVE CallInv(d)'
  BY <1>2, Untouched DEF IInv, ClientsType, NotFound, Fails
<1>3. CallInv(c)'
  BY ClientsAssumption
  DEF IInv, ClientsType, NotFound, InThread, Fails, CallInv, Live, WriteAhead, Request
<1> QED
  BY <1>1, <1>2, <1>3 DEF IInv

LEMMA AbandonInv ==
  ASSUME IInv, NEW c \in Call, Abandon(c)
  PROVE  IInv'
<1>1. ClientsType'
  BY ClientsAssumption DEF IInv, ClientsType, Abandon
<1>2. ASSUME NEW d \in Call, d # c PROVE CallInv(d)'
  BY <1>2, Untouched DEF IInv, ClientsType, Abandon
<1>3. CallInv(c)'
  BY ClientsAssumption
  DEF IInv, ClientsType, Abandon, CallInv, Live, WriteAhead, Request
<1> QED
  BY <1>1, <1>2, <1>3 DEF IInv

(* Where an answer leaves the call.                                        *)
LEMMA AnsweredCall ==
  ASSUME IInv, NEW c \in Call, Answered(c)
  PROVE  /\ pc' \in [Call -> {"free", "calling", "done", "failed", "abandoned"}]
         /\ at' \in [Call -> 1..2] /\ attempts' \in [Call -> 0..MaxAttempts]
         /\ \A d \in Call \ {c} : UNCHANGED <<pc[d], at[d], attempts[d]>>
         /\ \/ pc[c] = "abandoned" /\ attempts'[c] = MaxAttempts /\ UNCHANGED <<pc[c], at[c]>>
            \/ /\ pc[c] = "calling" /\ pc'[c] = "calling"
               /\ at[c] = 1 /\ Len(RequestsOf[op[c]]) = 2 /\ at'[c] = 2 /\ attempts'[c] = 0
            \/ /\ pc[c] = "calling" /\ pc'[c] = "done"
               /\ at[c] = Len(RequestsOf[op[c]]) /\ UNCHANGED at[c]
               /\ attempts'[c] = MaxAttempts
<1>1. /\ RequestsOf[op[c]] \in {<<"read">>, <<"write">>, <<"read", "read">>,
                                <<"write", "read">>, <<"read", "write">>}
      /\ at[c] \in 1..2 /\ at[c] <= Len(RequestsOf[op[c]])
      /\ pc[c] \in {"calling", "abandoned"} /\ MaxAttempts \in Nat
  BY Methods, ClientsAssumption DEF IInv, ClientsType, CallInv, Answered, InThread
<1>2. Len(RequestsOf[op[c]]) \in 1..2 /\ at[c] \in 1..2
  BY <1>1
<1>3. CASE pc[c] = "abandoned"
  <2>1. attempts' = [attempts EXCEPT ![c] = MaxAttempts] /\ UNCHANGED <<pc, at>>
    BY <1>3 DEF Answered
  <2> QED
    BY <1>1, <1>3, <2>1 DEF IInv, ClientsType
<1>4. CASE pc[c] = "calling" /\ at[c] < Len(RequestsOf[op[c]])
  <2>1. /\ at' = [at EXCEPT ![c] = 2] /\ attempts' = [attempts EXCEPT ![c] = 0]
        /\ UNCHANGED pc
    BY <1>4 DEF Answered
  <2>2. \A n, k \in 1..2 : k < n => k = 1 /\ n = 2
    OBVIOUS
  <2>3. at[c] = 1 /\ Len(RequestsOf[op[c]]) = 2
    BY <1>2, <1>4, <2>2
  <2> QED
    BY <1>1, <1>4, <2>1, <2>3 DEF IInv, ClientsType
<1>5. CASE pc[c] = "calling" /\ ~(at[c] < Len(RequestsOf[op[c]]))
  <2>1. /\ pc' = [pc EXCEPT ![c] = "done"]
        /\ attempts' = [attempts EXCEPT ![c] = MaxAttempts] /\ UNCHANGED at
    BY <1>5 DEF Answered
  <2>2. at[c] = Len(RequestsOf[op[c]])
    BY <1>1, <1>2, <1>5
  <2> QED
    BY <1>1, <1>5, <2>1, <2>2 DEF IInv, ClientsType
<1> QED
  BY <1>1, <1>3, <1>4, <1>5

LEMMA AnsweredInv ==
  ASSUME IInv, NEW c \in Call, Answered(c)
  PROVE  IInv'
<1>1. /\ at[c] <= Len(RequestsOf[op[c]]) /\ Served(c) /\ ClientsType /\ CallInv(c)
      /\ op[c] \in DOMAIN RequestsOf /\ UNCHANGED <<op, mock, lost, faults>> /\ ~mock
      /\ attempts[c] < MaxAttempts /\ MaxAttempts \in Nat
  BY ClientsAssumption DEF IInv, ClientsType, CallInv, Answered, InThread
<1>2. seen' \in [Call -> Folder]
  <2>1. \A folder \in store.parents : folder \in Folder
    BY <1>1 DEF ClientsType, Account
  <2> QED
    BY <1>1, <2>1 DEF ClientsType, Answered
<1>3. ClientsType'
  BY <1>1, <1>2, ServedRequest, AnsweredCall DEF ClientsType
<1>4. \A d \in Call \ {c} : UNCHANGED times[d]
  BY <1>1, ServedRequest DEF ClientsType
<1>5. ASSUME NEW d \in Call, d # c PROVE CallInv(d)'
  BY <1>1, <1>4, <1>5, Untouched, AnsweredCall DEF IInv
<1>6. CallInv(c)'
  <2>1. /\ RequestsOf[op[c]] \in {<<"read">>, <<"write">>, <<"read", "read">>,
                                  <<"write", "read">>, <<"read", "write">>}
        /\ op[c] \in Promise!Reads <=> RequestsOf[op[c]] \in {<<"read">>, <<"read", "read">>}
    BY <1>1, Methods
  <2>2. /\ times[c] \in Nat /\ lost[c] \in Nat /\ attempts[c] \in Nat
        /\ Request(c) = "write" => times'[c] = times[c] + 1
        /\ Request(c) # "write" => times'[c] = times[c]
    BY <1>1, ServedRequest DEF ClientsType
  <2>3. pc[c] \in {"calling", "abandoned"}
    BY DEF Answered, InThread
  <2>4. times'[c] <= 1 + lost[c]
    BY <1>1, <2>2, <2>3 DEF CallInv, Live, WriteAhead
  <2>5. CASE pc[c] = "abandoned"
    BY <1>1, <2>2, <2>4, <2>5, AnsweredCall DEF CallInv, Live
  <2>6. CASE pc'[c] = "done"
    BY <1>1, <2>2, <2>4, <2>6, AnsweredCall DEF CallInv, Live
  <2>7. CASE pc[c] = "calling" /\ pc'[c] = "calling"
    <3>1. at[c] = 1 /\ Len(RequestsOf[op[c]]) = 2 /\ at'[c] = 2 /\ attempts'[c] = 0
      BY <2>7, AnsweredCall
    <3>2. CASE RequestsOf[op[c]] = <<"read", "write">>
      <4>1. times'[c] = 0
        BY <1>1, <2>2, <2>7, <3>1, <3>2 DEF CallInv, Live, WriteAhead, Request
      <4> QED
        BY <1>1, <2>2, <2>4, <2>7, <3>1, <3>2, <4>1
        DEF CallInv, Live, WriteAhead, Request
    <3>3. CASE RequestsOf[op[c]] = <<"write", "read">>
      <4>1. times'[c] > 0
        BY <2>2, <3>1, <3>3 DEF Request
      <4> QED
        BY <1>1, <2>2, <2>4, <2>7, <3>1, <3>3, <4>1
        DEF CallInv, Live, WriteAhead, Request
    <3>4. CASE RequestsOf[op[c]] = <<"read", "read">>
      BY <1>1, <2>1, <2>2, <2>4, <2>7, <3>1, <3>4
      DEF CallInv, Live, WriteAhead, Request
    <3> QED
      BY <2>1, <3>1, <3>2, <3>3, <3>4
  <2> QED
    BY <2>3, <2>5, <2>6, <2>7, AnsweredCall
<1> QED
  BY <1>3, <1>5, <1>6 DEF IInv

(* An attempt that fails counts, with its effect among those that are lost. *)
LEMMA FailedAttempt ==
  ASSUME IInv, NEW c \in Call, AttemptFails(c)
  PROVE  /\ pc' \in [Call -> {"free", "calling", "done", "failed", "abandoned"}]
         /\ attempts' \in [Call -> 0..MaxAttempts] /\ UNCHANGED <<op, mock, at, seen>>
         /\ \A d \in Call \ {c} : UNCHANGED <<pc[d], attempts[d], times[d], lost[d]>>
         /\ \/ pc'[c] \in {"failed", "abandoned"} /\ attempts'[c] = MaxAttempts
            \/ pc'[c] = pc[c] /\ attempts'[c] = attempts[c] + 1 /\ attempts'[c] < MaxAttempts
         /\ store' \in Account /\ times' \in [Call -> Nat] /\ lost' \in [Call -> Nat]
         /\ \/ times'[c] = times[c]
            \/ Request(c) = "write" /\ times'[c] = times[c] + 1
         /\ lost'[c] = lost[c] + (times'[c] - times[c])
<1>1. /\ at[c] <= Len(RequestsOf[op[c]]) /\ ClientsType /\ MaxAttempts \in Nat
      /\ pc[c] \in {"calling", "abandoned"} /\ attempts[c] \in Nat /\ attempts[c] < MaxAttempts
  BY ClientsAssumption DEF IInv, ClientsType, CallInv, AttemptFails, InThread
<1>2. /\ store' \in Account /\ times' \in [Call -> Nat]
      /\ \/ times' = times
         \/ Request(c) = "write" /\ times' = [times EXCEPT ![c] = @ + 1]
  <2>1. CASE UNCHANGED <<store, times>>
    BY <1>1, <2>1 DEF ClientsType
  <2>2. CASE Served(c)
    BY <1>1, <2>2, ServedRequest
  <2> QED
    BY <2>1, <2>2 DEF AttemptFails
<1>3. lost' = [lost EXCEPT ![c] = @ + (times'[c] - times[c])]
  BY DEF AttemptFails
<1>4. /\ lost' \in [Call -> Nat] /\ lost'[c] = lost[c] + (times'[c] - times[c])
      /\ \A d \in Call \ {c} : UNCHANGED <<times[d], lost[d]>>
  BY <1>1, <1>2, <1>3 DEF ClientsType
<1>5. UNCHANGED <<op, mock, at, seen>>
  BY DEF AttemptFails, TriesAgain
<1>6. \/ attempts[c] + 1 # MaxAttempts /\ attempts' = [attempts EXCEPT ![c] = @ + 1]
         /\ UNCHANGED pc
      \/ Fails(c)
  BY DEF AttemptFails, TriesAgain
<1>7. /\ pc' \in [Call -> {"free", "calling", "done", "failed", "abandoned"}]
      /\ attempts' \in [Call -> 0..MaxAttempts]
      /\ \A d \in Call \ {c} : UNCHANGED <<pc[d], attempts[d]>>
      /\ \/ pc'[c] \in {"failed", "abandoned"} /\ attempts'[c] = MaxAttempts
         \/ pc'[c] = pc[c] /\ attempts'[c] = attempts[c] + 1 /\ attempts'[c] < MaxAttempts
  <2>1. CASE Fails(c)
    BY <1>1, <2>1 DEF ClientsType, Fails
  <2>2. CASE /\ attempts[c] + 1 # MaxAttempts /\ attempts' = [attempts EXCEPT ![c] = @ + 1]
             /\ UNCHANGED pc
    <3>1. attempts[c] + 1 < MaxAttempts
      BY <1>1, <2>2
    <3> QED
      BY <1>1, <2>2, <3>1 DEF ClientsType
  <2> QED
    BY <1>6, <2>1, <2>2
<1> QED
  BY <1>2, <1>4, <1>5, <1>7

LEMMA AttemptFailsInv ==
  ASSUME IInv, NEW c \in Call, AttemptFails(c)
  PROVE  IInv'
<1>1. ClientsType'
  <2>1. faults' \in Nat
    BY DEF IInv, ClientsType, AttemptFails
  <2> QED
    BY <2>1, FailedAttempt DEF IInv, ClientsType
<1>2. ASSUME NEW d \in Call, d # c PROVE CallInv(d)'
  BY <1>2, Untouched, FailedAttempt DEF IInv
<1>3. CallInv(c)'
  <2>1. /\ CallInv(c) /\ ~mock /\ pc[c] \in {"calling", "abandoned"} /\ attempts[c] < MaxAttempts
        /\ times[c] \in Nat /\ lost[c] \in Nat /\ attempts[c] \in Nat /\ MaxAttempts \in Nat
    BY ClientsAssumption DEF IInv, ClientsType, AttemptFails, InThread
  <2>2. /\ UNCHANGED <<op[c], mock, at[c]>> /\ lost'[c] = lost[c] + (times'[c] - times[c])
        /\ \/ pc'[c] \in {"failed", "abandoned"} /\ attempts'[c] = MaxAttempts
           \/ pc'[c] = pc[c] /\ attempts'[c] = attempts[c] + 1 /\ attempts'[c] < MaxAttempts
        /\ \/ times'[c] = times[c]
           \/ Request(c) = "write" /\ times'[c] = times[c] + 1
    BY FailedAttempt
  <2>3. Request(c)' = Request(c) /\ (WriteAhead(c)' <=> WriteAhead(c))
    BY <2>2 DEF WriteAhead, Request
  <2>4. times'[c] <= 1 + lost'[c]
    BY <2>1, <2>2 DEF CallInv
  <2>5. CASE attempts'[c] = MaxAttempts
    BY <2>1, <2>2, <2>3, <2>4, <2>5 DEF CallInv, Live
  <2>6. CASE pc'[c] = pc[c] /\ attempts'[c] = attempts[c] + 1 /\ attempts'[c] < MaxAttempts
    <3>1. Live(c) /\ Live(c)'
      BY <2>1, <2>2, <2>6 DEF Live
    <3> QED
      BY <2>1, <2>2, <2>3, <2>4, <2>6, <3>1 DEF CallInv
  <2> QED
    BY <2>2, <2>5, <2>6
<1> QED
  BY <1>1, <1>2, <1>3 DEF IInv

LEMMA StepInv == IInv /\ [Next]_vars => IInv'
<1> SUFFICES ASSUME IInv, [Next]_vars PROVE IInv'
  OBVIOUS
<1>1. CASE UNCHANGED vars
  BY <1>1 DEF vars, IInv, ClientsType, CallInv, Live, WriteAhead, Request
<1>2. ASSUME NEW c \in Call, Begin(c) PROVE IInv'
  BY <1>2, BeginInv
<1>3. ASSUME NEW c \in Call, Refuse(c) PROVE IInv'
  BY <1>3, RefuseInv
<1>4. ASSUME NEW c \in Call, MockCall(c) PROVE IInv'
  BY <1>4, MockCallInv
<1>5. ASSUME NEW c \in Call, Answered(c) PROVE IInv'
  BY <1>5, AnsweredInv
<1>6. ASSUME NEW c \in Call, NotFound(c) PROVE IInv'
  BY <1>6, NotFoundInv
<1>7. ASSUME NEW c \in Call, AttemptFails(c) PROVE IInv'
  BY <1>7, AttemptFailsInv
<1>8. ASSUME NEW c \in Call, Abandon(c) PROVE IInv'
  BY <1>8, AbandonInv
<1> QED
  BY <1>1, <1>2, <1>3, <1>4, <1>5, <1>6, <1>7, <1>8 DEF Next, Proceed

(* The invariant of the clients: where each call stands relative to its    *)
(* write, its attempts and the effects whose answers were lost             *)
(* (google_clients.py:38-44).                                              *)
THEOREM Invariance == Spec => []IInv
<1> QED
  BY InitInv, StepInv, PTL DEF Spec

(* A call takes effect again only because the answer to its effect was     *)
(* lost, however many calls, attempts and failures there are               *)
(* (google_clients.py:38-44, 109-113, 241-249).                            *)
THEOREM RepeatSafety == Spec => []RepeatedOnlyWhenLost
<1>1. IInv => RepeatedOnlyWhenLost
  BY DEF IInv, CallInv, RepeatedOnlyWhenLost
<1> QED
  BY <1>1, Invariance, PTL

-----------------------------------------------------------------------------
(* The clients keep the promise of Workspace.                              *)
LEMMA InitRefines == Init => Promise!Init
<1> SUFFICES ASSUME Init PROVE Promise!Init
  OBVIOUS
<1>1. op \in [Call -> Promise!Mail \cup Promise!Calendar \cup Promise!Drive]
  BY DEF Init, RequestsOf
<1>2. State = [c \in Call |-> "free"]
  BY DEF Init, State
<1> QED
  BY <1>1, <1>2 DEF Init, Promise!Init

(* What a step of one call does to the states that the agents see.         *)
LEMMA StateStep ==
  ASSUME ClientsType, NEW c \in Call, NEW place, pc' = [pc EXCEPT ![c] = place]
  PROVE  State' = [State EXCEPT ![c] = CASE place = "calling"   -> "called"
                                         [] place = "abandoned" -> "failed"
                                         [] OTHER               -> place]
  BY DEF State, ClientsType

LEMMA BeginRefines ==
  ASSUME IInv, NEW c \in Call, Begin(c)
  PROVE  Promise!Begin(c)
<1>1. State[c] = "free" /\ State' = [State EXCEPT ![c] = "called"]
  BY StateStep DEF IInv, ClientsType, Begin, State
<1> QED
  BY <1>1 DEF Begin, Promise!Begin

(* A step of one call, from and to places that are known.                  *)
LEMMA ActsWhen ==
  ASSUME ClientsType, NEW c \in Call, UNCHANGED op,
         Promise!Takes(c) \/ UNCHANGED <<store, times>>,
         NEW place \in {"calling", "done", "failed", "abandoned"},
         pc' = [pc EXCEPT ![c] = place],
         \/ pc[c] = "calling"
         \/ pc[c] = "abandoned" /\ place = "abandoned",
         place = "done" => op[c] \in Promise!Reads \/ times'[c] > 0
  PROVE  Promise!Acts(c)
<1> DEFINE s == CASE place = "calling"   -> "called"
                  [] place = "abandoned" -> "failed"
                  [] OTHER               -> place
<1>1. State' = [State EXCEPT ![c] = s]
  BY StateStep
<1>2. s \in {"called", "done", "failed"}
  OBVIOUS
<1>3. State[c] \in {"called", "failed"}
  BY DEF State
<1>4. (State[c] = "failed" => s = "failed") /\ (s = "done" => op[c] \in Promise!Reads \/ times'[c] > 0)
  BY DEF State
<1> HIDE DEF s
<1> QED
  BY <1>1, <1>2, <1>3, <1>4 DEF Promise!Acts

LEMMA RefuseRefines ==
  ASSUME IInv, NEW c \in Call, Refuse(c)
  PROVE  Promise!Acts(c)
<1> DEFINE place == "failed"
<1>1. /\ ClientsType /\ UNCHANGED op /\ UNCHANGED <<store, times>>
      /\ pc' = [pc EXCEPT ![c] = place] /\ pc[c] = "calling"
      /\ place \in {"calling", "done", "failed", "abandoned"} /\ place # "done"
  BY DEF IInv, Refuse
<1> HIDE DEF place
<1> QED
  BY <1>1, ActsWhen

LEMMA AbandonRefines ==
  ASSUME IInv, NEW c \in Call, Abandon(c)
  PROVE  Promise!Acts(c)
<1> DEFINE place == "abandoned"
<1>1. /\ ClientsType /\ UNCHANGED op /\ UNCHANGED <<store, times>>
      /\ pc' = [pc EXCEPT ![c] = place] /\ pc[c] = "calling"
      /\ place \in {"calling", "done", "failed", "abandoned"} /\ place # "done"
  BY DEF IInv, Abandon
<1> HIDE DEF place
<1> QED
  BY <1>1, ActsWhen

LEMMA MockCallRefines ==
  ASSUME IInv, NEW c \in Call, MockCall(c)
  PROVE  Promise!Acts(c)
<1> DEFINE place == IF Promise!Found(c) THEN "done" ELSE "failed"
<1>1. /\ ClientsType /\ UNCHANGED op
      /\ pc' = [pc EXCEPT ![c] = place] /\ pc[c] = "calling"
      /\ place \in {"calling", "done", "failed", "abandoned"}
  BY DEF IInv, MockCall
<1>2. CASE UNCHANGED <<store, times>> /\ (Promise!Found(c) => op[c] \in Promise!Reads)
  <2>1. place = "done" => op[c] \in Promise!Reads \/ times'[c] > 0
    BY <1>2
  <2> HIDE DEF place
  <2> QED
    BY <1>1, <1>2, <2>1, ActsWhen
<1>3. CASE Promise!Found(c) /\ op[c] \notin Promise!Reads
  <2>1. PICK from \in store.parents : store' = Promise!Effect(c, store, from)
    BY <1>3 DEF MockCall
  <2>2. from \in {"root"} \cup Call
    BY DEF IInv, ClientsType, Account, Folder
  <2>3. times[c] = 0 /\ times' = [times EXCEPT ![c] = @ + 1] /\ times'[c] > 0
    BY <1>3 DEF IInv, ClientsType, CallInv, MockCall
  <2>4. Promise!Takes(c)
    BY <1>3, <2>1, <2>2, <2>3, ClientsAssumption DEF Promise!Takes
  <2>5. place = "done" => op[c] \in Promise!Reads \/ times'[c] > 0
    BY <2>3
  <2> HIDE DEF place
  <2> QED
    BY <1>1, <2>4, <2>5, ActsWhen
<1> QED
  BY <1>2, <1>3 DEF MockCall

LEMMA NotFoundRefines ==
  ASSUME IInv, NEW c \in Call, NotFound(c)
  PROVE  Promise!Acts(c)
<1> DEFINE place == IF pc[c] = "calling" THEN "failed" ELSE "abandoned"
<1>1. /\ ClientsType /\ UNCHANGED op /\ UNCHANGED <<store, times>>
      /\ pc' = [pc EXCEPT ![c] = place] /\ place # "done"
      /\ pc[c] = "calling" \/ (pc[c] = "abandoned" /\ place = "abandoned")
      /\ place \in {"calling", "done", "failed", "abandoned"}
  BY DEF IInv, ClientsType, NotFound, InThread, Fails
<1> HIDE DEF place
<1> QED
  BY <1>1, ActsWhen

(* A served request takes effect, no more often than it has attempts.      *)
LEMMA ServedRefines ==
  ASSUME IInv, NEW c \in Call, InThread(c), Promise!Found(c), Served(c)
  PROVE  Promise!Takes(c) \/ UNCHANGED <<store, times>>
<1>1. ClientsType /\ at[c] <= Len(RequestsOf[op[c]])
  BY DEF IInv, CallInv
<1>2. CASE Request(c) = "write"
  <2>1. /\ op[c] \notin Promise!Reads /\ store' = Promise!Effect(c, store, seen[c])
        /\ times' = [times EXCEPT ![c] = @ + 1]
    BY <1>1, <1>2, ServedRequest
  <2>2. times[c] <= attempts[c] /\ attempts[c] < MaxAttempts
    BY <1>2 DEF IInv, CallInv, InThread, Live, WriteAhead
  <2>3. times[c] < MaxAttempts /\ seen[c] \in {"root"} \cup Call
    BY <1>1, <2>2, ClientsAssumption DEF ClientsType, Folder
  <2> QED
    BY <2>1, <2>3 DEF Promise!Takes
<1>3. CASE Request(c) # "write"
  BY <1>1, <1>3, ServedRequest
<1> QED
  BY <1>2, <1>3

LEMMA AnsweredRefines ==
  ASSUME IInv, NEW c \in Call, Answered(c)
  PROVE  Promise!Acts(c)
<1> DEFINE place == pc'[c]
<1>1. /\ ClientsType /\ UNCHANGED op /\ InThread(c) /\ Promise!Found(c) /\ Served(c)
      /\ at[c] <= Len(RequestsOf[op[c]])
  BY DEF IInv, CallInv, Answered
<1>2. Promise!Takes(c) \/ UNCHANGED <<store, times>>
  BY <1>1, ServedRefines
<1>3. pc' = [pc EXCEPT ![c] = place]
  BY <1>1, AnsweredCall DEF ClientsType
<1>4. /\ pc[c] = "calling" \/ (pc[c] = "abandoned" /\ place = "abandoned")
      /\ place \in {"calling", "done", "failed", "abandoned"}
  BY AnsweredCall
<1>5. place = "done" => op[c] \in Promise!Reads \/ times'[c] > 0
  <2> SUFFICES ASSUME place = "done", op[c] \notin Promise!Reads PROVE times'[c] > 0
    OBVIOUS
  <2>1. pc[c] = "calling" /\ at[c] = Len(RequestsOf[op[c]]) /\ times[c] \in Nat
    BY <1>1, AnsweredCall DEF ClientsType
  <2>2. CASE Request(c) = "write"
    <3>1. times' = [times EXCEPT ![c] = @ + 1]
      BY <1>1, <2>2, ServedRequest
    <3> QED
      BY <1>1, <2>1, <3>1 DEF ClientsType
  <2>3. CASE Request(c) # "write"
    <3>1. ~WriteAhead(c)
      <4>1. Len(<<"read", "write">>) = 2
        OBVIOUS
      <4>2. RequestsOf[op[c]] = <<"read", "write">> => at[c] # 1
        BY <2>1, <4>1
      <4> QED
        BY <2>3, <4>2 DEF WriteAhead
    <3>2. times[c] > 0 /\ UNCHANGED times
      BY <1>1, <2>1, <2>3, <3>1, ServedRequest DEF IInv, CallInv
    <3> QED
      BY <3>2
  <2> QED
    BY <2>2, <2>3
<1> HIDE DEF place
<1> QED
  BY <1>1, <1>2, <1>3, <1>4, <1>5, ActsWhen

LEMMA AttemptFailsRefines ==
  ASSUME IInv, NEW c \in Call, AttemptFails(c)
  PROVE  Promise!Acts(c)
<1> DEFINE place == pc'[c]
<1>1. ClientsType /\ UNCHANGED op /\ InThread(c) /\ pc[c] \in {"calling", "abandoned"}
  BY FailedAttempt DEF IInv, AttemptFails, InThread
<1>2. Promise!Takes(c) \/ UNCHANGED <<store, times>>
  BY <1>1, ServedRefines DEF AttemptFails
<1>3. pc' = [pc EXCEPT ![c] = place]
  BY <1>1, FailedAttempt DEF ClientsType
<1>4. /\ pc[c] = "calling" \/ (pc[c] = "abandoned" /\ place = "abandoned")
      /\ place \in {"calling", "failed", "abandoned"} /\ place # "done"
  BY <1>1 DEF ClientsType, AttemptFails, TriesAgain, Fails
<1> HIDE DEF place
<1> QED
  BY <1>1, <1>2, <1>3, <1>4, ActsWhen

(* The clients keep the promise of Workspace, for any number of calls,     *)
(* attempts and failures, but for its fairness: an answer comes after the  *)
(* effect and nothing happens after it (google_clients.py:25-44).          *)
THEOREM SafetyRefinement == Spec => Promise!Init /\ [][Promise!Next]_(Promise!vars)
<1>1. IInv /\ [Next]_vars => [Promise!Next]_(Promise!vars)
  <2> SUFFICES ASSUME IInv, [Next]_vars PROVE [Promise!Next]_(Promise!vars)
    OBVIOUS
  <2>1. CASE UNCHANGED vars
    BY <2>1 DEF vars, Promise!vars, State
  <2>2. ASSUME NEW c \in Call, Begin(c) PROVE Promise!Begin(c)
    BY <2>2, BeginRefines
  <2>3. ASSUME NEW c \in Call, Refuse(c) \/ Proceed(c) \/ Abandon(c) PROVE Promise!Acts(c)
    BY <2>3, RefuseRefines, MockCallRefines, AnsweredRefines, NotFoundRefines,
       AttemptFailsRefines, AbandonRefines DEF Proceed
  <2> QED
    BY <2>1, <2>2, <2>3 DEF Next, Promise!Next
<1> QED
  BY <1>1, InitRefines, Invariance, PTL DEF Spec
=============================================================================
