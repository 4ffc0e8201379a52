------------------------------ MODULE Workspace ------------------------------
(***************************************************************************)
(* What the clients of Gmail, Calendar and Drive promise the agents that   *)
(* call them, mock or real (app/agents/mock_clients.py says what a call    *)
(* does to the account): a call that is answered has had its effect, once  *)
(* or several times, before the answer and never after it; one that fails  *)
(* may have had it, and may still have it; every call comes to an end.     *)
(***************************************************************************)
EXTENDS Integers, FiniteSets

CONSTANTS Call, MaxTimes

VARIABLES op,     \* call -> the method that is called
          store,  \* the account
          state,  \* call -> free | called | done | failed
          times   \* call -> how often it has taken effect

vars == <<op, store, state, times>>

Mail     == {"list_messages", "get_message", "send_message", "create_draft", "modify_labels"}
Calendar == {"list_events", "get_event", "create_event", "update_event", "delete_event"}
Drive    == {"list_files", "get_file", "share_file", "create_folder", "move_file"}
Reads    == {"list_messages", "get_message", "list_events", "get_event", "list_files", "get_file"}

(* The account: what each call has made (messages, drafts, events and      *)
(* folders), the labels of a message, who patched an event last, and the   *)
(* folders and the shares of a file.  A call labels with, patches with,    *)
(* shares with and moves to something of its own.                          *)
Seeded == [made |-> [c \in Call |-> 0], labels |-> {}, event |-> "seeded",
           parents |-> {"root"}, shares |-> {}]

Made(c, s) == [s EXCEPT !.made[c] = @ + 1]

MailEffect(c, s) ==
    IF op[c] = "modify_labels" THEN [s EXCEPT !.labels = (@ \cup {c}) \ (Call \ {c})]
    ELSE Made(c, s)

CalendarEffect(c, s) ==
    CASE op[c] = "update_event" -> [s EXCEPT !.event = c]
      [] op[c] = "delete_event" -> [s EXCEPT !.event = "deleted"]
      [] op[c] = "create_event" -> Made(c, s)

(* A file leaves one folder for another.                                   *)
DriveEffect(c, s, from) ==
    CASE op[c] = "share_file"    -> [s EXCEPT !.shares = @ \cup {c}]
      [] op[c] = "move_file"     -> [s EXCEPT !.parents = (@ \ {from}) \cup {c}]
      [] op[c] = "create_folder" -> Made(c, s)

Effect(c, s, from) ==
    CASE op[c] \in Mail     -> MailEffect(c, s)
      [] op[c] \in Calendar -> CalendarEffect(c, s)
      [] op[c] \in Drive    -> DriveEffect(c, s, from)

(* An event that is gone is found by nobody.                               *)
Found(c) == op[c] \in {"get_event", "update_event", "delete_event"} => store.event # "deleted"

Init == /\ op \in [Call -> Mail \cup Calendar \cup Drive]
        /\ store = Seeded
        /\ state = [c \in Call |-> "free"]
        /\ times = [c \in Call |-> 0]

Begin(c) == /\ state[c] = "free"
            /\ state' = [state EXCEPT ![c] = "called"]
            /\ UNCHANGED <<op, store, times>>

Takes(c) == /\ op[c] \notin Reads /\ Found(c) /\ times[c] < MaxTimes
            /\ \E from \in {"root"} \cup Call : store' = Effect(c, store, from)
            /\ times' = [times EXCEPT ![c] = @ + 1]

Acts(c) == /\ state[c] \in {"called", "failed"}
           /\ Takes(c) \/ UNCHANGED <<store, times>>
           /\ \E s \in {"called", "done", "failed"} :
                  /\ state[c] = "failed" => s = "failed"
                  /\ s = "done" => op[c] \in Reads \/ times'[c] > 0
                  /\ state' = [state EXCEPT ![c] = s]
           /\ UNCHANGED op

Ends(c) == state[c] = "called" /\ Acts(c) /\ state'[c] # "called"

Next == \E c \in Call : Begin(c) \/ Acts(c)

Spec == Init /\ [][Next]_vars /\ \A c \in Call : WF_vars(Ends(c))
=============================================================================
