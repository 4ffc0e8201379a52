----------------------------- MODULE QueryPlanner -----------------------------
(***************************************************************************)
(* QueryPlanner of app/planner/query_planner.py: the plan each intent gets *)
(* and the generic fan-out of those without a template.  A node keeps what *)
(* scheduling and reporting look at; "reads" are the ids that its          *)
(* parameter builder looks up in the report, whatever it depends on.       *)
(***************************************************************************)
EXTENDS Integers, Sequences, FiniteSets, SequencesExt

CONSTANTS ServiceLists   \* the lists of services a classifier may return

Services == {"gmail", "gcal", "gdrive"}

PlanNode(agent, operation, dependsOn, reads) ==
    [agent |-> agent, operation |-> operation, dependsOn |-> dependsOn,
     reads |-> reads, optional |-> FALSE, isWrite |-> FALSE]

SearchNode(agent) == PlanNode(agent, "search", {}, {})
WriteNode(agent, dependsOn, reads) ==
    [PlanNode(agent, "execute", dependsOn, reads) EXCEPT !.isWrite = TRUE]

(* Mutant: the draft waits for the calendar only.                          *)
CancelFlightHalfBlind ==
    [find_booking_email  |-> SearchNode("gmail"),
     find_calendar_event |-> SearchNode("gcal"),
     draft_cancellation_email |->
        WriteNode("gmail", {"find_calendar_event"},
                  {"find_booking_email", "find_calendar_event"})]

CancelFlight ==
    [find_booking_email  |-> SearchNode("gmail"),
     find_calendar_event |-> SearchNode("gcal"),
     draft_cancellation_email |->
        WriteNode("gmail", {"find_booking_email", "find_calendar_event"},
                  {"find_booking_email", "find_calendar_event"})]

(* Mutant: the mail search does not wait for the event it reads.           *)
PrepareForMeetingAtOnce ==
    [find_meeting_event |-> SearchNode("gcal"),
     find_drive_docs    |-> SearchNode("gdrive"),
     find_participant_emails |->
        PlanNode("gmail", "search", {}, {"find_meeting_event"})]

PrepareForMeeting ==
    [find_meeting_event |-> SearchNode("gcal"),
     find_drive_docs    |-> SearchNode("gdrive"),
     find_participant_emails |->
        PlanNode("gmail", "search", {"find_meeting_event"}, {"find_meeting_event"})]

RescheduleEvent ==
    [find_candidate_events |-> SearchNode("gcal"),
     update_event          |-> WriteNode("gcal", {"find_candidate_events"},
                                        {"find_candidate_events"})]

FindConflicts ==
    [search_events  |-> SearchNode("gcal"),
     search_oof_doc |-> SearchNode("gdrive"),
     detect_conflicts |->
        PlanNode("compute", "compute", {"search_events", "search_oof_doc"},
                 {"search_events", "search_oof_doc"})]

ReferenceLookup ==
    [resolve_reference |-> PlanNode("compute", "compute", {}, {}),
     get_referenced_context |->
        [PlanNode("gmail", "get_context", {"resolve_reference"}, {"resolve_reference"})
            EXCEPT !.optional = TRUE]]

Templates == [cancel_flight |-> CancelFlight, prepare_for_meeting |-> PrepareForMeeting,
              reschedule_event |-> RescheduleEvent, find_conflicts |-> FindConflicts,
              reference_lookup |-> ReferenceLookup]

(* search_email, search_calendar, search_drive and the generic fan-out     *)
(* have a node for each service, all of them when none is named.           *)
SearchOf == [gmail |-> "search_gmail", gcal |-> "search_gcal",
             gdrive |-> "search_gdrive", unknown |-> "search_unknown"]

FanOut(services) ==
    LET named == IF services = {} THEN Services ELSE services
    IN  [id \in {SearchOf[s] : s \in named} |->
            SearchNode(CHOOSE s \in named : SearchOf[s] = id)]

SingleSearches == [search_calendar |-> "gcal", search_email |-> "gmail",
                   search_drive |-> "gdrive"]

Intents == DOMAIN Templates \cup DOMAIN SingleSearches \cup {"general_query"}

(* build_plan looks at the name of the intent alone.  A fan-out over a     *)
(* service named twice is a ValueError of add_node.                        *)
BuildRaises(name, services) == name = "general_query" /\ ~IsInjective(services)

(* Templates that make text of an entity, which the model may have given   *)
(* any JSON value: joining one that is no list of strings is a TypeError.  *)
JoinsEntities(name) == name \in {"cancel_flight", "prepare_for_meeting", "reschedule_event"}

BuildPlan(name, services) ==
    CASE name \in DOMAIN Templates      -> Templates[name]
      [] name \in DOMAIN SingleSearches -> FanOut({SingleSearches[name]})
      [] OTHER                          -> FanOut(ToSet(services))

-----------------------------------------------------------------------------
(* The layers of a plan, as module ExecutionDAG shows topological_layers   *)
(* to compute them.  Within a layer ids are sorted in the code and in some *)
(* fixed order here: only the order of recording depends on it.            *)
Emitted(t) ==
    LET within[k \in 0..Cardinality(DOMAIN t)] ==
            IF k = 0 THEN {}
            ELSE {n \in DOMAIN t : t[n].dependsOn \subseteq within[k - 1]}
    IN  within

LayersOf(t) ==
    LET within == Emitted(t)
        height == Cardinality({k \in 1..Cardinality(DOMAIN t) : within[k] # within[k - 1]})
    IN  [k \in 1..height |-> SetToSeq(within[k] \ within[k - 1])]

(* A plan in the form module ServiceOrchestrator runs.  A service that has *)
(* no agent makes _dispatch raise, whatever the operation.                 *)
Runnable(t) ==
    [nodes     |-> DOMAIN t,
     operation |-> [n \in DOMAIN t |-> IF t[n].agent \in Services \cup {"compute"}
                                       THEN t[n].operation ELSE "invalid"],
     dependsOn |-> [n \in DOMAIN t |-> t[n].dependsOn],
     optional  |-> {n \in DOMAIN t : t[n].optional},
     isWrite   |-> {n \in DOMAIN t : t[n].isWrite},
     layers    |-> LayersOf(t)]

NoPlan == [nodes |-> {}, operation |-> <<>>, dependsOn |-> <<>>, optional |-> {},
           isWrite |-> {}, layers |-> <<>>]

AllTemplates == {BuildPlan(name, services) : name \in Intents, services \in ServiceLists}
Node  == UNION {DOMAIN t : t \in AllTemplates}
Plans == {NoPlan} \cup {Runnable(t) : t \in AllTemplates}
=============================================================================
