------------------------ MODULE MCServiceOrchestrator ------------------------
(* The shapes of the plans query_planner.py builds, over three node ids,   *)
(* and two that its data structures allow: a chain of writes, and an       *)
(* optional node others depend on.                                         *)
EXTENDS ServiceOrchestrator

CONSTANTS a, b, c

Plan(ops, dependsOn, optional, layers) ==
    [nodes |-> DOMAIN ops, operation |-> ops, dependsOn |-> dependsOn,
     optional |-> optional, isWrite |-> {n \in DOMAIN ops : ops[n] = "execute"},
     layers |-> layers]

Three(x, y, z) == [n \in {a, b, c} |-> CASE n = a -> x [] n = b -> y [] n = c -> z]

(* cancel_flight                                                           *)
TwoSearchesThenWrite == Plan(Three("search", "search", "execute"),
                             Three({}, {}, {a, b}), {}, <<<<a, b>>, <<c>>>>)
(* prepare_for_meeting                                                     *)
SearchThenSearch == Plan(Three("search", "search", "search"),
                         Three({}, {}, {a}), {}, <<<<a, b>>, <<c>>>>)
(* find_conflicts                                                          *)
TwoSearchesThenCompute == Plan(Three("search", "search", "compute"),
                               Three({}, {}, {a, b}), {}, <<<<a, b>>, <<c>>>>)
(* reference_lookup                                                        *)
ComputeThenContext == Plan([n \in {a, b} |-> IF n = a THEN "compute" ELSE "get_context"],
                           [n \in {a, b} |-> IF n = a THEN {} ELSE {a}], {b},
                           <<<<a>>, <<b>>>>)
(* generic fan-out: all three services, and one service without an agent   *)
FanOut == Plan(Three("search", "search", "search"), Three({}, {}, {}), {}, <<<<a, b, c>>>>)
FanOutUnknown == Plan(Three("search", "invalid", "search"), Three({}, {}, {}), {}, <<<<a, b, c>>>>)

ChainOfWrites == Plan(Three("search", "execute", "execute"),
                      Three({}, {a}, {b}), {}, <<<<a>>, <<b>>, <<c>>>>)
OptionalInTheMiddle == Plan(Three("search", "get_context", "search"),
                            Three({}, {a}, {b}), {b}, <<<<a>>, <<b>>, <<c>>>>)

TemplatePlans == {TwoSearchesThenWrite, SearchThenSearch, TwoSearchesThenCompute,
                  ComputeThenContext, FanOut, FanOutUnknown}
AllPlans == TemplatePlans \cup {ChainOfWrites, OptionalInTheMiddle}
WritePlans == {TwoSearchesThenWrite}
OptionalPlans == {OptionalInTheMiddle}
=============================================================================
