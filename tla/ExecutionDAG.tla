---------------------------- MODULE ExecutionDAG ----------------------------
(***************************************************************************)
(* topological_layers() of app/planner/dag.py: Kahn's algorithm, batched.  *)
(* One step is one pass of the code: counting the edges, one turn of the   *)
(* "while ready" loop, and the test of what remains.  A node is known by   *)
(* its id; depends_on is a list, so a dependency may be named twice and    *)
(* may name a node that is not in the plan.                                *)
(***************************************************************************)
EXTENDS Integers, Sequences, FiniteSets, Functions

CONSTANTS Graphs    \* the plans topological_layers may be called on

(* A plan as add_node left it: one entry of depends_on per node id.        *)
IsGraph(g) == /\ IsFiniteSet(DOMAIN g)
              /\ \A n \in DOMAIN g : g[n] \in Seq(Range(g[n]))

ASSUME GraphsAssumption == \A g \in Graphs : IsGraph(g)

VARIABLES graph,      \* node id -> its depends_on
          remaining,  \* node id -> entries of depends_on not yet in a layer
          ready,      \* the ids of the next layer
          layers,     \* the layers returned so far, each a set of ids
          pc          \* count -> loop -> check -> done | unknown | cycle

vars == <<graph, remaining, ready, layers, pc>>

Nodes == DOMAIN graph

(* How many entries of n's depends_on lie in S.                            *)
EntriesIn(n, S) == {k \in DOMAIN graph[n] : graph[n][k] \in S}

Init == /\ graph \in Graphs
        /\ remaining = <<>>
        /\ ready = {}
        /\ layers = <<>>
        /\ pc = "count"

(* A dependency that is not a node of the plan is a ValueError.            *)
UnknownDependency ==
    /\ pc = "count"
    /\ \E n \in Nodes : EntriesIn(n, Nodes) # DOMAIN graph[n]
    /\ pc' = "unknown"
    /\ UNCHANGED <<graph, remaining, ready, layers>>

(* Mutant: a dependency named twice is counted once.                       *)
CountEdgesOnce ==
    /\ pc = "count"
    /\ \A n \in Nodes : EntriesIn(n, Nodes) = DOMAIN graph[n]
    /\ remaining' = [n \in Nodes |-> Cardinality(Range(graph[n]))]
    /\ ready' = {n \in Nodes : remaining'[n] = 0}
    /\ pc' = "loop"
    /\ UNCHANGED <<graph, layers>>

(* One unit of in-degree per entry of depends_on; degree 0 is ready.       *)
CountEdges ==
    /\ pc = "count"
    /\ \A n \in Nodes : EntriesIn(n, Nodes) = DOMAIN graph[n]
    /\ remaining' = [n \in Nodes |-> Cardinality(EntriesIn(n, Nodes))]
    /\ ready' = {n \in Nodes : remaining'[n] = 0}
    /\ pc' = "loop"
    /\ UNCHANGED <<graph, layers>>

(* Mutant: a dependent is ready as soon as one dependency is in a layer.   *)
EmitLayerAnyEntry ==
    /\ pc = "loop"
    /\ ready # {}
    /\ layers' = Append(layers, ready)
    /\ remaining' = [n \in DOMAIN remaining \ ready |->
                        remaining[n] - Cardinality(EntriesIn(n, ready))]
    /\ ready' = {n \in DOMAIN remaining \ ready : EntriesIn(n, ready) # {}}
    /\ UNCHANGED <<graph, pc>>

(* Mutant: Kahn's algorithm without batches, a node at a time.             *)
EmitLayerOneByOne ==
    /\ pc = "loop"
    /\ \E m \in ready :
           /\ layers' = Append(layers, {m})
           /\ remaining' = [n \in DOMAIN remaining \ {m} |->
                               remaining[n] - Cardinality(EntriesIn(n, {m}))]
           /\ ready' = {n \in DOMAIN remaining \ {m} : remaining'[n] = 0}
    /\ UNCHANGED <<graph, pc>>

(* One turn of the loop: the ready ids become a layer, every dependent of  *)
(* one of them is decremented, and those that reach 0 are ready next.      *)
EmitLayer ==
    /\ pc = "loop"
    /\ ready # {}
    /\ layers' = Append(layers, ready)
    /\ remaining' = [n \in DOMAIN remaining \ ready |->
                        remaining[n] - Cardinality(EntriesIn(n, ready))]
    /\ ready' = {n \in DOMAIN remaining \ ready :
                    /\ EntriesIn(n, ready) # {}
                    /\ remaining'[n] = 0}
    /\ UNCHANGED <<graph, pc>>

(* Mutant: what is left when the loop ends is not looked at.               *)
LoopEndsUnchecked ==
    /\ pc = "loop"
    /\ ready = {}
    /\ pc' = "done"
    /\ UNCHANGED <<graph, remaining, ready, layers>>

(* Mutant: "while remaining" in the place of "while ready".                *)
LoopEndsWhenAllEmitted ==
    /\ pc = "loop"
    /\ DOMAIN remaining = {}
    /\ pc' = "done"
    /\ UNCHANGED <<graph, remaining, ready, layers>>

(* Nodes that never became ready are in a cycle, a ValueError.             *)
LoopEnds ==
    /\ pc = "loop"
    /\ ready = {}
    /\ pc' = IF DOMAIN remaining = {} THEN "done" ELSE "cycle"
    /\ UNCHANGED <<graph, remaining, ready, layers>>

Next == UnknownDependency \/ CountEdges \/ EmitLayer \/ LoopEnds

Spec == Init /\ [][Next]_vars /\ WF_vars(Next)

-----------------------------------------------------------------------------
DependsOn(n) == Range(graph[n])
Emitted == UNION Range(layers)

TypeOK ==
    /\ graph \in Graphs
    /\ DOMAIN remaining \subseteq Nodes
    /\ remaining \in [DOMAIN remaining -> Nat]
    /\ ready \subseteq DOMAIN remaining
    /\ layers \in Seq(SUBSET Nodes)
    /\ pc \in {"count", "loop", "done", "unknown", "cycle"}

(* No node is ever batched together with, or ahead of, a node it depends   *)
(* on, none is batched twice, and no batch is empty: the order gather      *)
(* relies on when a layer runs concurrently (dag.py:45, orchestrator.py:   *)
(* 47-48).                                                                 *)
LayersRespectDependencies ==
    \A i \in DOMAIN layers : layers[i] # {} /\ \A n \in layers[i] :
        /\ DependsOn(n) \subseteq UNION {layers[h] : h \in 1..(i - 1)}
        /\ \A h \in DOMAIN layers : n \in layers[h] => h = i

(* The batches are as early as they can be: every node of a layer but the  *)
(* first waits for some node of the layer just before it, so no two layers *)
(* could have run as one.                                                  *)
LayersAreEarliest ==
    \A i \in DOMAIN layers : \A n \in layers[i] :
        i > 1 => DependsOn(n) \cap layers[i - 1] # {}

(* What the call owes its caller, against a definition that does not       *)
(* mention degrees: it returns every node when no set of nodes waits on    *)
(* itself, and raises otherwise (test_dag.py, cycle and unknown cases).    *)
Circular(S) == S # {} /\ \A n \in S : DependsOn(n) \cap S # {}

ResultIsRight ==
    /\ pc = "done" =>
           Emitted = Nodes /\ \A S \in SUBSET Nodes : ~Circular(S)
    /\ pc = "cycle" =>
           /\ Circular(DOMAIN remaining)
           /\ DOMAIN remaining = Nodes \ Emitted
    /\ pc = "unknown" <=> (pc # "count" /\ \E n \in Nodes : ~(DependsOn(n) \subseteq Nodes))

(* The loop ends on every plan, whatever its depends_on lists hold.        *)
Terminates == <>(pc \in {"done", "unknown", "cycle"})
=============================================================================
