-------------------------- MODULE ExecutionDAGProofs --------------------------
(***************************************************************************)
(* What topological_layers returns, proved for every finite plan and every *)
(* content of its depends_on lists.                                        *)
(***************************************************************************)
EXTENDS ExecutionDAG, FiniteSetTheorems, TLAPS

Left == DOMAIN remaining

(* What the loop keeps: the nodes emitted and those left are all nodes,    *)
(* degrees count the entries still in the way, and the ready nodes are the *)
(* ones with none, each released by the last layer.                        *)
LoopInv ==
    pc # "count" /\ pc # "unknown" =>
        /\ \A n \in Nodes : DependsOn(n) \subseteq Nodes
        /\ Left \cup Emitted = Nodes /\ Left \cap Emitted = {}
        /\ \A n \in Left : remaining[n] = Cardinality(EntriesIn(n, Left))
        /\ ready = {n \in Left : remaining[n] = 0}
        /\ layers # <<>> =>
               \A n \in ready : DependsOn(n) \cap layers[Len(layers)] # {}
        /\ \A S \in SUBSET Nodes : Circular(S) => S \cap Emitted = {}
        /\ pc = "done" => Left = {}
        /\ pc = "cycle" => Left # {} /\ ready = {}

EarlyInv ==
    /\ pc = "count" => layers = <<>>
    /\ pc = "unknown" => layers = <<>> /\ \E n \in Nodes : ~(DependsOn(n) \subseteq Nodes)

IInv == TypeOK /\ EarlyInv /\ LoopInv /\ LayersRespectDependencies /\ LayersAreEarliest

-----------------------------------------------------------------------------
(* Counting entries of a depends_on list.                                  *)
LEMMA Entries ==
    ASSUME TypeOK, NEW n \in Nodes, NEW S
    PROVE  /\ IsFiniteSet(EntriesIn(n, S))
           /\ Cardinality(EntriesIn(n, S)) \in Nat
           /\ Cardinality(EntriesIn(n, S)) = 0 <=> DependsOn(n) \cap S = {}
           /\ EntriesIn(n, S) = {} <=> DependsOn(n) \cap S = {}
           /\ EntriesIn(n, S) = DOMAIN graph[n] <=> DependsOn(n) \subseteq S
<1>1. graph[n] \in Seq(Range(graph[n]))
  BY GraphsAssumption DEF TypeOK, IsGraph, Nodes
<1>2. DOMAIN graph[n] = 1..Len(graph[n]) /\ Len(graph[n]) \in Nat
  BY <1>1
<1>3. IsFiniteSet(DOMAIN graph[n])
  <2>1. 1 \in Int /\ Len(graph[n]) \in Int
    BY <1>2
  <2>2. IsFiniteSet(1..Len(graph[n]))
    BY <2>1, FS_Interval, Zenon
  <2> QED
    BY <1>2, <2>2
<1>4. EntriesIn(n, S) \in SUBSET DOMAIN graph[n]
  BY DEF EntriesIn
<1>5. IsFiniteSet(EntriesIn(n, S))
  BY <1>3, <1>4, FS_Subset
<1>6. Cardinality(EntriesIn(n, S)) \in Nat
  BY <1>5, FS_CardinalityType
<1>7. Cardinality(EntriesIn(n, S)) = 0 <=> EntriesIn(n, S) = {}
  BY <1>5, FS_EmptySet
<1>8. /\ EntriesIn(n, S) = {} <=> DependsOn(n) \cap S = {}
      /\ EntriesIn(n, S) = DOMAIN graph[n] <=> DependsOn(n) \subseteq S
  BY DEF EntriesIn, DependsOn, Range
<1> QED
  BY <1>5, <1>6, <1>7, <1>8

LEMMA EntriesApart ==
    ASSUME TypeOK, NEW n \in Nodes, NEW S, NEW T \in SUBSET S
    PROVE  Cardinality(EntriesIn(n, S \ T))
             = Cardinality(EntriesIn(n, S)) - Cardinality(EntriesIn(n, T))
<1>1. /\ EntriesIn(n, S \ T) = EntriesIn(n, S) \ EntriesIn(n, T)
      /\ EntriesIn(n, S) \cap EntriesIn(n, T) = EntriesIn(n, T)
  BY DEF EntriesIn
<1>2. IsFiniteSet(EntriesIn(n, S))
  BY Entries
<1>3. Cardinality(EntriesIn(n, S) \ EntriesIn(n, T)) =
          Cardinality(EntriesIn(n, S)) - Cardinality(EntriesIn(n, S) \cap EntriesIn(n, T))
  BY <1>2, FS_Difference, Zenon
<1> QED
  BY <1>1, <1>3

-----------------------------------------------------------------------------
LEMMA InitDAG == Init => IInv
<1> SUFFICES ASSUME Init PROVE IInv
  OBVIOUS
<1>1. TypeOK
  BY DEF Init, TypeOK
<1>2. EarlyInv /\ LoopInv
  BY DEF Init, EarlyInv, LoopInv
<1>3. LayersRespectDependencies /\ LayersAreEarliest
  BY DEF Init, LayersRespectDependencies, LayersAreEarliest
<1> QED
  BY <1>1, <1>2, <1>3 DEF IInv

LEMMA CountInv ==
    ASSUME IInv, CountEdges
    PROVE  IInv'
<1>1. /\ TypeOK /\ layers = <<>> /\ layers' = layers /\ graph' = graph /\ pc' = "loop"
      /\ \A n \in Nodes : EntriesIn(n, Nodes) = DOMAIN graph[n]
      /\ remaining' = [n \in Nodes |-> Cardinality(EntriesIn(n, Nodes))]
      /\ ready' = {n \in Nodes : remaining'[n] = 0}
  BY DEF CountEdges, IInv, EarlyInv
<1>2. \A n \in Nodes : DependsOn(n) \subseteq Nodes /\ Cardinality(EntriesIn(n, Nodes)) \in Nat
  BY <1>1, Entries
<1>3. Nodes' = Nodes /\ Left' = Nodes /\ Emitted = {} /\ Emitted' = {}
  BY <1>1 DEF Nodes, Left, Emitted, Range
<1>4. TypeOK'
  BY <1>1, <1>2, <1>3 DEF TypeOK, Left
<1>5. EarlyInv' /\ LayersRespectDependencies' /\ LayersAreEarliest'
  BY <1>1 DEF EarlyInv, LayersRespectDependencies, LayersAreEarliest
<1>6. LoopInv'
  BY <1>1, <1>2, <1>3 DEF LoopInv, DependsOn, EntriesIn, Circular
<1> QED
  BY <1>4, <1>5, <1>6 DEF IInv

LEMMA EmitInv ==
    ASSUME IInv, EmitLayer
    PROVE  IInv'
<1>1. /\ TypeOK /\ pc = "loop" /\ pc' = "loop" /\ graph' = graph /\ ready # {}
      /\ layers' = Append(layers, ready)
      /\ remaining' = [n \in Left \ ready |-> remaining[n] - Cardinality(EntriesIn(n, ready))]
      /\ ready' = {n \in Left \ ready : EntriesIn(n, ready) # {} /\ remaining'[n] = 0}
  BY DEF EmitLayer, IInv, Left
<1>2. /\ Nodes' = Nodes /\ Left' = Left \ ready
      /\ Left \subseteq Nodes /\ ready \subseteq Left
  BY <1>1 DEF Nodes, Left, TypeOK
<1>3. /\ layers \in Seq(SUBSET Nodes) /\ Len(layers) \in Nat
      /\ Len(layers') = Len(layers) + 1
      /\ DOMAIN layers' = 1..(Len(layers) + 1) /\ DOMAIN layers = 1..Len(layers)
      /\ layers'[Len(layers) + 1] = ready
      /\ \A i \in DOMAIN layers : layers'[i] = layers[i]
      /\ layers' \in Seq(SUBSET Nodes) /\ layers' # <<>>
  BY <1>1, <1>2 DEF TypeOK
<1>4. Emitted' = Emitted \cup ready
  BY <1>3 DEF Emitted, Range
<1>5. /\ \A n \in Nodes : DependsOn(n) \subseteq Nodes
      /\ Left \cup Emitted = Nodes /\ Left \cap Emitted = {}
      /\ \A n \in Left : remaining[n] = Cardinality(EntriesIn(n, Left))
      /\ ready = {n \in Left : remaining[n] = 0}
      /\ layers # <<>> => \A n \in ready : DependsOn(n) \cap layers[Len(layers)] # {}
      /\ \A S \in SUBSET Nodes : Circular(S) => S \cap Emitted = {}
  BY <1>1 DEF IInv, LoopInv
<1>6. ASSUME NEW n \in ready PROVE DependsOn(n) \subseteq Emitted
  BY <1>1, <1>2, <1>5, Entries
<1>7. ASSUME NEW n \in Left \ ready
      PROVE  /\ remaining'[n] = Cardinality(EntriesIn(n, Left \ ready))
             /\ remaining'[n] \in Nat
             /\ remaining'[n] = 0 => DependsOn(n) \cap ready # {} /\ EntriesIn(n, ready) # {}
  <2>1. remaining'[n] = Cardinality(EntriesIn(n, Left)) - Cardinality(EntriesIn(n, ready))
    BY <1>1, <1>5
  <2>2. remaining'[n] = Cardinality(EntriesIn(n, Left \ ready))
    BY <1>1, <1>2, <2>1, EntriesApart
  <2>3. remaining[n] # 0
    BY <1>5
  <2>4. /\ Cardinality(EntriesIn(n, Left \ ready)) \in Nat
        /\ Cardinality(EntriesIn(n, ready)) = 0 <=> DependsOn(n) \cap ready = {}
        /\ EntriesIn(n, ready) = {} <=> DependsOn(n) \cap ready = {}
        /\ Cardinality(EntriesIn(n, Left)) \in Nat
        /\ Cardinality(EntriesIn(n, ready)) \in Nat
    BY <1>1, <1>2, Entries
  <2>5. Cardinality(EntriesIn(n, Left)) = remaining[n]
    BY <1>5
  <2> QED
    BY <2>1, <2>2, <2>3, <2>4, <2>5
<1>8. ready' = {n \in Left' : remaining'[n] = 0}
  BY <1>1, <1>2, <1>7
<1>9. TypeOK'
  BY <1>1, <1>2, <1>3, <1>7, <1>8 DEF TypeOK, Left
<1>10. LoopInv'
  <2>1. ASSUME NEW S \in SUBSET Nodes, Circular(S) PROVE S \cap Emitted' = {}
    BY <1>4, <1>5, <1>6, <2>1 DEF Circular
  <2>2. \A n : DependsOn(n)' = DependsOn(n)
    BY <1>1 DEF DependsOn
  <2>4. \A S : Circular(S)' <=> Circular(S)
    BY <1>1 DEF Circular, DependsOn
  <2>5. \A n \in ready' : DependsOn(n) \cap layers'[Len(layers')] # {}
    BY <1>1, <1>3, <1>7
  <2>6. Left' \cup Emitted' = Nodes /\ Left' \cap Emitted' = {}
    BY <1>2, <1>4, <1>5
  <2>7. \A n \in Left' : remaining'[n] = Cardinality({k \in DOMAIN graph'[n] : graph'[n][k] \in Left'})
    BY <1>1, <1>2, <1>7 DEF EntriesIn
  <2> QED
    <3>1. \A n \in Left' : remaining'[n] = Cardinality(EntriesIn(n, Left)')
      BY <2>7 DEF EntriesIn
    <3>2. \A n \in Nodes' : DependsOn(n)' \subseteq Nodes'
      BY <1>2, <1>5, <2>2
    <3>3. \A n \in ready' : DependsOn(n)' \cap layers'[Len(layers')] # {}
      BY <2>2, <2>5
    <3>4. \A S \in SUBSET Nodes' : Circular(S)' => S \cap Emitted' = {}
      BY <1>2, <2>1, <2>4
    <3> QED
      BY <1>1, <1>2, <1>8, <2>6, <3>1, <3>2, <3>3, <3>4 DEF LoopInv
<1>11. Emitted = UNION {layers[h] : h \in 1..Len(layers)}
  BY <1>3 DEF Emitted, Range
<1>12. LayersRespectDependencies'
  <2> SUFFICES ASSUME NEW i \in DOMAIN layers'
               PROVE  /\ layers'[i] # {}
                      /\ \A n \in layers'[i] :
                           /\ DependsOn(n) \subseteq UNION {layers'[h] : h \in 1..(i - 1)}
                           /\ \A h \in DOMAIN layers' : n \in layers'[h] => h = i
    BY <1>1 DEF LayersRespectDependencies, DependsOn
  <2>1. UNION {layers'[h] : h \in 1..(i - 1)} = UNION {layers[h] : h \in 1..(i - 1)}
    BY <1>3
  <2>2. ASSUME NEW h \in DOMAIN layers PROVE layers[h] \cap ready = {}
    BY <1>2, <1>3, <1>5, <1>11
  <2>3. CASE i \in DOMAIN layers
    BY <1>3, <2>1, <2>2, <2>3 DEF IInv, LayersRespectDependencies
  <2>4. CASE i = Len(layers) + 1
    BY <1>1, <1>3, <1>6, <1>11, <2>1, <2>2, <2>4
  <2> QED
    BY <1>3, <2>3, <2>4
<1>13. LayersAreEarliest'
  <2> SUFFICES ASSUME NEW i \in DOMAIN layers', NEW n \in layers'[i], i > 1
               PROVE  DependsOn(n) \cap layers'[i - 1] # {}
    BY <1>1 DEF LayersAreEarliest, DependsOn
  <2>1. CASE i \in DOMAIN layers
    BY <1>3, <2>1 DEF IInv, LayersAreEarliest
  <2>2. CASE i = Len(layers) + 1
    BY <1>3, <1>5, <2>2
  <2> QED
    BY <1>3, <2>1, <2>2
<1>14. EarlyInv'
  BY <1>1 DEF EarlyInv
<1> QED
  BY <1>9, <1>10, <1>12, <1>13, <1>14 DEF IInv

(* A step that leaves the batches alone.                                   *)
LEMMA Kept ==
    ASSUME UNCHANGED <<graph, remaining, ready, layers>>
    PROVE  /\ Nodes' = Nodes /\ Left' = Left /\ Emitted' = Emitted
           /\ \A n : DependsOn(n)' = DependsOn(n)
           /\ \A S : Circular(S)' <=> Circular(S)
           /\ LayersRespectDependencies => LayersRespectDependencies'
           /\ LayersAreEarliest => LayersAreEarliest'
<1>1. /\ Nodes' = Nodes /\ Left' = Left /\ Emitted' = Emitted
      /\ \A n : DependsOn(n)' = DependsOn(n)
  BY DEF Nodes, Left, Emitted, DependsOn
<1>2. \A S : Circular(S)' <=> Circular(S)
  BY <1>1 DEF Circular
<1>3. LayersRespectDependencies => LayersRespectDependencies'
  BY <1>1 DEF LayersRespectDependencies
<1>4. LayersAreEarliest => LayersAreEarliest'
  BY <1>1 DEF LayersAreEarliest
<1> QED
  BY <1>1, <1>2, <1>3, <1>4

LEMMA StopInv ==
    ASSUME IInv, UnknownDependency \/ LoopEnds
    PROVE  IInv'
<1>1. TypeOK /\ UNCHANGED <<graph, remaining, ready, layers>> /\ pc' \in {"unknown", "done", "cycle"}
  BY DEF UnknownDependency, LoopEnds, IInv
<1>2. TypeOK' /\ LayersRespectDependencies' /\ LayersAreEarliest'
  BY <1>1, Kept DEF IInv, TypeOK
<1>3. CASE UnknownDependency
  <2>1. pc = "count" /\ pc' = "unknown" /\ \E n \in Nodes : ~(DependsOn(n) \subseteq Nodes)
    BY <1>1, <1>3, Entries DEF UnknownDependency
  <2> QED
    BY <1>1, <1>2, <2>1, Kept DEF IInv, EarlyInv, LoopInv
<1>4. CASE LoopEnds
  <2>1. pc = "loop" /\ ready = {} /\ pc' = IF Left = {} THEN "done" ELSE "cycle"
    BY <1>4 DEF LoopEnds, Left
  <2>2. LoopInv'
    BY <1>1, <2>1, Kept DEF IInv, LoopInv, EntriesIn
  <2> QED
    BY <1>1, <1>2, <2>1, <2>2 DEF IInv, EarlyInv
<1> QED
  BY <1>3, <1>4

LEMMA StepDAG == IInv /\ [Next]_vars => IInv'
<1> SUFFICES ASSUME IInv, UNCHANGED vars PROVE IInv'
  BY CountInv, EmitInv, StopInv DEF Next
<1> QED
  BY Kept DEF vars, IInv, TypeOK, EarlyInv, LoopInv, EntriesIn

LEMMA InvariantHolds == Spec => []IInv
BY InitDAG, StepDAG, PTL DEF Spec

(* The degrees stay natural numbers and only nodes are ever ready.         *)
THEOREM DAGTypeCorrect == Spec => []TypeOK
<1>1. IInv => TypeOK
  BY DEF IInv
<1> QED
  BY <1>1, InvariantHolds, PTL

(* No batch holds a node and something it depends on, whatever the plan.   *)
THEOREM LayerOrder == Spec => []LayersRespectDependencies
<1>1. IInv => LayersRespectDependencies
  BY DEF IInv
<1> QED
  BY <1>1, InvariantHolds, PTL

(* No two batches could have been one.                                     *)
THEOREM LayerEarliest == Spec => []LayersAreEarliest
<1>1. IInv => LayersAreEarliest
  BY DEF IInv
<1> QED
  BY <1>1, InvariantHolds, PTL

(* The call returns every node when no set of nodes waits on itself, and   *)
(* otherwise raises, naming only nodes that do.                            *)
THEOREM ResultCorrect == Spec => []ResultIsRight
<1>1. IInv => ResultIsRight
  <2> SUFFICES ASSUME IInv PROVE ResultIsRight
    OBVIOUS
  <2>1. TypeOK /\ EarlyInv
    BY DEF IInv
  <2>2. CASE pc \in {"count", "unknown"}
    BY <2>1, <2>2 DEF ResultIsRight, EarlyInv
  <2>3. CASE pc \in {"loop", "done", "cycle"}
    <3>1. /\ \A n \in Nodes : DependsOn(n) \subseteq Nodes
          /\ Left \cup Emitted = Nodes /\ Left \cap Emitted = {}
          /\ \A n \in Left : remaining[n] = Cardinality(EntriesIn(n, Left))
          /\ ready = {n \in Left : remaining[n] = 0}
          /\ \A S \in SUBSET Nodes : Circular(S) => S \cap Emitted = {}
          /\ pc = "done" => Left = {}
          /\ pc = "cycle" => Left # {} /\ ready = {}
      BY <2>3 DEF IInv, LoopInv
    <3>2. pc = "done" => Emitted = Nodes /\ \A S \in SUBSET Nodes : ~Circular(S)
      BY <3>1 DEF Circular
    <3>3. pc = "cycle" => Circular(Left)
      BY <2>1, <3>1, Entries DEF Circular
    <3> QED
      BY <2>3, <3>1, <3>2, <3>3 DEF ResultIsRight, Left
  <2> QED
    BY <2>1, <2>2, <2>3 DEF TypeOK
<1> QED
  BY <1>1, InvariantHolds, PTL
=============================================================================
