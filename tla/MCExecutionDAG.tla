--------------------------- MODULE MCExecutionDAG ---------------------------
(* Every plan of three nodes whose depends_on lists have at most two       *)
(* entries, repeated and unknown ids included.                             *)
EXTENDS ExecutionDAG

CONSTANTS NodeIds, Unknown, MaxEntries

MCGraphs == LET Ids == NodeIds \cup {Unknown}
            IN  [NodeIds -> UNION {[1..k -> Ids] : k \in 0..MaxEntries}]

=============================================================================
