------------------------- MODULE MCClusterCapacity -------------------------
(***************************************************************************)
(* Small clusters for TLC: n1 and n2 with three slots together, of which a *)
(* running pod may take one, and pods of the cluster that are still        *)
(* pending: stuck is accepted by no node, waiting by both.                 *)
(***************************************************************************)
EXTENDS ClusterCapacity

CONSTANTS n1, n2, running, stuck, waiting

SmallCapacity == [n \in Nodes |-> IF n = n1 THEN 2 ELSE 1]
TinyCapacity == [n \in Nodes |-> IF n = n1 THEN 1 ELSE 2]
LargeCapacity == [n \in Nodes |-> IF n = n1 THEN 3 ELSE 2]

\* running is bound to n1 and every other pod of the cluster is pending; a pod
\* whose name is a number is bound to n2.
SmallPlacement ==
    [p \in Existing |-> IF p = running THEN n1
                        ELSE IF p \in {stuck, waiting} THEN NoNode ELSE n2]

OnlyWaiting == [n \in Nodes |-> Existing \cap {waiting}]

=============================================================================
