------------------------- MODULE MCClusterSnapshot -------------------------
(***************************************************************************)
(* A small live cluster: two pods and two nodes, one of them excluded.     *)
(***************************************************************************)
EXTENDS ClusterSnapshot

CONSTANTS p1, p2, n1, n2

SmallKinds == [o \in Objects |-> IF o \in {p1, p2} THEN "pods" ELSE "nodes"]

=============================================================================
