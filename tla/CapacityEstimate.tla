-------------------------- MODULE CapacityEstimate --------------------------
(***************************************************************************)
(* What cluster-capacity promises: it places copies of the pod one by one, *)
(* each on a node with room, until --max-limit copies are placed or no     *)
(* node has room, and says which of the two it was.                        *)
(***************************************************************************)
EXTENDS Integers, Sequences, FiniteSets

CONSTANTS
    Nodes,
    Limit    \* not positive: unlimited

VARIABLES
    room,    \* [Nodes -> Int], the copies each node of the cluster has room for
    placed,  \* the nodes of the copies, in the order they were placed
    outcome  \* "running", then "LimitReached" or "Unschedulable"

vars == <<room, placed, outcome>>

Used(n) == Cardinality({i \in DOMAIN placed : placed[i] = n})
AtLimit == Limit > 0 /\ Len(placed) >= Limit

Init == room \in [Nodes -> Int] /\ placed = <<>> /\ outcome = "running"

PlaceOne(n) ==
    /\ outcome = "running" /\ ~AtLimit /\ Used(n) < room[n]
    /\ placed' = Append(placed, n)
    /\ UNCHANGED <<room, outcome>>

StopAtLimit ==
    /\ outcome = "running" /\ AtLimit
    /\ outcome' = "LimitReached"
    /\ UNCHANGED <<room, placed>>

StopWhenFull ==
    /\ outcome = "running" /\ ~AtLimit /\ \A n \in Nodes : Used(n) >= room[n]
    /\ outcome' = "Unschedulable"
    /\ UNCHANGED <<room, placed>>

Next == (\E n \in Nodes : PlaceOne(n)) \/ StopAtLimit \/ StopWhenFull

\* The estimate always comes to an end.
Spec == Init /\ [][Next]_vars /\ WF_vars(Next)

=============================================================================
