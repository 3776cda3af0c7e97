-------------------------- MODULE ClusterSnapshot --------------------------
(***************************************************************************)
(* ClusterCapacity.SyncWithClient: the simulated API server is filled from *)
(* the live one, kind after kind, while the live cluster goes on changing. *)
(* An item is an object with what its list said of it: its node, if it is  *)
(* a pod that has one.                                                     *)
(***************************************************************************)
EXTENDS Integers, Sequences, FiniteSets

CONSTANTS
    Objects,       \* every object the live cluster may have
    KindOf,        \* [Objects -> the kinds of Order]
    ExcludeNodes,  \* --exclude-nodes
    NoNode

Order_NodesFirst ==
    <<"namespaces", "nodes", "pods", "services", "persistentvolumeclaims",
      "replicationcontrollers", "poddisruptionbudgets", "replicasets",
      "statefulsets", "storageclasses">>

\* The kinds in the order they are listed.
Order == <<"namespaces", "pods", "nodes", "services", "persistentvolumeclaims",
           "replicationcontrollers", "poddisruptionbudgets", "replicasets",
           "statefulsets", "storageclasses">>

Kinds == {Order[i] : i \in 1..Len(Order)}
Pods == {o \in Objects : KindOf[o] = "pods"}
Nodes == {o \in Objects : KindOf[o] = "nodes"}

ASSUME ObjectsAssumption ==
    /\ KindOf \in [Objects -> Kinds]
    /\ ExcludeNodes \subseteq Nodes
    /\ NoNode \notin Objects

VARIABLES
    live,      \* the objects of the live cluster
    bound,     \* the node of each pod
    finished,  \* the pods that have succeeded or failed
    steady,    \* history: the objects that have not changed since the sync began
    gone,      \* history: the nodes that have been deleted since
    next,      \* the index in Order of the kind being copied
    listed,    \* whether its list has been read
    todo,      \* the items of that list still to copy
    copy,      \* the items of the simulated API server
    result     \* "syncing", then "synced" or "failed"

liveVars == <<live, bound, finished, steady, gone>>
syncVars == <<next, listed, todo, copy, result>>
vars == <<liveVars, syncVars>>

Item == [object : Objects, node : Nodes \cup {NoNode}]

TypeOK ==
    /\ live \subseteq Objects /\ finished \subseteq Pods
    /\ steady \subseteq Objects /\ gone \subseteq Nodes
    /\ bound \in [Pods -> Nodes \cup {NoNode}]
    /\ next \in 1..(Len(Order) + 1) /\ listed \in BOOLEAN
    /\ todo \subseteq Item /\ copy \subseteq Item
    /\ result \in {"syncing", "synced", "failed"}

Init ==
    /\ live \in SUBSET Objects
    /\ bound \in [Pods -> (live \cap Nodes) \cup {NoNode}]
    /\ finished \in SUBSET Pods
    /\ \A p \in Pods \ live : bound[p] = NoNode /\ p \notin finished
    /\ steady = Objects /\ gone = {}
    /\ next = 1 /\ listed = FALSE /\ todo = {} /\ copy = {}
    /\ result = "syncing"

-----------------------------------------------------------------------------
(***************************************************************************)
(* The live cluster.                                                       *)
(***************************************************************************)
\* o has changed while the sync is under way.
Changed(o) == result = "syncing" /\ steady' = steady \ {o} /\ UNCHANGED syncVars

Create(o) ==
    /\ o \notin live /\ Changed(o)
    /\ live' = live \cup {o}
    /\ UNCHANGED <<bound, finished, gone>>

Delete(o) ==
    /\ o \in live /\ Changed(o)
    /\ live' = live \ {o} /\ gone' = gone \cup ({o} \cap Nodes)
    /\ bound' = [p \in Pods |-> IF p = o THEN NoNode ELSE bound[p]]
    /\ finished' = finished \ {o}

BindPod(p, n) ==
    /\ p \in live /\ n \in live /\ bound[p] = NoNode /\ p \notin finished /\ Changed(p)
    /\ bound' = [bound EXCEPT ![p] = n]
    /\ UNCHANGED <<live, finished, gone>>

FinishPod(p) ==
    /\ p \in live \ finished /\ Changed(p)
    /\ finished' = finished \cup {p}
    /\ UNCHANGED <<live, bound, gone>>

LiveStep ==
    \/ \E o \in Objects : Create(o) \/ Delete(o)
    \/ \E p \in Pods : FinishPod(p) \/ \E n \in Nodes : BindPod(p, n)

-----------------------------------------------------------------------------
(***************************************************************************)
(* SyncWithClient.                                                         *)
(***************************************************************************)
ItemOf(o) == [object |-> o, node |-> IF o \in Pods THEN bound[o] ELSE NoNode]

Syncing == result = "syncing" /\ next <= Len(Order)

\* What the loop over a list copies: pods that have not ended, nodes that are
\* not excluded, everything else.
Wanted_OnExcludedDropped(o) ==
    /\ o \notin finished \cup ExcludeNodes
    /\ o \in Pods => bound[o] \notin ExcludeNodes
Wanted(o) == o \notin finished \cup ExcludeNodes

List_Again ==
    /\ Syncing
    /\ listed' = TRUE
    /\ todo' = {ItemOf(o) : o \in {x \in live : KindOf[x] = Order[next] /\ Wanted(x)}}
    /\ UNCHANGED <<liveVars, next, copy, result>>

\* The list of the next kind is read, whole and at one moment.
List ==
    /\ Syncing /\ ~listed
    /\ listed' = TRUE
    /\ todo' = {ItemOf(o) : o \in {x \in live : KindOf[x] = Order[next] /\ Wanted(x)}}
    /\ UNCHANGED <<liveVars, next, copy, result>>

\* The objects of the list are created one by one.
CopyItem ==
    /\ Syncing /\ listed
    /\ \E i \in todo : copy' = copy \cup {i} /\ todo' = todo \ {i}
    /\ UNCHANGED <<liveVars, next, listed, result>>

NextKind ==
    /\ Syncing /\ listed /\ todo = {}
    /\ next' = next + 1 /\ listed' = FALSE
    /\ result' = IF next = Len(Order) THEN "synced" ELSE result
    /\ UNCHANGED <<liveVars, todo, copy>>

\* A list or a create returns an error, and SyncWithClient with it.
Fail ==
    /\ Syncing
    /\ result' = "failed"
    /\ UNCHANGED <<liveVars, next, listed, todo, copy>>

SyncStep == List \/ CopyItem \/ NextKind \/ Fail

\* runSimulator goes on with Run, or returns the error.
Ended == result # "syncing" /\ UNCHANGED vars

Next == LiveStep \/ SyncStep \/ Ended

Spec == Init /\ [][Next]_vars /\ WF_vars(SyncStep)

-----------------------------------------------------------------------------
(***************************************************************************)
(* Properties.                                                             *)
(***************************************************************************)
\* A complete copy is right about every object that did not change while
\* SyncWithClient was at work: it has the object as it is, or, for an excluded
\* node or a pod that has ended, not at all.
SteadyIsExact ==
    result = "synced" =>
        \A o \in steady : \A i \in Item :
            i.object = o =>
                (i \in copy <=> /\ o \in live \ (finished \cup ExcludeNodes)
                                /\ o \in Pods => i.node = bound[o]
                                /\ o \notin Pods => i.node = NoNode)

\* Of objects that do change, the lists disagree in one direction only: a pod
\* bound after the list of pods is missing on its node, but no pod of the copy
\* is on a node that the copy lacks, unless it is excluded or has been deleted.
\* The list of nodes is read after that of pods.
NoDanglingPods ==
    result = "synced" =>
        \A i \in copy :
            i.node \notin {NoNode} \cup ExcludeNodes \cup gone =>
                [object |-> i.node, node |-> NoNode] \in copy

\* No object is copied twice, although the live cluster may delete and create
\* it again: each kind is read once, so the create of a copy cannot conflict.
CopiedOnce == \A i, j \in copy \cup todo : i.object = j.object => i = j

\* The sync ends however busy the cluster is: no list is read again.
SyncEnds == <>(result # "syncing")

=============================================================================
