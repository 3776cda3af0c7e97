--------------------------- MODULE CapacityReport ---------------------------
(***************************************************************************)
(* framework.GetReport: the review of an analysis, from the pod it was     *)
(* about and from Status.  Of a placed pod only the node matters, so       *)
(* Status.Pods is a sequence of nodes.                                     *)
(***************************************************************************)
EXTENDS Integers, Sequences, FiniteSets, SequencesExt

CONSTANTS
    Nodes,
    Templates,  \* the number of pod templates; Report passes one
    Resources,  \* what a container may ask for
    Listed,     \* those a review lists: cpu, memory and the scalar resources
    HalfRange   \* 2^31: an int32 is below it

ASSUME TemplatesAssumption == Templates \in Nat \ {0}
ASSUME ResourcesAssumption == Listed \subseteq Resources
ASSUME RangeAssumption == HalfRange \in Nat \ {0}

Template == 0..(Templates - 1)
ReplicasOnNode == [node : Nodes, replicas : Nat]
Requests == [Resources -> Nat]
Int32 == (-HalfRange)..(HalfRange - 1)

VARIABLES
    pods,             \* Status.Pods, the node of each
    i,                \* the index of the pod the loop is at
    requirements,     \* ClusterCapacityReviewSpec.PodRequirements
    replicasOnNodes,  \* of each template's result
    replicas,         \* ClusterCapacityReviewStatus.Replicas
    wanted,           \* ClusterCapacityReviewSpec.Replicas
    failType,         \* FailReason.FailType
    pc

reviewVars == <<i, requirements, replicasOnNodes, replicas, wanted, failType, pc>>

ReportType ==
    /\ pods \in Seq(Nodes) /\ i \in 0..Len(pods)
    /\ requirements \in [Listed -> Nat]
    /\ replicasOnNodes \in [Template -> Seq(ReplicasOnNode)]
    /\ replicas \in Int32 /\ wanted \in Int32
    /\ failType \in {"none", "LimitReached", "Unschedulable"}
    /\ pc \in {"idle", "loop", "done"}

ReportInit ==
    /\ pods = <<>> /\ i = 0
    /\ requirements = [r \in Listed |-> 0]
    /\ replicasOnNodes = [t \in Template |-> <<>>]
    /\ replicas = 0 /\ wanted = 0 /\ failType = "none"
    /\ pc = "idle"

int32_Unsigned(x) == x % (2 * HalfRange)

\* The conversion of an int.
int32(x) == ((x + HalfRange) % (2 * HalfRange)) - HalfRange

getResourceRequest_LastContainer(containers, initContainers) ==
    [r \in Listed |-> Last(containers)[r]]

getResourceRequest_WithInit(containers, initContainers) ==
    [r \in Listed |-> FoldLeft(LAMBDA sum, c : sum + c[r], 0, containers \o initContainers)]

\* What the containers ask for together.  Containers that only initialise the
\* pod are not looked at, nor resources the review does not list.
getResourceRequest(containers, initContainers) ==
    [r \in Listed |-> FoldLeft(LAMBDA sum, c : sum + c[r], 0, containers)]

\* The part of the stop reason before its first colon.
getMainFailReason(reason) == reason

\* GetReport, up to the loop over Status.Pods.  A reason without a colon, as
\* before any stop, would make getMainFailReason slice at -1.
GetReport(containers, initContainers, reason) ==
    /\ pc = "idle" /\ reason # "none"
    /\ requirements' = getResourceRequest(containers, initContainers)
    /\ replicas' = int32(Len(pods))
    /\ failType' = getMainFailReason(reason)
    /\ pc' = "loop"
    /\ UNCHANGED <<pods, i, replicasOnNodes, wanted>>

\* The list of a template's nodes after one more pod on node n: an entry that
\* is there is incremented, otherwise one is appended.
Tally_NotIncremented(list, n) ==
    IF \E k \in DOMAIN list : list[k].node = n THEN list
    ELSE Append(list, [node |-> n, replicas |-> 1])

Tally_LastEntryOnly(list, n) ==
    IF list # <<>> /\ list[Len(list)].node = n
    THEN [list EXCEPT ![Len(list)].replicas = @ + 1]
    ELSE Append(list, [node |-> n, replicas |-> 1])

Tally(list, n) ==
    IF \E k \in DOMAIN list : list[k].node = n
    THEN [k \in DOMAIN list |->
            IF list[k].node = n THEN [list[k] EXCEPT !.replicas = @ + 1] ELSE list[k]]
    ELSE Append(list, [node |-> n, replicas |-> 1])

\* One turn of the loop of parsePodsReview.  Pods are dealt out to the
\* templates in turn.
VisitPod ==
    /\ pc = "loop" /\ i < Len(pods)
    /\ replicasOnNodes' = [replicasOnNodes EXCEPT ![i % Templates] = Tally(@, pods[i + 1])]
    /\ i' = i + 1
    /\ UNCHANGED <<pods, requirements, replicas, wanted, failType, pc>>

FinishReport_NotConverted(limit) ==
    /\ pc = "loop" /\ i = Len(pods)
    /\ wanted' = limit
    /\ pc' = "done"
    /\ UNCHANGED <<pods, i, requirements, replicasOnNodes, replicas, failType>>

\* Report adds the number of replicas asked for.
FinishReport(limit) ==
    /\ pc = "loop" /\ i = Len(pods)
    /\ wanted' = int32(limit)
    /\ pc' = "done"
    /\ UNCHANGED <<pods, i, requirements, replicasOnNodes, replicas, failType>>

-----------------------------------------------------------------------------
\* What is printed as the number of instances of a template.
instancesSum(list) == FoldLeft(LAMBDA sum, entry : sum + entry.replicas, 0, list)

\* The pods of template t on node n among those visited.
PodsOf(t, n) == {k \in 1..i : (k - 1) % Templates = t /\ pods[k] = n}

\* The review has one entry for each node with pods of the template, with their
\* number, whatever the order in which the scheduler went through the nodes.
TallyIsExact ==
    \A t \in Template : \A n \in Nodes :
        LET entries == {k \in DOMAIN replicasOnNodes[t] : replicasOnNodes[t][k].node = n}
        IN  IF PodsOf(t, n) = {} THEN entries = {}
            ELSE \E k \in entries : /\ entries = {k}
                                    /\ replicasOnNodes[t][k].replicas = Cardinality(PodsOf(t, n))

\* The numbers of instances that the text prints, one for each template, added up.
PrintedSum(results) ==
    FoldLeft(LAMBDA sum, list : sum + instancesSum(list), 0,
             [k \in 1..Templates |-> results[k - 1]])

\* The numbers of the printed text add up to the number in the JSON and YAML
\* review, as far as an int32 can say it.
PrintedSumIsReplicas == pc = "done" => int32(PrintedSum(replicasOnNodes)) = replicas

\* A review that says LimitReached has as many replicas as were asked for: the
\* two are cut to 32 bits alike, in GetReport and in Report.
LimitReviewAgrees == pc = "done" /\ failType = "LimitReached" => replicas = wanted

=============================================================================
