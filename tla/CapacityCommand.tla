-------------------------- MODULE CapacityCommand --------------------------
(***************************************************************************)
(* The cluster-capacity command from its flags to what it prints: Validate *)
(* and Run of cmd/cluster-capacity/app, what they call in pkg/utils and    *)
(* options, runSimulator, and the review.  The analysis itself is taken    *)
(* from CapacityEstimate, which ClusterCapacity implements.                *)
(*                                                                         *)
(* A flag that is looked at in one place only is chosen there.             *)
(***************************************************************************)
EXTENDS CapacityReport, Kubeconfig

CONSTANTS
    MaxLimit,      \* --max-limit
    Configs,       \* the profile names of scheduler configurations that are valid
    PodSpecs,      \* pod specifications that are valid
    DefaultName,   \* v1.DefaultSchedulerName
    NoName,        \* a pod specification without a scheduler name
    Slots,         \* [Nodes -> Nat], the pods a node of the snapshot still takes
    Free           \* [Nodes -> Requests], the resources it has left

ASSUME CommandAssumption ==
    /\ MaxLimit \in Int
    /\ \A names \in Configs : Cardinality(ToSet(names)) = Len(names)
    /\ Slots \in [Nodes -> Nat] /\ Free \in [Nodes -> Requests]
    /\ \A s \in PodSpecs : s \in [schedulerName : {s.schedulerName}, gated : BOOLEAN,
                               containers : Seq(Requests), initContainers : Seq(Requests)]

NoSpec == [schedulerName |-> NoName, gated |-> FALSE,
           containers |-> <<>>, initContainers |-> <<>>]

VARIABLES
    stage,       \* how far the command is
    disk,        \* the kubeconfig files
    flag,        \* --kubeconfig
    kubeconfig,  \* opt.Kubeconfig, which Validate may set
    inCluster,   \* whether CC_INCLUSTER is set
    server,      \* the API server of the client configuration
    profiles,    \* kcfg.Profiles: name and bind plugin of each
    spec,        \* the pod
    room,        \* the copies of it each node has room for
    outcome,     \* of the analysis: running, or its stop reason
    written      \* nothing, an error, or the review

clusterVars == <<disk, flag, kubeconfig, inCluster, server>>
commandVars == <<stage, profiles, spec, room, outcome, written>>
vars == <<clusterVars, commandVars, pods, reviewVars>>

Estimate == INSTANCE CapacityEstimate WITH Limit <- MaxLimit, placed <- pods

CommandType ==
    /\ ReportType
    /\ stage \in {"validate", "config", "build", "podspec", "connect", "new", "sync",
                  "create", "run", "report", "print", "exit"}
    /\ flag \in Paths \cup {NoPath} /\ kubeconfig \in Paths \cup {NoPath}
    /\ inCluster \in BOOLEAN
    /\ room \in [Nodes -> Nat]
    /\ outcome \in {"running", "LimitReached", "Unschedulable"}
    /\ written \in {"nothing", "error", "review"}

Init ==
    /\ stage = "validate" /\ written = "nothing"
    /\ disk \in [Paths -> Contents]
    /\ flag \in Paths \cup {NoPath} /\ kubeconfig = flag
    /\ inCluster \in BOOLEAN
    /\ server = NoServer
    /\ profiles = <<>> /\ spec = NoSpec
    /\ room = [n \in Nodes |-> 0] /\ outcome = "running"
    /\ ReportInit

Goto(from, to) == stage = from /\ stage' = to /\ UNCHANGED written

\* A step of Run, or of a function it calls, returns an error: it is printed,
\* and the exit status is zero all the same.  Flags, files, the cluster and the
\* plugins of the scheduler can all be wrong; createNextPod fails if the first
\* name is taken, the review is printed in one of three formats only.
Fail ==
    /\ stage \in {"validate", "config", "build", "podspec", "connect", "new", "sync",
                  "create", "print"}
    /\ stage' = "exit" /\ written' = "error"
    /\ UNCHANGED <<clusterVars, profiles, spec, room, outcome, pods, reviewVars>>

-----------------------------------------------------------------------------
\* Validate: without CC_INCLUSTER there must be a kubeconfig.
Validate ==
    /\ Goto("validate", "config")
    /\ IF inCluster \/ kubeconfig # NoPath THEN UNCHANGED kubeconfig
       ELSE ~LoadFails(disk) /\ kubeconfig' = GetDefaultFilename(disk)
    /\ UNCHANGED <<disk, flag, inCluster, server, profiles, spec, room, outcome, pods, reviewVars>>

\* Without --default-config there is no kcfg; otherwise the file must decode
\* and be valid, in particular name every profile differently.
LoadConfig ==
    /\ Goto("config", "build")
    /\ profiles' \in {<<>>} \cup
           {[k \in DOMAIN names |-> [name |-> names[k], binder |-> "DefaultBinder"]] :
               names \in Configs}
    /\ UNCHANGED <<clusterVars, spec, room, outcome, pods, reviewVars>>

BuildConfig_KeepsName ==
    /\ Goto("build", "podspec")
    /\ LET given == IF profiles = <<>>
                    THEN <<[name |-> DefaultName, binder |-> "DefaultBinder"]>> ELSE profiles
       IN  profiles' = [given EXCEPT ![1].binder = "ClusterCapacityBinder"]
    /\ UNCHANGED <<clusterVars, spec, room, outcome, pods, reviewVars>>

\* BuildKubeSchedulerCompletedConfig: the first profile, or that of a default
\* configuration, is given the default name and the binder of the analysis.
BuildConfig ==
    /\ Goto("build", "podspec")
    /\ LET given == IF profiles = <<>>
                    THEN <<[name |-> DefaultName, binder |-> "DefaultBinder"]>> ELSE profiles
       IN  profiles' = [given EXCEPT ![1] = [name |-> DefaultName,
                                             binder |-> "ClusterCapacityBinder"]]
    /\ UNCHANGED <<clusterVars, spec, room, outcome, pods, reviewVars>>

\* The pod is read from a URL or a file, decoded, defaulted and validated.
ParseAPISpec ==
    /\ Goto("podspec", "connect")
    /\ \E s \in PodSpecs :
          spec' = IF s.schedulerName = NoName THEN [s EXCEPT !.schedulerName = DefaultName] ELSE s
    /\ UNCHANGED <<clusterVars, profiles, room, outcome, pods, reviewVars>>

\* The client configuration, from the kubeconfig if there is one.
Connect ==
    /\ Goto("connect", "new")
    /\ server' = IF kubeconfig # NoPath THEN GetMasterFromKubeConfig(disk, kubeconfig)
                 ELSE InCluster
    /\ server' # NoServer
    /\ UNCHANGED <<disk, flag, kubeconfig, inCluster, profiles, spec, room, outcome,
                   pods, reviewVars>>

\* framework.New: the scheduler takes one profile of each name.  The
\* kubeconfig files are not looked at any more.
New ==
    /\ Goto("new", "sync")
    /\ \A j, k \in DOMAIN profiles : profiles[j].name = profiles[k].name => j = k
    /\ disk' = [path \in Paths |-> Nowhere]
    /\ UNCHANGED <<flag, kubeconfig, inCluster, server, profiles, spec, room, outcome,
                   pods, reviewVars>>

\* What the scheduler takes a pod to ask for: what its containers need together,
\* or one that initialises it if that needs more.
Together(s, r) == FoldLeft(LAMBDA sum, c : sum + c[r], 0, s.containers)
PodRequest(s, r) == Max({Together(s, r)} \cup {c[r] : c \in ToSet(s.initContainers)})

\* SyncWithClient has copied the cluster, which has some room for such pods.
SyncWithClient ==
    /\ Goto("sync", "create")
    /\ room' = [n \in Nodes |->
                  Max({k \in 0..Slots[n] :
                         \A r \in Resources : k * PodRequest(spec, r) <= Free[n][r]})]
    /\ UNCHANGED <<clusterVars, profiles, spec, outcome, pods, reviewVars>>

\* The first createNextPod of Run.
CreateFirstPod ==
    /\ Goto("create", "run")
    /\ UNCHANGED <<clusterVars, profiles, spec, room, outcome, pods, reviewVars>>

\* createNextPod names the scheduler of every generated pod.
NextPodScheduler == DefaultName

\* The scheduler takes up the generated pods, and with Bind of the analysis.
Served ==
    /\ ~spec.gated
    /\ \E k \in DOMAIN profiles : profiles[k] = [name |-> NextPodScheduler,
                                                 binder |-> "ClusterCapacityBinder"]

\* Run, as CapacityEstimate describes it.
Place ==
    /\ stage = "run" /\ Served
    /\ \E n \in Nodes : Estimate!PlaceOne(n)
    /\ UNCHANGED <<stage, written, clusterVars, profiles, spec, reviewVars>>

Stop ==
    /\ Goto("run", "report") /\ Served
    /\ Estimate!StopAtLimit \/ Estimate!StopWhenFull
    /\ UNCHANGED <<clusterVars, profiles, spec, reviewVars>>

\* Run waits for <-c.stop, and nobody will send.
WaitForever == stage = "run" /\ ~Served /\ UNCHANGED vars

Report ==
    \/ /\ stage = "report"
       /\ GetReport(spec.containers, spec.initContainers, outcome) \/ VisitPod
       /\ UNCHANGED <<clusterVars, commandVars>>
    \/ /\ Goto("report", "print")
       /\ FinishReport(MaxLimit)
       /\ UNCHANGED <<clusterVars, profiles, spec, room, outcome>>

\* ClusterCapacityReviewPrint, in the format asked for.
PrintReview ==
    /\ stage = "print" /\ stage' = "exit" /\ written' = "review"
    /\ UNCHANGED <<clusterVars, profiles, spec, room, outcome, pods, reviewVars>>

Exited == stage = "exit" /\ UNCHANGED vars

Next ==
    \/ Validate \/ LoadConfig \/ BuildConfig \/ ParseAPISpec \/ Connect
    \/ New \/ SyncWithClient \/ CreateFirstPod \/ Place \/ Stop \/ Report \/ PrintReview
    \/ Fail \/ WaitForever \/ Exited

\* Every call returns, except for what Run waits for.
Spec == Init /\ [][Next]_vars /\ WF_vars(Next)

-----------------------------------------------------------------------------
(***************************************************************************)
(* Properties.                                                             *)
(***************************************************************************)
\* Run connects to the API server that the flags, the environment and the
\* kubeconfig files name, or to none: Validate keeps of the loaded files only
\* the name of the first, and Run reads that one alone.
NeverAnotherCluster == stage = "new" => server = AnalysisServer(disk, flag, inCluster)

\* The pods the review has on node n.
ReplicasAt(n) ==
    LET entries == {list \in {replicasOnNodes[0][k] : k \in DOMAIN replicasOnNodes[0]} :
                       list.node = n}
    IN  IF entries = {} THEN 0 ELSE (CHOOSE entry \in entries : TRUE).replicas

\* A reader who multiplies the requirements in the review by its replicas never
\* gets more than a node has left.
ReviewFits ==
    written = "review" =>
        \A n \in Nodes : \A r \in Listed : ReplicasAt(n) * requirements[r] <= Free[n][r]

\* A review that says Unschedulable shows why: one more replica exceeds what is
\* left of some resource it lists, or the number of pods of the node.
Explained ==
    \A n \in Nodes :
        \/ ReplicasAt(n) = Slots[n]
        \/ \E r \in Listed : (ReplicasAt(n) + 1) * requirements[r] > Free[n][r]

\* The pod needs no more to start than to run, and only resources that are
\* listed.
OnlyListed ==
    \A r \in Resources :
        PodRequest(spec, r) = IF r \in Listed THEN Together(spec, r) ELSE 0

\* It does so for a pod that asks for what the review lists.
ReviewExplainsStop ==
    written = "review" /\ failType = "Unschedulable" /\ OnlyListed => Explained

\* The command ends, whatever the scheduler configuration and the scheduler name
\* of the pod: the pods it makes reach the binder that makes the next one.
\* Except that a pod with scheduling gates is accepted and never taken up.
CommandEnds == <>(stage = "exit" \/ spec.gated)

=============================================================================
