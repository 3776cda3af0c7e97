--------------------------- MODULE GenPodCommand ---------------------------
(***************************************************************************)
(* The genpod command, cmd/genpod/app: its flags, the client it makes,     *)
(* RetrieveNamespacePod, and the pod it prints for cluster-capacity.       *)
(***************************************************************************)
EXTENDS NamespacePod, Kubeconfig

VARIABLES
    stage,      \* how far the command is
    disk,       \* the kubeconfig files
    flag,       \* --kubeconfig
    inCluster,  \* whether CC_INCLUSTER is set
    server,     \* the API server of the client
    written,    \* on the standard output: a message, or the pod
    status      \* of the exit

flagVars == <<disk, flag, inCluster>>
commandVars == <<stage, flagVars, server, written, status>>

CommandInit ==
    /\ Init
    /\ stage = "validate" /\ written = "nothing" /\ status = 0
    /\ disk \in [Paths -> Contents]
    /\ flag \in Paths \cup {NoPath} /\ inCluster \in BOOLEAN
    /\ server = NoServer

Goto(from, to) == stage = from /\ stage' = to /\ UNCHANGED <<written, status>>

\* Validate or Run returns an error: the flags are wrong, no client can be
\* made, or the pod not encoded.  It is printed, and the exit status is zero.
Fail ==
    /\ stage \in {"validate", "connect", "client"} \/ (stage = "retrieve" /\ pc = "pod")
    /\ stage' = "exit" /\ written' = "message"
    /\ UNCHANGED <<vars, flagVars, server, status>>

\* There is a namespace, and the format is json, yaml or none.
Validate ==
    /\ Goto("validate", "connect")
    /\ UNCHANGED <<vars, flagVars, server>>

Connect_KubeconfigFirst ==
    /\ Goto("connect", "client")
    /\ server' = IF flag # NoPath THEN GetMasterFromKubeConfig(disk, flag) ELSE InCluster
    /\ server' # NoServer
    /\ UNCHANGED <<vars, flagVars>>

\* With CC_INCLUSTER the kubeconfig is not looked at.
Connect ==
    /\ Goto("connect", "client")
    /\ server' = IF inCluster THEN InCluster ELSE GetMasterFromKubeConfig(disk, flag)
    /\ server' # NoServer
    /\ UNCHANGED <<vars, flagVars>>

\* The flags and files are not looked at any more.
NewClient ==
    /\ Goto("client", "retrieve")
    /\ disk' = [path \in Paths |-> Nowhere] /\ flag' = NoPath /\ inCluster' = FALSE
    /\ UNCHANGED <<vars, server>>

RetrieveNamespacePod ==
    /\ stage = "retrieve" /\ Retrieve
    /\ UNCHANGED commandVars

\* log.Fatalf.
Fatal ==
    /\ stage = "retrieve" /\ pc = "error"
    /\ stage' = "exit" /\ status' = 1
    /\ UNCHANGED <<vars, flagVars, server, written>>

\* utils.PrintPod: YAML, unless the format is json.
WritePod ==
    /\ stage = "retrieve" /\ pc = "pod"
    /\ stage' = "exit" /\ written' \in {"json", "yaml"}
    /\ UNCHANGED <<vars, flagVars, server, status>>

Exited == stage = "exit" /\ UNCHANGED <<vars, commandVars>>

CommandNext ==
    \/ Validate \/ Connect \/ NewClient \/ RetrieveNamespacePod \/ WritePod
    \/ Fail \/ Fatal \/ Exited

CommandSpec == CommandInit /\ [][CommandNext]_<<vars, commandVars>>

-----------------------------------------------------------------------------
\* The pod is made of the namespace of the cluster that cluster-capacity, given
\* the same kubeconfig and environment, will analyse; unless it is told of two,
\* for genpod prefers CC_INCLUSTER and cluster-capacity the kubeconfig.
SameClusterAsAnalysis ==
    stage = "client" =>
        \/ server = AnalysisServer(disk, flag, inCluster)
        \/ inCluster /\ flag # NoPath

=============================================================================
