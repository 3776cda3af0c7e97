----------------------------- MODULE Kubeconfig -----------------------------
(***************************************************************************)
(* The kubeconfig files of the user and the API server they lead to.       *)
(* utils.GetMasterFromKubeConfig reads one file; client-go's loading rules *)
(* read several and merge them.  A file has a current context and maps     *)
(* from contexts to clusters and from clusters to servers.                 *)
(***************************************************************************)
EXTENDS Naturals, Sequences, SequencesExt

CONSTANTS
    Paths,       \* where a kubeconfig may lie
    Precedence,  \* the paths of $KUBECONFIG, or the one in the home directory
    NoPath,      \* an empty --kubeconfig
    NoServer,    \* there is none: an error
    InCluster,   \* the API server of the cluster that runs the command
    NoContext,   \* an empty current-context
    Contents     \* what a kubeconfig file may hold

ASSUME PathsAssumption ==
    /\ Precedence \in Seq(Paths) /\ Precedence # <<>>
    /\ NoPath \notin Paths

NoMap == <<>>
Nowhere == [state |-> "missing", current |-> NoContext, contexts |-> NoMap, clusters |-> NoMap]
Broken == [Nowhere EXCEPT !.state = "broken"]

ASSUME ContentsAssumption == \A c \in Contents : c.state = "missing" => c = Nowhere

\* The server of the current context of a configuration.
ServerOf(config) ==
    IF /\ config.current \in DOMAIN config.contexts
       /\ config.contexts[config.current] \in DOMAIN config.clusters
    THEN config.clusters[config.contexts[config.current]] ELSE NoServer

\* utils.GetMasterFromKubeConfig: of this file alone.
GetMasterFromKubeConfig(disk, path) ==
    IF path = NoPath \/ disk[path].state # "read" THEN NoServer ELSE ServerOf(disk[path])

\* Load fails if a file is there and does not parse; a missing one is skipped.
LoadFails(disk) == \E k \in DOMAIN Precedence : disk[Precedence[k]].state = "broken"

\* The first file to set a value or a map's key wins.
MergeMaps(f, g) == [x \in DOMAIN f \cup DOMAIN g |-> IF x \in DOMAIN f THEN f[x] ELSE g[x]]
Merge(config, file) ==
    [state    |-> "read",
     current  |-> IF config.current # NoContext THEN config.current ELSE file.current,
     contexts |-> MergeMaps(config.contexts, file.contexts),
     clusters |-> MergeMaps(config.clusters, file.clusters)]

\* What Load returns.
Loaded(disk) ==
    FoldLeft(LAMBDA config, path : Merge(config, disk[path]), Nowhere, Precedence)

\* The places in the precedence where there is a file.
There(disk) == {k \in DOMAIN Precedence : disk[Precedence[k]].state # "missing"}

GetDefaultFilename_Last(disk) ==
    Precedence[IF There(disk) = {} THEN 1 ELSE Max(There(disk))]

\* The first of the files that is there, or else the first of the names.
GetDefaultFilename(disk) ==
    Precedence[IF There(disk) = {} THEN 1 ELSE Min(There(disk))]

\* The server cluster-capacity is asked to analyse: that of --kubeconfig, or in
\* a pod (CC_INCLUSTER) the cluster around it, or what kubectl would use.
AnalysisServer(disk, kubeconfig, inCluster) ==
    IF kubeconfig # NoPath THEN GetMasterFromKubeConfig(disk, kubeconfig)
    ELSE IF inCluster THEN InCluster ELSE ServerOf(Loaded(disk))

=============================================================================
