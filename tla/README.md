# A TLA+ model of cluster-capacity

cluster-capacity estimates how many more copies of a pod a Kubernetes cluster
can take. It copies the cluster into a simulated API server, runs the real
kube-scheduler on the copy, and adds one copy of the pod after the other until
a limit is reached or the scheduler finds no node. This directory models that
analysis, and the commands around it, in TLA+; TLC checks the models on small
instances and TLAPS proves the theorems listed below for all of them.

## The system

| Component | Source | State | Operations | Module |
|---|---|---|---|---|
| analysis run | `pkg/framework/simulator.go`, `runSimulator` in `cmd/cluster-capacity/app/server.go` | `simulated`, `status`, `closed`, `stop` (an unbuffered channel) | `Run`, `createNextPod`, `postBindHook`, `Update`, `Close`, `Report` | `ClusterCapacity` |
| binder plugin | `pkg/framework/plugins/clustercapacitybinder/plugin.go` | none of its own | `Bind` | `ClusterCapacity` |
| pod generator | `pkg/framework/podgenerator.go` | `counter` | `Generate` | `ClusterCapacity` |
| kube-scheduler (vendored) | `vendor/k8s.io/kubernetes/pkg/scheduler` | queue, cache, nominations, known nodes | schedule one pod, preempt, handle failures, informer handlers | `ClusterCapacity`, as far as the analysis depends on it |
| snapshot | `SyncWithClient` in `simulator.go` | the simulated API server | list and copy ten kinds | `ClusterSnapshot` |
| report | `pkg/framework/report.go` | the review | `GetReport`, `parsePodsReview`, `getResourceRequest`, `instancesSum` | `CapacityReport` |
| namespace pod | `pkg/client/nspod.go` | none kept | `RetrieveNamespacePod` | `NamespacePod` |
| scheduler configuration | `pkg/utils/utils.go` | the profiles | `LoadConfig`, `BuildKubeSchedulerCompletedConfig` | `CapacityCommand` |
| cluster-capacity command | `cmd/cluster-capacity/app` | options | `Validate`, `Run`, `ParseAPISpec`, `runSimulator`, printing | `CapacityCommand`, `Kubeconfig` |
| genpod command | `cmd/genpod/app` | options | `Validate`, `Run`, `PrintPod` | `GenPodCommand`, `Kubeconfig` |
| hypercc | `cmd/hypercc` | none | groups the two commands | not modelled |
| event recorder, version | `pkg/framework/record`, `pkg/version` | none used | | not modelled |

How they interact: the command finds the cluster's API server, builds the
scheduler's configuration and decodes the pod; then `runSimulator` calls `New`,
`SyncWithClient`, `Run` and `Report` in turn. `Run` starts the scheduler, sleeps
100 ms, creates the first pod and waits on `c.stop`. The scheduler takes a pod
from its queue, assumes it on a node and starts a goroutine that calls `Bind`;
`Bind` writes the pod to the simulated API server and calls `postBindHook`,
which appends to `status.Pods` and either stops the analysis or creates the next
pod. When no node fits, the scheduler patches the pod's `PodScheduled`
condition, also if it evicts a pod of lower priority for it; the informer's
goroutine delivers that update to `Update`, which stops the analysis. A stop is:
set the reason, `Close` (which ends the informers), send on `c.stop`.

What is hard about it:

* The fields `status`, `simulated` and the generator's `counter` are touched by
  `Run` and by every binding goroutine without a lock. What keeps them
  consistent is only that each pod is created by the binding of the one before.
* `c.stop` is unbuffered, has several senders and one receive, and is closed
  right after it. A second sender panics, and the process with it.
* The stop reason is written before the send, so a second stop may replace it;
  and the stop may catch a pod in the middle of its binding.
* The scheduler sees the API server through informers. Nodes, pods and bindings
  become known later, and the sleep of 100 ms stands for that.
* `Bind` may fail after it has bound the pod (the next pod's name is taken).
* A pod that preempts another is reported Unschedulable before it is bound.
* Only the first profile has the analysis's binder; a pod of another profile is
  bound by a call the fake clientset ignores.
* The snapshot is read kind by kind while the cluster goes on.
* The kubeconfig files are merged in one place and read singly in another.
* The review sums up the containers; the scheduler counts init containers too.

What makes each component correct: the analysis fills the cluster up to the
limit and no further, says why it stopped, lists each pod it placed once, and
comes to an end; the snapshot is right about whatever stood still; the report
adds up and fits the cluster it is about; the commands ask the cluster that the
flags and files name; the namespace pod has the minimum of each constraint.

## The modules

| Module | Extends or instances | Models |
|---|---|---|
| `ClusterCapacity` | `CapacityEstimate` (the specification it implements) | the analysis with all its goroutines |
| `CapacityEstimate` | | what the analysis promises |
| `ClusterSnapshot` | | `SyncWithClient` beside a live cluster |
| `CapacityReport` | | `GetReport`; the steps of a larger specification |
| `Kubeconfig` | | the kubeconfig files and the two ways to read them |
| `CapacityCommand` | `CapacityReport`, `Kubeconfig`, `CapacityEstimate` | the cluster-capacity command |
| `NamespacePod` | | `RetrieveNamespacePod` |
| `GenPodCommand` | `NamespacePod`, `Kubeconfig` | the genpod command |
| `MC...` | the module they name | small instances for TLC |
| `ClusterCapacityProofs`, `FullClusterProofs`, `ReportProofs`, `OrderProofs`, `StopProofs` | `ClusterCapacity`; the later ones build on the first | theorems, see below |
| `ClusterSnapshotProofs`, `CommandProofs`, `GenPodProofs` | `ClusterSnapshot`, `CapacityCommand`, `GenPodCommand` | theorems, see below |

Operators named `X_Fault` are wrong variants of `X`, kept to see that a
property fails when the code has that fault.

### ClusterCapacity

A goroutine is a thread with a program counter: `Main` (`Run`, then
`runSimulator`), `Listener` (the informer goroutine that calls `Update`), and
one thread per pod for its binding cycle. The scheduling goroutine, the
scheduler's informers and the goroutine that evicts need no program counter.

| State | Code |
|---|---|
| `counter`, `simulated`, `pods`, `stopReason` | `singlePodGenerator.counter`, `c.simulated`, `c.status` |
| `closed`, `cancelled`, `stopOpen`, `report` | `c.closed`, the context of `Run`, whether `c.stop` is open, `Report()` |
| `pc`, `name`, `reg`, `slice`, `copied` | the statement each goroutine is at and its local variables: the generated name, a loaded counter, a loaded `status.Pods`, the condition of the pod read by `Bind` |
| `created`, `boundTo`, `cond`, `updates` | the API server's pods, their node and `PodScheduled` condition, and the updates its watch has sent |
| `sched`, `target`, `victims`, `seen` | queue or cache state of a pod, the node it is assumed on or nominated for, the pods to evict for it, the nodes known |

| Action | Code |
|---|---|
| `GenerateName` … `CreatePod`, `CreateConflict` | `Generate` and `createNextPod`; every unlocked increment is a load and a store |
| `GetPod`, `UpdatePod` | `Bind` |
| `LoadPods`, `AppendPods`, `CheckLimit` | `postBindHook` |
| `SetStopReason`, `Close`, then `ReceiveStop` | the stop in `postBindHook` and in `Update`; sender and receiver meet in one step, as on an unbuffered channel |
| `DeliverUpdate` | the handler of `createScheduler` and the test in `Update` |
| `WakeUp`, `CancelScheduler`, `AbortRun`, `CloseStop`, `ReturnError`, `MakeReport` | `Run`, `runSimulator` |
| `Panic` | a send on the closed `c.stop`, or one that was blocked when it was closed |
| `SchedulePod`, `RejectPod`, `PreemptFor` | one scheduling cycle: a node is found, none is, or none is but an eviction can help |
| `ForgetPod`, `PatchBindError`, `EndBackoff` | the scheduler's handling of an error of `Bind` |
| `Evict` | the goroutine of preemption deletes a victim |
| `SeeNode`, `SeePod`, `SeeBinding`, `SeeDeletion` | the scheduler's informer handlers |

Atomicity: a step is one access to shared, unlocked data, or one call of the
API server, the scheduler's cache or its queue, each of which has a lock of its
own. `RejectPod` and `PreemptFor` join the scheduler's decision, the parking of
the pod and the patch: nothing of the analysis can act between them except a
binding of another pod, which only matters with a second chain. `ForgetPod`
joins forgetting, reactivation and requeueing of the pod.

Data that is abstracted: a node has slots and a pod takes one; which node the
plugins prefer is a choice; a pending pod of the cluster is described by the
nodes that accept it (`Admits`) and by whether its profile is the one with the
analysis's binder (`OtherProfile`). Pods of nodes that were not copied take no
room and are left out. A condition is a reason and, for Unschedulable, the nodes
the message counts and the node nominated, because a patch that changes nothing
sends no update.

Preemption. `Preemptible` are the running pods of the cluster with a lower
priority than the generated pods. Only generated pods preempt: they all have one
priority, so they do not evict each other, and a pending pod of the cluster is
taken to have no higher priority than what runs. When no node fits, the smallest
sets of victims that make room are candidates (`VictimSets`), and any of them
may be chosen. The nominated pod competes for its node (`Nominees`, `Rivals`);
it stays parked until all its victims are seen to be gone. The scheduler's
executor deletes the last victim by a call of its own to learn of failures;
deletes do not fail here and the victims go in any order. Preemption changes what
the analysis promises: the pod is reported Unschedulable first, and may be bound
while that stop is under way. The condition that `Bind` copies then reaches
`Update` once more, and `Run` no longer receives. So `NoSendAfterClose`,
`NeverCrashes`, `ReportIsComplete` and the refinement are about clusters without
preemptible pods (on the instance of `preempt`, TLC finds `NeverCrashes` violated
as it does in `late_crash`), and what survives is checked in `preempt` and proved.

The end. `Main` ends in `exited`, after its report (`MakeReport`) or the error of
`Run` (`ReturnError`), or in `crashed`, by the `Panic` of another goroutine. The
`recover` of client-go's handlers does not help: it logs and panics again. A
process that has exited or crashed takes no more steps (`Alive`).

`CapacityEstimate` is what a user is promised: one placement after the other on
nodes with room, until the limit or a full cluster, and the right reason. The
refinement mapping (`Estimate` in `ClusterCapacity`) reads the placements from
`status.Pods` and the outcome from the stop reason once `Main` has taken it.

### The other modules

`ClusterSnapshot`: the live cluster, whose objects come, go, are bound and end,
is external to this repository. One list is one moment, and one item is copied
at a time. `steady` (what has not changed since the sync began) and `gone` (the
nodes deleted since) are history variables.

`CapacityReport` is `GetReport` up to its loop, one turn of the loop, and what
`Report` adds. It has no specification of its own, only steps that
`CapacityCommand` takes when the analysis is over. `int32` is the conversion as
Go does it, with `HalfRange` in place of 2^31.

`Kubeconfig` has the files on the disk and what leads from them to a server:
`GetMasterFromKubeConfig` (one file), `LoadFails` and `Loaded` (client-go's
loading rules: all files of `$KUBECONFIG`, in their precedence, put together by
`Merge`) and `GetDefaultFilename`. `Load` merges them twice, in this
order and in the opposite one, each file overwriting what it sets, and lays the
second result on the first: so the first file that sets a value or a key wins.
`AnalysisServer` is the intention: the cluster that the flag, the environment or
kubectl's rules name.

`CapacityCommand` goes from the flags to the printed review. `stage` is the call
that `Run` is at, and each stage has one action with the name of the function:
`Validate`, `LoadConfig`, `BuildConfig`, `ParseAPISpec`, `Connect`, `New`,
`SyncWithClient`, `CreateFirstPod`, then the steps of `CapacityEstimate`
(`Place`, `Stop`), `Report` and `PrintReview`. `Fail` is the error return of any
of them. In `WaitForever`, `Run` waits for a stop nobody will send, because the
scheduler never takes up the generated pods. The analysis is represented by what
`ClusterCapacity` is shown to implement; the snapshot is represented by the room
each node has left, in slots and in resources, for the pod that was read. Once
the server is chosen the files are forgotten (`New`, and `NewClient` of genpod),
as nothing reads them again.

`NamespacePod` is the loop over the limit ranges, one item a step, then the
nonzero test and the node selector. The inner loop over the resource map treats
resources alike and independently, so its order does not matter.

`GenPodCommand` puts flags, client, exit status and output around it.

## The runs

| Run | Instance | Shows |
|---|---|---|
| `exhaust` | five slots, one used by a running pod, one pending pod no node accepts, no limit, informers in time | no overcommit, the cluster is full when Unschedulable is reported, the report is complete, no send on the closed channel, and `CapacityEstimate` is implemented, its termination included |
| `limit` | the same, limit 4 with room for exactly 4 | limit and full cluster compete for the stop and the limit wins: reason and number are exact, no second stop replaces the one or sends |
| `late` | nodes, pods and bindings become known arbitrarily late; limit 2 | the counts, the names, the order of `status.Pods`, the invariant behind the theorems; wherever the stop catches a pod, the report misses no other; Run returns unless a second stop crashes it |
| `collision` | a cluster pod has the name of generated pod 1, late informers, limit 3 | after a failed `Bind`, repeated bindings included, one goroutine at a time makes pods, and a LimitReached report is exact |
| `two_chains` | one node, a pending pod that fits | two chains race, and one may take the name of the first pod, so that `Run` gives up: still, Unschedulable means full, what is listed is bound, and no report is made without a reason |
| `preempt` | three slots, one used by a running pod the generated pods may evict; a pending pod of another profile | the stop that the preemption itself provokes still means a full cluster, no node is overcommitted, and there is one chain |
| `snapshot` | two pods, two nodes, one excluded | the copy is exact about what stood still, has no pod on a node it lacks (unless that is excluded or was deleted), copies nothing twice, and ends |
| `command` | every content of three kubeconfig files, four scheduler configurations, six pods, five slots on three nodes, limit 4, integers of two bits | the command analyses the cluster it is told, or none; the review adds up, agrees with itself when it says LimitReached, fits the cluster and explains the stop; the command ends |
| `genpod` | every content of two kubeconfig files, every three limit items over two resources with amounts 0 and 1 | the minimum, kept in the pod, of the cluster that cluster-capacity would analyse |
| `limit_exceeded`, `never_returns`, `late_crash` | see findings | violations |

Bounds. `MaxName` stops the generator at name 6; the clusters have at most five
slots, so no run gets there (a run in which it did would deadlock or miss
`RunReturns`). Two nodes of different size are enough for a first, a middle and a
last slot on each, for a node that becomes known late, and for a choice; three
and more differ by numbers only. `two_chains` has one node with two slots: the
second chain needs a pod of its own, and the races are about counters, not about
nodes. In `preempt` the pod that runs sits alone on the small node, so that the
large one is filled first or last. In `snapshot` a second object of a kind gives
lists with more than one item.

In `command` two kubeconfig files lie in the loading rules and a third does not,
so that a file can be second in the order, or named explicitly only; the contents
are those that differ in what the rules do with them: missing, not parsable,
complete, or with only a part (the current context, its cluster, its server).
Three nodes let the scheduler come back to a node after another. `HalfRange` is 2, so
that four pods are already beyond the largest integer and the conversions of
`GetReport` and `Report` bite; at 2^31 they do so at 2147483648 pods. The six
pods have one or two containers, an init container that needs less or more than
they do, a resource the review does not list, another scheduler's name, a
scheduling gate. Three items are needed in `genpod` for a minimum in the middle;
two amounts suffice for what the code compares (smaller or not, zero or not).

`CHECK_DEADLOCK FALSE` is used where the code can really stop: `collision`,
`never_returns` and `two_chains`, where a failed binding leaves nobody to go on.

Timing. `Punctual` says that the informers' events arrive within the 100 ms of
`Run` and within the backoff of one second; the deterministic results
(`ImplementsEstimate`, `NoOvercommit`, `ReportIsComplete`,
`UnschedulableIsExhaustive`, `NoSendAfterClose`, `NeverCrashes` and
`StopReasonIsFinal`) need it, and with `Punctual = FALSE` nothing is
assumed of them. In `late` a pod that was rejected while no node was known may be
bound after all, and its copied condition, or the limit, is a second stop: if that
meets the closed channel, the process crashes (`late_crash`). So `RunReturns` is
about the runs that do not crash: there are no others if `Punctual` holds and the
cluster takes no part in the analysis, by the theorem `NeverCrashesHolds`.

Fairness. `FairSpec` assumes that every goroutine that can go on does (or
panics), which is Go's scheduler, and that the informers deliver as long as they are not closed,
which is what `Close` ends: after it an event may be delivered or not. Neither
the choice of a node nor the order of events is fair. The specification of
`ClusterSnapshot` assumes only that the sync goes on; the live cluster may be
as busy as it likes. The cluster-capacity command is sequential and every call it
makes returns, so its next-state relation is weakly fair; the one wait that does
not return is an action (`WaitForever`) that changes nothing, so fairness does not
help it. The specification of genpod has no fairness, as nothing is said of its
end, which its text shows. `CommandEnds` leaves out pods with scheduling gates: the command takes
them and then waits forever.

`ReviewExplainsStop` is about pods that need no more to start than to run and
ask only for listed resources: for the others the review cannot show what the
scheduler counted. `ReviewFits` holds for all pods of the run.

`SameClusterAsAnalysis` leaves out one case, in which the code differs openly:
with both `CC_INCLUSTER` and `--kubeconfig`, genpod asks the cluster around it and
cluster-capacity the one of the kubeconfig.

## What is proved

The theorems are checked by TLAPS, for all values of the constants. They cover
every safety property that a passing run checks.

| Theorem | States | Assumes |
|---|---|---|
| `ClusterCapacityProofs!TypeCorrect` | `Spec => []TypeOK` | |
| `ClusterCapacityProofs!ChainHolds` | `ChainInvariant`, the inductive invariant of the chain | `NoPendingFits` |
| `ClusterCapacityProofs!OneChainHolds` | `OneChain`: one goroutine at a time runs `createNextPod` and `postBindHook` | `NoPendingFits` |
| `ClusterCapacityProofs!LimitHolds` | `LimitRespected`: `status.Pods` never outgrows `--max-limit` | `NoPendingFits` |
| `FullClusterProofs!FullHolds` | `FullInvariant`, the inductive invariant of the full cluster | `Punctual` |
| `FullClusterProofs!UnschedulableHolds` | `UnschedulableIsExhaustive` | `Punctual` |
| `ReportProofs!ListedHolds` | `ListedPodsAreBound` | |
| `ReportProofs!ReasonHolds` | `ReportHasReason` | |
| `ReportProofs!LimitExactHolds` | `LimitIsExact` | `NoPendingFits` |
| `OrderProofs!PodsInOrderHolds`, `FreshNamesHold` | `PodsInOrder`, `NamesAreFresh` | `NoPendingFits`, `NamesAreNew` |
| `OrderProofs!ReportMissesLastOnlyHolds` | `ReportMissesLastOnly` | `NoPendingFits`, `NamesAreNew` |
| `OrderProofs!NoOvercommitHolds` | `NoOvercommit` | these and `Punctual` |
| `StopProofs!NoSendHolds`, `FinalHolds`, `CompleteHolds` | `NoSendAfterClose`, `StopReasonIsFinal`, `ReportIsComplete` | `Punctual`, `Undisturbed` |
| `StopProofs!NeverCrashesHolds` | `NeverCrashes` | `Punctual`, `Undisturbed` |
| `StopProofs!EstimateHolds` | the safety part of `ImplementsEstimate`: `Estimate!Init` and `[][Estimate!Next]` | `Punctual`, `Undisturbed` |
| `ClusterSnapshotProofs!SteadyHolds`, `NoDanglingPodsHolds`, `CopiedOnceHolds` | `SteadyIsExact`, `NoDanglingPods`, `CopiedOnce` | |
| `GenPodProofs!MinimumHolds`, `KeptHolds` | `LimitsAreTheMinimum`, `LimitsAreKept`, of `NamespacePod` | |
| `GenPodProofs!CommandRuns`, `CommandMinimumHolds` | the genpod command implements `NamespacePod`, and so has both properties | |
| `GenPodProofs!SameClusterHolds` | `SameClusterAsAnalysis` | |
| `CommandProofs!CommandTypeHolds` | `CommandType` | |
| `CommandProofs!SameServer` | `NeverAnotherCluster` | `NoEmptyName` |
| `CommandProofs!TallyHolds`, `PrintedSumHolds`, `LimitReviewHolds` | `TallyIsExact`, `PrintedSumIsReplicas`, `LimitReviewAgrees` | |
| `CommandProofs!ReviewFitsHolds` | `ReviewFits` | |
| `CommandProofs!ReviewExplainsHolds` | `ReviewExplainsStop` | `Templates = 1` |

`NoPendingFits`: no pending pod of the cluster that the first profile answers for
is accepted by a node. The run `limit_exceeded` shows that without it the first
theorems about the chain are false. `NamesAreNew`: no pod of the cluster has a
generated name; `never_returns` shows what happens otherwise. `Undisturbed` is `NamesAreNew`, and
that no pod of the cluster can be scheduled (by any profile) or evicted during
the analysis. `NoEmptyName`: no kubeconfig file has a context whose name is empty;
client-go refuses such a file (`validateContext`, in
`vendor/k8s.io/client-go/tools/clientcmd/validation.go`), but
`GetMasterFromKubeConfig` does not look. `Templates = 1` is the call in `Report`.
Nothing is assumed about capacities or the number of nodes, and
except for `Undisturbed` nothing about preemption.

The chain. `LimitRespected` is not inductive, for nothing in a state says
that an append follows a count. `CarriesChain(t)` names the goroutine that will
make the next pod: `Main` until it has created the first one, then the newest pod
of the analysis, from its creation, through its queueing, binding and counting,
until the pod after it exists, the limit stops it or its failed binding is final.
`OneChain` says there is at most one. `CountsAgree` says that `c.simulated` is
ahead of `status.Pods` by the pod under way and below the limit while one more
may be counted, and that what the carrier has loaded is not stale. Two more
conjuncts are needed to keep `OneChain`: the pods of the cluster stay idle
(`ClusterPodsIdle`, the only place where `NoPendingFits` is used, in
`ScheduleChain`), and a pod that does not exist is unknown while one being bound
is in the cache (`PodsAccounted`), so that a pod whose binding is confirmed or
has ended does not take the chain up again. Their conjunction `ChainInvariant`
is inductive with `TypeOK`; the runs `late` and `preempt` check it with TLC. The
proof has a lemma for each form of step (`CarrierStep`: the carrier moves and
makes no other; `QuietStep`: nobody becomes a carrier and the counts stay;
`QueueStep`, `StopChain`) and one for each group of actions, combined in
`NextChain`.

The full cluster (`FullInvariant`, checked with TLC in `preempt`). That every
node is full is said once, when a pod is rejected or preempts, and must last
until the report. A node's room is counted from what the API server and the
cache have there together (`Held`), evicted pods included: evicted pods keep
their node in `boundTo`, a pod whose binding fails was bound before it was
forgotten, and a nomination is only made for a full node. So a full node stays
full, whatever is bound, forgotten or evicted. `PodsInPlace` says where a pod can
be when the informers are punctual, and `SaidUnschedulable` follows the claim
from the condition through its copy in `Bind`, the watch, `Update` and the stop
reason to the report.

What every report says. `BoundInvariant` follows a pod through `Bind` into
`status.Pods`: it has a target, then a node, and so have all pods of the slice it
has loaded, so even an append that loses another's lists bound pods only.
`StopHasReason` says that a closing or sending goroutine has given a reason and
that `Main` can only leave its wait through one.

The exact number (`ExactInvariant`, in `ReportProofs`). `c.simulated` is the
length of `status.Pods`, plus one for the pod under way; so the goroutine that
finds the limit reached has just made the list as long as the limit, and as it
carries the chain and gives it up, nobody is left to make the list longer before
the report.

The order (`OrderProofs`). While `t` carries the chain, `OrderOf(t)` says that
exactly the pods with the first `Made(t)` names exist, that the counter is there
or one ahead, and how long `status.Pods` is. Hence the next name is free, no
create fails, and no pod is ever bound twice. With punctual informers, a pod that
has a node is then always in the scheduler's cache (`RoomInvariant`), which
therefore never gives away room that is taken.

What a report misses (`MissInvariant`, in `OrderProofs`). A pod that has a node
and is not in `status.Pods` is one whose `Bind` has not appended it yet; it
carries the chain, so it is the newest, and by `OrderOf` its name is the length of
the list. This needs nothing of the informers, nor of who stopped the analysis.

The stop (`StopInvariant`, in `StopProofs`). `OneStop` follows the one stop that
can be under way: as an update nobody has read, then as a goroutine that sets the
reason, closes and sends, then as `Main`, which has received it. There is no
second one because the two ways to stop exclude each other (`Justified`): being
rejected ends the chain without a new pod, and so does the limit, and for a
rejected pod to be tried again something of the cluster would have to change
(`FreshConditions`, `PendingStay`). From that, the reason is written once, the
channel is closed when nobody sends, and when the report is made every pod that
was created is listed, or is the rejected one.

The estimate. The refinement mapping takes the pods in `status.Pods` for the
placed ones and their nodes for `placed`. `AppendPods` is `PlaceOne` because of
`RoomForListed`: the pods listed on a node, those the node had before and the one
being bound are all counted by the scheduler's cache, whose room was not exceeded
(`RoomInvariant`). The receive from `c.stop` is `StopAtLimit` or `StopWhenFull`
by its reason; for the second, `NoRoomLeft` says that on a full node all that
fills it is what the node had and what is listed (`UsedListed` counts the list by
node, as its entries differ). All other steps change nothing of the estimate.

The snapshot (`SyncInvariant`). What has been listed is right about all objects
that have not changed since; an object that changes leaves `steady`. A kind is
listed once (`OrderIsInjective`), so an object is. A node that a copied pod is on
was live when the pods were listed; until the nodes are listed, after them, it is
live or `gone`, and then it is in the list or excluded (`NodeInvariant`).

The loop of `NamespacePod`: what has been taken so far is the minimum of the
items so far. The genpod command takes a step of it or leaves its variables
alone (`CommandRuns`), which carries both properties over. Its client asks the
server that the flag, or else the environment, or else the merged files name;
nothing changes that choice once it is made.

Sums and folds. The tally, the printed sum, the request of a pod and the merge of
the kubeconfig files are folds over lists of any length. A fold is a recursive
function of the library, and what it computes follows from its equation alone:
`SumExists` and `LoadExists` show, by induction over the length, that a function
with that equation exists, after which the last term can be split off
(`LoadedSteps`) or one term raised (`SumGrows`). The induction
is by the least element of a set of naturals (`Induction`, from the library's
`WFMin`), as the library's own induction takes an operator.

The command. `CommandInvariant` is inductive; TLC checked it on the instance of
`command`, as an invariant, before it was proved. It has four parts.

* `CommandType`. That the numbers of the review are 32-bit ones is a property of
  the conversion (`int32Type`).
* `RightCluster`: from `Validate` to `New`, the file whose name the options hold is
  the one chosen, and the server found is its own. That this is the server of all
  files merged is `FirstWins`: the files before the first that is there add
  nothing, the first sets the current context, the context's cluster and the
  cluster's server, and later files change none of the three (`MergeKeeps`). It
  needs that an empty current context leads nowhere, which is `NoEmptyName`: the
  merge takes a later file's current context in its place.
* `RightEstimate`: the room of a node is the largest number of pods of which the
  slots and what is left of each resource allow (`RoomIs`); no node is used beyond
  it, and after Unschedulable every node is used up to it.
* `RightReview`: what has been tallied is exact for the pods visited so far, and
  the printed sum is their number. A turn of the loop raises one entry or appends
  one, so the sum grows by one (`TallySum`, `PrintedGrows`).

The review follows. The replicas of a review on a node are the pods placed there
(`ReplicasAtIs`), never more than its room; and what the review says a pod requires is
never more than what the scheduler takes it to ask for, as the latter is the
maximum over what the pod needs to start and to run (`AtLeastAsMuch`): so the
product fits (`Fits`). For pods of which the two are equal, one pod more would
exceed the slots or a listed resource of each node, and that is what the review
shows (`Explains`).

Model-checked only: liveness (`RunReturns`, `SyncEnds`, `CommandEnds`, and that `ImplementsEstimate` comes to an end), which is out of the
prover's reach.

## Findings

* `limit_exceeded`: a pending pod of the cluster is bound by the same plugin and
  starts a chain of its own; `status.Pods` outgrows `--max-limit`. (The two
  chains may also read the same generator counter: in such an instance
  `NamesAreFresh` fails too.)
* `never_returns`: a cluster pod that has the next generated name makes `Bind`
  fail after the pod was bound. The condition says SchedulerError, `Update`
  ignores it, no goroutine is left to stop the analysis, and `Run` waits forever.
* `late_crash`: no node is known yet when the first pod is scheduled. It is
  rejected and stops the analysis; a node becomes known and the pod is bound, and
  `Bind` writes back the Unschedulable condition it had read. `Close` only asks the
  informers to stop: if the update is still delivered, `Update` sends a second time,
  on the channel that `Run` has closed, and the process panics. With a limit, the
  second sender may also be `postBindHook`. The mutex `stopMux`, which is there
  because `Update` can be run more than once, does not prevent it. Preemption leads
  to the same crash with all informers in time: the preempting pod is reported
  Unschedulable and stops the analysis; if its victim is gone and it is assumed
  before the scheduler is cancelled, its `Bind` copies the condition.

## What is not modelled

* Of the scheduler: extenders, pod groups, preemption by pods of the cluster or
  of pods with generated names, the flush of parked pods after five minutes, and
  every plugin beyond room and acceptance.
* Of the analysis: the construction of the fake clientset and of the informers
  with their field selectors; the capacity of the fake watch, 10000 events, which
  an informer would have to lag behind by (the tracker then panics).
* Of genpod: limits that are all zero are dropped (`Nonzero`), so the stub pod of
  a namespace that allows nothing has no limit; `LimitsAreKept` is about the others.
* Of the commands: the decoding of files and URLs, defaulting and validation of
  the pod, the layout of the three formats; a file is described by what the
  command does with it. Sidecars (init containers that go on running), pod
  overhead and pod-level resources, which the scheduler counts and the review does
  not look at, are not among the pods of `CapacityCommand`.
* `hypercc` groups the commands and keeps no state; the event recorder is used by
  nothing in the repository; `version` formats constants of the build.

## Plan

1. An abstract specification of the command: a cluster, a pod and a limit in, one
   review or one error out, with the refinement from `CapacityCommand` as a theorem.
2. Reports under preemption: which pods a report may list although they were
   reported Unschedulable, when `Preemptible` is not empty (which pods it may miss
   is `ReportMissesLastOnly`, proved with preemption and checked in `late`).
3. The end after a second stop: which deliveries client-go's informers still make
   once their stop channel is closed, in place of the arbitrary choice made here.
