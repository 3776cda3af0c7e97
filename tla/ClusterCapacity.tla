-------------------------- MODULE ClusterCapacity --------------------------
(***************************************************************************)
(* One run of the capacity analysis of pkg/framework: the main goroutine   *)
(* (ClusterCapacity.Run), the scheduler it starts, one binding goroutine   *)
(* per assumed pod (ClusterCapacityBinder.Bind and postBindHook), and the  *)
(* informer goroutine that calls ClusterCapacity.Update.  They share the   *)
(* simulated API server, the unlocked fields of ClusterCapacity and the    *)
(* unbuffered channel c.stop.                                              *)
(*                                                                         *)
(* An operator whose name ends in an underscore and a fault                *)
(* (HasRoom_OffByOne) is a wrong variant of the one below it, kept to see  *)
(* a property fail.                                                        *)
(*                                                                         *)
(* A pod is known by its name: the pods copied from the cluster are        *)
(* Existing, the k-th pod of the generator is the number k (for            *)
(* "<template>-k").  A number in Existing is a pod of the cluster that     *)
(* already carries such a name.  A pod takes one slot of its node.         *)
(***************************************************************************)
EXTENDS Integers, Sequences, FiniteSets

CONSTANTS
    Nodes,         \* the nodes SyncWithClient copied
    Capacity,      \* [Nodes -> Nat], the pods a node has room for
    Existing,      \* the pods SyncWithClient copied
    Placement,     \* [Existing -> Nodes \cup {NoNode}], NoNode: still pending
    Admits,        \* [Nodes -> SUBSET Existing], pending pods the node accepts
    Preemptible,   \* the running pods of a lower priority than the generated ones
    OtherProfile,  \* the pods of a profile that binds with DefaultBinder
    MaxSimulated,  \* --max-limit; not positive: unlimited
    MaxName,       \* bound: the largest number the generator may use
    Punctual,      \* TRUE: informer events beat the 100 ms sleep and the backoff
    Main, Listener, NoNode

Name == 0..MaxName
Pod == Name \cup Existing
Thread == {Main, Listener} \cup Pod
Reason == {"none", "Unschedulable", "SchedulerError"}
Condition == [reason : Reason, view : SUBSET Nodes, node : Nodes \cup {NoNode}]
NoCondition == [reason |-> "none", view |-> {}, node |-> NoNode]

ASSUME NodesAssumption ==
    /\ IsFiniteSet(Nodes)
    /\ NoNode \notin Nodes
    /\ Capacity \in [Nodes -> Nat]
ASSUME ExistingAssumption ==
    /\ IsFiniteSet(Existing)
    /\ Placement \in [Existing -> Nodes \cup {NoNode}]
    /\ Admits \in [Nodes -> SUBSET Existing]
ASSUME PreemptionAssumption ==
    Preemptible \subseteq {p \in Existing \ Name : Placement[p] # NoNode}
ASSUME ProfileAssumption == OtherProfile \subseteq Existing
ASSUME LimitAssumption == MaxSimulated \in Int /\ MaxName \in Nat
ASSUME ThreadAssumption ==
    /\ Main # Listener
    /\ Main \notin Pod
    /\ Listener \notin Pod
ASSUME PunctualAssumption == Punctual \in BOOLEAN

VARIABLES
    \* fields of ClusterCapacity and of its generator, touched without a lock
    counter, simulated, pods, stopReason,
    \* c.closed, the scheduler's context, c.stop, what runSimulator returns
    closed, cancelled, stopOpen, report,
    \* program counters and local variables of the goroutines
    pc, name, reg, slice, copied,
    \* the simulated API server, and the pod updates its watch has delivered
    created, boundTo, cond, updates,
    \* the scheduler: queue and cache state of each pod, the node it is assumed
    \* on or nominated for, the pods to evict for it, and the nodes known
    sched, target, victims, seen

fieldVars == <<counter, simulated, pods, stopReason>>
runVars == <<closed, cancelled, stopOpen, report>>
localVars == <<name, reg, slice, copied>>
storeVars == <<created, boundTo, cond, updates>>
schedVars == <<sched, target, victims, seen>>
vars == <<fieldVars, runVars, pc, localVars, storeVars, schedVars>>

Update == [pod : Pod, reason : Reason]
NoReport == [pods |-> <<>>, reason |-> "unreported"]
StopReason == {"none", "LimitReached", "Unschedulable"}
Report == [pods : Seq(Pod), reason : StopReason \cup {"unreported"}]
SchedState == {"unseen", "active", "parked", "backoff", "assumed", "known"}

\* Only createNextPod sets the podProvisioner annotation.
Provisioned(p) == p \notin Existing

\* The pods the API server has on node n.
BoundAt(n) == {p \in created : boundTo[p] = n}

PC == {"idle", "sleep", "name", "loadCounter", "storeCounter", "loadSimulated",
       "storeSimulated", "create", "wait", "cancel", "closeStop", "abort",
       "closeAborted", "aborted", "returned", "exited", "crashed",
       "get", "update", "loadPods", "appendPods", "check", "setReason", "close",
       "send", "forget", "patch", "done"}

TypeOK ==
    /\ counter \in Nat /\ simulated \in Nat
    /\ pods \in Seq(Pod) /\ stopReason \in StopReason
    /\ closed \in BOOLEAN /\ cancelled \in BOOLEAN /\ stopOpen \in BOOLEAN
    /\ report \in Report
    /\ pc \in [Thread -> PC]
    /\ name \in [Thread -> Name] /\ reg \in [Thread -> Nat]
    /\ slice \in [Thread -> Seq(Pod)] /\ copied \in [Thread -> Condition]
    /\ created \in SUBSET Pod
    /\ boundTo \in [Pod -> Nodes \cup {NoNode}]
    /\ cond \in [Pod -> Condition]
    /\ updates \in Seq(Update)
    /\ sched \in [Pod -> SchedState]
    /\ target \in [Pod -> Nodes \cup {NoNode}]
    /\ victims \in [Pod -> SUBSET Preemptible]
    /\ seen \in SUBSET Nodes

(***************************************************************************)
(* The state Run starts from: New has built the analysis, SyncWithClient   *)
(* has copied the cluster.  The informers have caught up with the copy     *)
(* only if Punctual.                                                       *)
(***************************************************************************)
Init ==
    /\ counter = 0 /\ simulated = 0 /\ pods = <<>> /\ stopReason = "none"
    /\ closed = FALSE /\ cancelled = FALSE /\ stopOpen = TRUE
    /\ report = NoReport
    /\ pc = [t \in Thread |-> IF t = Main THEN "sleep" ELSE "idle"]
    /\ name = [t \in Thread |-> 0] /\ reg = [t \in Thread |-> 0]
    /\ slice = [t \in Thread |-> <<>>]
    /\ copied = [t \in Thread |-> NoCondition]
    /\ created = Existing
    /\ boundTo = [p \in Pod |-> IF p \in Existing THEN Placement[p] ELSE NoNode]
    /\ cond = [p \in Pod |-> NoCondition]
    /\ updates = <<>>
    /\ seen = IF Punctual THEN Nodes ELSE {}
    /\ sched = [p \in Pod |->
                  IF ~Punctual \/ p \notin Existing THEN "unseen"
                  ELSE IF Placement[p] = NoNode THEN "active" ELSE "known"]
    /\ target = [p \in Pod |-> NoNode]
    /\ victims = [p \in Pod |-> {}]

-----------------------------------------------------------------------------
\* The command exits once it has the report or an error, or crashes, and its
\* goroutines end with it.
Alive == pc[Main] \notin {"exited", "crashed"}

\* Goroutine t moves from one statement to the next.
Goto(t, from, to) == Alive /\ pc[t] = from /\ pc' = [pc EXCEPT ![t] = to]

(***************************************************************************)
(* createNextPod, run by Main for the first pod and by the binding         *)
(* goroutine of each pod it has bound for the next one.  Nothing locks     *)
(* g.counter or c.simulated, so an increment is a load and a store.        *)
(***************************************************************************)
GenerateName_AfterIncrement(t) ==
    /\ Goto(t, "name", "loadCounter")
    /\ counter < MaxName
    /\ name' = [name EXCEPT ![t] = counter + 1]
    /\ UNCHANGED <<fieldVars, runVars, reg, slice, copied, storeVars, schedVars>>

GenerateName(t) ==
    /\ Goto(t, "name", "loadCounter")
    /\ counter <= MaxName
    /\ name' = [name EXCEPT ![t] = counter]
    /\ UNCHANGED <<fieldVars, runVars, reg, slice, copied, storeVars, schedVars>>

LoadCounter(t) ==
    /\ Goto(t, "loadCounter", "storeCounter")
    /\ reg' = [reg EXCEPT ![t] = counter]
    /\ UNCHANGED <<fieldVars, runVars, name, slice, copied, storeVars, schedVars>>

StoreCounter_Decrement(t) ==
    /\ Goto(t, "storeCounter", "loadSimulated")
    /\ counter' = reg[t] - 1
    /\ UNCHANGED <<simulated, pods, stopReason, runVars, localVars, storeVars, schedVars>>

StoreCounter_NotIncremented(t) ==
    /\ Goto(t, "storeCounter", "loadSimulated")
    /\ counter' = reg[t]
    /\ UNCHANGED <<simulated, pods, stopReason, runVars, localVars, storeVars, schedVars>>

StoreCounter(t) ==
    /\ Goto(t, "storeCounter", "loadSimulated")
    /\ counter' = reg[t] + 1
    /\ UNCHANGED <<simulated, pods, stopReason, runVars, localVars, storeVars, schedVars>>

LoadSimulated(t) ==
    /\ Goto(t, "loadSimulated", "storeSimulated")
    /\ reg' = [reg EXCEPT ![t] = simulated]
    /\ UNCHANGED <<fieldVars, runVars, name, slice, copied, storeVars, schedVars>>

StoreSimulated(t) ==
    /\ Goto(t, "storeSimulated", "create")
    /\ simulated' = reg[t] + 1
    /\ UNCHANGED <<counter, pods, stopReason, runVars, localVars, storeVars, schedVars>>

CreatePod_InLoop(t) ==
    /\ name[t] \notin created
    /\ Goto(t, "create", IF t = Main THEN "wait" ELSE "name")
    /\ created' = created \cup {name[t]}
    /\ UNCHANGED <<fieldVars, runVars, localVars, boundTo, cond, updates, schedVars>>

\* The API server takes a pod whose name is free.  Main then waits for the end
\* of the analysis; a binding goroutine has done its work.
CreatePod(t) ==
    /\ name[t] \notin created
    /\ Goto(t, "create", IF t = Main THEN "wait" ELSE "done")
    /\ created' = created \cup {name[t]}
    /\ UNCHANGED <<fieldVars, runVars, localVars, boundTo, cond, updates, schedVars>>

\* AlreadyExists: Run gives up; Bind reports an error to the scheduler.
CreateConflict(t) ==
    /\ name[t] \in created
    /\ Goto(t, "create", IF t = Main THEN "abort" ELSE "forget")
    /\ UNCHANGED <<fieldVars, runVars, localVars, storeVars, schedVars>>

CreateNextPod(t) ==
    \/ GenerateName(t) \/ LoadCounter(t) \/ StoreCounter(t)
    \/ LoadSimulated(t) \/ StoreSimulated(t) \/ CreatePod(t) \/ CreateConflict(t)

-----------------------------------------------------------------------------
(***************************************************************************)
(* The main goroutine: Run, then runSimulator.                             *)
(***************************************************************************)
\* The 100 ms sleep is over.
WakeUp ==
    /\ Goto(Main, "sleep", "name")
    /\ UNCHANGED <<fieldVars, runVars, localVars, storeVars, schedVars>>

ReceiveStop_NoReturn(t) ==
    /\ Alive /\ pc[Main] = "wait" /\ pc[t] = "send" /\ stopOpen
    /\ pc' = [pc EXCEPT ![Main] = "cancel",
                        ![t] = IF t = Listener THEN "idle" ELSE "name"]
    /\ UNCHANGED <<fieldVars, runVars, localVars, storeVars, schedVars>>

\* <-c.stop meets one of the goroutines blocked in c.stop <- struct{}{}.
ReceiveStop(t) ==
    /\ Alive /\ pc[Main] = "wait" /\ pc[t] = "send" /\ stopOpen
    /\ pc' = [pc EXCEPT ![Main] = "cancel",
                        ![t] = IF t = Listener THEN "idle" ELSE "done"]
    /\ UNCHANGED <<fieldVars, runVars, localVars, storeVars, schedVars>>

CancelScheduler ==
    /\ Goto(Main, "cancel", "closeStop")
    /\ cancelled' = TRUE
    /\ UNCHANGED <<fieldVars, closed, stopOpen, report, localVars, storeVars, schedVars>>

AbortRun_NoError ==
    /\ Goto(Main, "abort", "closeStop")
    /\ cancelled' = TRUE /\ closed' = TRUE
    /\ UNCHANGED <<fieldVars, stopOpen, report, localVars, storeVars, schedVars>>

\* Run could not create the first pod: cancel() and c.Close().
AbortRun ==
    /\ Goto(Main, "abort", "closeAborted")
    /\ cancelled' = TRUE /\ closed' = TRUE
    /\ UNCHANGED <<fieldVars, stopOpen, report, localVars, storeVars, schedVars>>

CloseStop ==
    /\ \/ Goto(Main, "closeStop", "returned")
       \/ Goto(Main, "closeAborted", "aborted")
    /\ stopOpen' = FALSE
    /\ UNCHANGED <<fieldVars, closed, cancelled, report, localVars, storeVars, schedVars>>

\* A goroutine that is blocked in a send when c.stop is closed, or sends later,
\* panics, and the process with it, unless the command has exited before.
Panic(t) ==
    /\ Alive /\ pc[t] = "send" /\ ~stopOpen
    /\ pc' = [pc EXCEPT ![Main] = "crashed"]
    /\ UNCHANGED <<fieldVars, runVars, localVars, storeVars, schedVars>>

\* runSimulator returns the error of Run, which the command prints.
ReturnError ==
    /\ Goto(Main, "aborted", "exited")
    /\ UNCHANGED <<fieldVars, runVars, localVars, storeVars, schedVars>>

MakeReport ==
    /\ Goto(Main, "returned", "exited")
    /\ report' = [pods |-> pods, reason |-> stopReason]
    /\ UNCHANGED <<fieldVars, closed, cancelled, stopOpen, localVars, storeVars, schedVars>>

-----------------------------------------------------------------------------
(***************************************************************************)
(* The two ways to end the analysis, postBindHook and Update: the reason,  *)
(* then Close, then the send, in which the goroutine stays until Main      *)
(* takes it.                                                               *)
(***************************************************************************)
SetStopReason(t) ==
    /\ Goto(t, "setReason", "close")
    /\ stopReason' = IF t = Listener THEN "Unschedulable" ELSE "LimitReached"
    /\ UNCHANGED <<counter, simulated, pods, runVars, localVars, storeVars, schedVars>>

Close_NoSend(t) ==
    /\ Goto(t, "close", IF t = Listener THEN "idle" ELSE "done")
    /\ closed' = TRUE
    /\ UNCHANGED <<fieldVars, cancelled, stopOpen, report, localVars, storeVars, schedVars>>

Close(t) ==
    /\ Goto(t, "close", "send")
    /\ closed' = TRUE
    /\ UNCHANGED <<fieldVars, cancelled, stopOpen, report, localVars, storeVars, schedVars>>

\* A status patch: the watch reports it unless nothing changed.
PatchCondition(p, c) ==
    /\ cond' = [cond EXCEPT ![p] = c]
    /\ updates' = IF cond[p] = c THEN updates
                  ELSE Append(updates, [pod |-> p, reason |-> c.reason])

(***************************************************************************)
(* The binding goroutine of pod p: Bind, postBindHook, and the scheduler's *)
(* handling of their error.                                                *)
(***************************************************************************)
GetPod(p) ==
    /\ Goto(p, "get", "update")
    /\ copied' = [copied EXCEPT ![p] = cond[p]]
    /\ UNCHANGED <<fieldVars, runVars, name, reg, slice, storeVars, schedVars>>

UpdatePod_WritesOriginal(p) ==
    /\ Goto(p, "update", "loadPods")
    /\ UNCHANGED <<fieldVars, runVars, localVars, storeVars, schedVars>>

\* Update writes the copy back with the node, and with the condition it read.
\* Only an update whose pod carries a PodScheduled condition reaches Update.
UpdatePod(p) ==
    /\ Goto(p, "update", "loadPods")
    /\ boundTo' = [boundTo EXCEPT ![p] = target[p]]
    /\ cond' = [cond EXCEPT ![p] = copied[p]]
    /\ updates' = IF copied[p] = NoCondition THEN updates
                  ELSE Append(updates, [pod |-> p, reason |-> copied[p].reason])
    /\ UNCHANGED <<fieldVars, runVars, localVars, created, schedVars>>

\* c.status.Pods = append(c.status.Pods, updatedPod), unlocked.
LoadPods(p) ==
    /\ Goto(p, "loadPods", "appendPods")
    /\ slice' = [slice EXCEPT ![p] = pods]
    /\ UNCHANGED <<fieldVars, runVars, name, reg, copied, storeVars, schedVars>>

AppendPods_Overwrite(p) ==
    /\ Goto(p, "appendPods", "check")
    /\ pods' = <<p>>
    /\ UNCHANGED <<counter, simulated, stopReason, runVars, localVars, storeVars, schedVars>>

AppendPods(p) ==
    /\ Goto(p, "appendPods", "check")
    /\ pods' = Append(slice[p], p)
    /\ UNCHANGED <<counter, simulated, stopReason, runVars, localVars, storeVars, schedVars>>

LimitReached_OneShort == MaxSimulated > 0 /\ simulated + 1 >= MaxSimulated
LimitReached_OffByOne == MaxSimulated > 0 /\ simulated > MaxSimulated
LimitReached == MaxSimulated > 0 /\ simulated >= MaxSimulated

CheckLimit(p) ==
    /\ Goto(p, "check", IF LimitReached THEN "setReason" ELSE "name")
    /\ UNCHANGED <<fieldVars, runVars, localVars, storeVars, schedVars>>

\* The pods of S that were parked are tried again, but PreEnqueue holds back a
\* pod while its victims are still there.
Activate(S) ==
    [p \in Pod |-> IF p \in S /\ sched[p] = "parked" /\ victims[p] = {}
                   THEN "active" ELSE sched[p]]

\* handleBindingCycleError: the cache forgets an assumed pod, the pods that
\* waited for room are tried again, and p waits out its backoff.  The cache
\* keeps a pod whose binding the informer has confirmed.
ForgetPod(p) ==
    /\ Goto(p, "forget", "patch")
    /\ IF sched[p] # "assumed" THEN UNCHANGED <<sched, target>>
       ELSE /\ sched' = [Activate(Pod) EXCEPT ![p] = "backoff"]
            /\ target' = [target EXCEPT ![p] = NoNode]
    /\ UNCHANGED <<fieldVars, runVars, localVars, storeVars, victims, seen>>

\* handleSchedulingFailure then records the error in the pod's condition.
PatchBindError(p) ==
    /\ Goto(p, "patch", "done")
    /\ PatchCondition(p, [NoCondition EXCEPT !.reason = "SchedulerError"])
    /\ UNCHANGED <<fieldVars, runVars, localVars, created, boundTo, schedVars>>

BindingCycle(p) ==
    \/ GetPod(p) \/ UpdatePod(p) \/ LoadPods(p) \/ AppendPods(p) \/ CheckLimit(p)
    \/ CreateNextPod(p) \/ SetStopReason(p) \/ Close(p)
    \/ ForgetPod(p) \/ PatchBindError(p)

MainStep ==
    \/ WakeUp \/ CreateNextPod(Main) \/ (\E t \in Thread : ReceiveStop(t))
    \/ CancelScheduler \/ AbortRun \/ CloseStop \/ ReturnError \/ MakeReport

-----------------------------------------------------------------------------
(***************************************************************************)
(* The scheduler goroutine, which schedules one pod at a time.             *)
(***************************************************************************)
\* The pods its cache counts on node n.
Occupants(n) ==
    {p \in Pod : \/ sched[p] = "assumed" /\ target[p] = n
                 \/ sched[p] = "known" /\ boundTo[p] = n}

\* The pods whose preemption makes room on node n.
Nominees(n) == {p \in Pod : sched[p] \in {"active", "parked", "backoff"} /\ target[p] = n}

\* What p competes with on node n.
Rivals(n, p) == Occupants(n) \cup (Nominees(n) \ {p})

HasRoom_OffByOne(n, p) == Cardinality(Rivals(n, p)) <= Capacity[n]
HasRoom_LastSlotUnused(n, p) == Cardinality(Rivals(n, p)) + 1 < Capacity[n]
HasRoom(n, p) == Cardinality(Rivals(n, p)) < Capacity[n]
Accepts(n, p) == Provisioned(p) \/ p \in Admits[n]
Feasible(p) == {n \in seen : HasRoom(n, p) /\ Accepts(n, p)}

\* The scheduler takes p from its queue.
Pop(p) == Alive /\ ~cancelled /\ sched[p] = "active" /\ pc[p] \in {"idle", "done"}

SchedulePod_AnyProfile(p) ==
    /\ Pop(p)
    /\ \E n \in Feasible(p) : target' = [target EXCEPT ![p] = n]
    /\ sched' = [sched EXCEPT ![p] = "assumed"]
    /\ pc' = [pc EXCEPT ![p] = "get"]
    /\ UNCHANGED <<fieldVars, runVars, localVars, storeVars, victims, seen>>

\* The best of the feasible nodes (which one is the plugins' choice) is assumed
\* and the binding goroutine starts.  That of another profile calls the binding
\* API of the fake clientset, which does nothing.
SchedulePod(p) ==
    /\ Pop(p)
    /\ \E n \in Feasible(p) : target' = [target EXCEPT ![p] = n]
    /\ sched' = [sched EXCEPT ![p] = "assumed"]
    /\ pc' = IF p \in OtherProfile THEN pc ELSE [pc EXCEPT ![p] = "get"]
    /\ UNCHANGED <<fieldVars, runVars, localVars, storeVars, victims, seen>>

\* The smallest sets of pods to evict from n so that a generated pod p fits.
VictimSets(n, p) ==
    IF ~Provisioned(p) THEN {}
    ELSE {V \in SUBSET (Occupants(n) \cap Preemptible) :
             Cardinality(V) = Cardinality(Rivals(n, p)) - Capacity[n] + 1}

\* No node fits, nor would one after an eviction: the pod is parked and its
\* condition patched.  The message counts the nodes the scheduler knows, so it
\* differs from view to view.
RejectPod(p) ==
    /\ Pop(p)
    /\ Feasible(p) = {} /\ \A n \in seen : VictimSets(n, p) = {}
    /\ sched' = [sched EXCEPT ![p] = "parked"]
    /\ target' = [target EXCEPT ![p] = NoNode]
    /\ PatchCondition(p, [reason |-> "Unschedulable", view |-> seen, node |-> NoNode])
    /\ UNCHANGED <<fieldVars, runVars, pc, localVars, created, boundTo, victims, seen>>

PreemptFor_Retried(p) ==
    /\ Pop(p)
    /\ Feasible(p) = {}
    /\ \E n \in seen : \E V \in VictimSets(n, p) :
          /\ victims' = [victims EXCEPT ![p] = V]
          /\ target' = [target EXCEPT ![p] = n]
          /\ sched' = [q \in Pod |-> IF q \in V THEN "unseen" ELSE sched[q]]
          /\ PatchCondition(p, [reason |-> "Unschedulable", view |-> seen, node |-> n])
    /\ UNCHANGED <<fieldVars, runVars, pc, localVars, created, boundTo, seen>>

\* No node fits, but preemption can help: p is parked all the same, as
\* Unschedulable and nominated for the node, and a goroutine evicts the victims.
PreemptFor(p) ==
    /\ Pop(p)
    /\ Feasible(p) = {}
    /\ \E n \in seen : \E V \in VictimSets(n, p) :
          /\ victims' = [victims EXCEPT ![p] = V]
          /\ target' = [target EXCEPT ![p] = n]
          /\ sched' = [sched EXCEPT ![p] = "parked"]
          /\ PatchCondition(p, [reason |-> "Unschedulable", view |-> seen, node |-> n])
    /\ UNCHANGED <<fieldVars, runVars, pc, localVars, created, boundTo, seen>>

\* The fake API server deletes a victim at once.
Evict(v) ==
    /\ Alive /\ v \in created /\ \E p \in Pod : v \in victims[p]
    /\ created' = created \ {v}
    /\ UNCHANGED <<fieldVars, runVars, pc, localVars, boundTo, cond, updates, schedVars>>

\* The backoff of a pod whose binding failed ends.  It lasts a second, so a
\* punctual informer has taken the pod out of the queue by then.
EndBackoff(p) ==
    /\ Alive /\ ~Punctual /\ sched[p] = "backoff" /\ pc[p] = "done"
    /\ sched' = [sched EXCEPT ![p] = "active"]
    /\ UNCHANGED <<fieldVars, runVars, pc, localVars, storeVars, target, victims, seen>>

-----------------------------------------------------------------------------
(***************************************************************************)
(* The informers: what the scheduler's handlers and Update are told of the *)
(* API server, later and in any order between objects.                     *)
(***************************************************************************)
\* A node becomes known; parked pods it could take are tried again, and so is
\* a pod rejected when there was no node at all.
SeeNode(n) ==
    /\ Alive /\ n \notin seen
    /\ seen' = seen \cup {n}
    /\ sched' = Activate({p \in Pod : seen = {} \/ (HasRoom(n, p) /\ Accepts(n, p))})
    /\ UNCHANGED <<fieldVars, runVars, pc, localVars, storeVars, target, victims>>

\* A created pod is queued, or counted if it already has a node.
SeePod(p) ==
    /\ Alive /\ p \in created /\ sched[p] = "unseen"
    /\ sched' = [sched EXCEPT ![p] = IF boundTo[p] = NoNode THEN "active" ELSE "known"]
    /\ UNCHANGED <<fieldVars, runVars, pc, localVars, storeVars, target, victims, seen>>

\* A binding is confirmed: the pod leaves the queue for the cache.
SeeBinding(p) ==
    /\ Alive /\ boundTo[p] # NoNode
    /\ sched[p] \in {"assumed", "active", "parked", "backoff"}
    /\ sched' = [sched EXCEPT ![p] = "known"]
    /\ UNCHANGED <<fieldVars, runVars, pc, localVars, storeVars, target, victims, seen>>

\* The scheduler's cache loses an evicted pod; parked pods a node accepts are
\* tried again.
SeeDeletion(v) ==
    /\ Alive /\ v \notin created /\ sched[v] = "known"
    /\ victims' = [p \in Pod |-> victims[p] \ {v}]
    /\ sched' = [p \in Pod |->
                   IF p = v THEN "unseen"
                   ELSE IF /\ sched[p] = "parked" /\ victims[p] \subseteq {v}
                           /\ \E n \in seen : Accepts(n, p)
                   THEN "active" ELSE sched[p]]
    /\ UNCHANGED <<fieldVars, runVars, pc, localVars, storeVars, target, seen>>

DeliverUpdate_AnyPod ==
    /\ Alive /\ pc[Listener] = "idle" /\ updates # <<>>
    /\ updates' = Tail(updates)
    /\ pc' = IF Head(updates).reason = "Unschedulable"
             THEN [pc EXCEPT ![Listener] = "setReason"] ELSE pc
    /\ UNCHANGED <<fieldVars, runVars, localVars, created, boundTo, cond, schedVars>>

\* The handler of createScheduler calls Update, which stops the analysis if the
\* pod is provisioned and its condition says Unschedulable.
DeliverUpdate ==
    /\ Alive /\ pc[Listener] = "idle" /\ updates # <<>>
    /\ updates' = Tail(updates)
    /\ pc' = IF Head(updates).reason = "Unschedulable" /\ Provisioned(Head(updates).pod)
             THEN [pc EXCEPT ![Listener] = "setReason"] ELSE pc
    /\ UNCHANGED <<fieldVars, runVars, localVars, created, boundTo, cond, schedVars>>

ListenerStep == DeliverUpdate \/ SetStopReason(Listener) \/ Close(Listener)

PodStep(p) ==
    \/ BindingCycle(p) \/ SchedulePod(p) \/ RejectPod(p) \/ PreemptFor(p)
    \/ EndBackoff(p) \/ SeePod(p) \/ SeeBinding(p)

\* The command has exited or crashed.
Exited == ~Alive /\ UNCHANGED vars

Next ==
    \/ MainStep \/ ListenerStep \/ Exited
    \/ (\E t \in Thread : Panic(t))
    \/ (\E p \in Pod : PodStep(p))
    \/ (\E v \in Preemptible : Evict(v) \/ SeeDeletion(v))
    \/ (\E n \in Nodes : SeeNode(n))

(***************************************************************************)
(* Goroutines are scheduled fairly.  Informers deliver until Close stops   *)
(* them; afterwards they may or may not deliver what is under way.         *)
(***************************************************************************)
Fairness ==
    /\ WF_vars(MainStep)
    /\ WF_vars(\E t \in Thread : Panic(t))
    /\ WF_vars(SetStopReason(Listener) \/ Close(Listener))
    /\ WF_vars(~closed /\ DeliverUpdate)
    /\ \A p \in Pod : /\ WF_vars(BindingCycle(p))
                      /\ WF_vars(SchedulePod(p) \/ RejectPod(p) \/ PreemptFor(p))
                      /\ WF_vars(EndBackoff(p))
                      /\ WF_vars(~closed /\ (SeePod(p) \/ SeeBinding(p)))
    /\ \A v \in Preemptible : WF_vars(Evict(v)) /\ WF_vars(~closed /\ SeeDeletion(v))
    /\ \A n \in Nodes : WF_vars(~closed /\ SeeNode(n))

Spec == Init /\ [][Next]_vars
FairSpec == Spec /\ Fairness

-----------------------------------------------------------------------------
(***************************************************************************)
(* Properties.                                                             *)
(***************************************************************************)
\* The pods this analysis gave a node.
PlacedPods ==
    {p \in Pod : boundTo[p] # NoNode /\ (p \in Existing => Placement[p] = NoNode)}

HasReport == pc[Main] = "exited" /\ report # NoReport

\* No node is given more pods than it holds (pods it had before do not count
\* against the analysis): the scheduler's cache is never behind the bindings of
\* Bind when it picks a node.
NoOvercommit ==
    \A n \in Nodes : \/ BoundAt(n) \cap PlacedPods = {}
                      \/ Cardinality(BoundAt(n)) <= Capacity[n]

\* postBindHook never lets status.Pods outgrow --max-limit.
LimitRespected == MaxSimulated > 0 => Len(pods) <= MaxSimulated

\* A report that says LimitReached lists exactly --max-limit pods.
LimitIsExact ==
    HasReport /\ report.reason = "LimitReached" => Len(report.pods) = MaxSimulated

\* The pods that have node n, evicted ones included, or that the scheduler
\* counts there.
Held(n) == {p \in Pod : boundTo[p] = n} \cup Occupants(n)
Full(n) == Cardinality(Held(n)) >= Capacity[n]

\* A report that says Unschedulable is right: no node has room for one more
\* pod, counting the bindings still under way and the pods that were evicted.
\* Only a pod of the analysis, not one the cluster could not place, makes Update
\* say so.
UnschedulableIsExhaustive ==
    HasReport /\ report.reason = "Unschedulable" => \A n \in Nodes : Full(n)

\* Where a pod is between the API server and the scheduler, if the informers are
\* punctual: it is bound once, while it is assumed, and waits in the queue only
\* before that.
PodsInPlace ==
    /\ seen = Nodes
    /\ \A v \in Preemptible : boundTo[v] # NoNode /\ pc[v] = "idle" /\ sched[v] \in {"unseen", "known"}
    /\ \A p \in Pod :
          /\ sched[p] = "unseen" => pc[p] = "idle" /\ (boundTo[p] = NoNode => target[p] = NoNode)
          /\ sched[p] \in {"active", "parked"} => pc[p] = "idle" /\ boundTo[p] = NoNode
          /\ sched[p] = "backoff" => target[p] = NoNode
          /\ pc[p] \in {"get", "update"} =>
                sched[p] = "assumed" /\ boundTo[p] = NoNode /\ target[p] # NoNode
          /\ sched[p] = "assumed" => boundTo[p] \in {NoNode, target[p]}
          /\ sched[p] = "assumed" /\ pc[p] \notin {"idle", "get", "update"} =>
                boundTo[p] = target[p]

\* Something says that a pod of the analysis is unschedulable: its condition, a
\* copy or an update of that, Update, the stop reason, or the report.
SaidUnschedulable ==
    \/ \E p \in Pod \ Existing :
          "Unschedulable" \in {cond[p].reason, copied[p].reason}
    \/ \E k \in DOMAIN updates :
          updates[k].reason = "Unschedulable" /\ Provisioned(updates[k].pod)
    \/ pc[Listener] = "setReason"
    \/ "Unschedulable" \in {stopReason, report.reason}

\* Why Unschedulable means full, although it is said before the room that an
\* eviction makes is used: a node that was full once stays so.  The inductive
\* invariant behind UnschedulableIsExhaustive.
FullInvariant ==
    /\ PodsInPlace
    /\ \A n \in Nodes : Nominees(n) # {} => Full(n)
    /\ SaidUnschedulable => \A n \in Nodes : Full(n)

\* status.Pods is the generated pods in the order of their numbers: the chain
\* bind, append, create next neither loses, repeats nor reorders one.
PodsInOrder == \A i \in 1..Len(pods) : pods[i] = i - 1

\* The report lists every pod the analysis bound, once.
ReportIsComplete ==
    HasReport => /\ {report.pods[i] : i \in 1..Len(report.pods)} = PlacedPods
                 /\ Len(report.pods) = Cardinality(PlacedPods)

\* Wherever the stop catches a pod, in the middle of its binding included, the
\* report misses none but that pod, which is the next of the generator's.
ReportMissesLastOnly ==
    HasReport => PlacedPods \ {report.pods[i] : i \in 1..Len(report.pods)}
                     \subseteq {Len(report.pods)}

Binding == {"get", "update", "loadPods", "appendPods"}
Counting == {"name", "loadCounter", "storeCounter", "loadSimulated", "storeSimulated"}

\* t will make the next pod: Main before it has created the first one, then the
\* newest pod of the analysis, from its creation until the pod after it exists,
\* the limit stops it, or the error of its binding is final.
CarriesChain(t) ==
    \/ t = Main /\ pc[t] \in Counting \cup {"sleep", "create"}
    \/ /\ t \in created \ Existing
       /\ \/ pc[t] \in Binding \cup Counting \cup {"check", "create", "forget"}
          \/ pc[t] \in {"idle", "patch", "done"} /\ sched[t] \notin {"assumed", "known"}

\* The analysis is one chain of pods, so what no lock protects in createNextPod
\* and postBindHook has one user at a time.
OneChain ==
    \A t, u \in {Main} \cup Pod : CarriesChain(t) /\ CarriesChain(u) => t = u

\* The pods of the cluster are left alone, except that some may be evicted.
ClusterPodsIdle ==
    \A p \in Existing :
        /\ p \notin created => p \in Preemptible
        /\ pc[p] = "idle" /\ boundTo[p] = Placement[p]
        /\ Placement[p] # NoNode => sched[p] \in {"unseen", "known"}

\* A pod that does not exist yet is known to nobody; one that is being bound is
\* held by the scheduler's cache.
PodsAccounted ==
    \A p \in Pod :
        /\ p \notin created => pc[p] = "idle" /\ (p \notin Existing => sched[p] = "unseen")
        /\ pc[p] \notin {"idle", "patch", "done"} => sched[p] \in {"assumed", "known"}

\* What the counts say while t carries the chain: c.simulated is ahead of
\* status.Pods by the pod under way and below the limit while one more may be
\* counted, and what t has loaded is not stale.
CountsOf(t) ==
    /\ pc[t] \in Counting \cup {"sleep"} => (MaxSimulated > 0 => simulated < MaxSimulated)
    /\ pc[t] \notin Counting \cup {"sleep", "check"} => Len(pods) < simulated
    /\ pc[t] = "storeSimulated" => reg[t] = simulated
    /\ pc[t] = "appendPods" => slice[t] = pods

\* c.simulated counts the pods of the chain.
CountsAgree ==
    /\ Len(pods) <= simulated
    /\ MaxSimulated > 0 => simulated <= MaxSimulated
    /\ \A t \in {Main} \cup Pod : CarriesChain(t) => CountsOf(t)

\* Why the limit holds although nothing is locked, when no pending pod of the
\* cluster finds a node: the inductive invariant behind LimitRespected.
ChainInvariant == OneChain /\ ClusterPodsIdle /\ PodsAccounted /\ CountsAgree

\* A pod that is listed in status.Pods is bound in the API server.
ListedPodsAreBound == \A i \in 1..Len(pods) : pods[i] \in PlacedPods

\* No goroutine sends on c.stop once Run has closed it, which would panic.
NoSendAfterClose == \A t \in Thread : pc[t] = "send" => stopOpen

\* The stop reason, once given, is not replaced by that of a second stop.
StopReasonIsFinal == [][stopReason # "none" => stopReason' = stopReason]_vars

\* No goroutine panics: of all that stop the analysis Run waits for one only,
\* and closes the channel in which the others are, or will be, blocked.
NeverCrashes == pc[Main] # "crashed"

\* Run ends, and the command with it, unless a second stop crashes it first.
RunReturns == []NeverCrashes => <>(pc[Main] = "exited")

\* A report names a stop reason: GetReport slices it at its colon, and a reason
\* that was never set has none.
ReportHasReason == HasReport => report.reason # "none"

\* A name from the generator is not in use yet when its pod is created: the
\* counter alone keeps the names apart.
NamesAreFresh == \A t \in Thread : pc[t] = "create" => name[t] \notin created

\* The analysis as a user understands it, see CapacityEstimate: the pods
\* appended to status.Pods are the placements, the stop Main takes the outcome.
Estimate == INSTANCE CapacityEstimate WITH
    room <- [n \in Nodes |-> Capacity[n] - Cardinality({p \in Existing : Placement[p] = n})],
    Limit <- MaxSimulated,
    placed <- [i \in 1..Len(pods) |-> boundTo[pods[i]]],
    outcome <- IF pc[Main] \in {"cancel", "closeStop", "returned", "exited"}
               THEN stopReason ELSE "running"

\* Run, with its goroutines, does no more and no less than the estimate.
ImplementsEstimate == Estimate!Spec

=============================================================================
