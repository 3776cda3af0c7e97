----------------------- MODULE ClusterCapacityProofs -----------------------
(***************************************************************************)
(* Theorems about ClusterCapacity, for every cluster and every limit.      *)
(***************************************************************************)
EXTENDS ClusterCapacity, TLAPS

\* Main and Listener are not pods, and the generator has a first name.
LEMMA Threads ==
    /\ Main \in Thread /\ Listener \in Thread /\ Pod \subseteq Thread
    /\ Main # Listener /\ Main \notin Pod /\ Listener \notin Pod
    /\ Name \subseteq Pod /\ Existing \subseteq Pod
    /\ 0 \in Name /\ Name \subseteq Nat
    /\ Preemptible \subseteq Existing \ Name /\ OtherProfile \subseteq Existing
  BY ThreadAssumption, LimitAssumption, PreemptionAssumption, ProfileAssumption
    DEF Thread, Pod, Name

\* What a patch of a pod's condition does to the types.
LEMMA PatchType ==
    ASSUME TypeOK, NEW p \in Pod, NEW c \in Condition, PatchCondition(p, c)
    PROVE  /\ cond' \in [Pod -> Condition]
           /\ updates' \in Seq(Update)
  <1>1. [pod |-> p, reason |-> c.reason] \in Update
    BY DEF Update, Condition
  <1>2. QED
    BY <1>1 DEF TypeOK, PatchCondition

LEMMA InitType == Init => TypeOK
  <1> SUFFICES ASSUME Init PROVE TypeOK
    OBVIOUS
  <1>1. NoCondition \in Condition
    BY DEF NoCondition, Condition, Reason
  <1>2. NoReport \in Report
    BY DEF NoReport, Report
  <1>3. boundTo \in [Pod -> Nodes \cup {NoNode}]
    BY ExistingAssumption DEF Init
  <1>4. seen \in SUBSET Nodes /\ sched \in [Pod -> SchedState]
    BY DEF Init, SchedState
  <1>5. pc \in [Thread -> PC]
    BY DEF Init, PC
  <1>6. name \in [Thread -> Name] /\ reg \in [Thread -> Nat]
    BY Threads DEF Init
  <1>7. slice \in [Thread -> Seq(Pod)] /\ pods \in Seq(Pod) /\ updates \in Seq(Update)
    BY DEF Init
  <1>8. /\ copied \in [Thread -> Condition] /\ cond \in [Pod -> Condition]
        /\ target \in [Pod -> Nodes \cup {NoNode}]
        /\ victims \in [Pod -> SUBSET Preemptible]
    BY <1>1 DEF Init
  <1>9. created \in SUBSET Pod
    BY Threads DEF Init
  <1>10. QED
    BY <1>2, <1>3, <1>4, <1>5, <1>6, <1>7, <1>8, <1>9 DEF Init, TypeOK, StopReason

\* createNextPod keeps the types, whoever runs it.
LEMMA CreateNextPodType ==
    ASSUME TypeOK, NEW t \in {Main} \cup Pod, CreateNextPod(t)
    PROVE  TypeOK'
  <1>0. t \in Thread
    BY Threads
  <1>1. CASE GenerateName(t)
    <2>1. counter \in Name
      BY <1>1, LimitAssumption DEF GenerateName, TypeOK, Name
    <2>2. QED
      BY <1>0, <1>1, <2>1 DEF GenerateName, Goto, TypeOK, PC, fieldVars, runVars,
        storeVars, schedVars
  <1>2. CASE LoadCounter(t)
    BY <1>0, <1>2 DEF LoadCounter, Goto, TypeOK, PC, fieldVars, runVars, storeVars, schedVars
  <1>3. CASE StoreCounter(t)
    BY <1>0, <1>3 DEF StoreCounter, Goto, TypeOK, PC, runVars, localVars, storeVars, schedVars
  <1>4. CASE LoadSimulated(t)
    BY <1>0, <1>4 DEF LoadSimulated, Goto, TypeOK, PC, fieldVars, runVars, storeVars, schedVars
  <1>5. CASE StoreSimulated(t)
    BY <1>0, <1>5 DEF StoreSimulated, Goto, TypeOK, PC, runVars, localVars, storeVars, schedVars
  <1>6. CASE CreatePod(t)
    <2>1. name[t] \in Pod
      BY <1>0, Threads DEF TypeOK
    <2>2. QED
      BY <1>0, <1>6, <2>1 DEF CreatePod, Goto, TypeOK, PC, fieldVars, runVars, localVars,
        schedVars
  <1>7. CASE CreateConflict(t)
    BY <1>0, <1>7 DEF CreateConflict, Goto, TypeOK, PC, fieldVars, runVars, localVars,
      storeVars, schedVars
  <1>8. QED
    BY <1>1, <1>2, <1>3, <1>4, <1>5, <1>6, <1>7 DEF CreateNextPod

\* The two statements every stop begins with keep the types.
LEMMA StopType ==
    ASSUME TypeOK, NEW t \in Thread, SetStopReason(t) \/ Close(t)
    PROVE  TypeOK'
  <1>1. CASE SetStopReason(t)
    BY <1>1 DEF SetStopReason, Goto, TypeOK, PC, StopReason, runVars, localVars, storeVars,
      schedVars
  <1>2. CASE Close(t)
    BY <1>2 DEF Close, Goto, TypeOK, PC, fieldVars, localVars, storeVars, schedVars
  <1>3. QED
    BY <1>1, <1>2

LEMMA MainStepType ==
    ASSUME TypeOK, MainStep
    PROVE  TypeOK'
  <1> USE Threads
  <1>1. CASE WakeUp
    BY <1>1 DEF WakeUp, Goto, TypeOK, PC, fieldVars, runVars, localVars, storeVars, schedVars
  <1>2. CASE CreateNextPod(Main)
    BY <1>2, CreateNextPodType
  <1>3. ASSUME NEW t \in Thread, ReceiveStop(t) PROVE TypeOK'
    BY <1>3 DEF ReceiveStop, TypeOK, PC, fieldVars, runVars, localVars, storeVars, schedVars
  <1>4. CASE CancelScheduler
    BY <1>4 DEF CancelScheduler, Goto, TypeOK, PC, fieldVars, localVars, storeVars, schedVars
  <1>5. CASE AbortRun
    BY <1>5 DEF AbortRun, Goto, TypeOK, PC, fieldVars, localVars, storeVars, schedVars
  <1>6. CASE CloseStop
    BY <1>6 DEF CloseStop, Goto, TypeOK, PC, fieldVars, localVars, storeVars, schedVars
  <1>7. CASE MakeReport
    BY <1>7 DEF MakeReport, Goto, TypeOK, PC, Report, fieldVars, localVars, storeVars, schedVars
  <1>8. CASE ReturnError
    BY <1>8 DEF ReturnError, Goto, TypeOK, PC, fieldVars, runVars, localVars, storeVars, schedVars
  <1>9. QED
    BY <1>1, <1>2, <1>3, <1>4, <1>5, <1>6, <1>7, <1>8 DEF MainStep

LEMMA BindingCycleType ==
    ASSUME TypeOK, NEW p \in Pod, BindingCycle(p)
    PROVE  TypeOK'
  <1> USE Threads
  <1>1. CASE GetPod(p)
    BY <1>1 DEF GetPod, Goto, TypeOK, PC, fieldVars, runVars, storeVars, schedVars
  <1>2. CASE UpdatePod(p)
    <2>1. [pod |-> p, reason |-> copied[p].reason] \in Update
      BY DEF TypeOK, Update, Condition
    <2>2. updates' \in Seq(Update)
      BY <1>2, <2>1 DEF UpdatePod, TypeOK
    <2>3. boundTo' \in [Pod -> Nodes \cup {NoNode}] /\ cond' \in [Pod -> Condition]
      BY <1>2 DEF UpdatePod, TypeOK
    <2>4. QED
      BY <1>2, <2>2, <2>3 DEF UpdatePod, Goto, TypeOK, PC, fieldVars, runVars, localVars,
        schedVars
  <1>3. CASE LoadPods(p)
    BY <1>3 DEF LoadPods, Goto, TypeOK, PC, fieldVars, runVars, storeVars, schedVars
  <1>4. CASE AppendPods(p)
    <2>1. pods' \in Seq(Pod)
      BY <1>4 DEF AppendPods, TypeOK
    <2>2. QED
      BY <1>4, <2>1 DEF AppendPods, Goto, TypeOK, PC, runVars, localVars, storeVars, schedVars
  <1>5. CASE CheckLimit(p)
    BY <1>5 DEF CheckLimit, Goto, TypeOK, PC, fieldVars, runVars, localVars, storeVars, schedVars
  <1>6. CASE CreateNextPod(p)
    BY <1>6, CreateNextPodType
  <1>7. CASE SetStopReason(p) \/ Close(p)
    BY <1>7, StopType
  <1>8. CASE ForgetPod(p)
    <2>1. /\ sched' \in [Pod -> SchedState]
          /\ target' \in [Pod -> Nodes \cup {NoNode}]
      BY <1>8 DEF ForgetPod, Activate, TypeOK, SchedState
    <2>2. QED
      BY <1>8, <2>1 DEF ForgetPod, Goto, TypeOK, PC, fieldVars, runVars, localVars, storeVars
  <1>9. CASE PatchBindError(p)
    <2>1. [NoCondition EXCEPT !.reason = "SchedulerError"] \in Condition
      BY DEF NoCondition, Condition, Reason
    <2>2. cond' \in [Pod -> Condition] /\ updates' \in Seq(Update)
      BY <1>9, <2>1, PatchType DEF PatchBindError
    <2>3. QED
      BY <1>9, <2>2 DEF PatchBindError, Goto, TypeOK, PC, fieldVars, runVars, localVars, schedVars
  <1>10. QED
    BY <1>1, <1>2, <1>3, <1>4, <1>5, <1>6, <1>7, <1>8, <1>9 DEF BindingCycle

LEMMA PodStepType ==
    ASSUME TypeOK, NEW p \in Pod, PodStep(p)
    PROVE  TypeOK'
  <1> USE Threads
  <1>1. CASE BindingCycle(p)
    BY <1>1, BindingCycleType
  <1>2. CASE SchedulePod(p)
    <2>1. target' \in [Pod -> Nodes \cup {NoNode}]
      BY <1>2 DEF SchedulePod, Feasible, TypeOK
    <2>2. QED
      BY <1>2, <2>1 DEF SchedulePod, TypeOK, PC, SchedState, fieldVars, runVars, localVars,
        storeVars
  <1>3. CASE RejectPod(p)
    <2>1. [reason |-> "Unschedulable", view |-> seen, node |-> NoNode] \in Condition
      BY DEF TypeOK, Condition, Reason
    <2>2. cond' \in [Pod -> Condition] /\ updates' \in Seq(Update)
      BY <1>3, <2>1, PatchType DEF RejectPod
    <2>3. QED
      BY <1>3, <2>2 DEF RejectPod, TypeOK, SchedState, fieldVars, runVars, localVars
  <1>4. CASE EndBackoff(p)
    BY <1>4 DEF EndBackoff, TypeOK, SchedState, fieldVars, runVars, localVars, storeVars
  <1>5. CASE SeePod(p)
    BY <1>5 DEF SeePod, TypeOK, SchedState, fieldVars, runVars, localVars, storeVars
  <1>6. CASE SeeBinding(p)
    BY <1>6 DEF SeeBinding, TypeOK, SchedState, fieldVars, runVars, localVars, storeVars
  <1>7. CASE PreemptFor(p)
    <2>1. PICK n \in seen : \E V \in VictimSets(n, p) :
             /\ victims' = [victims EXCEPT ![p] = V]
             /\ target' = [target EXCEPT ![p] = n]
             /\ sched' = [sched EXCEPT ![p] = "parked"]
             /\ PatchCondition(p, [reason |-> "Unschedulable", view |-> seen, node |-> n])
      BY <1>7 DEF PreemptFor
    <2>2. PICK V \in VictimSets(n, p) :
             /\ victims' = [victims EXCEPT ![p] = V]
             /\ target' = [target EXCEPT ![p] = n]
             /\ sched' = [sched EXCEPT ![p] = "parked"]
             /\ PatchCondition(p, [reason |-> "Unschedulable", view |-> seen, node |-> n])
      BY <2>1
    <2>3. n \in Nodes /\ V \subseteq Preemptible
      BY DEF TypeOK, VictimSets
    <2>4. [reason |-> "Unschedulable", view |-> seen, node |-> n] \in Condition
      BY <2>3 DEF TypeOK, Condition, Reason
    <2>5. cond' \in [Pod -> Condition] /\ updates' \in Seq(Update)
      BY <2>2, <2>4, PatchType
    <2>6. QED
      BY <1>7, <2>2, <2>3, <2>5 DEF PreemptFor, TypeOK, SchedState, fieldVars, runVars, localVars
  <1>8. QED
    BY <1>1, <1>2, <1>3, <1>4, <1>5, <1>6, <1>7 DEF PodStep

\* The eviction of a pod, and its loss in the cache, keep the types.
LEMMA EvictionType ==
    ASSUME TypeOK, NEW v \in Preemptible, Evict(v) \/ SeeDeletion(v)
    PROVE  TypeOK'
  <1>1. CASE Evict(v)
    BY <1>1 DEF Evict, TypeOK, fieldVars, runVars, localVars, schedVars
  <1>2. CASE SeeDeletion(v)
    BY <1>2 DEF SeeDeletion, TypeOK, SchedState, fieldVars, runVars, localVars, storeVars
  <1>3. QED
    BY <1>1, <1>2

LEMMA ListenerStepType ==
    ASSUME TypeOK, ListenerStep
    PROVE  TypeOK'
  <1> USE Threads
  <1>1. CASE DeliverUpdate
    <2>1. updates' \in Seq(Update)
      BY <1>1 DEF DeliverUpdate, TypeOK
    <2>2. pc' \in [Thread -> PC]
      BY <1>1 DEF DeliverUpdate, TypeOK, PC
    <2>3. QED
      BY <1>1, <2>1, <2>2 DEF DeliverUpdate, TypeOK, fieldVars, runVars, localVars, schedVars
  <1>2. CASE SetStopReason(Listener) \/ Close(Listener)
    BY <1>2, StopType
  <1>3. QED
    BY <1>1, <1>2 DEF ListenerStep

\* A panic ends the process and changes nothing else.
LEMMA PanicStep ==
    ASSUME TypeOK, NEW t \in Thread, Panic(t)
    PROVE  /\ pc' = [pc EXCEPT ![Main] = "crashed"] /\ pc' \in [Thread -> PC]
           /\ pc'[Main] = "crashed" /\ \A u \in Thread \ {Main} : pc'[u] = pc[u]
           /\ pc[t] = "send" /\ ~stopOpen
           /\ UNCHANGED <<fieldVars, runVars, localVars, storeVars, schedVars>>
  BY Threads DEF Panic, Alive, TypeOK, PC

LEMMA NextType == TypeOK /\ [Next]_vars => TypeOK'
  <1> SUFFICES ASSUME TypeOK, [Next]_vars PROVE TypeOK'
    OBVIOUS
  <1>1. CASE MainStep
    BY <1>1, MainStepType
  <1>2. CASE ListenerStep
    BY <1>2, ListenerStepType
  <1>3. ASSUME NEW p \in Pod, PodStep(p) PROVE TypeOK'
    BY <1>3, PodStepType
  <1>4. ASSUME NEW n \in Nodes, SeeNode(n) PROVE TypeOK'
    BY <1>4 DEF SeeNode, Activate, TypeOK, SchedState, fieldVars, runVars, localVars, storeVars
  <1>5. ASSUME NEW v \in Preemptible, Evict(v) \/ SeeDeletion(v) PROVE TypeOK'
    BY <1>5, EvictionType
  <1>6. ASSUME NEW t \in Thread, Panic(t) PROVE TypeOK'
    BY <1>6, PanicStep DEF TypeOK, fieldVars, runVars, localVars, storeVars, schedVars
  <1>7. CASE UNCHANGED vars
    BY <1>7 DEF TypeOK, vars, fieldVars, runVars, localVars, storeVars, schedVars
  <1>8. QED
    BY <1>1, <1>2, <1>3, <1>4, <1>5, <1>6, <1>7 DEF Next, Exited

\* Every variable keeps its type, whatever the cluster and the interleaving.
THEOREM TypeCorrect == Spec => []TypeOK
  BY InitType, NextType, PTL DEF Spec

-----------------------------------------------------------------------------
(***************************************************************************)
(* The limit.  The analysis is one chain of pods as long as the binder of  *)
(* the analysis is given none of the pods the cluster left pending: they   *)
(* find no node, or belong to another profile.                             *)
(***************************************************************************)
NoPendingFits ==
    \A p \in Existing \ OtherProfile :
        Placement[p] = NoNode => \A n \in Nodes : p \notin Admits[n]

LEMMA InitChain == Init => ChainInvariant
  <1> SUFFICES ASSUME Init PROVE ChainInvariant
    OBVIOUS
  <1>1. \A t \in {Main} \cup Pod : CarriesChain(t) => t = Main /\ pc[t] = "sleep"
    BY Threads DEF Init, CarriesChain
  <1>2. OneChain
    BY <1>1 DEF OneChain
  <1>3. ClusterPodsIdle
    BY Threads DEF Init, ClusterPodsIdle
  <1>4. PodsAccounted
    BY Threads DEF Init, PodsAccounted
  <1>5. CountsAgree
    <2>1. Len(pods) = 0 /\ simulated = 0
      BY DEF Init
    <2>2. QED
      BY <1>1, <2>1, LimitAssumption DEF CountsAgree, CountsOf
  <1>6. QED
    BY <1>2, <1>3, <1>4, <1>5 DEF ChainInvariant

\* A goroutine that binds a pod or creates the next one carries the chain.
LEMMA WorkerCarries ==
    ASSUME ChainInvariant, NEW t \in {Main} \cup Pod,
           pc[t] \in Counting \cup {"create"}
              \/ (t \in Pod /\ pc[t] \in Binding \cup {"check", "forget"})
    PROVE  CarriesChain(t)
  <1>1. CASE t = Main
    BY <1>1, Threads DEF CarriesChain
  <1>2. CASE t \in Pod
    <2>1. pc[t] # "idle"
      BY DEF Counting, Binding
    <2>2. t \in created \ Existing
      BY <1>2, <2>1 DEF ChainInvariant, ClusterPodsIdle, PodsAccounted
    <2>3. QED
      BY <2>2 DEF CarriesChain
  <1>3. QED
    BY <1>1, <1>2

\* A goroutine that moves on leaves the pods of the cluster alone and the pods
\* accounted for.
LEMMA MoveKeepsPods ==
    ASSUME TypeOK, ChainInvariant, NEW t \in Thread, NEW to,
           pc' = [pc EXCEPT ![t] = to],
           pc[t] # "idle",
           pc[t] \in {"patch", "done"} => to \in {"patch", "done"},
           UNCHANGED <<created, boundTo, sched>>
    PROVE  ClusterPodsIdle' /\ PodsAccounted'
  <1>1. \A p \in Pod : p = t => p \in created \ Existing
    BY DEF ChainInvariant, ClusterPodsIdle, PodsAccounted
  <1>2. \A p \in Pod : p # t => pc'[p] = pc[p]
    BY Threads DEF TypeOK
  <1>3. pc'[t] = to
    BY DEF TypeOK
  <1>4. ClusterPodsIdle'
    BY <1>1, <1>2, Threads DEF ChainInvariant, ClusterPodsIdle
  <1>5. PodsAccounted'
    BY <1>1, <1>2, <1>3 DEF ChainInvariant, PodsAccounted
  <1>6. QED
    BY <1>4, <1>5

\* A step of the carrier t that makes no other carrier.
LEMMA CarrierStep ==
    ASSUME ChainInvariant, NEW t \in {Main} \cup Pod, CarriesChain(t),
           \A u \in {Main} \cup Pod : u # t /\ CarriesChain(u)' => CarriesChain(u),
           ClusterPodsIdle', PodsAccounted',
           Len(pods)' <= simulated',
           MaxSimulated > 0 => simulated' <= MaxSimulated,
           CarriesChain(t)' => CountsOf(t)'
    PROVE  ChainInvariant'
  <1>1. \A u \in {Main} \cup Pod : CarriesChain(u)' => u = t
    BY DEF ChainInvariant, OneChain
  <1>2. OneChain'
    BY <1>1 DEF OneChain
  <1>3. CountsAgree'
    BY <1>1 DEF CountsAgree
  <1>4. QED
    BY <1>2, <1>3 DEF ChainInvariant

\* A step that makes no carrier and leaves the counts alone.
LEMMA QuietStep ==
    ASSUME ChainInvariant,
           \A u \in {Main} \cup Pod :
               CarriesChain(u)' => CarriesChain(u) /\ (CountsOf(u) => CountsOf(u)'),
           ClusterPodsIdle', PodsAccounted',
           UNCHANGED <<pods, simulated>>
    PROVE  ChainInvariant'
  <1>1. OneChain'
    BY DEF ChainInvariant, OneChain
  <1>2. CountsAgree'
    BY DEF ChainInvariant, CountsAgree
  <1>3. QED
    BY <1>1, <1>2 DEF ChainInvariant

\* The carrier moves on inside its goroutine; Len and limit are given, so is
\* what the counts say of it at its new place.
LEMMA CarrierMove ==
    ASSUME TypeOK, ChainInvariant, NEW t \in {Main} \cup Pod, NEW to,
           CarriesChain(t),
           pc' = [pc EXCEPT ![t] = to],
           pc[t] \notin {"idle", "patch", "done"},
           UNCHANGED <<created, boundTo, sched>>,
           Len(pods)' <= simulated',
           MaxSimulated > 0 => simulated' <= MaxSimulated,
           CountsOf(t)'
    PROVE  ChainInvariant'
  <1>1. t \in Thread
    BY Threads
  <1>2. \A u \in {Main} \cup Pod : u # t => pc'[u] = pc[u]
    BY <1>1, Threads DEF TypeOK
  <1>3. \A u \in {Main} \cup Pod : u # t /\ CarriesChain(u)' => CarriesChain(u)
    BY <1>2 DEF CarriesChain
  <1>4. ClusterPodsIdle' /\ PodsAccounted'
    BY <1>1, MoveKeepsPods
  <1>5. QED
    BY <1>3, <1>4, CarrierStep

\* createNextPod hands the chain from the goroutine that runs it to the new pod.
LEMMA CreateNextPodChain ==
    ASSUME TypeOK, ChainInvariant, NEW t \in {Main} \cup Pod, CreateNextPod(t)
    PROVE  ChainInvariant'
  <1>1. t \in Thread
    BY Threads
  <1>2. CarriesChain(t) /\ pc[t] \in Counting \cup {"create"}
    <2>1. pc[t] \in Counting \cup {"create"}
      BY DEF CreateNextPod, GenerateName, LoadCounter, StoreCounter, LoadSimulated,
        StoreSimulated, CreatePod, CreateConflict, Goto, Counting
    <2>2. QED
      BY <2>1, WorkerCarries
  <1>3. CountsOf(t) /\ Len(pods) <= simulated
        /\ (MaxSimulated > 0 => simulated <= MaxSimulated)
    BY <1>2 DEF ChainInvariant, CountsAgree
  <1>4. pc[t] \notin {"idle", "patch", "done"}
    BY <1>2 DEF Counting
  <1>5. simulated \in Nat /\ Len(pods) \in Nat
    BY DEF TypeOK
  <1>6. CASE GenerateName(t)
    <2>1. CountsOf(t)'
      BY <1>1, <1>3, <1>6 DEF GenerateName, Goto, CountsOf, Counting, TypeOK, fieldVars
    <2>2. QED
      BY <1>2, <1>3, <1>4, <1>6, <2>1, CarrierMove
        DEF GenerateName, Goto, fieldVars, storeVars, schedVars
  <1>7. CASE LoadCounter(t)
    <2>1. CountsOf(t)'
      BY <1>1, <1>3, <1>7 DEF LoadCounter, Goto, CountsOf, Counting, TypeOK, fieldVars
    <2>2. QED
      BY <1>2, <1>3, <1>4, <1>7, <2>1, CarrierMove
        DEF LoadCounter, Goto, fieldVars, storeVars, schedVars
  <1>8. CASE StoreCounter(t)
    <2>1. CountsOf(t)'
      BY <1>1, <1>3, <1>8 DEF StoreCounter, Goto, CountsOf, Counting, TypeOK
    <2>2. QED
      BY <1>2, <1>3, <1>4, <1>8, <2>1, CarrierMove
        DEF StoreCounter, Goto, storeVars, schedVars
  <1>9. CASE LoadSimulated(t)
    <2>1. CountsOf(t)'
      BY <1>1, <1>3, <1>9 DEF LoadSimulated, Goto, CountsOf, Counting, TypeOK, fieldVars
    <2>2. QED
      BY <1>2, <1>3, <1>4, <1>9, <2>1, CarrierMove
        DEF LoadSimulated, Goto, fieldVars, storeVars, schedVars
  <1>10. CASE StoreSimulated(t)
    <2>1. /\ pc[t] = "storeSimulated" /\ pc'[t] = "create"
          /\ simulated' = simulated + 1 /\ pods' = pods
      BY <1>1, <1>3, <1>10 DEF StoreSimulated, Goto, CountsOf, TypeOK
    <2>2. MaxSimulated > 0 => simulated < MaxSimulated
      BY <1>3, <2>1 DEF CountsOf, Counting
    <2>3. Len(pods)' < simulated' /\ (MaxSimulated > 0 => simulated' <= MaxSimulated)
      BY <1>3, <1>5, <2>1, <2>2, LimitAssumption
    <2>4. CountsOf(t)'
      BY <2>1, <2>3 DEF CountsOf, Counting
    <2>5. Len(pods)' <= simulated'
      BY <1>5, <2>1, <2>3
    <2>6. QED
      BY <1>2, <1>4, <1>10, <2>3, <2>4, <2>5, CarrierMove
        DEF StoreSimulated, Goto, storeVars, schedVars
  <1>11. CASE CreatePod(t)
    <2>0. PICK q \in Pod : q = name[t]
      BY <1>1, Threads DEF TypeOK
    <2>1. q # Main /\ q \notin created
      BY <1>11, <2>0, Threads DEF CreatePod
    <2>2. q \notin Existing /\ pc[q] = "idle" /\ sched[q] = "unseen"
      <3>1. q \notin Existing
        BY <1>1, <2>0, <2>1, Threads DEF ChainInvariant, ClusterPodsIdle, TypeOK
      <3>2. QED
        BY <2>1, <3>1 DEF ChainInvariant, PodsAccounted
    <2>3. q # t
      BY <1>4, <2>2
    <2>4. /\ pc'[t] \in {"wait", "done"} /\ (t = Main => pc'[t] = "wait")
          /\ \A u \in {Main} \cup Pod : u # t => pc'[u] = pc[u]
          /\ created' = created \cup {q}
          /\ UNCHANGED <<boundTo, sched, pods, simulated>>
      BY <1>1, <1>11, <2>0, Threads DEF CreatePod, Goto, TypeOK, schedVars, fieldVars
    <2>5. t \in Pod => t \in created \ Existing /\ sched[t] \in {"assumed", "known"}
      BY <1>2, <1>4, Threads DEF ChainInvariant, PodsAccounted, CarriesChain
    <2>6. ~CarriesChain(t)'
      BY <2>4, <2>5, Threads DEF CarriesChain, Counting, Binding
    <2>7. \A u \in {Main} \cup Pod : CarriesChain(u)' => u = q
      <3>1. SUFFICES ASSUME NEW u \in {Main} \cup Pod, CarriesChain(u)', u # q
                     PROVE  FALSE
        OBVIOUS
      <3>2. u # t
        BY <2>6, <3>1
      <3>3. CarriesChain(u)
        BY <2>4, <3>1, <3>2 DEF CarriesChain
      <3>4. QED
        BY <1>2, <3>2, <3>3 DEF ChainInvariant, OneChain
    <2>8. OneChain'
      BY <2>7 DEF OneChain
    <2>9. ClusterPodsIdle'
      BY <2>4, <2>5, Threads DEF ChainInvariant, ClusterPodsIdle
    <2>10. PodsAccounted'
      BY <2>1, <2>4, <2>5 DEF ChainInvariant, PodsAccounted
    <2>11. Len(pods) < simulated
      BY <1>3, <1>11 DEF CountsOf, CreatePod, Goto, Counting
    <2>12. CountsOf(q)'
      BY <2>1, <2>2, <2>3, <2>4, <2>11 DEF CountsOf, Counting
    <2>13. CountsAgree'
      BY <1>3, <2>4, <2>7, <2>12 DEF CountsAgree
    <2>14. QED
      BY <2>8, <2>9, <2>10, <2>13 DEF ChainInvariant
  <1>12. CASE CreateConflict(t)
    <2>1. CountsOf(t)'
      BY <1>1, <1>3, <1>12 DEF CreateConflict, Goto, CountsOf, Counting, TypeOK, fieldVars
    <2>2. QED
      BY <1>2, <1>3, <1>4, <1>12, <2>1, CarrierMove
        DEF CreateConflict, Goto, fieldVars, storeVars, schedVars
  <1>13. QED
    BY <1>6, <1>7, <1>8, <1>9, <1>10, <1>11, <1>12 DEF CreateNextPod

\* The binding goroutine carries the chain through Bind and postBindHook, and
\* gives it up at the limit.
LEMMA BindingChain ==
    ASSUME TypeOK, ChainInvariant, NEW p \in Pod,
           \/ GetPod(p) \/ UpdatePod(p) \/ LoadPods(p) \/ AppendPods(p) \/ CheckLimit(p)
    PROVE  ChainInvariant'
  <1>1. p \in Thread /\ p \in {Main} \cup Pod /\ p # Main
    BY Threads
  <1>2. CarriesChain(p) /\ pc[p] \in Binding \cup {"check"}
    <2>1. pc[p] \in Binding \cup {"check"}
      BY DEF GetPod, UpdatePod, LoadPods, AppendPods, CheckLimit, Goto, Binding
    <2>2. QED
      BY <1>1, <2>1, WorkerCarries
  <1>3. CountsOf(p) /\ Len(pods) <= simulated
        /\ (MaxSimulated > 0 => simulated <= MaxSimulated)
    BY <1>2 DEF ChainInvariant, CountsAgree
  <1>4. pc[p] \notin {"idle", "patch", "done"}
    BY <1>2 DEF Binding
  <1>5. simulated \in Nat /\ Len(pods) \in Nat
    BY DEF TypeOK
  <1>6. CASE GetPod(p)
    <2>1. CountsOf(p)'
      BY <1>1, <1>3, <1>6 DEF GetPod, Goto, CountsOf, Counting, TypeOK, fieldVars
    <2>2. QED
      BY <1>2, <1>3, <1>4, <1>6, <2>1, CarrierMove
        DEF GetPod, Goto, fieldVars, storeVars, schedVars
  <1>7. CASE UpdatePod(p)
    <2>1. /\ p \in created \ Existing
          /\ sched[p] \in {"assumed", "known"}
      BY <1>2, <1>4, Threads DEF CarriesChain, ChainInvariant, PodsAccounted
    <2>2. /\ pc[p] = "update" /\ pc'[p] = "loadPods"
          /\ \A u \in {Main} \cup Pod : u # p => pc'[u] = pc[u]
          /\ UNCHANGED <<pods, simulated, created, sched, reg, slice>>
          /\ \A u \in Pod : u # p => boundTo'[u] = boundTo[u]
      BY <1>1, <1>7, Threads DEF UpdatePod, Goto, TypeOK, fieldVars, localVars, schedVars
    <2>3. ClusterPodsIdle'
      BY <2>1, <2>2, Threads DEF ChainInvariant, ClusterPodsIdle
    <2>4. PodsAccounted'
      BY <2>1, <2>2 DEF ChainInvariant, PodsAccounted
    <2>5. \A u \in {Main} \cup Pod : u # p /\ CarriesChain(u)' => CarriesChain(u)
      BY <2>2 DEF CarriesChain
    <2>6. CountsOf(p)'
      BY <1>3, <2>2 DEF CountsOf, Counting
    <2>7. QED
      BY <1>1, <1>2, <1>3, <2>2, <2>3, <2>4, <2>5, <2>6, CarrierStep
  <1>8. CASE LoadPods(p)
    <2>1. CountsOf(p)'
      BY <1>1, <1>3, <1>8 DEF LoadPods, Goto, CountsOf, Counting, TypeOK, fieldVars
    <2>2. QED
      BY <1>2, <1>3, <1>4, <1>8, <2>1, CarrierMove
        DEF LoadPods, Goto, fieldVars, storeVars, schedVars
  <1>9. CASE AppendPods(p)
    <2>1. /\ pc[p] = "appendPods" /\ pc'[p] = "check"
          /\ pods' = Append(pods, p) /\ simulated' = simulated
      BY <1>1, <1>3, <1>9 DEF AppendPods, Goto, CountsOf, TypeOK
    <2>2. Len(pods) < simulated
      BY <1>3, <2>1 DEF CountsOf, Counting
    <2>3. Len(pods') = Len(pods) + 1
      BY <2>1 DEF TypeOK
    <2>4. Len(pods)' <= simulated'
      BY <1>5, <2>1, <2>2, <2>3
    <2>5. CountsOf(p)'
      BY <2>1 DEF CountsOf, Counting
    <2>6. QED
      BY <1>1, <1>2, <1>3, <1>4, <1>9, <2>1, <2>4, <2>5, CarrierMove
        DEF AppendPods, Goto, storeVars, schedVars
  <1>10. CASE CheckLimit(p)
    <2>1. /\ pc[p] = "check"
          /\ pc' = [pc EXCEPT ![p] = IF LimitReached THEN "setReason" ELSE "name"]
          /\ UNCHANGED <<pods, simulated, created, boundTo, sched>>
      BY <1>10 DEF CheckLimit, Goto, fieldVars, storeVars, schedVars
    <2>2. CASE LimitReached
      <3>1. /\ pc'[p] = "setReason"
            /\ \A u \in {Main} \cup Pod : u # p => pc'[u] = pc[u]
        BY <1>1, <2>1, <2>2, Threads DEF TypeOK
      <3>2. p \in created /\ sched[p] \in {"assumed", "known"}
        BY <1>4 DEF ChainInvariant, PodsAccounted
      <3>3. ~CarriesChain(p)'
        BY <1>1, <3>1 DEF CarriesChain, Counting, Binding
      <3>4. \A u \in {Main} \cup Pod : u # p /\ CarriesChain(u)' => CarriesChain(u)
        BY <2>1, <3>1 DEF CarriesChain
      <3>5. ClusterPodsIdle' /\ PodsAccounted'
        BY <1>1, <1>4, <2>1, MoveKeepsPods
      <3>6. QED
        BY <1>1, <1>2, <1>3, <2>1, <3>3, <3>4, <3>5, CarrierStep
    <2>3. CASE ~LimitReached
      <3>1. pc' = [pc EXCEPT ![p] = "name"] /\ pc'[p] = "name"
        BY <1>1, <2>1, <2>3 DEF TypeOK
      <3>2. MaxSimulated > 0 => simulated < MaxSimulated
        BY <1>5, <2>3, LimitAssumption DEF LimitReached
      <3>3. CountsOf(p)'
        BY <2>1, <3>1, <3>2 DEF CountsOf, Counting
      <3>4. QED
        BY <1>1, <1>2, <1>3, <1>4, <2>1, <3>1, <3>3, CarrierMove
    <2>4. QED
      BY <2>2, <2>3
  <1>11. QED
    BY <1>6, <1>7, <1>8, <1>9, <1>10

\* A goroutine that is about to stop the analysis, is stopping it or has been
\* heard carries no chain, before and after.
LEMMA StopChain ==
    ASSUME TypeOK, ChainInvariant, NEW t \in Thread,
           pc[t] \in {"setReason", "close", "send"},
           NEW to \in {"close", "send", "idle", "done"},
           t \in Pod => to # "idle",
           \A u \in {Main} \cup Pod : u # t => pc'[u] = pc[u] \/ (u = Main /\ pc'[u] = "cancel"),
           t \in Pod => pc'[t] = to,
           t # Main,
           UNCHANGED <<pods, simulated, reg, slice, created, boundTo, sched>>
    PROVE  ChainInvariant'
  <1>1. t \in Pod => /\ t \in created \ Existing
                     /\ sched[t] \in {"assumed", "known"}
    BY DEF ChainInvariant, ClusterPodsIdle, PodsAccounted
  <1>2. t \in Pod => ~CarriesChain(t)'
    BY <1>1 DEF CarriesChain, Counting, Binding
  <1>3. ASSUME NEW u \in {Main} \cup Pod, CarriesChain(u)'
        PROVE  pc'[u] = pc[u]
    <2>1. u # t
      BY <1>2, <1>3, Threads
    <2>2. CASE u = Main
      BY <1>3, <2>1, <2>2, Threads DEF CarriesChain, Counting, Binding
    <2>3. CASE u # Main
      BY <2>1, <2>3
    <2>4. QED
      BY <2>2, <2>3
  <1>4. \A u \in {Main} \cup Pod :
            CarriesChain(u)' => CarriesChain(u) /\ (CountsOf(u) => CountsOf(u)')
    BY <1>3 DEF CarriesChain, CountsOf
  <1>5. \A u \in Pod : u # t => pc'[u] = pc[u]
    BY Threads
  <1>6. ClusterPodsIdle'
    BY <1>1, <1>5, Threads DEF ChainInvariant, ClusterPodsIdle
  <1>7. PodsAccounted'
    BY <1>1, <1>5 DEF ChainInvariant, PodsAccounted
  <1>8. QED
    BY <1>4, <1>6, <1>7, QuietStep

\* A failed binding: the pod keeps the chain, as one that waits in the queue,
\* unless the cache holds it.
LEMMA FailureChain ==
    ASSUME TypeOK, ChainInvariant, NEW p \in Pod, ForgetPod(p) \/ PatchBindError(p)
    PROVE  ChainInvariant'
  <1>1. p \in Thread /\ p # Main /\ Main \in Thread
    BY Threads
  <1>2. p \in created \ Existing
    BY DEF ForgetPod, PatchBindError, Goto, ChainInvariant, ClusterPodsIdle, PodsAccounted
  <1>3. CASE ForgetPod(p)
    <2>1. /\ pc[p] = "forget" /\ pc'[p] = "patch"
          /\ \A u \in {Main} \cup Pod : u # p => pc'[u] = pc[u]
          /\ UNCHANGED <<pods, simulated, reg, slice, created, boundTo>>
      BY <1>1, <1>3, Threads DEF ForgetPod, Goto, TypeOK, fieldVars, localVars, storeVars
    <2>2. CarriesChain(p)
      BY <2>1, WorkerCarries
    <2>3. Len(pods) < simulated
      BY <2>1, <2>2 DEF ChainInvariant, CountsAgree, CountsOf, Counting
    <2>4. /\ \A q \in Pod : q # p => \/ sched'[q] = sched[q]
                                     \/ sched[q] = "parked" /\ sched'[q] = "active"
          /\ sched[p] \in {"assumed", "known"}
      BY <1>3, <2>1 DEF ForgetPod, Activate, TypeOK, ChainInvariant, PodsAccounted
    <2>5. \A u \in {Main} \cup Pod : u # p /\ CarriesChain(u)' => CarriesChain(u)
      <3>1. SUFFICES ASSUME NEW u \in {Main} \cup Pod, u # p, CarriesChain(u)'
                     PROVE  CarriesChain(u)
        OBVIOUS
      <3>2. CASE u = Main
        BY <2>1, <3>1, <3>2, Threads DEF CarriesChain, TypeOK
      <3>3. CASE u \in Pod
        BY <2>1, <2>4, <3>1, <3>3, Threads DEF CarriesChain
      <3>4. QED
        BY <3>2, <3>3
    <2>6. ClusterPodsIdle'
      <3>1. SUFFICES ASSUME NEW q \in Existing
                     PROVE  /\ q \notin created' => q \in Preemptible
                            /\ pc'[q] = "idle" /\ boundTo'[q] = Placement[q]
                            /\ Placement[q] # NoNode => sched'[q] \in {"unseen", "known"}
        BY DEF ClusterPodsIdle
      <3>2. q \in Pod /\ q # p
        BY <1>2, Threads
      <3>3. QED
        BY <2>1, <2>4, <3>2 DEF ChainInvariant, ClusterPodsIdle
    <2>7. PodsAccounted'
      <3>1. SUFFICES ASSUME NEW q \in Pod
                     PROVE  /\ q \notin created' =>
                                  pc'[q] = "idle" /\ (q \notin Existing => sched'[q] = "unseen")
                            /\ pc'[q] \notin {"idle", "patch", "done"} =>
                                  sched'[q] \in {"assumed", "known"}
        BY DEF PodsAccounted
      <3>2. CASE q = p
        BY <1>2, <2>1, <3>2
      <3>3. CASE q # p
        BY <2>1, <2>4, <3>3 DEF ChainInvariant, PodsAccounted
      <3>4. QED
        BY <3>2, <3>3
    <2>8. CountsOf(p)'
      BY <2>1, <2>3 DEF CountsOf, Counting
    <2>9. Len(pods)' <= simulated' /\ (MaxSimulated > 0 => simulated' <= MaxSimulated)
      BY <2>1 DEF ChainInvariant, CountsAgree
    <2>10. QED
      BY <2>2, <2>5, <2>6, <2>7, <2>8, <2>9, CarrierStep
  <1>4. CASE PatchBindError(p)
    <2>1. /\ pc[p] = "patch" /\ pc'[p] = "done"
          /\ \A u \in {Main} \cup Pod : u # p => pc'[u] = pc[u]
          /\ pc' = [pc EXCEPT ![p] = "done"]
          /\ UNCHANGED <<pods, simulated, reg, slice, created, boundTo, sched>>
      BY <1>1, <1>4, Threads DEF PatchBindError, Goto, TypeOK, fieldVars, localVars, schedVars
    <2>2. ClusterPodsIdle' /\ PodsAccounted'
      BY <1>1, <2>1, MoveKeepsPods
    <2>3. \A u \in {Main} \cup Pod :
              CarriesChain(u)' => CarriesChain(u) /\ (CountsOf(u) => CountsOf(u)')
      <3>1. SUFFICES ASSUME NEW u \in {Main} \cup Pod, CarriesChain(u)'
                     PROVE  CarriesChain(u) /\ (CountsOf(u) => CountsOf(u)')
        OBVIOUS
      <3>2. CASE u = p
        BY <1>1, <2>1, <3>1, <3>2 DEF CarriesChain, CountsOf, Counting, Binding
      <3>3. CASE u # p
        BY <2>1, <3>1, <3>3 DEF CarriesChain, CountsOf
      <3>4. QED
        BY <3>2, <3>3
    <2>4. QED
      BY <2>1, <2>2, <2>3, QuietStep
  <1>5. QED
    BY <1>3, <1>4

\* A step of the scheduler or of its informer that moves pods in the queue and
\* the cache, but binds none.
LEMMA QueueStep ==
    ASSUME TypeOK, ChainInvariant,
           \A q \in Pod :
               \/ sched'[q] = sched[q]
               \/ /\ sched[q] = "unseen" /\ q \in created
                  /\ sched'[q] = IF boundTo[q] = NoNode THEN "active" ELSE "known"
               \/ sched[q] # "unseen" /\ boundTo[q] # NoNode /\ sched'[q] = "known"
               \/ sched[q] \in {"active", "parked", "backoff"}
                    /\ sched'[q] \in {"active", "parked"}
               \/ q \in Preemptible /\ sched'[q] = "unseen"
               \/ q \in OtherProfile /\ sched[q] = "active" /\ sched'[q] = "assumed",
           UNCHANGED <<pods, simulated, reg, slice, pc, created, boundTo>>
    PROVE  ChainInvariant'
  <1>1. ASSUME NEW u \in {Main} \cup Pod, CarriesChain(u)'
        PROVE  CarriesChain(u)
    <2>1. CASE u = Main
      BY <1>1, <2>1, Threads DEF CarriesChain, TypeOK
    <2>2. CASE u \in Pod
      BY <1>1, <2>2, Threads DEF CarriesChain
    <2>3. QED
      BY <2>1, <2>2
  <1>2. \A u \in {Main} \cup Pod : CountsOf(u) => CountsOf(u)'
    BY DEF CountsOf
  <1>3. ClusterPodsIdle'
    <2>1. SUFFICES ASSUME NEW q \in Existing, Placement[q] # NoNode
                   PROVE  sched'[q] \in {"unseen", "known"}
      BY DEF ChainInvariant, ClusterPodsIdle
    <2>2. q \in Pod /\ sched[q] \in {"unseen", "known"} /\ boundTo[q] # NoNode
      BY <2>1, Threads DEF ChainInvariant, ClusterPodsIdle
    <2>3. QED
      BY <2>2
  <1>4. PodsAccounted'
    <2>1. SUFFICES ASSUME NEW q \in Pod
                   PROVE  /\ q \notin created /\ q \notin Existing => sched'[q] = "unseen"
                          /\ pc[q] \notin {"idle", "patch", "done"} =>
                                sched'[q] \in {"assumed", "known"}
      BY DEF ChainInvariant, PodsAccounted
    <2>2. /\ q \notin created /\ q \notin Existing => sched[q] = "unseen"
          /\ q \in Existing => pc[q] = "idle"
          /\ pc[q] \notin {"idle", "patch", "done"} => sched[q] \in {"assumed", "known"}
      BY DEF ChainInvariant, ClusterPodsIdle, PodsAccounted
    <2>3. QED
      BY <2>2, Threads
  <1>5. QED
    BY <1>1, <1>2, <1>3, <1>4, QuietStep

\* The scheduler starts the binding of a pod of the analysis, never of a pod of
\* the cluster in its profile: this is where NoPendingFits is needed.
LEMMA ScheduleChain ==
    ASSUME NoPendingFits, TypeOK, ChainInvariant, NEW p \in Pod \ OtherProfile, SchedulePod(p)
    PROVE  ChainInvariant'
  <1>1. p \in Thread /\ p # Main /\ p \in {Main} \cup Pod
    BY Threads
  <1>2. PICK n \in Nodes : n \in Feasible(p)
    BY DEF SchedulePod, Feasible, TypeOK
  <1>3. p \in created \ Existing
    <2>1. sched[p] = "active"
      BY DEF SchedulePod, Pop
    <2>2. p \in created
      BY <2>1, PreemptionAssumption DEF ChainInvariant, ClusterPodsIdle, PodsAccounted
    <2>3. p \notin Existing
      <3>1. SUFFICES ASSUME p \in Existing PROVE FALSE
        OBVIOUS
      <3>2. p \in Admits[n]
        BY <1>2, <3>1 DEF Feasible, Accepts, Provisioned
      <3>3. Placement[p] # NoNode
        BY <3>1, <3>2 DEF NoPendingFits
      <3>4. QED
        BY <2>1, <3>1, <3>3 DEF ChainInvariant, ClusterPodsIdle
    <2>4. QED
      BY <2>2, <2>3
  <1>4. /\ pc[p] \in {"idle", "done"} /\ sched[p] = "active"
        /\ pc'[p] = "get" /\ sched'[p] = "assumed"
        /\ \A u \in {Main} \cup Pod : u # p => pc'[u] = pc[u]
        /\ \A u \in Pod : u # p => sched'[u] = sched[u]
        /\ UNCHANGED <<pods, simulated, reg, slice, created, boundTo>>
    BY <1>1, Threads DEF SchedulePod, Pop, TypeOK, fieldVars, localVars, storeVars
  <1>5. CarriesChain(p)
    BY <1>3, <1>4 DEF CarriesChain
  <1>6. \A u \in {Main} \cup Pod : u # p /\ CarriesChain(u)' => CarriesChain(u)
    <2>1. SUFFICES ASSUME NEW u \in {Main} \cup Pod, u # p, CarriesChain(u)'
                   PROVE  CarriesChain(u)
      OBVIOUS
    <2>2. CASE u = Main
      BY <1>4, <2>1, <2>2, Threads DEF CarriesChain, TypeOK
    <2>3. CASE u \in Pod
      BY <1>4, <2>1, <2>3, Threads DEF CarriesChain
    <2>4. QED
      BY <2>2, <2>3
  <1>7. ClusterPodsIdle'
    BY <1>3, <1>4, Threads DEF ChainInvariant, ClusterPodsIdle
  <1>8. PodsAccounted'
    BY <1>3, <1>4 DEF ChainInvariant, PodsAccounted
  <1>9. /\ Len(pods) < simulated /\ Len(pods) <= simulated
        /\ MaxSimulated > 0 => simulated <= MaxSimulated
    BY <1>1, <1>4, <1>5 DEF ChainInvariant, CountsAgree, CountsOf, Counting
  <1>10. CountsOf(p)'
    BY <1>4, <1>9 DEF CountsOf, Counting
  <1>11. QED
    BY <1>1, <1>4, <1>5, <1>6, <1>7, <1>8, <1>9, <1>10, CarrierStep

LEMMA PodStepChain ==
    ASSUME NoPendingFits, TypeOK, ChainInvariant, NEW p \in Pod, PodStep(p)
    PROVE  ChainInvariant'
  <1>1. p \in Thread /\ p \in {Main} \cup Pod /\ p # Main
    BY Threads
  <1>2. CASE GetPod(p) \/ UpdatePod(p) \/ LoadPods(p) \/ AppendPods(p) \/ CheckLimit(p)
    BY <1>2, BindingChain
  <1>3. CASE CreateNextPod(p)
    BY <1>1, <1>3, CreateNextPodChain
  <1>4. CASE SetStopReason(p)
    <2>1. /\ pc[p] = "setReason" /\ pc'[p] = "close"
          /\ \A u \in {Main} \cup Pod : u # p => pc'[u] = pc[u]
          /\ UNCHANGED <<pods, simulated, reg, slice, created, boundTo, sched>>
      BY <1>1, <1>4, Threads DEF SetStopReason, Goto, TypeOK, localVars, storeVars, schedVars
    <2>2. QED
      BY <1>1, <2>1, StopChain
  <1>5. CASE Close(p)
    <2>1. /\ pc[p] = "close" /\ pc'[p] = "send"
          /\ \A u \in {Main} \cup Pod : u # p => pc'[u] = pc[u]
          /\ UNCHANGED <<pods, simulated, reg, slice, created, boundTo, sched>>
      BY <1>1, <1>5, Threads
        DEF Close, Goto, TypeOK, fieldVars, localVars, storeVars, schedVars
    <2>2. QED
      BY <1>1, <2>1, StopChain
  <1>6. CASE ForgetPod(p) \/ PatchBindError(p)
    BY <1>6, FailureChain
  <1>7. CASE SchedulePod(p)
    <2>1. CASE p \notin OtherProfile
      BY <1>7, <2>1, ScheduleChain
    <2>2. CASE p \in OtherProfile
      <3>1. /\ sched[p] = "active" /\ sched'[p] = "assumed"
            /\ \A q \in Pod : q # p => sched'[q] = sched[q]
        BY <1>7 DEF SchedulePod, Pop, TypeOK
      <3>2. UNCHANGED <<pods, simulated, reg, slice, pc, created, boundTo>>
        BY <1>7, <2>2 DEF SchedulePod, fieldVars, localVars, storeVars
      <3>3. QED
        BY <2>2, <3>1, <3>2, QueueStep
    <2>3. QED
      BY <2>1, <2>2
  <1>8. CASE RejectPod(p) \/ PreemptFor(p) \/ EndBackoff(p) \/ SeePod(p) \/ SeeBinding(p)
    <2>1. /\ UNCHANGED <<pods, simulated, reg, slice, pc, created, boundTo>>
          /\ \A q \in Pod : q # p => sched'[q] = sched[q]
      BY <1>8 DEF RejectPod, PreemptFor, Pop, EndBackoff, SeePod, SeeBinding, TypeOK, fieldVars, localVars,
        storeVars
    <2>2. \/ /\ sched[p] = "unseen" /\ p \in created
             /\ sched'[p] = IF boundTo[p] = NoNode THEN "active" ELSE "known"
          \/ sched[p] # "unseen" /\ boundTo[p] # NoNode /\ sched'[p] = "known"
          \/ sched[p] \in {"active", "parked", "backoff"} /\ sched'[p] \in {"active", "parked"}
      BY <1>8 DEF RejectPod, PreemptFor, Pop, EndBackoff, SeePod, SeeBinding, TypeOK
    <2>3. QED
      BY <2>1, <2>2, QueueStep
  <1>9. QED
    BY <1>2, <1>3, <1>4, <1>5, <1>6, <1>7, <1>8 DEF PodStep, BindingCycle

LEMMA MainStepChain ==
    ASSUME TypeOK, ChainInvariant, MainStep
    PROVE  ChainInvariant'
  <1>1. Main \in Thread /\ Main \notin Pod /\ Main \in {Main} \cup Pod
    BY Threads
  <1>2. CASE WakeUp
    <2>1. /\ pc[Main] = "sleep" /\ pc'[Main] = "name"
          /\ pc' = [pc EXCEPT ![Main] = "name"]
          /\ UNCHANGED <<pods, simulated, reg, slice, created, boundTo, sched>>
      BY <1>1, <1>2 DEF WakeUp, Goto, TypeOK, fieldVars, localVars, storeVars, schedVars
    <2>2. CarriesChain(Main)
      BY <2>1 DEF CarriesChain
    <2>3. CountsOf(Main) /\ Len(pods) <= simulated
          /\ (MaxSimulated > 0 => simulated <= MaxSimulated)
      BY <2>2 DEF ChainInvariant, CountsAgree
    <2>4. CountsOf(Main)'
      BY <2>1, <2>3 DEF CountsOf, Counting
    <2>5. QED
      BY <1>1, <2>1, <2>2, <2>3, <2>4, CarrierMove
  <1>3. CASE CreateNextPod(Main)
    BY <1>1, <1>3, CreateNextPodChain
  <1>4. ASSUME NEW t \in Thread, ReceiveStop(t)
        PROVE  ChainInvariant'
    <2>1. pc[t] = "send" /\ t # Main
      BY <1>4 DEF ReceiveStop
    <2>2. /\ t \in Pod => pc'[t] = "done"
          /\ \A u \in {Main} \cup Pod : u # t => pc'[u] = pc[u] \/ (u = Main /\ pc'[u] = "cancel")
      BY <1>1, <1>4, <2>1, Threads DEF ReceiveStop, TypeOK
    <2>3. UNCHANGED <<pods, simulated, reg, slice, created, boundTo, sched>>
      BY <1>4 DEF ReceiveStop, fieldVars, localVars, storeVars, schedVars
    <2>4. QED
      BY <2>1, <2>2, <2>3, StopChain
  <1>5. CASE CancelScheduler \/ AbortRun \/ CloseStop \/ ReturnError \/ MakeReport
    <2>1. PICK from \in {"cancel", "abort", "closeStop", "closeAborted", "aborted", "returned"},
               to \in {"closeStop", "closeAborted", "aborted", "returned", "exited"} :
             Goto(Main, from, to)
      BY <1>5 DEF CancelScheduler, AbortRun, CloseStop, ReturnError, MakeReport
    <2>2. /\ pc[Main] = from /\ pc'[Main] = to
          /\ pc' = [pc EXCEPT ![Main] = to]
          /\ \A u \in Pod : pc'[u] = pc[u]
      BY <1>1, <2>1, Threads DEF Goto, TypeOK
    <2>3. UNCHANGED <<pods, simulated, reg, slice, created, boundTo, sched>>
      BY <1>5 DEF CancelScheduler, AbortRun, CloseStop, ReturnError, MakeReport, fieldVars,
        localVars, storeVars, schedVars
    <2>4. ~CarriesChain(Main)'
      BY <1>1, <2>2, <2>3 DEF CarriesChain, Counting, TypeOK
    <2>5. \A u \in {Main} \cup Pod :
              CarriesChain(u)' => CarriesChain(u) /\ (CountsOf(u) => CountsOf(u)')
      BY <2>2, <2>3, <2>4 DEF CarriesChain, CountsOf
    <2>6. ClusterPodsIdle' /\ PodsAccounted'
      BY <1>1, <2>2, <2>3, MoveKeepsPods
    <2>7. QED
      BY <2>3, <2>5, <2>6, QuietStep
  <1>6. QED
    BY <1>2, <1>3, <1>4, <1>5 DEF MainStep

LEMMA ListenerStepChain ==
    ASSUME TypeOK, ChainInvariant, ListenerStep
    PROVE  ChainInvariant'
  <1>1. /\ UNCHANGED <<pods, simulated, reg, slice, created, boundTo, sched>>
        /\ \A u \in {Main} \cup Pod : pc'[u] = pc[u]
    BY Threads DEF ListenerStep, DeliverUpdate, SetStopReason, Close, Goto, TypeOK, fieldVars,
      localVars, storeVars, schedVars
  <1>2. \A u \in {Main} \cup Pod :
            CarriesChain(u)' => CarriesChain(u) /\ (CountsOf(u) => CountsOf(u)')
    BY <1>1 DEF CarriesChain, CountsOf
  <1>3. ClusterPodsIdle'
    BY <1>1, Threads DEF ChainInvariant, ClusterPodsIdle
  <1>4. PodsAccounted'
    BY <1>1 DEF ChainInvariant, PodsAccounted
  <1>5. QED
    BY <1>1, <1>2, <1>3, <1>4, QuietStep

\* A node that becomes known only moves parked pods to the active queue.
LEMMA SeeNodeChain ==
    ASSUME TypeOK, ChainInvariant, NEW n \in Nodes, SeeNode(n)
    PROVE  ChainInvariant'
  <1>1. \A q \in Pod : \/ sched'[q] = sched[q]
                       \/ sched[q] = "parked" /\ sched'[q] = "active"
    BY DEF SeeNode, Activate, TypeOK
  <1>2. UNCHANGED <<pods, simulated, reg, slice, pc, created, boundTo>>
    BY DEF SeeNode, fieldVars, localVars, storeVars
  <1>3. QED
    BY <1>1, <1>2, QueueStep

\* An evicted pod was never part of the chain.
LEMMA EvictionChain ==
    ASSUME TypeOK, ChainInvariant, NEW v \in Preemptible, Evict(v) \/ SeeDeletion(v)
    PROVE  ChainInvariant'
  <1>1. v \in Existing /\ v \in Pod
    BY Threads
  <1>2. CASE Evict(v)
    <2>1. /\ UNCHANGED <<pods, simulated, reg, slice, pc, boundTo, sched>>
          /\ created' = created \ {v}
      BY <1>2 DEF Evict, fieldVars, localVars, schedVars
    <2>2. \A u \in {Main} \cup Pod :
              CarriesChain(u)' => CarriesChain(u) /\ (CountsOf(u) => CountsOf(u)')
      BY <2>1 DEF CarriesChain, CountsOf
    <2>3. ClusterPodsIdle'
      BY <2>1 DEF ChainInvariant, ClusterPodsIdle
    <2>4. PodsAccounted'
      BY <1>1, <2>1 DEF ChainInvariant, ClusterPodsIdle, PodsAccounted
    <2>5. QED
      BY <2>1, <2>2, <2>3, <2>4, QuietStep
  <1>3. CASE SeeDeletion(v)
    <2>1. UNCHANGED <<pods, simulated, reg, slice, pc, created, boundTo>>
      BY <1>3 DEF SeeDeletion, fieldVars, localVars, storeVars
    <2>2. \A q \in Pod : \/ sched'[q] = sched[q]
                         \/ sched[q] = "parked" /\ sched'[q] = "active"
                         \/ q \in Preemptible /\ sched'[q] = "unseen"
      BY <1>1, <1>3 DEF SeeDeletion, TypeOK
    <2>3. QED
      BY <2>1, <2>2, QueueStep
  <1>4. QED
    BY <1>2, <1>3

\* A crash leaves the chain to whoever carried it.
LEMMA PanicChain ==
    ASSUME TypeOK, ChainInvariant, NEW t \in Thread, Panic(t)
    PROVE  ChainInvariant'
  <1>1. /\ UNCHANGED <<pods, simulated, reg, slice, created, boundTo, sched>>
        /\ pc'[Main] = "crashed" /\ \A u \in Pod : pc'[u] = pc[u]
    BY PanicStep, Threads DEF fieldVars, localVars, storeVars, schedVars
  <1>2. ~CarriesChain(Main)'
    BY <1>1, Threads DEF CarriesChain, Counting, TypeOK
  <1>3. \A u \in {Main} \cup Pod :
            CarriesChain(u)' => CarriesChain(u) /\ (CountsOf(u) => CountsOf(u)')
    BY <1>1, <1>2 DEF CarriesChain, CountsOf
  <1>4. ClusterPodsIdle'
    BY <1>1, Threads DEF ChainInvariant, ClusterPodsIdle
  <1>5. PodsAccounted'
    BY <1>1 DEF ChainInvariant, PodsAccounted
  <1>6. QED
    BY <1>1, <1>3, <1>4, <1>5, QuietStep

LEMMA NextChain == NoPendingFits /\ TypeOK /\ ChainInvariant /\ [Next]_vars => ChainInvariant'
  <1> SUFFICES ASSUME NoPendingFits, TypeOK, ChainInvariant, [Next]_vars
               PROVE  ChainInvariant'
    OBVIOUS
  <1>1. CASE MainStep
    BY <1>1, MainStepChain
  <1>2. CASE ListenerStep
    BY <1>2, ListenerStepChain
  <1>3. ASSUME NEW p \in Pod, PodStep(p) PROVE ChainInvariant'
    BY <1>3, PodStepChain
  <1>4. ASSUME NEW n \in Nodes, SeeNode(n) PROVE ChainInvariant'
    BY <1>4, SeeNodeChain
  <1>5. ASSUME NEW v \in Preemptible, Evict(v) \/ SeeDeletion(v) PROVE ChainInvariant'
    BY <1>5, EvictionChain
  <1>6. ASSUME NEW t \in Thread, Panic(t) PROVE ChainInvariant'
    BY <1>6, PanicChain
  <1>7. CASE UNCHANGED vars
    <2>1. UNCHANGED <<pods, simulated, reg, slice, pc, created, boundTo, sched>>
      BY <1>7 DEF vars, fieldVars, localVars, storeVars, schedVars
    <2>2. QED
      BY <2>1, QueueStep
  <1>8. QED
    BY <1>1, <1>2, <1>3, <1>4, <1>5, <1>6, <1>7 DEF Next, Exited

\* The counts of the pods agree and there is one chain, for every cluster, limit
\* and interleaving, if the binder of the analysis is given none of the cluster's
\* pending pods.
THEOREM ChainHolds == ASSUME NoPendingFits PROVE Spec => []ChainInvariant
  <1>1. Init /\ TypeOK => ChainInvariant
    BY InitChain
  <1>2. TypeOK /\ ChainInvariant /\ [Next]_vars => ChainInvariant'
    BY NextChain
  <1>3. QED
    BY <1>1, <1>2, TypeCorrect, PTL DEF Spec

\* createNextPod and postBindHook, which lock nothing, are run by one goroutine
\* at a time, for every cluster, limit and interleaving in which it binds none of
\* the cluster's pending pods, preemptions included.
THEOREM OneChainHolds == ASSUME NoPendingFits PROVE Spec => []OneChain
  <1>1. ChainInvariant => OneChain
    BY DEF ChainInvariant
  <1>2. QED
    BY <1>1, ChainHolds, PTL

\* status.Pods never outgrows --max-limit, for every cluster, limit and
\* interleaving in which none of the cluster's pending pods is bound.
THEOREM LimitHolds == ASSUME NoPendingFits PROVE Spec => []LimitRespected
  <1>1. TypeOK /\ ChainInvariant => LimitRespected
    <2>1. SUFFICES ASSUME TypeOK, ChainInvariant, MaxSimulated > 0
                   PROVE  Len(pods) <= MaxSimulated
      BY DEF LimitRespected
    <2>2. Len(pods) <= simulated /\ simulated <= MaxSimulated
      BY <2>1 DEF ChainInvariant, CountsAgree
    <2>3. Len(pods) \in Nat /\ simulated \in Nat
      BY <2>1 DEF TypeOK
    <2>4. QED
      BY <2>2, <2>3, LimitAssumption
  <1>2. QED
    BY <1>1, TypeCorrect, ChainHolds, PTL


=============================================================================
