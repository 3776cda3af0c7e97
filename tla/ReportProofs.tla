---------------------------- MODULE ReportProofs ----------------------------
(***************************************************************************)
(* What every report says truly, for every cluster, informers that lag,    *)
(* names that collide and second chains included: the pods it lists are    *)
(* bound, and the analysis had a reason to stop.  And why a report that    *)
(* says LimitReached lists exactly --max-limit pods, where none of the     *)
(* cluster's pending pods is bound.                                        *)
(***************************************************************************)
EXTENDS ClusterCapacityProofs

\* The pods that had a node before the analysis.
HadNode(p) == p \in Existing /\ Placement[p] # NoNode

\* A pod on its way into status.Pods has, or is about to get, a node, and so
\* has every pod in the slice it has loaded; one that had a node is never bound
\* again.
OnItsWay(p) ==
    /\ HadNode(p) => pc[p] = "idle" /\ sched[p] \in {"unseen", "known"} /\ boundTo[p] # NoNode
    /\ pc[p] \in {"get", "update"} => target[p] # NoNode
    /\ pc[p] \in {"loadPods", "appendPods"} => boundTo[p] # NoNode
    /\ pc[p] = "appendPods" => \A i \in 1..Len(slice[p]) : slice[p][i] \in PlacedPods

\* The inductive invariant behind ListedPodsAreBound.
BoundInvariant == ListedPodsAreBound /\ \A p \in Pod : OnItsWay(p)

\* A goroutine that is not about to bind or list a pod moves on.
LEMMA MoveBound ==
    ASSUME TypeOK, BoundInvariant, NEW t \in Thread, NEW to,
           pc' = [pc EXCEPT ![t] = to],
           t \in Pod => pc[t] # "idle" /\ to \notin {"get", "update", "loadPods", "appendPods"},
           UNCHANGED <<boundTo, target, sched, slice, pods>>
    PROVE  BoundInvariant'
  <1>1. PlacedPods' = PlacedPods
    BY DEF PlacedPods
  <1>2. ASSUME NEW p \in Pod PROVE OnItsWay(p)'
    BY <1>1, Threads DEF BoundInvariant, OnItsWay, HadNode, TypeOK
  <1>3. QED
    BY <1>1, <1>2 DEF BoundInvariant, ListedPodsAreBound

\* The scheduler and the informers leave alone the pods that are being bound
\* and those that had a node.
LEMMA QueueBound ==
    ASSUME BoundInvariant,
           \A q \in Pod :
               /\ pc[q] \in {"get", "update"} => target'[q] = target[q]
               /\ HadNode(q) => sched'[q] \in {"unseen", "known"},
           UNCHANGED <<pc, boundTo, slice, pods>>
    PROVE  BoundInvariant'
  <1>1. PlacedPods' = PlacedPods
    BY DEF PlacedPods
  <1>2. ASSUME NEW p \in Pod PROVE OnItsWay(p)'
    BY <1>1 DEF BoundInvariant, OnItsWay, HadNode
  <1>3. QED
    BY <1>1, <1>2 DEF BoundInvariant, ListedPodsAreBound

LEMMA CreateNextPodBound ==
    ASSUME TypeOK, BoundInvariant, NEW t \in {Main} \cup Pod, CreateNextPod(t)
    PROVE  BoundInvariant'
  <1>1. PICK to \in {"loadCounter", "storeCounter", "loadSimulated", "storeSimulated",
                     "create", "wait", "done", "abort", "forget"} :
          pc' = [pc EXCEPT ![t] = to]
    BY DEF CreateNextPod, GenerateName, LoadCounter, StoreCounter, LoadSimulated,
      StoreSimulated, CreatePod, CreateConflict, Goto
  <1>2. pc[t] # "idle"
    BY DEF CreateNextPod, GenerateName, LoadCounter, StoreCounter, LoadSimulated,
      StoreSimulated, CreatePod, CreateConflict, Goto
  <1>3. UNCHANGED <<boundTo, target, sched, slice, pods>>
    BY DEF CreateNextPod, GenerateName, LoadCounter, StoreCounter, LoadSimulated,
      StoreSimulated, CreatePod, CreateConflict, fieldVars, localVars, storeVars, schedVars
  <1>4. QED
    BY <1>1, <1>2, <1>3, Threads, MoveBound

LEMMA MainStepBound ==
    ASSUME TypeOK, BoundInvariant, MainStep
    PROVE  BoundInvariant'
  <1>1. CASE WakeUp \/ CancelScheduler \/ AbortRun \/ CloseStop \/ ReturnError \/ MakeReport
    <2>1. PICK to : pc' = [pc EXCEPT ![Main] = to]
      BY <1>1 DEF WakeUp, CancelScheduler, AbortRun, CloseStop, ReturnError, MakeReport, Goto
    <2>2. UNCHANGED <<boundTo, target, sched, slice, pods>>
      BY <1>1 DEF WakeUp, CancelScheduler, AbortRun, CloseStop, ReturnError, MakeReport,
        fieldVars, localVars, storeVars, schedVars
    <2>3. QED
      BY <2>1, <2>2, Threads, MoveBound
  <1>2. CASE CreateNextPod(Main)
    BY <1>2, CreateNextPodBound
  <1>3. ASSUME NEW t \in Thread, ReceiveStop(t) PROVE BoundInvariant'
    <2>1. UNCHANGED <<boundTo, target, sched, slice, pods>>
      BY <1>3 DEF ReceiveStop, fieldVars, localVars, storeVars, schedVars
    <2>2. PlacedPods' = PlacedPods
      BY <2>1 DEF PlacedPods
    <2>3. ASSUME NEW p \in Pod PROVE OnItsWay(p)'
      BY <1>3, <2>1, <2>2, Threads DEF ReceiveStop, BoundInvariant, OnItsWay, HadNode, TypeOK
    <2>4. QED
      BY <2>1, <2>2, <2>3 DEF BoundInvariant, ListedPodsAreBound
  <1>4. QED
    BY <1>1, <1>2, <1>3 DEF MainStep

LEMMA StopBound ==
    ASSUME TypeOK, BoundInvariant, NEW t \in {Listener} \cup Pod, SetStopReason(t) \/ Close(t)
    PROVE  BoundInvariant'
  <1>1. PICK to \in {"close", "send"} : pc' = [pc EXCEPT ![t] = to]
    BY DEF SetStopReason, Close, Goto
  <1>2. pc[t] # "idle" /\ UNCHANGED <<boundTo, target, sched, slice, pods>>
    BY DEF SetStopReason, Close, Goto, fieldVars, localVars, storeVars, schedVars
  <1>3. QED
    BY <1>1, <1>2, Threads, MoveBound

\* Where a pod gets its node, and where it is listed.
LEMMA BindingBound ==
    ASSUME TypeOK, BoundInvariant, NEW p \in Pod,
           GetPod(p) \/ UpdatePod(p) \/ LoadPods(p) \/ AppendPods(p)
    PROVE  BoundInvariant'
  <1>0. p \in Thread
    BY Threads
  <1>1. UNCHANGED <<target, sched>>
    BY DEF GetPod, UpdatePod, LoadPods, AppendPods, schedVars
  <1>2. OnItsWay(p) /\ \A q \in Pod : OnItsWay(q)
    BY DEF BoundInvariant
  <1>3. pc[p] # "idle" /\ \A q \in Pod : q # p => pc'[q] = pc[q]
    BY <1>0, Threads DEF GetPod, UpdatePod, LoadPods, AppendPods, Goto, TypeOK
  <1>4. ~HadNode(p)
    BY <1>2, <1>3 DEF OnItsWay
  <1>5. CASE GetPod(p)
    <2>1. UNCHANGED <<boundTo, slice, pods>> /\ pc[p] = "get" /\ pc'[p] = "update"
      BY <1>0, <1>5 DEF GetPod, Goto, TypeOK, fieldVars, storeVars
    <2>2. PlacedPods' = PlacedPods
      BY <2>1 DEF PlacedPods
    <2>3. \A q \in Pod : OnItsWay(q)'
      BY <1>1, <1>2, <1>3, <2>1, <2>2 DEF OnItsWay, HadNode
    <2>4. QED
      BY <2>1, <2>2, <2>3 DEF BoundInvariant, ListedPodsAreBound
  <1>6. CASE UpdatePod(p)
    <2>1. /\ UNCHANGED <<slice, pods>> /\ pc[p] = "update" /\ pc'[p] = "loadPods"
          /\ boundTo'[p] = target[p] /\ \A q \in Pod : q # p => boundTo'[q] = boundTo[q]
      BY <1>0, <1>6 DEF UpdatePod, Goto, TypeOK, fieldVars, localVars
    <2>2. boundTo'[p] # NoNode
      BY <1>2, <2>1 DEF OnItsWay
    <2>3. PlacedPods \subseteq PlacedPods'
      BY <2>1, <2>2 DEF PlacedPods
    <2>4. \A q \in Pod : OnItsWay(q)'
      BY <1>1, <1>2, <1>3, <1>4, <2>1, <2>2, <2>3 DEF OnItsWay, HadNode
    <2>5. QED
      BY <2>1, <2>3, <2>4 DEF BoundInvariant, ListedPodsAreBound
  <1>7. CASE LoadPods(p)
    <2>1. /\ UNCHANGED <<boundTo, pods>> /\ pc[p] = "loadPods" /\ pc'[p] = "appendPods"
          /\ slice'[p] = pods /\ \A q \in Pod : q # p => slice'[q] = slice[q]
      BY <1>0, <1>7, Threads DEF LoadPods, Goto, TypeOK, fieldVars, storeVars
    <2>2. PlacedPods' = PlacedPods
      BY <2>1 DEF PlacedPods
    <2>3. \A i \in 1..Len(slice'[p]) : slice'[p][i] \in PlacedPods'
      BY <2>1, <2>2 DEF BoundInvariant, ListedPodsAreBound
    <2>4. OnItsWay(p)'
      BY <1>1, <1>2, <1>4, <2>1, <2>3 DEF OnItsWay, HadNode
    <2>5. \A q \in Pod : q # p => OnItsWay(q)'
      BY <1>1, <1>2, <1>3, <2>1, <2>2 DEF OnItsWay, HadNode
    <2>6. QED
      BY <2>1, <2>2, <2>4, <2>5 DEF BoundInvariant, ListedPodsAreBound
  <1>8. CASE AppendPods(p)
    <2>1. /\ UNCHANGED <<boundTo, slice>> /\ pc[p] = "appendPods" /\ pc'[p] = "check"
          /\ pods' = Append(slice[p], p)
      BY <1>0, <1>8 DEF AppendPods, Goto, TypeOK, localVars, storeVars
    <2>2. PlacedPods' = PlacedPods
      BY <2>1 DEF PlacedPods
    <2>3. p \in PlacedPods
      BY <1>2, <1>4, <2>1 DEF OnItsWay, HadNode, PlacedPods
    <2>4. slice[p] \in Seq(Pod) /\ \A i \in 1..Len(slice[p]) : slice[p][i] \in PlacedPods
      BY <1>0, <1>2, <2>1 DEF OnItsWay, TypeOK
    <2>5. ListedPodsAreBound'
      BY <2>1, <2>2, <2>3, <2>4 DEF ListedPodsAreBound
    <2>6. \A q \in Pod : OnItsWay(q)'
      BY <1>1, <1>2, <1>3, <1>4, <2>1, <2>2 DEF OnItsWay, HadNode
    <2>7. QED
      BY <2>5, <2>6 DEF BoundInvariant
  <1>9. QED
    BY <1>5, <1>6, <1>7, <1>8

LEMMA FailureBound ==
    ASSUME TypeOK, BoundInvariant, NEW p \in Pod, ForgetPod(p) \/ PatchBindError(p)
    PROVE  BoundInvariant'
  <1>0. p \in Thread
    BY Threads
  <1>1. CASE PatchBindError(p)
    BY <1>0, <1>1, MoveBound DEF PatchBindError, Goto, fieldVars, localVars, schedVars
  <1>2. CASE ForgetPod(p)
    <2>1. /\ UNCHANGED <<boundTo, slice, pods>> /\ pc[p] = "forget" /\ pc'[p] = "patch"
          /\ \A q \in Pod : q # p => pc'[q] = pc[q]
      BY <1>0, <1>2, Threads DEF ForgetPod, Goto, TypeOK, fieldVars, localVars, storeVars
    <2>2. PlacedPods' = PlacedPods
      BY <2>1 DEF PlacedPods
    <2>3. \A q \in Pod : OnItsWay(q) /\ (q # p => target'[q] = target[q])
      BY <1>2 DEF BoundInvariant, ForgetPod, TypeOK
    <2>4. \A q \in Pod : HadNode(q) => q # p /\ sched'[q] = sched[q]
      BY <1>2, <2>1, <2>3 DEF ForgetPod, Activate, OnItsWay, TypeOK
    <2>5. \A q \in Pod : OnItsWay(q)'
      BY <2>1, <2>2, <2>3, <2>4 DEF OnItsWay, HadNode
    <2>6. QED
      BY <2>1, <2>2, <2>5 DEF BoundInvariant, ListedPodsAreBound
  <1>3. QED
    BY <1>1, <1>2

LEMMA ScheduleBound ==
    ASSUME TypeOK, BoundInvariant, NEW p \in Pod,
           SchedulePod(p) \/ RejectPod(p) \/ PreemptFor(p)
    PROVE  BoundInvariant'
  <1>0. p \in Thread
    BY Threads
  <1>1. /\ sched[p] = "active" /\ pc[p] \in {"idle", "done"}
        /\ \A q \in Pod : q # p => sched'[q] = sched[q] /\ target'[q] = target[q]
        /\ UNCHANGED <<boundTo, slice, pods>>
    BY DEF SchedulePod, RejectPod, PreemptFor, Pop, TypeOK, fieldVars, localVars,
      storeVars
  <1>2. ~HadNode(p) /\ \A q \in Pod : OnItsWay(q)
    BY <1>1 DEF BoundInvariant, OnItsWay
  <1>3. CASE SchedulePod(p)
    <2>1. PICK n \in Feasible(p) : target' = [target EXCEPT ![p] = n]
      BY <1>3 DEF SchedulePod
    <2>2. target'[p] # NoNode
      BY <2>1, NodesAssumption DEF Feasible, TypeOK
    <2>3. /\ pc'[p] \in {"idle", "done", "get"}
          /\ \A q \in Pod : q # p => pc'[q] = pc[q]
      BY <1>0, <1>1, <1>3, Threads DEF SchedulePod, TypeOK
    <2>4. PlacedPods' = PlacedPods
      BY <1>1 DEF PlacedPods
    <2>5. \A q \in Pod : OnItsWay(q)'
      BY <1>1, <1>2, <2>2, <2>3, <2>4 DEF OnItsWay, HadNode
    <2>6. QED
      BY <1>1, <2>4, <2>5 DEF BoundInvariant, ListedPodsAreBound
  <1>4. CASE RejectPod(p) \/ PreemptFor(p)
    <2>1. pc' = pc
      BY <1>4 DEF RejectPod, PreemptFor
    <2>2. \A q \in Pod : HadNode(q) => sched'[q] \in {"unseen", "known"}
      BY <1>1, <1>2 DEF OnItsWay
    <2>3. QED
      BY <1>1, <2>1, <2>2, QueueBound
  <1>5. QED
    BY <1>3, <1>4

LEMMA InformerBound ==
    ASSUME TypeOK, BoundInvariant,
           \/ \E p \in Pod : EndBackoff(p) \/ SeePod(p) \/ SeeBinding(p)
           \/ \E n \in Nodes : SeeNode(n)
           \/ \E v \in Preemptible : Evict(v) \/ SeeDeletion(v)
    PROVE  BoundInvariant'
  <1>1. UNCHANGED <<pc, target, boundTo, slice, pods>>
    BY DEF EndBackoff, SeePod, SeeBinding, SeeNode, Evict, SeeDeletion, fieldVars, localVars,
      storeVars, schedVars
  <1>2. ASSUME NEW q \in Pod, HadNode(q) PROVE sched'[q] \in {"unseen", "known"}
    <2>1. sched[q] \in {"unseen", "known"} /\ boundTo[q] # NoNode
      BY <1>2 DEF BoundInvariant, OnItsWay
    <2>2. QED
      BY <2>1 DEF EndBackoff, SeePod, SeeBinding, SeeNode, Evict, SeeDeletion, Activate,
        schedVars, TypeOK
  <1>3. QED
    BY <1>1, <1>2, QueueBound

LEMMA NextBound == TypeOK /\ BoundInvariant /\ [Next]_vars => BoundInvariant'
  <1> SUFFICES ASSUME TypeOK, BoundInvariant, [Next]_vars PROVE BoundInvariant'
    OBVIOUS
  <1>1. CASE MainStep
    BY <1>1, MainStepBound
  <1>2. CASE DeliverUpdate
    <2>1. UNCHANGED <<boundTo, target, sched, slice, pods>>
      BY <1>2 DEF DeliverUpdate, fieldVars, localVars, schedVars
    <2>2. PICK to : pc' = [pc EXCEPT ![Listener] = to]
      <3>1. pc = [pc EXCEPT ![Listener] = pc[Listener]]
        BY Threads DEF TypeOK
      <3>2. QED
        BY <1>2, <3>1 DEF DeliverUpdate
    <2>3. QED
      BY <2>1, <2>2, Threads, MoveBound
  <1>3. CASE SetStopReason(Listener) \/ Close(Listener)
    BY <1>3, StopBound
  <1>4. ASSUME NEW p \in Pod, BindingCycle(p) PROVE BoundInvariant'
    <2>1. CASE CheckLimit(p)
      <3>1. PICK to \in {"setReason", "name"} : pc' = [pc EXCEPT ![p] = to]
        BY <2>1 DEF CheckLimit, Goto
      <3>2. pc[p] # "idle" /\ UNCHANGED <<boundTo, target, sched, slice, pods>>
        BY <2>1 DEF CheckLimit, Goto, fieldVars, localVars, storeVars, schedVars
      <3>3. QED
        BY <3>1, <3>2, Threads, MoveBound
    <2>2. QED
      BY <1>4, <2>1, BindingBound, CreateNextPodBound, StopBound, FailureBound DEF BindingCycle
  <1>5. CASE UNCHANGED vars
    BY <1>5, QueueBound DEF vars, fieldVars, localVars, storeVars, schedVars, BoundInvariant,
      OnItsWay
  <1>6. ASSUME NEW t \in Thread, Panic(t) PROVE BoundInvariant'
    BY <1>6, PanicStep, Threads, MoveBound DEF fieldVars, localVars, storeVars, schedVars
  <1>7. QED
    BY <1>1, <1>2, <1>3, <1>4, <1>5, <1>6, ScheduleBound, InformerBound
    DEF Next, ListenerStep, PodStep, Exited

LEMMA InitBound == Init => BoundInvariant
  BY Threads DEF Init, BoundInvariant, OnItsWay, HadNode, ListedPodsAreBound

\* Whatever lags or collides, status.Pods, and so the report, lists no pod that
\* Bind has not written to the API server with a node.
THEOREM ListedHolds == Spec => []ListedPodsAreBound
  <1>1. BoundInvariant => ListedPodsAreBound
    BY DEF BoundInvariant
  <1>2. QED
    BY <1>1, InitBound, NextBound, TypeCorrect, PTL DEF Spec

-----------------------------------------------------------------------------
\* Who is past setting the stop reason, has set it; Main gets to the report
\* through a send.
StopHasReason ==
    /\ \A t \in Thread : pc[t] \in {"close", "send"} => stopReason # "none"
    /\ pc[Main] \in {"cancel", "closeStop", "returned"} => stopReason # "none"
    /\ report.reason # "none"

LEMMA MoveReason ==
    ASSUME TypeOK, StopHasReason, NEW t \in Thread, NEW to,
           pc' = [pc EXCEPT ![t] = to],
           to \notin {"close", "send", "cancel", "closeStop", "returned"},
           UNCHANGED <<stopReason, report>>
    PROVE  StopHasReason'
  BY Threads DEF StopHasReason, TypeOK

LEMMA CreateNextPodReason ==
    ASSUME TypeOK, StopHasReason, NEW t \in {Main} \cup Pod, CreateNextPod(t)
    PROVE  StopHasReason'
  <1>1. PICK to \in {"loadCounter", "storeCounter", "loadSimulated", "storeSimulated",
                     "create", "wait", "done", "abort", "forget"} :
          pc' = [pc EXCEPT ![t] = to]
    BY DEF CreateNextPod, GenerateName, LoadCounter, StoreCounter, LoadSimulated,
      StoreSimulated, CreatePod, CreateConflict, Goto
  <1>2. UNCHANGED <<stopReason, report>>
    BY DEF CreateNextPod, GenerateName, LoadCounter, StoreCounter, LoadSimulated,
      StoreSimulated, CreatePod, CreateConflict, fieldVars, runVars
  <1>3. QED
    BY <1>1, <1>2, Threads, MoveReason

LEMMA StopReasonStep ==
    ASSUME TypeOK, StopHasReason, NEW t \in {Listener} \cup Pod, SetStopReason(t) \/ Close(t)
    PROVE  StopHasReason'
  BY Threads DEF SetStopReason, Close, Goto, StopHasReason, TypeOK, fieldVars, runVars

LEMMA MainStepReason ==
    ASSUME TypeOK, StopHasReason, MainStep
    PROVE  StopHasReason'
  <1>1. CASE WakeUp
    BY <1>1, Threads, MoveReason DEF WakeUp, Goto, fieldVars, runVars
  <1>2. CASE CreateNextPod(Main)
    BY <1>2, CreateNextPodReason
  <1>3. ASSUME NEW t \in Thread, ReceiveStop(t) PROVE StopHasReason'
    BY <1>3, Threads DEF ReceiveStop, StopHasReason, TypeOK, fieldVars, runVars
  <1>4. CASE CancelScheduler \/ AbortRun \/ CloseStop \/ ReturnError
    BY <1>4, Threads DEF CancelScheduler, AbortRun, CloseStop, ReturnError, Goto,
      StopHasReason, TypeOK, fieldVars, runVars
  <1>5. CASE MakeReport
    BY <1>5, Threads DEF MakeReport, Goto, StopHasReason, TypeOK, fieldVars
  <1>6. QED
    BY <1>1, <1>2, <1>3, <1>4, <1>5 DEF MainStep

LEMMA NextReason == TypeOK /\ StopHasReason /\ [Next]_vars => StopHasReason'
  <1> SUFFICES ASSUME TypeOK, StopHasReason, [Next]_vars PROVE StopHasReason'
    OBVIOUS
  <1>1. CASE MainStep
    BY <1>1, MainStepReason
  <1>2. CASE ListenerStep
    <2>1. CASE DeliverUpdate
      BY <2>1, Threads DEF DeliverUpdate, StopHasReason, TypeOK, fieldVars, runVars
    <2>2. QED
      BY <1>2, <2>1, StopReasonStep DEF ListenerStep
  <1>3. ASSUME NEW p \in Pod, BindingCycle(p) PROVE StopHasReason'
    <2>1. CASE GetPod(p) \/ UpdatePod(p) \/ LoadPods(p) \/ AppendPods(p) \/ CheckLimit(p)
                 \/ ForgetPod(p) \/ PatchBindError(p)
      <3>1. PICK to \in {"update", "loadPods", "appendPods", "check", "setReason", "name",
                         "patch", "done"} : pc' = [pc EXCEPT ![p] = to]
        BY <2>1 DEF GetPod, UpdatePod, LoadPods, AppendPods, CheckLimit, ForgetPod,
          PatchBindError, Goto
      <3>2. UNCHANGED <<stopReason, report>>
        BY <2>1 DEF GetPod, UpdatePod, LoadPods, AppendPods, CheckLimit, ForgetPod,
          PatchBindError, fieldVars, runVars
      <3>3. QED
        BY <3>1, <3>2, Threads, MoveReason
    <2>2. QED
      BY <1>3, <2>1, CreateNextPodReason, StopReasonStep DEF BindingCycle
  <1>4. CASE \E p \in Pod : SchedulePod(p)
    BY <1>4, Threads DEF SchedulePod, StopHasReason, TypeOK, fieldVars, runVars
  <1>5. CASE \/ UNCHANGED vars
             \/ \E p \in Pod : RejectPod(p) \/ PreemptFor(p) \/ EndBackoff(p) \/ SeePod(p)
                                  \/ SeeBinding(p)
             \/ \E n \in Nodes : SeeNode(n)
             \/ \E v \in Preemptible : Evict(v) \/ SeeDeletion(v)
    <2>1. UNCHANGED <<pc, stopReason, report>>
      BY <1>5 DEF vars, RejectPod, PreemptFor, EndBackoff, SeePod, SeeBinding, SeeNode, Evict,
        SeeDeletion, fieldVars, runVars
    <2>2. QED
      BY <2>1 DEF StopHasReason
  <1>6. ASSUME NEW t \in Thread, Panic(t) PROVE StopHasReason'
    BY <1>6, PanicStep, Threads, MoveReason DEF fieldVars, runVars
  <1>7. QED
    BY <1>1, <1>2, <1>3, <1>4, <1>5, <1>6 DEF Next, PodStep, Exited

\* GetReport never slices an empty stop reason: whoever sends on c.stop has set
\* it, and a Run that fails makes no report.
THEOREM ReasonHolds == Spec => []ReportHasReason
  <1>1. Init => StopHasReason
    BY Threads DEF Init, StopHasReason, NoReport
  <1>2. StopHasReason => ReportHasReason
    BY DEF StopHasReason, ReportHasReason
  <1>3. QED
    BY <1>1, <1>2, NextReason, TypeCorrect, PTL DEF Spec

-----------------------------------------------------------------------------
(***************************************************************************)
(* LimitReached: failed and repeated bindings included, which use up the   *)
(* limit as well.                                                          *)
(***************************************************************************)
\* Where the carrier's pods are all listed; elsewhere one is still missing.
AllListed == Counting \cup {"sleep", "check"}

\* c.simulated is exactly the listed pods and the one under way.
Listed(t) == Len(pods) = simulated - (IF pc[t] \in AllListed THEN 0 ELSE 1)

\* A pod has found the limit reached.
Stopping ==
    \/ stopReason = "LimitReached"
    \/ \E p \in Pod : pc[p] \in {"setReason", "close", "send"}

\* Nobody is left to list a pod.
AtLimit == Len(pods) = MaxSimulated /\ \A t \in {Main} \cup Pod : ~CarriesChain(t)

\* The inductive invariant behind LimitIsExact.
ExactInvariant ==
    /\ \A t \in {Main} \cup Pod : CarriesChain(t) => Listed(t)
    /\ Stopping => AtLimit
    /\ report.reason = "LimitReached" => Len(report.pods) = MaxSimulated

\* The carrier t moves on: nobody is stopping, and afterwards t is the carrier
\* or there is none.
LEMMA CarrierExact ==
    ASSUME TypeOK, ChainInvariant, ExactInvariant,
           NEW t \in {Main} \cup Pod, NEW to, CarriesChain(t),
           pc' = [pc EXCEPT ![t] = to], to \notin {"setReason", "close", "send"},
           UNCHANGED <<created, sched, stopReason, report>>,
           CarriesChain(t)' => Listed(t)'
    PROVE  ExactInvariant'
  <1>1. pc'[t] = to /\ \A u \in {Main} \cup Pod : u # t => pc'[u] = pc[u]
    BY Threads DEF TypeOK
  <1>2. ASSUME NEW u \in {Main} \cup Pod, CarriesChain(u)', u # t
        PROVE  FALSE
    <2>1. CarriesChain(u)
      BY <1>1, <1>2 DEF CarriesChain
    <2>2. QED
      BY <1>2, <2>1 DEF ChainInvariant, OneChain
  <1>3. ~Stopping
    BY DEF ExactInvariant, AtLimit
  <1>4. ~Stopping'
    BY <1>1, <1>3, Threads DEF Stopping
  <1>5. QED
    BY <1>2, <1>4 DEF ExactInvariant

\* Everybody else lists nothing and makes no carrier.
LEMMA QuietExact ==
    ASSUME ExactInvariant,
           \A u \in {Main} \cup Pod : CarriesChain(u)' =>
               CarriesChain(u) /\ (pc'[u] \in AllListed <=> pc[u] \in AllListed),
           UNCHANGED <<pods, simulated>>,
           Stopping' => Stopping,
           report'.reason = "LimitReached" => Len(report'.pods) = MaxSimulated
    PROVE  ExactInvariant'
  <1>1. \A u \in {Main} \cup Pod : CarriesChain(u)' => Listed(u)'
    BY DEF ExactInvariant, Listed, AllListed
  <1>2. Stopping' => AtLimit'
    BY DEF ExactInvariant, AtLimit
  <1>3. QED
    BY <1>1, <1>2 DEF ExactInvariant

LEMMA CreateNextPodExact ==
    ASSUME TypeOK, ChainInvariant, ExactInvariant,
           NEW t \in {Main} \cup Pod, CreateNextPod(t)
    PROVE  ExactInvariant'
  <1>1. t \in Thread
    BY Threads
  <1>2. pc[t] \in Counting \cup {"create"}
    BY DEF CreateNextPod, GenerateName, LoadCounter, StoreCounter, LoadSimulated,
      StoreSimulated, CreatePod, CreateConflict, Goto, Counting
  <1>3. CarriesChain(t) /\ Listed(t)
    BY <1>2, WorkerCarries DEF ExactInvariant
  <1>4. UNCHANGED <<pods, stopReason, report, sched>> /\ Len(pods) \in Nat /\ simulated \in Nat
    BY DEF CreateNextPod, GenerateName, LoadCounter, StoreCounter, LoadSimulated,
      StoreSimulated, CreatePod, CreateConflict, fieldVars, runVars, schedVars, TypeOK
  <1>5. CASE GenerateName(t) \/ LoadCounter(t) \/ StoreCounter(t) \/ LoadSimulated(t)
    <2>1. PICK to \in {"loadCounter", "storeCounter", "loadSimulated", "storeSimulated"} :
             pc' = [pc EXCEPT ![t] = to]
      BY <1>5 DEF GenerateName, LoadCounter, StoreCounter, LoadSimulated, Goto
    <2>2. UNCHANGED <<created, simulated>> /\ pc[t] \in Counting
      BY <1>5 DEF GenerateName, LoadCounter, StoreCounter, LoadSimulated, Goto, fieldVars,
        storeVars, Counting
    <2>3. pc'[t] \in Counting
      BY <1>1, <2>1 DEF Counting, TypeOK
    <2>4. Listed(t)'
      BY <1>3, <1>4, <2>2, <2>3 DEF Listed, AllListed
    <2>5. QED
      BY <1>3, <1>4, <2>1, <2>2, <2>4, CarrierExact
  <1>6. CASE StoreSimulated(t)
    <2>1. /\ pc[t] = "storeSimulated" /\ pc' = [pc EXCEPT ![t] = "create"]
          /\ pc'[t] = "create" /\ simulated' = reg[t] + 1 /\ UNCHANGED created
      BY <1>1, <1>6 DEF StoreSimulated, Goto, TypeOK, storeVars
    <2>2. reg[t] = simulated
      BY <1>3, <2>1 DEF ChainInvariant, CountsAgree, CountsOf
    <2>3. Len(pods) = simulated
      BY <1>3, <1>4, <2>1 DEF Listed, AllListed, Counting
    <2>4. Listed(t)'
      BY <1>4, <2>1, <2>2, <2>3 DEF Listed, AllListed, Counting
    <2>5. QED
      BY <1>3, <1>4, <2>1, <2>4, CarrierExact
  <1>7. CASE CreateConflict(t)
    <2>1. PICK to \in {"abort", "forget"} : pc' = [pc EXCEPT ![t] = to]
      BY <1>7 DEF CreateConflict, Goto
    <2>2. pc[t] = "create" /\ UNCHANGED <<created, simulated>>
      BY <1>7 DEF CreateConflict, Goto, fieldVars, storeVars
    <2>3. pc'[t] = to
      BY <1>1, <2>1 DEF TypeOK
    <2>4. Listed(t)'
      BY <1>3, <1>4, <2>1, <2>2, <2>3 DEF Listed, AllListed, Counting
    <2>5. QED
      BY <1>3, <1>4, <2>1, <2>2, <2>4, CarrierExact
  <1>8. CASE CreatePod(t)
    <2>0. PICK q \in Pod : q = name[t]
      BY <1>1, Threads DEF TypeOK
    <2>1. /\ pc[t] = "create" /\ q \notin created /\ q # t
          /\ pc'[t] \in {"wait", "done"} /\ (t = Main => pc'[t] = "wait")
          /\ \A u \in {Main} \cup Pod : u # t => pc'[u] = pc[u]
          /\ created' = created \cup {q} /\ UNCHANGED simulated
      BY <1>1, <1>8, <2>0, Threads
      DEF CreatePod, Goto, TypeOK, fieldVars, ChainInvariant, PodsAccounted
    <2>2. pc'[q] = "idle"
      BY <2>1 DEF ChainInvariant, PodsAccounted
    <2>3. t \in Pod => sched[t] \in {"assumed", "known"}
      BY <2>1 DEF ChainInvariant, PodsAccounted
    <2>4. ASSUME NEW u \in {Main} \cup Pod, CarriesChain(u)', u # q PROVE FALSE
      <3>1. u # t
        BY <1>4, <2>1, <2>3, <2>4, Threads DEF CarriesChain, Counting, Binding
      <3>2. CarriesChain(u)
        BY <1>4, <2>1, <2>4, <3>1 DEF CarriesChain
      <3>3. QED
        BY <1>3, <3>1, <3>2 DEF ChainInvariant, OneChain
    <2>5. Listed(q)'
      BY <1>3, <1>4, <2>1, <2>2 DEF Listed, AllListed, Counting
    <2>6. ~Stopping
      BY <1>3 DEF ExactInvariant, AtLimit
    <2>7. ~Stopping'
      BY <1>4, <2>1, <2>6, Threads DEF Stopping
    <2>8. QED
      BY <1>4, <2>4, <2>5, <2>7 DEF ExactInvariant
  <1>9. QED
    BY <1>5, <1>6, <1>7, <1>8 DEF CreateNextPod

\* Bind and postBindHook: a pod that finds the limit reached leaves no carrier.
LEMMA BindingExact ==
    ASSUME TypeOK, ChainInvariant, ExactInvariant, NEW p \in Pod,
           \/ GetPod(p) \/ UpdatePod(p) \/ LoadPods(p) \/ AppendPods(p) \/ CheckLimit(p)
    PROVE  ExactInvariant'
  <1>1. p \in Thread /\ p # Main /\ p \in {Main} \cup Pod
    BY Threads
  <1>2. CarriesChain(p) /\ Listed(p)
    <2>1. pc[p] \in Binding \cup {"check"}
      BY DEF GetPod, UpdatePod, LoadPods, AppendPods, CheckLimit, Goto, Binding
    <2>2. QED
      BY <1>1, <2>1, WorkerCarries DEF ExactInvariant
  <1>3. /\ UNCHANGED <<created, sched, stopReason, report, simulated>>
        /\ Len(pods) \in Nat /\ simulated \in Nat
    BY DEF GetPod, UpdatePod, LoadPods, AppendPods, CheckLimit, fieldVars, runVars, storeVars,
      schedVars, TypeOK
  <1>4. CASE GetPod(p) \/ UpdatePod(p) \/ LoadPods(p)
    <2>1. PICK to \in {"update", "loadPods", "appendPods"} : pc' = [pc EXCEPT ![p] = to]
      BY <1>4 DEF GetPod, UpdatePod, LoadPods, Goto
    <2>2. UNCHANGED pods /\ pc[p] \in {"get", "update", "loadPods"}
      BY <1>4 DEF GetPod, UpdatePod, LoadPods, Goto, fieldVars
    <2>3. pc'[p] = to
      BY <1>1, <2>1 DEF TypeOK
    <2>4. Listed(p)'
      BY <1>2, <1>3, <2>1, <2>2, <2>3 DEF Listed, AllListed, Counting
    <2>5. QED
      BY <1>1, <1>2, <1>3, <2>1, <2>4, CarrierExact
  <1>5. CASE AppendPods(p)
    <2>1. /\ pc[p] = "appendPods" /\ pc' = [pc EXCEPT ![p] = "check"] /\ pc'[p] = "check"
          /\ pods' = Append(slice[p], p)
      BY <1>1, <1>5 DEF AppendPods, Goto, TypeOK
    <2>2. slice[p] = pods
      BY <1>1, <1>2, <2>1 DEF ChainInvariant, CountsAgree, CountsOf
    <2>3. Len(pods') = Len(pods) + 1
      BY <2>1, <2>2 DEF TypeOK
    <2>4. Listed(p)'
      BY <1>2, <1>3, <2>1, <2>3 DEF Listed, AllListed, Counting
    <2>5. QED
      BY <1>1, <1>2, <1>3, <2>1, <2>4, CarrierExact
  <1>6. CASE CheckLimit(p)
    <2>1. pc[p] = "check" /\ UNCHANGED pods
      BY <1>6 DEF CheckLimit, Goto, fieldVars
    <2>2. Len(pods) = simulated
      BY <1>2, <1>3, <2>1 DEF Listed, AllListed
    <2>3. CASE ~LimitReached
      <3>1. pc' = [pc EXCEPT ![p] = "name"] /\ pc'[p] = "name"
        BY <1>1, <1>6, <2>3 DEF CheckLimit, Goto, TypeOK
      <3>2. Listed(p)'
        BY <1>3, <2>1, <2>2, <3>1 DEF Listed, AllListed, Counting
      <3>3. QED
        BY <1>1, <1>2, <1>3, <3>1, <3>2, CarrierExact
    <2>4. CASE LimitReached
      <3>1. /\ pc'[p] = "setReason" /\ \A u \in {Main} \cup Pod : u # p => pc'[u] = pc[u]
        BY <1>1, <1>6, <2>4, Threads DEF CheckLimit, Goto, TypeOK
      <3>2. ASSUME NEW u \in {Main} \cup Pod PROVE ~CarriesChain(u)'
        <4>1. CASE u = p
          BY <1>1, <3>1, <4>1 DEF CarriesChain, Binding, Counting
        <4>2. CASE u # p
          BY <1>1, <1>2, <1>3, <3>1, <4>2 DEF CarriesChain, ChainInvariant, OneChain
        <4>3. QED
          BY <4>1, <4>2
      <3>3. Len(pods') = MaxSimulated
        <4>1. simulated <= MaxSimulated /\ simulated >= MaxSimulated
          BY <2>4 DEF LimitReached, ChainInvariant, CountsAgree
        <4>2. QED
          BY <1>3, <2>1, <2>2, <4>1, LimitAssumption
      <3>4. QED
        BY <1>3, <3>2, <3>3 DEF ExactInvariant, AtLimit
    <2>5. QED
      BY <2>3, <2>4
  <1>7. QED
    BY <1>4, <1>5, <1>6

\* A failed binding: the pod carries on, or there is no carrier any more.
LEMMA FailureExact ==
    ASSUME TypeOK, ChainInvariant, ExactInvariant, NEW p \in Pod,
           ForgetPod(p) \/ PatchBindError(p)
    PROVE  ExactInvariant'
  <1>1. p \in Thread /\ p # Main
    BY Threads
  <1>2. /\ UNCHANGED <<pods, simulated, stopReason, report, created>>
        /\ \/ pc[p] = "forget" /\ pc'[p] = "patch"
           \/ pc[p] = "patch" /\ pc'[p] = "done"
        /\ \A u \in {Main} \cup Pod : u # p => pc'[u] = pc[u]
    <2>1. CASE ForgetPod(p)
      BY <1>1, <2>1, Threads DEF ForgetPod, Goto, TypeOK, fieldVars, runVars, storeVars
    <2>2. CASE PatchBindError(p)
      BY <1>1, <2>2, Threads DEF PatchBindError, Goto, TypeOK, fieldVars, runVars
    <2>3. QED
      BY <2>1, <2>2
  <1>3. \A u \in Pod : u # p /\ sched'[u] \notin {"assumed", "known"} =>
           sched[u] \notin {"assumed", "known"}
    BY DEF ForgetPod, PatchBindError, Activate, TypeOK, schedVars
  <1>4. pc[p] = "patch" => sched'[p] = sched[p]
    BY DEF ForgetPod, PatchBindError, Goto, schedVars
  <1>5. ASSUME NEW u \in {Main} \cup Pod, CarriesChain(u)'
        PROVE  CarriesChain(u) /\ (pc'[u] \in AllListed <=> pc[u] \in AllListed)
    <2>1. CASE u = p
      BY <1>1, <1>2, <1>4, <1>5, <2>1 DEF CarriesChain, AllListed, Counting, Binding
    <2>2. CASE u # p /\ u \in Pod
      BY <1>2, <1>3, <1>5, <2>2, Threads DEF CarriesChain
    <2>3. CASE u = Main
      BY <1>1, <1>2, <1>5, <2>3, Threads DEF CarriesChain, TypeOK
    <2>4. QED
      BY <2>1, <2>2, <2>3
  <1>6. Stopping' => Stopping
    BY <1>2, Threads DEF Stopping
  <1>7. QED
    BY <1>2, <1>5, <1>6, QuietExact DEF ExactInvariant

\* A stop, from the reason to its receipt.
LEMMA StopExact ==
    ASSUME TypeOK, ChainInvariant, ExactInvariant, NEW t \in {Listener} \cup Pod,
           pc[t] \in {"setReason", "close", "send"},
           pc'[t] \in {"close", "send", "idle", "done"},
           pc'[t] = "idle" => t = Listener,
           \A u \in Pod \cup {Listener} : u # t => pc'[u] = pc[u],
           pc'[Main] = pc[Main] \/ pc'[Main] = "cancel",
           stopReason' = stopReason \/ t # Listener \/ stopReason' # "LimitReached",
           UNCHANGED <<pods, simulated, created, sched, report>>
    PROVE  ExactInvariant'
  <1>1. t \in Pod => sched[t] \in {"assumed", "known"}
    BY DEF ChainInvariant, PodsAccounted
  <1>2. ASSUME NEW u \in {Main} \cup Pod, CarriesChain(u)'
        PROVE  CarriesChain(u) /\ (pc'[u] \in AllListed <=> pc[u] \in AllListed)
    <2>1. CASE u = Main
      BY <1>2, <2>1, Threads DEF CarriesChain, Counting, TypeOK
    <2>2. CASE u \in Pod
      <3>1. u # t
        BY <1>1, <1>2, <2>2, Threads DEF CarriesChain, Counting, Binding
      <3>2. QED
        BY <1>2, <2>2, <3>1 DEF CarriesChain
    <2>3. QED
      BY <2>1, <2>2
  <1>3. Stopping' => Stopping
    BY Threads DEF Stopping
  <1>4. QED
    BY <1>2, <1>3, QuietExact DEF ExactInvariant

LEMMA SetExact ==
    ASSUME TypeOK, ChainInvariant, ExactInvariant, NEW t \in {Listener} \cup Pod,
           SetStopReason(t) \/ Close(t)
    PROVE  ExactInvariant'
  <1>1. PICK to \in {"close", "send"} : pc' = [pc EXCEPT ![t] = to]
    BY DEF SetStopReason, Close, Goto
  <1>2. /\ pc[t] \in {"setReason", "close"}
        /\ UNCHANGED <<pods, simulated, created, sched, report>>
        /\ stopReason' = stopReason \/ t # Listener \/ stopReason' # "LimitReached"
    BY DEF SetStopReason, Close, Goto, fieldVars, runVars, storeVars, schedVars
  <1>3. /\ pc'[t] = to /\ pc'[Main] = pc[Main]
        /\ \A u \in Pod \cup {Listener} : u # t => pc'[u] = pc[u]
    BY <1>1, Threads DEF TypeOK
  <1>4. QED
    BY <1>1, <1>2, <1>3, StopExact

LEMMA MainStepExact ==
    ASSUME TypeOK, ChainInvariant, ExactInvariant, MainStep
    PROVE  ExactInvariant'
  <1>1. CASE WakeUp
    <2>1. /\ pc[Main] = "sleep" /\ pc' = [pc EXCEPT ![Main] = "name"] /\ pc'[Main] = "name"
          /\ UNCHANGED <<pods, simulated, created, sched, stopReason, report>>
      BY <1>1, Threads DEF WakeUp, Goto, TypeOK, fieldVars, runVars, storeVars, schedVars
    <2>2. CarriesChain(Main) /\ Listed(Main)
      BY <2>1 DEF CarriesChain, ExactInvariant
    <2>3. Listed(Main)'
      BY <2>1, <2>2 DEF Listed, AllListed, Counting
    <2>4. QED
      BY <2>1, <2>2, <2>3, CarrierExact
  <1>2. CASE CreateNextPod(Main)
    BY <1>2, CreateNextPodExact
  <1>3. ASSUME NEW t \in Thread, ReceiveStop(t) PROVE ExactInvariant'
    <2>1. /\ pc[t] = "send" /\ pc[Main] = "wait"
          /\ UNCHANGED <<pods, simulated, created, sched, report, stopReason>>
      BY <1>3 DEF ReceiveStop, fieldVars, runVars, storeVars, schedVars
    <2>2. t \in {Listener} \cup Pod
      BY <2>1 DEF Thread
    <2>3. /\ pc'[t] = IF t = Listener THEN "idle" ELSE "done"
          /\ pc'[Main] = "cancel"
          /\ \A u \in Pod \cup {Listener} : u # t => pc'[u] = pc[u]
      BY <1>3, <2>1, Threads DEF ReceiveStop, TypeOK
    <2>4. QED
      BY <2>1, <2>2, <2>3, StopExact
  <1>4. CASE CancelScheduler \/ AbortRun \/ CloseStop \/ ReturnError \/ MakeReport
    <2>1. PICK to \in {"closeStop", "closeAborted", "aborted", "returned", "exited"} :
             pc' = [pc EXCEPT ![Main] = to]
      BY <1>4 DEF CancelScheduler, AbortRun, CloseStop, ReturnError, MakeReport, Goto
    <2>2. UNCHANGED <<pods, simulated, created, sched, stopReason>>
      BY <1>4 DEF CancelScheduler, AbortRun, CloseStop, ReturnError, MakeReport, fieldVars,
        storeVars, schedVars
    <2>3. pc'[Main] = to /\ \A u \in Pod : pc'[u] = pc[u]
      BY <2>1, Threads DEF TypeOK
    <2>4. ASSUME NEW u \in {Main} \cup Pod, CarriesChain(u)'
          PROVE  CarriesChain(u) /\ (pc'[u] \in AllListed <=> pc[u] \in AllListed)
      <3>1. CASE u = Main
        BY <2>2, <2>3, <2>4, <3>1, Threads DEF CarriesChain, Counting, TypeOK
      <3>2. CASE u \in Pod
        BY <2>2, <2>3, <2>4, <3>2, Threads DEF CarriesChain
      <3>3. QED
        BY <3>1, <3>2
    <2>5. Stopping' => Stopping
      BY <2>2, <2>3 DEF Stopping
    <2>6. report'.reason = "LimitReached" => Len(report'.pods) = MaxSimulated
      BY <1>4 DEF CancelScheduler, AbortRun, CloseStop, ReturnError, MakeReport, ExactInvariant,
        AtLimit, Stopping, runVars
    <2>7. QED
      BY <2>2, <2>4, <2>5, <2>6, QuietExact
  <1>5. QED
    BY <1>1, <1>2, <1>3, <1>4 DEF MainStep

\* The scheduler and the informers.
LEMMA QueueExact ==
    ASSUME TypeOK, ChainInvariant, ExactInvariant,
           \/ \E p \in Pod : \/ SchedulePod(p) \/ RejectPod(p) \/ PreemptFor(p)
                             \/ EndBackoff(p) \/ SeePod(p) \/ SeeBinding(p)
           \/ \E n \in Nodes : SeeNode(n)
           \/ \E v \in Preemptible : Evict(v) \/ SeeDeletion(v)
    PROVE  ExactInvariant'
  <1>1. UNCHANGED <<pods, simulated, stopReason, report>>
    BY DEF SchedulePod, RejectPod, PreemptFor, EndBackoff, SeePod, SeeBinding, SeeNode, Evict,
      SeeDeletion, fieldVars, runVars
  <1>2. created' \subseteq created
    BY DEF SchedulePod, RejectPod, PreemptFor, EndBackoff, SeePod, SeeBinding, SeeNode, Evict,
      SeeDeletion, storeVars
  <1>3. /\ pc'[Main] = pc[Main]
        /\ \A q \in Pod : \/ pc'[q] = pc[q]
                          \/ /\ pc[q] \in {"idle", "done"} /\ pc'[q] = "get"
                             /\ sched[q] = "active"
    <2>1. CASE pc' = pc
      BY <2>1
    <2>2. ASSUME NEW p \in Pod, Pop(p), pc' = [pc EXCEPT ![p] = "get"]
          PROVE  /\ pc'[Main] = pc[Main] /\ \A q \in Pod : q # p => pc'[q] = pc[q]
                 /\ pc[p] \in {"idle", "done"} /\ pc'[p] = "get" /\ sched[p] = "active"
      BY <2>2, Threads DEF Pop, TypeOK
    <2>3. pc' = pc \/ \E p \in Pod : Pop(p) /\ pc' = [pc EXCEPT ![p] = "get"]
      BY DEF SchedulePod, RejectPod, PreemptFor, EndBackoff, SeePod, SeeBinding, SeeNode,
        Evict, SeeDeletion
    <2>4. QED
      BY <2>1, <2>2, <2>3
  <1>4. \A q \in Pod \ Preemptible :
            sched[q] \in {"assumed", "known"} => sched'[q] \in {"assumed", "known"}
    BY DEF SchedulePod, RejectPod, PreemptFor, EndBackoff, SeePod, SeeBinding, SeeNode, Evict,
      SeeDeletion, Pop, Activate, TypeOK, schedVars
  <1>5. ASSUME NEW u \in {Main} \cup Pod, CarriesChain(u)'
        PROVE  CarriesChain(u) /\ (pc'[u] \in AllListed <=> pc[u] \in AllListed)
    <2>1. CASE u = Main
      BY <1>2, <1>3, <1>5, <2>1, Threads DEF CarriesChain, TypeOK
    <2>2. CASE u \in Pod
      <3>1. u \in created \ Existing /\ u # Main
        BY <1>2, <1>5, <2>2, Threads DEF CarriesChain
      <3>2. CASE pc'[u] = pc[u]
        BY <1>4, <1>5, <2>2, <3>1, <3>2, Threads DEF CarriesChain
      <3>3. CASE pc[u] \in {"idle", "done"} /\ pc'[u] = "get" /\ sched[u] = "active"
        BY <3>1, <3>3 DEF CarriesChain, AllListed, Counting
      <3>4. QED
        BY <1>3, <2>2, <3>2, <3>3
    <2>3. QED
      BY <2>1, <2>2
  <1>6. Stopping' => Stopping
    BY <1>1, <1>3 DEF Stopping
  <1>7. QED
    BY <1>1, <1>5, <1>6, QuietExact DEF ExactInvariant

LEMMA NextExact ==
    TypeOK /\ ChainInvariant /\ ExactInvariant /\ [Next]_vars => ExactInvariant'
  <1> SUFFICES ASSUME TypeOK, ChainInvariant, ExactInvariant, [Next]_vars
               PROVE  ExactInvariant'
    OBVIOUS
  <1>1. CASE MainStep
    BY <1>1, MainStepExact
  <1>2. CASE DeliverUpdate \/ UNCHANGED vars
    <2>1. UNCHANGED <<pods, simulated, created, sched, stopReason, report>>
      BY <1>2 DEF DeliverUpdate, vars, fieldVars, runVars, localVars, storeVars, schedVars
    <2>2. \A u \in {Main} \cup Pod : pc'[u] = pc[u]
      BY <1>2, Threads DEF DeliverUpdate, TypeOK, vars
    <2>3. \A u \in {Main} \cup Pod : CarriesChain(u)' => CarriesChain(u)
      BY <2>1, <2>2 DEF CarriesChain
    <2>4. Stopping' => Stopping
      BY <2>1, <2>2 DEF Stopping
    <2>5. QED
      BY <2>1, <2>2, <2>3, <2>4, QuietExact DEF ExactInvariant
  <1>3. CASE SetStopReason(Listener) \/ Close(Listener)
    BY <1>3, SetExact
  <1>4. ASSUME NEW p \in Pod, BindingCycle(p) PROVE ExactInvariant'
    BY <1>4, BindingExact, CreateNextPodExact, SetExact, FailureExact DEF BindingCycle
  <1>5. ASSUME NEW t \in Thread, Panic(t) PROVE ExactInvariant'
    <2>1. /\ UNCHANGED <<pods, simulated, created, sched, stopReason, report>>
          /\ pc'[Main] = "crashed" /\ \A u \in Pod : pc'[u] = pc[u]
      BY <1>5, PanicStep, Threads DEF fieldVars, runVars, storeVars, schedVars
    <2>2. \A u \in {Main} \cup Pod :
              CarriesChain(u)' => CarriesChain(u) /\ pc'[u] = pc[u]
      BY <2>1, Threads DEF CarriesChain, Counting, TypeOK
    <2>3. Stopping' => Stopping
      BY <2>1 DEF Stopping
    <2>4. QED
      BY <2>1, <2>2, <2>3, QuietExact DEF ExactInvariant
  <1>6. QED
    BY <1>1, <1>2, <1>3, <1>4, <1>5, QueueExact DEF Next, ListenerStep, PodStep, Exited

LEMMA InitExact == Init => ExactInvariant
  <1> SUFFICES ASSUME Init PROVE ExactInvariant
    OBVIOUS
  <1>1. \A t \in {Main} \cup Pod : CarriesChain(t) => t = Main
    BY Threads DEF Init, CarriesChain
  <1>2. Listed(Main)
    BY Threads DEF Init, Listed, AllListed
  <1>3. ~Stopping
    BY Threads DEF Init, Stopping
  <1>4. QED
    BY <1>1, <1>2, <1>3 DEF Init, ExactInvariant, NoReport

\* A report that says LimitReached lists exactly --max-limit pods, for every
\* cluster, limit and interleaving in which none of the cluster's pending pods
\* is bound: the goroutine that found the limit reached was the last to list one.
THEOREM LimitExactHolds == ASSUME NoPendingFits PROVE Spec => []LimitIsExact
  <1>1. ExactInvariant => LimitIsExact
    BY DEF ExactInvariant, LimitIsExact
  <1>2. QED
    BY <1>1, InitExact, NextExact, TypeCorrect, ChainHolds, PTL DEF Spec


=============================================================================
