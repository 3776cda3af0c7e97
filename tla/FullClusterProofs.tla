------------------------- MODULE FullClusterProofs -------------------------
(***************************************************************************)
(* Why a report that says Unschedulable is right, for every cluster with   *)
(* punctual informers: second chains, failed bindings, preemption and      *)
(* other profiles included.                                                *)
(***************************************************************************)
EXTENDS ClusterCapacityProofs, FiniteSetTheorems

LEMMA PodsFinite == IsFiniteSet(Pod)
  <1>1. IsFiniteSet(Name)
    BY FS_Interval, LimitAssumption DEF Name
  <1>2. QED
    BY <1>1, FS_Union, ExistingAssumption DEF Pod

\* A full node whose pods all stay is full.
LEMMA FullStays ==
    ASSUME NEW n \in Nodes, Held(n) \subseteq Held(n)', Full(n)
    PROVE  Full(n)'
  <1>1. Held(n)' \subseteq Pod
    BY DEF Held, Occupants
  <1>2. IsFiniteSet(Held(n)')
    BY <1>1, PodsFinite, FS_Subset
  <1>3. /\ IsFiniteSet(Held(n)) /\ Cardinality(Held(n)) <= Cardinality(Held(n)')
        /\ Cardinality(Held(n)) \in Nat /\ Cardinality(Held(n)') \in Nat
    BY <1>2, FS_Subset, FS_CardinalityType
  <1>4. Capacity[n] \in Nat
    BY NodesAssumption
  <1>5. Cardinality(Held(n)) >= Capacity[n]
    BY DEF Full
  <1>6. Cardinality(Held(n)') >= Capacity[n]
    BY <1>3, <1>4, <1>5
  <1>7. QED
    BY <1>6 DEF Full

\* A pod no node has room for says that all nodes are full.
LEMMA NoRoomIsFull ==
    ASSUME TypeOK, FullInvariant, NEW p \in Pod, Provisioned(p), Feasible(p) = {}
    PROVE  \A n \in Nodes : Full(n)
  <1> SUFFICES ASSUME NEW n \in Nodes PROVE Full(n)
    OBVIOUS
  <1>1. CASE Nominees(n) # {}
    BY <1>1 DEF FullInvariant
  <1>2. CASE Nominees(n) = {}
    <2>1. Rivals(n, p) = Occupants(n)
      BY <1>2 DEF Rivals
    <2>2. ~HasRoom(n, p)
      BY DEF FullInvariant, PodsInPlace, Feasible, Accepts
    <2>3. /\ Rivals(n, p) \subseteq Held(n)
          /\ Held(n) \subseteq Pod
      BY <2>1 DEF Held, Occupants
    <2>4. IsFiniteSet(Held(n))
      BY <2>3, PodsFinite, FS_Subset
    <2>5. /\ Cardinality(Rivals(n, p)) <= Cardinality(Held(n))
          /\ Cardinality(Rivals(n, p)) \in Nat /\ Cardinality(Held(n)) \in Nat
      BY <2>3, <2>4, FS_Subset, FS_CardinalityType
    <2>6. Capacity[n] \in Nat
      BY NodesAssumption
    <2>7. QED
      BY <2>2, <2>5, <2>6 DEF HasRoom, Full
  <1>3. QED
    BY <1>1, <1>2

\* What a step must do: no node loses a pod, only full nodes are nominated, and
\* nothing is said to be unschedulable unless the cluster is full.
LEMMA HeldStep ==
    ASSUME FullInvariant, PodsInPlace',
           \A n \in Nodes : Held(n) \subseteq Held(n)',
           \A n \in Nodes : Nominees(n)' # {} => Nominees(n) # {} \/ Full(n),
           SaidUnschedulable' => SaidUnschedulable \/ \A n \in Nodes : Full(n)
    PROVE  FullInvariant'
  <1>1. \A n \in Nodes : Full(n) => Full(n)'
    BY FullStays
  <1>2. QED
    BY <1>1 DEF FullInvariant

\* A step that only moves a goroutine on, outside the scheduler.
LEMMA QuietFull ==
    ASSUME FullInvariant,
           \A p \in Pod : /\ pc'[p] = "idle" <=> pc[p] = "idle"
                          /\ pc'[p] \in {"get", "update"} <=> pc[p] \in {"get", "update"},
           UNCHANGED <<boundTo, schedVars>>,
           SaidUnschedulable' => SaidUnschedulable
    PROVE  FullInvariant'
  <1>1. UNCHANGED <<sched, target, victims, seen>>
    BY DEF schedVars
  <1>2. PodsInPlace'
    BY <1>1, Threads DEF FullInvariant, PodsInPlace
  <1>3. \A n \in Nodes : Held(n)' = Held(n) /\ Nominees(n)' = Nominees(n)
    BY <1>1 DEF Held, Occupants, Nominees
  <1>4. QED
    BY <1>2, <1>3, HeldStep

\* Nothing new is said.
LEMMA NothingSaid ==
    ASSUME UNCHANGED <<cond, copied, updates, stopReason, report>>,
           pc'[Listener] = "setReason" => pc[Listener] = "setReason"
    PROVE  SaidUnschedulable' => SaidUnschedulable
  BY DEF SaidUnschedulable, Provisioned

\* Goroutine t moves on; nothing else happens that matters here.
LEMMA MoveFull ==
    ASSUME TypeOK, FullInvariant, NEW t \in Thread, NEW to,
           pc' = [pc EXCEPT ![t] = to],
           pc[t] \notin {"idle", "get", "update"} \/ t \notin Pod,
           to \notin {"idle", "get", "update", "setReason"} \/ t = Main
              \/ (t = Listener /\ to # "setReason") \/ (t \in Pod /\ to = "setReason"),
           UNCHANGED <<boundTo, schedVars, cond, copied, updates, stopReason, report>>
    PROVE  FullInvariant'
  <1>1. \A p \in Pod : /\ pc'[p] = "idle" <=> pc[p] = "idle"
                       /\ pc'[p] \in {"get", "update"} <=> pc[p] \in {"get", "update"}
    BY Threads DEF TypeOK
  <1>2. pc'[Listener] = "setReason" => pc[Listener] = "setReason"
    BY Threads DEF TypeOK
  <1>3. QED
    BY <1>1, <1>2, NothingSaid, QuietFull

LEMMA CreateNextPodFull ==
    ASSUME TypeOK, FullInvariant, NEW t \in {Main} \cup Pod, CreateNextPod(t)
    PROVE  FullInvariant'
  <1>1. t \in Thread
    BY Threads
  <1>2. PICK to \in {"loadCounter", "storeCounter", "loadSimulated", "storeSimulated",
                     "create", "wait", "done", "abort", "forget"} :
          pc' = [pc EXCEPT ![t] = to]
    BY DEF CreateNextPod, GenerateName, LoadCounter, StoreCounter, LoadSimulated,
      StoreSimulated, CreatePod, CreateConflict, Goto
  <1>3. pc[t] \notin {"idle", "get", "update"}
    BY DEF CreateNextPod, GenerateName, LoadCounter, StoreCounter, LoadSimulated,
      StoreSimulated, CreatePod, CreateConflict, Goto
  <1>4. UNCHANGED <<boundTo, schedVars, cond, copied, updates, stopReason, report>>
    BY DEF CreateNextPod, GenerateName, LoadCounter, StoreCounter, LoadSimulated,
      StoreSimulated, CreatePod, CreateConflict, fieldVars, runVars, localVars, storeVars
  <1>5. QED
    BY <1>1, <1>2, <1>3, <1>4, MoveFull

\* Whoever stops the analysis: only Update says Unschedulable, and only when
\* that was said before.
LEMMA StopFull ==
    ASSUME TypeOK, FullInvariant, NEW t \in {Listener} \cup Pod, SetStopReason(t) \/ Close(t)
    PROVE  FullInvariant'
  <1>0. t \in Thread
    BY Threads
  <1>1. CASE SetStopReason(t)
    <2>1. SaidUnschedulable' => SaidUnschedulable
      BY <1>0, <1>1, Threads DEF SetStopReason, Goto, SaidUnschedulable, Provisioned, TypeOK,
        runVars, localVars, storeVars
    <2>2. \A p \in Pod : /\ pc'[p] = "idle" <=> pc[p] = "idle"
                         /\ pc'[p] \in {"get", "update"} <=> pc[p] \in {"get", "update"}
      BY <1>0, <1>1, Threads DEF SetStopReason, Goto, TypeOK
    <2>3. UNCHANGED <<boundTo, schedVars>>
      BY <1>1 DEF SetStopReason, storeVars
    <2>4. QED
      BY <2>1, <2>2, <2>3, QuietFull
  <1>2. CASE Close(t)
    <2>1. pc' = [pc EXCEPT ![t] = "send"] /\ pc[t] = "close"
      BY <1>2 DEF Close, Goto
    <2>2. UNCHANGED <<boundTo, schedVars, cond, copied, updates, stopReason, report>>
      BY <1>2 DEF Close, fieldVars, localVars, storeVars
    <2>3. QED
      BY <1>0, <2>1, <2>2, MoveFull
  <1>3. QED
    BY <1>1, <1>2

LEMMA MainStepFull ==
    ASSUME TypeOK, FullInvariant, MainStep
    PROVE  FullInvariant'
  <1>1. CASE WakeUp \/ CancelScheduler \/ AbortRun \/ CloseStop \/ ReturnError
    <2>1. PICK to : pc' = [pc EXCEPT ![Main] = to]
      BY <1>1 DEF WakeUp, CancelScheduler, AbortRun, CloseStop, ReturnError, Goto
    <2>2. UNCHANGED <<boundTo, schedVars, cond, copied, updates, stopReason, report>>
      BY <1>1 DEF WakeUp, CancelScheduler, AbortRun, CloseStop, ReturnError, fieldVars, runVars,
        localVars, storeVars
    <2>3. QED
      BY <2>1, <2>2, Threads, MoveFull
  <1>2. CASE CreateNextPod(Main)
    BY <1>2, CreateNextPodFull
  <1>3. ASSUME NEW t \in Thread, ReceiveStop(t) PROVE FullInvariant'
    <2>1. t # Main
      BY <1>3 DEF ReceiveStop
    <2>2. \A p \in Pod : /\ pc'[p] = "idle" <=> pc[p] = "idle"
                         /\ pc'[p] \in {"get", "update"} <=> pc[p] \in {"get", "update"}
      BY <1>3, <2>1, Threads DEF ReceiveStop, TypeOK
    <2>3. pc'[Listener] = "setReason" => pc[Listener] = "setReason"
      BY <1>3, <2>1, Threads DEF ReceiveStop, TypeOK
    <2>4. UNCHANGED <<boundTo, schedVars, cond, copied, updates, stopReason, report>>
      BY <1>3 DEF ReceiveStop, fieldVars, runVars, localVars, storeVars
    <2>5. QED
      BY <2>2, <2>3, <2>4, NothingSaid, QuietFull
  <1>4. CASE MakeReport
    <2>1. SaidUnschedulable' => SaidUnschedulable
      BY <1>4, Threads DEF MakeReport, Goto, SaidUnschedulable, Provisioned, TypeOK, fieldVars,
        localVars, storeVars
    <2>2. \A p \in Pod : pc'[p] = pc[p]
      BY <1>4, Threads DEF MakeReport, Goto, TypeOK
    <2>3. UNCHANGED <<boundTo, schedVars>>
      BY <1>4 DEF MakeReport, storeVars
    <2>4. QED
      BY <2>1, <2>2, <2>3, QuietFull
  <1>5. QED
    BY <1>1, <1>2, <1>3, <1>4 DEF MainStep

\* A patch says what its condition says.
LEMMA PatchSays ==
    ASSUME TypeOK, NEW p \in Pod, NEW c \in Condition, PatchCondition(p, c),
           UNCHANGED <<copied, stopReason, report>>, pc'[Listener] = pc[Listener]
    PROVE  SaidUnschedulable' =>
              SaidUnschedulable \/ (Provisioned(p) /\ c.reason = "Unschedulable")
  <1> SUFFICES ASSUME SaidUnschedulable', ~SaidUnschedulable
               PROVE  Provisioned(p) /\ c.reason = "Unschedulable"
    OBVIOUS
  <1>1. CASE \E q \in Pod \ Existing : "Unschedulable" \in {cond'[q].reason, copied'[q].reason}
    BY <1>1 DEF PatchCondition, SaidUnschedulable, Provisioned, TypeOK
  <1>2. CASE \E k \in DOMAIN updates' :
                updates'[k].reason = "Unschedulable" /\ Provisioned(updates'[k].pod)
    <2>1. PICK k \in DOMAIN updates' :
             updates'[k].reason = "Unschedulable" /\ Provisioned(updates'[k].pod)
      BY <1>2
    <2>2. k \notin DOMAIN updates \/ updates'[k] # updates[k]
      BY <2>1 DEF SaidUnschedulable
    <2>3. updates'[k] = [pod |-> p, reason |-> c.reason]
      BY <2>1, <2>2 DEF PatchCondition, TypeOK
    <2>4. QED
      BY <2>1, <2>3
  <1>3. CASE pc'[Listener] = "setReason" \/ "Unschedulable" \in {stopReason', report'.reason}
    BY <1>3 DEF SaidUnschedulable
  <1>4. QED
    BY <1>1, <1>2, <1>3 DEF SaidUnschedulable, Provisioned

LEMMA UpdatePodFull ==
    ASSUME TypeOK, FullInvariant, NEW p \in Pod, UpdatePod(p)
    PROVE  FullInvariant'
  <1>0. p \in Thread /\ p # Main /\ p # Listener
    BY Threads
  <1>1. /\ pc[p] = "update" /\ pc' = [pc EXCEPT ![p] = "loadPods"]
        /\ boundTo' = [boundTo EXCEPT ![p] = target[p]]
        /\ UNCHANGED <<sched, target, victims, seen, stopReason, report>>
    BY DEF UpdatePod, Goto, schedVars, fieldVars, runVars
  <1>2. sched[p] = "assumed" /\ boundTo[p] = NoNode /\ target[p] # NoNode
    BY <1>1 DEF FullInvariant, PodsInPlace
  <1>3. p \notin Preemptible
    BY <1>1 DEF FullInvariant, PodsInPlace
  <1>4. /\ \A q \in Pod : q # p => pc'[q] = pc[q] /\ boundTo'[q] = boundTo[q]
        /\ pc'[p] = "loadPods" /\ boundTo'[p] = target[p]
        /\ pc'[Listener] = pc[Listener]
    BY <1>0, <1>1, Threads DEF TypeOK
  <1>5. PodsInPlace'
    BY <1>1, <1>2, <1>3, <1>4, Threads DEF FullInvariant, PodsInPlace
  <1>6. \A n \in Nodes : Held(n) \subseteq Held(n)'
    BY <1>1, <1>2, <1>4, NodesAssumption DEF Held, Occupants
  <1>7. \A n \in Nodes : Nominees(n)' = Nominees(n)
    BY <1>1 DEF Nominees
  <1>8. SaidUnschedulable' => SaidUnschedulable
    <2> SUFFICES ASSUME SaidUnschedulable', ~SaidUnschedulable PROVE FALSE
      OBVIOUS
    <2>1. /\ UNCHANGED copied
          /\ cond' = [cond EXCEPT ![p] = copied[p]]
          /\ \/ updates' = updates
             \/ updates' = Append(updates, [pod |-> p, reason |-> copied[p].reason])
      BY DEF UpdatePod, localVars
    <2>2. Provisioned(p) => copied[p].reason # "Unschedulable"
      BY DEF SaidUnschedulable, Provisioned
    <2>3. ~ \E q \in Pod \ Existing : "Unschedulable" \in {cond'[q].reason, copied'[q].reason}
      BY <2>1, <2>2 DEF SaidUnschedulable, Provisioned, TypeOK
    <2>4. ASSUME NEW k \in DOMAIN updates', updates'[k].reason = "Unschedulable",
                 Provisioned(updates'[k].pod)
          PROVE  FALSE
      <3>1. k \notin DOMAIN updates \/ updates'[k] # updates[k]
        BY <2>4 DEF SaidUnschedulable
      <3>2. updates'[k] = [pod |-> p, reason |-> copied[p].reason]
        <4>1. CASE updates' = updates
          BY <2>4, <3>1, <4>1
        <4>2. CASE updates' = Append(updates, [pod |-> p, reason |-> copied[p].reason])
          <5>1. updates \in Seq(Update) /\ [pod |-> p, reason |-> copied[p].reason] \in Update
            BY <1>0 DEF TypeOK, Update, Condition
          <5>2. QED
            BY <2>4, <3>1, <4>2, <5>1
        <4>3. QED
          BY <2>1, <4>1, <4>2
      <3>3. QED
        BY <2>2, <2>4, <3>2
    <2>5. QED
      BY <1>1, <1>4, <2>3, <2>4 DEF SaidUnschedulable, Provisioned
  <1>9. QED
    BY <1>5, <1>6, <1>7, <1>8, HeldStep

\* A binding that failed: the pod has its node, so the cache that forgets it
\* makes no room.
LEMMA ForgetPodFull ==
    ASSUME TypeOK, FullInvariant, NEW p \in Pod, ForgetPod(p)
    PROVE  FullInvariant'
  <1>0. p \in Thread /\ p # Main /\ p # Listener
    BY Threads
  <1>1. /\ pc[p] = "forget" /\ pc' = [pc EXCEPT ![p] = "patch"]
        /\ UNCHANGED <<boundTo, victims, seen, cond, copied, updates, stopReason, report>>
    BY DEF ForgetPod, Goto, fieldVars, runVars, localVars, storeVars
  <1>2. CASE sched[p] # "assumed"
    <2>1. UNCHANGED <<boundTo, schedVars, cond, copied, updates, stopReason, report>>
      BY <1>1, <1>2 DEF ForgetPod, schedVars
    <2>2. QED
      BY <1>0, <1>1, <2>1, MoveFull
  <1>3. CASE sched[p] = "assumed"
    <2>1. /\ sched' = [Activate(Pod) EXCEPT ![p] = "backoff"]
          /\ target' = [target EXCEPT ![p] = NoNode]
      BY <1>3 DEF ForgetPod
    <2>2. /\ sched'[p] = "backoff" /\ target'[p] = NoNode /\ pc'[p] = "patch"
          /\ \A q \in Pod : q # p =>
                /\ pc'[q] = pc[q] /\ target'[q] = target[q]
                /\ \/ sched'[q] = sched[q]
                   \/ sched[q] = "parked" /\ sched'[q] = "active"
          /\ pc'[Listener] = pc[Listener]
      BY <1>0, <1>1, <2>1, Threads DEF Activate, TypeOK
    <2>3. boundTo[p] = target[p] /\ p \notin Preemptible
      BY <1>1, <1>3 DEF FullInvariant, PodsInPlace
    <2>4. PodsInPlace'
      BY <1>1, <2>2, <2>3, Threads DEF FullInvariant, PodsInPlace
    <2>5. \A n \in Nodes : Held(n) \subseteq Held(n)'
      BY <1>1, <2>2, <2>3 DEF Held, Occupants
    <2>6. \A n \in Nodes : Nominees(n)' \subseteq Nominees(n)
      BY <2>2, NodesAssumption DEF Nominees
    <2>7. SaidUnschedulable' => SaidUnschedulable
      BY <1>1, <2>2, NothingSaid
    <2>8. QED
      BY <2>4, <2>5, <2>6, <2>7, HeldStep
  <1>4. QED
    BY <1>2, <1>3

LEMMA BindingCycleFull ==
    ASSUME TypeOK, FullInvariant, NEW p \in Pod, BindingCycle(p)
    PROVE  FullInvariant'
  <1>0. p \in Thread /\ p # Main /\ p # Listener
    BY Threads
  <1>1. CASE GetPod(p)
    <2>1. SaidUnschedulable' => SaidUnschedulable
      BY <1>0, <1>1, Threads DEF GetPod, Goto, SaidUnschedulable, Provisioned, TypeOK,
        fieldVars, runVars, storeVars
    <2>2. \A q \in Pod : /\ pc'[q] = "idle" <=> pc[q] = "idle"
                         /\ pc'[q] \in {"get", "update"} <=> pc[q] \in {"get", "update"}
      BY <1>0, <1>1, Threads DEF GetPod, Goto, TypeOK
    <2>3. UNCHANGED <<boundTo, schedVars>>
      BY <1>1 DEF GetPod, storeVars
    <2>4. QED
      BY <2>1, <2>2, <2>3, QuietFull
  <1>2. CASE UpdatePod(p)
    BY <1>2, UpdatePodFull
  <1>3. CASE LoadPods(p) \/ AppendPods(p) \/ CheckLimit(p)
    <2>1. PICK to \in {"appendPods", "check", "setReason", "name"} :
             pc' = [pc EXCEPT ![p] = to]
      BY <1>3 DEF LoadPods, AppendPods, CheckLimit, Goto
    <2>2. pc[p] \notin {"idle", "get", "update"}
      BY <1>3 DEF LoadPods, AppendPods, CheckLimit, Goto
    <2>3. UNCHANGED <<boundTo, schedVars, cond, copied, updates, stopReason, report>>
      BY <1>3 DEF LoadPods, AppendPods, CheckLimit, fieldVars, runVars, localVars, storeVars
    <2>4. QED
      BY <1>0, <2>1, <2>2, <2>3, MoveFull
  <1>4. CASE CreateNextPod(p)
    BY <1>4, CreateNextPodFull
  <1>5. CASE SetStopReason(p) \/ Close(p)
    BY <1>5, StopFull
  <1>6. CASE ForgetPod(p)
    BY <1>6, ForgetPodFull
  <1>7. CASE PatchBindError(p)
    <2>1. /\ pc[p] = "patch" /\ pc' = [pc EXCEPT ![p] = "done"]
          /\ PatchCondition(p, [NoCondition EXCEPT !.reason = "SchedulerError"])
          /\ UNCHANGED <<boundTo, schedVars, copied, stopReason, report>>
      BY <1>7 DEF PatchBindError, Goto, fieldVars, runVars, localVars
    <2>2. SaidUnschedulable' => SaidUnschedulable
      <3>1. [NoCondition EXCEPT !.reason = "SchedulerError"] \in Condition
        BY DEF NoCondition, Condition, Reason
      <3>2. pc'[Listener] = pc[Listener]
        BY <1>0, <2>1, Threads DEF TypeOK
      <3>3. [NoCondition EXCEPT !.reason = "SchedulerError"].reason # "Unschedulable"
        BY DEF NoCondition
      <3>4. QED
        BY <2>1, <3>1, <3>2, <3>3, PatchSays
    <2>3. \A q \in Pod : /\ pc'[q] = "idle" <=> pc[q] = "idle"
                         /\ pc'[q] \in {"get", "update"} <=> pc[q] \in {"get", "update"}
      BY <1>0, <2>1, Threads DEF TypeOK
    <2>4. QED
      BY <2>1, <2>2, <2>3, QuietFull
  <1>8. QED
    BY <1>1, <1>2, <1>3, <1>4, <1>5, <1>6, <1>7 DEF BindingCycle

-----------------------------------------------------------------------------
\* A step of the scheduler or of an informer on pod p: no other pod moves,
\* except from the parked ones to the active ones.
LEMMA SchedulePodFull ==
    ASSUME TypeOK, FullInvariant, NEW p \in Pod, SchedulePod(p)
    PROVE  FullInvariant'
  <1>0. p \in Thread /\ p # Main /\ p # Listener
    BY Threads
  <1>1. PICK n \in Feasible(p) : target' = [target EXCEPT ![p] = n]
    BY DEF SchedulePod
  <1>2. n \in Nodes /\ n # NoNode
    BY NodesAssumption DEF Feasible, TypeOK
  <1>3. /\ sched[p] = "active" /\ sched' = [sched EXCEPT ![p] = "assumed"]
        /\ pc' = pc \/ pc' = [pc EXCEPT ![p] = "get"]
        /\ UNCHANGED <<boundTo, victims, seen, cond, copied, updates, stopReason, report>>
    BY DEF SchedulePod, Pop, fieldVars, runVars, localVars, storeVars
  <1>4. /\ pc[p] = "idle" /\ boundTo[p] = NoNode /\ p \notin Preemptible
    BY <1>3 DEF FullInvariant, PodsInPlace
  <1>5. /\ sched'[p] = "assumed" /\ target'[p] = n /\ pc'[p] \in {"idle", "get"}
        /\ \A q \in Pod : q # p => /\ sched'[q] = sched[q] /\ target'[q] = target[q]
                                   /\ pc'[q] = pc[q]
        /\ pc'[Listener] = pc[Listener]
    BY <1>0, <1>1, <1>3, <1>4, Threads DEF TypeOK
  <1>6. PodsInPlace'
    BY <1>2, <1>3, <1>4, <1>5, Threads DEF FullInvariant, PodsInPlace
  <1>7. \A m \in Nodes : Held(m) \subseteq Held(m)'
    BY <1>3, <1>5 DEF Held, Occupants
  <1>8. \A m \in Nodes : Nominees(m)' \subseteq Nominees(m)
    BY <1>5 DEF Nominees
  <1>9. SaidUnschedulable' => SaidUnschedulable
    BY <1>3, <1>5, NothingSaid
  <1>10. QED
    BY <1>6, <1>7, <1>8, <1>9, HeldStep

\* p stays in the queue; if it was nominated for a node, all nodes are full.
LEMMA ParkFull ==
    ASSUME TypeOK, FullInvariant, NEW p \in Pod, NEW c \in Condition,
           NEW n \in Nodes \cup {NoNode},
           Pop(p), Feasible(p) = {}, n = NoNode \/ Provisioned(p),
           sched' = [sched EXCEPT ![p] = "parked"],
           target' = [target EXCEPT ![p] = n],
           PatchCondition(p, c),
           UNCHANGED <<pc, boundTo, seen, copied, stopReason, report>>
    PROVE  FullInvariant'
  <1>1. sched[p] = "active"
    BY DEF Pop
  <1>2. /\ pc[p] = "idle" /\ boundTo[p] = NoNode /\ p \notin Preemptible
    BY <1>1 DEF FullInvariant, PodsInPlace
  <1>3. /\ sched'[p] = "parked" /\ target'[p] = n
        /\ \A q \in Pod : q # p => sched'[q] = sched[q] /\ target'[q] = target[q]
    BY DEF TypeOK
  <1>4. PodsInPlace'
    BY <1>2, <1>3, Threads DEF FullInvariant, PodsInPlace
  <1>5. \A m \in Nodes : Held(m) \subseteq Held(m)'
    BY <1>1, <1>3 DEF Held, Occupants
  <1>6. Provisioned(p) => \A m \in Nodes : Full(m)
    BY NoRoomIsFull
  <1>7. \A m \in Nodes : Nominees(m)' # {} => Nominees(m) # {} \/ Full(m)
    <2> SUFFICES ASSUME NEW m \in Nodes, NEW q \in Nominees(m)', ~Full(m)
                 PROVE  q \in Nominees(m)
      OBVIOUS
    <2>1. q # p
      BY <1>3, <1>6, NodesAssumption DEF Nominees
    <2>2. QED
      BY <1>3, <2>1 DEF Nominees
  <1>8. SaidUnschedulable' => SaidUnschedulable \/ \A m \in Nodes : Full(m)
    BY <1>6, PatchSays
  <1>9. QED
    BY <1>4, <1>5, <1>7, <1>8, HeldStep

LEMMA RejectionFull ==
    ASSUME TypeOK, FullInvariant, NEW p \in Pod, RejectPod(p) \/ PreemptFor(p)
    PROVE  FullInvariant'
  <1>1. CASE RejectPod(p)
    <2>1. [reason |-> "Unschedulable", view |-> seen, node |-> NoNode] \in Condition
      BY DEF TypeOK, Condition, Reason
    <2>2. UNCHANGED <<pc, boundTo, seen, copied, stopReason, report>>
      BY <1>1 DEF RejectPod, fieldVars, runVars, localVars
    <2>3. QED
      BY <1>1, <2>1, <2>2, ParkFull DEF RejectPod
  <1>2. CASE PreemptFor(p)
    <2>1. PICK n \in seen : \E V \in VictimSets(n, p) :
             /\ target' = [target EXCEPT ![p] = n]
             /\ sched' = [sched EXCEPT ![p] = "parked"]
             /\ PatchCondition(p, [reason |-> "Unschedulable", view |-> seen, node |-> n])
      BY <1>2 DEF PreemptFor
    <2>2. n \in Nodes /\ Provisioned(p)
      BY <2>1 DEF TypeOK, VictimSets
    <2>3. [reason |-> "Unschedulable", view |-> seen, node |-> n] \in Condition
      BY <2>2 DEF TypeOK, Condition, Reason
    <2>4. UNCHANGED <<pc, boundTo, seen, copied, stopReason, report>>
      BY <1>2 DEF PreemptFor, fieldVars, runVars, localVars
    <2>5. QED
      BY <1>2, <2>1, <2>2, <2>3, <2>4, ParkFull DEF PreemptFor
  <1>3. QED
    BY <1>1, <1>2

\* What the informers tell the scheduler.
LEMMA SeeFull ==
    ASSUME TypeOK, FullInvariant, NEW p \in Pod, SeePod(p) \/ SeeBinding(p)
    PROVE  FullInvariant'
  <1>1. UNCHANGED <<pc, target, boundTo, seen, cond, copied, updates, stopReason, report>>
    BY DEF SeePod, SeeBinding, fieldVars, runVars, localVars, storeVars
  <1>2. SaidUnschedulable' => SaidUnschedulable
    BY <1>1, NothingSaid
  <1>3. \A q \in Pod : q # p => sched'[q] = sched[q]
    BY DEF SeePod, SeeBinding, TypeOK
  <1>4. CASE SeePod(p)
    <2>1. /\ sched[p] = "unseen"
          /\ sched'[p] = IF boundTo[p] = NoNode THEN "active" ELSE "known"
      BY <1>4 DEF SeePod, TypeOK
    <2>2. PodsInPlace'
      BY <1>1, <1>3, <2>1, Threads DEF FullInvariant, PodsInPlace
    <2>3. \A n \in Nodes : Held(n) \subseteq Held(n)'
      BY <1>1, <1>3, <2>1 DEF Held, Occupants
    <2>4. boundTo[p] = NoNode => target[p] = NoNode
      BY <2>1 DEF FullInvariant, PodsInPlace
    <2>5. \A n \in Nodes : Nominees(n)' \subseteq Nominees(n)
      BY <1>1, <1>3, <2>1, <2>4, NodesAssumption DEF Nominees
    <2>6. QED
      BY <1>2, <2>2, <2>3, <2>5, HeldStep
  <1>5. CASE SeeBinding(p)
    <2>1. /\ boundTo[p] # NoNode /\ sched'[p] = "known"
          /\ sched[p] \in {"assumed", "active", "parked", "backoff"}
      BY <1>5 DEF SeeBinding, TypeOK
    <2>2. /\ sched[p] \in {"assumed", "backoff"}
          /\ sched[p] = "assumed" => boundTo[p] = target[p]
          /\ pc[p] \notin {"get", "update"}
      BY <2>1 DEF FullInvariant, PodsInPlace
    <2>3. PodsInPlace'
      BY <1>1, <1>3, <2>1, <2>2, Threads DEF FullInvariant, PodsInPlace
    <2>4. \A n \in Nodes : Held(n) \subseteq Held(n)'
      BY <1>1, <1>3, <2>1, <2>2 DEF Held, Occupants
    <2>5. \A n \in Nodes : Nominees(n)' \subseteq Nominees(n)
      BY <1>1, <1>3, <2>1 DEF Nominees
    <2>6. QED
      BY <1>2, <2>3, <2>4, <2>5, HeldStep
  <1>6. QED
    BY <1>4, <1>5

\* The room an eviction makes is still counted.
LEMMA EvictionFull ==
    ASSUME TypeOK, FullInvariant, NEW v \in Preemptible, Evict(v) \/ SeeDeletion(v)
    PROVE  FullInvariant'
  <1>1. UNCHANGED <<pc, target, boundTo, seen, cond, copied, updates, stopReason, report>>
    BY DEF Evict, SeeDeletion, fieldVars, runVars, localVars, storeVars, schedVars
  <1>2. SaidUnschedulable' => SaidUnschedulable
    BY <1>1, NothingSaid
  <1>3. CASE Evict(v)
    BY <1>1, <1>2, <1>3, QuietFull DEF Evict
  <1>4. CASE SeeDeletion(v)
    <2>1. v \in Pod /\ sched[v] = "known" /\ boundTo[v] # NoNode /\ pc[v] = "idle"
      BY <1>4, Threads DEF SeeDeletion, FullInvariant, PodsInPlace
    <2>2. /\ sched'[v] = "unseen"
          /\ \A q \in Pod : q # v => \/ sched'[q] = sched[q]
                                     \/ sched[q] = "parked" /\ sched'[q] = "active"
      BY <1>4, <2>1 DEF SeeDeletion, TypeOK
    <2>3. PodsInPlace'
      BY <1>1, <2>1, <2>2, Threads DEF FullInvariant, PodsInPlace
    <2>4. \A n \in Nodes : Held(n) \subseteq Held(n)'
      BY <1>1, <2>1, <2>2 DEF Held, Occupants
    <2>5. \A n \in Nodes : Nominees(n)' \subseteq Nominees(n)
      BY <1>1, <2>2 DEF Nominees
    <2>6. QED
      BY <1>2, <2>3, <2>4, <2>5, HeldStep
  <1>5. QED
    BY <1>3, <1>4

LEMMA DeliverUpdateFull ==
    ASSUME TypeOK, FullInvariant, DeliverUpdate
    PROVE  FullInvariant'
  <1>1. /\ updates # <<>> /\ updates' = Tail(updates)
        /\ UNCHANGED <<boundTo, schedVars, cond, copied, stopReason, report>>
    BY DEF DeliverUpdate, fieldVars, runVars, localVars
  <1>2. \A p \in Pod : pc'[p] = pc[p]
    BY Threads DEF DeliverUpdate, TypeOK
  <1>3. /\ 1 \in DOMAIN updates /\ Head(updates) = updates[1]
        /\ \A k \in DOMAIN updates' : k + 1 \in DOMAIN updates /\ updates'[k] = updates[k + 1]
    BY <1>1 DEF TypeOK
  <1>4. pc'[Listener] = "setReason" =>
           \/ pc[Listener] = "setReason"
           \/ updates[1].reason = "Unschedulable" /\ Provisioned(updates[1].pod)
    BY <1>3 DEF DeliverUpdate
  <1>5. SaidUnschedulable' => SaidUnschedulable
    BY <1>1, <1>3, <1>4 DEF SaidUnschedulable, Provisioned
  <1>6. QED
    BY <1>1, <1>2, <1>5, QuietFull

LEMMA NextFull == Punctual /\ TypeOK /\ FullInvariant /\ [Next]_vars => FullInvariant'
  <1> SUFFICES ASSUME Punctual, TypeOK, FullInvariant, [Next]_vars
               PROVE  FullInvariant'
    OBVIOUS
  <1>1. CASE MainStep
    BY <1>1, MainStepFull
  <1>2. CASE ListenerStep
    BY <1>2, DeliverUpdateFull, StopFull DEF ListenerStep
  <1>3. ASSUME NEW p \in Pod, PodStep(p) PROVE FullInvariant'
    <2>1. ~EndBackoff(p)
      BY DEF EndBackoff
    <2>2. QED
      BY <1>3, <2>1, BindingCycleFull, SchedulePodFull, RejectionFull, SeeFull DEF PodStep
  <1>4. ASSUME NEW n \in Nodes, SeeNode(n) PROVE FullInvariant'
    BY <1>4 DEF SeeNode, FullInvariant, PodsInPlace
  <1>5. ASSUME NEW v \in Preemptible, Evict(v) \/ SeeDeletion(v) PROVE FullInvariant'
    BY <1>5, EvictionFull
  <1>6. ASSUME NEW t \in Thread, Panic(t) PROVE FullInvariant'
    <2>1. /\ pc' = [pc EXCEPT ![Main] = "crashed"]
          /\ UNCHANGED <<boundTo, schedVars, cond, copied, updates, stopReason, report>>
      BY <1>6, PanicStep DEF fieldVars, runVars, localVars, storeVars
    <2>2. QED
      BY <2>1, Threads, MoveFull
  <1>7. CASE UNCHANGED vars
    <2>1. UNCHANGED <<pc, boundTo, schedVars, cond, copied, updates, stopReason, report>>
      BY <1>7 DEF vars, fieldVars, runVars, localVars, storeVars
    <2>2. SaidUnschedulable' => SaidUnschedulable
      BY <2>1, NothingSaid
    <2>3. QED
      BY <2>1, <2>2, QuietFull
  <1>8. QED
    BY <1>1, <1>2, <1>3, <1>4, <1>5, <1>6, <1>7 DEF Next, Exited

LEMMA InitFull == Punctual /\ Init => FullInvariant
  <1> SUFFICES ASSUME Punctual, Init PROVE FullInvariant
    OBVIOUS
  <1>1. /\ seen = Nodes /\ \A p \in Pod : pc[p] = "idle" /\ target[p] = NoNode
        /\ pc[Listener] = "idle"
    BY Threads DEF Init
  <1>2. \A p \in Pod : /\ sched[p] \notin {"parked", "backoff", "assumed"}
                       /\ sched[p] = "active" => boundTo[p] = NoNode
    BY DEF Init
  <1>3. \A v \in Preemptible : boundTo[v] # NoNode /\ sched[v] = "known"
    BY Threads, PreemptionAssumption DEF Init
  <1>4. PodsInPlace
    BY <1>1, <1>2, <1>3, Threads DEF PodsInPlace
  <1>5. \A n \in Nodes : Nominees(n) = {}
    BY <1>1, NodesAssumption DEF Nominees
  <1>6. ~SaidUnschedulable
    BY <1>1, Threads DEF Init, SaidUnschedulable, NoCondition, NoReport
  <1>7. QED
    BY <1>4, <1>5, <1>6 DEF FullInvariant

\* Where every pod is between the API server and the scheduler, that a node is
\* full on which room was made for a pod, and that all are once Unschedulable was
\* said: for every cluster and every interleaving, if the informers are punctual.
THEOREM FullHolds == ASSUME Punctual PROVE Spec => []FullInvariant
  <1>1. Init => FullInvariant
    BY InitFull
  <1>2. TypeOK /\ FullInvariant /\ [Next]_vars => FullInvariant'
    BY NextFull
  <1>3. QED
    BY <1>1, <1>2, TypeCorrect, PTL DEF Spec

\* A report that says Unschedulable is right, for every cluster and every
\* interleaving, if the informers are punctual: whatever RejectPod or PreemptFor
\* told Update, no node had room, and none ever has again.
THEOREM UnschedulableHolds == ASSUME Punctual PROVE Spec => []UnschedulableIsExhaustive
  <1>1. FullInvariant => UnschedulableIsExhaustive
    BY DEF FullInvariant, SaidUnschedulable, UnschedulableIsExhaustive
  <1>2. QED
    BY <1>1, FullHolds, PTL

=============================================================================
