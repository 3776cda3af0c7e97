----------------------------- MODULE StopProofs -----------------------------
(***************************************************************************)
(* What follows when informers are punctual, nothing of the cluster can be *)
(* scheduled or evicted and none of its pods has a generated name: the     *)
(* analysis is stopped once, its report is complete, and every step of it  *)
(* is one of CapacityEstimate or none.                                     *)
(***************************************************************************)
EXTENDS OrderProofs

Undisturbed ==
    /\ NamesAreNew
    /\ Preemptible = {}
    /\ \A p \in Existing : Placement[p] = NoNode => \A n \in Nodes : p \notin Admits[n]

\* The goroutines that are stopping the analysis, and what each has said.
Stopper(t) == pc[t] \in {"setReason", "close", "send"}
ReasonOf(t) ==
    IF pc[t] = "setReason" THEN "none"
    ELSE IF t = Listener THEN "Unschedulable" ELSE "LimitReached"

\* An update that will make Update stop the analysis.
Signal(k) == updates[k].reason = "Unschedulable" /\ Provisioned(updates[k].pod)

\* Main has received the stop.
Ended == pc[Main] \in {"cancel", "closeStop", "returned", "exited"}

\* A pod of the analysis was rejected, for good.
Rejected == \E p \in Pod \ Existing : sched[p] = "parked"

\* What a pod was told does not outlive its being parked, so Bind copies no
\* condition.
FreshConditions ==
    /\ \A p \in Pod \ Existing : sched[p] # "parked" => cond[p] = NoCondition
    /\ \A p \in Pod : pc[p] = "update" => copied[p] = NoCondition

\* One stop is under way, from an update to Main.
OneStop ==
    /\ \A t, u \in {Listener} \cup Pod : Stopper(t) /\ Stopper(u) => t = u
    /\ \A j, k \in DOMAIN updates : Signal(j) /\ Signal(k) => j = k
    /\ \A t \in {Listener} \cup Pod : Stopper(t) =>
          ~Ended /\ stopReason = ReasonOf(t) /\ \A k \in DOMAIN updates : ~Signal(k)
    /\ \A k \in DOMAIN updates : Signal(k) => stopReason = "none"
    /\ stopReason # "none" => Ended \/ \E t \in {Listener} \cup Pod : Stopper(t)
    /\ Ended => stopReason # "none"

\* Update is told that a pod is unschedulable, or was.
Told ==
    \/ \E k \in DOMAIN updates : Signal(k)
    \/ Stopper(Listener)
    \/ stopReason = "Unschedulable"

\* The reason given is right: no pod is made after it.
Justified ==
    /\ Told => Rejected
    /\ Stopping => MaxSimulated > 0 /\ \A k \in Name : k \in created <=> k < Len(pods)

\* Main, what it does to the channel, and its report.
MainInvariant ==
    /\ pc[Main] \in Counting \cup {"sleep", "create", "wait", "cancel", "closeStop",
                                   "returned", "exited"}
    /\ stopOpen <=> pc[Main] \notin {"returned", "exited"}
    /\ report # NoReport => pc[Main] = "exited" /\ report.pods = pods

\* The pending pods of the cluster stay in the queue.
PendingStay == \A p \in Existing : Placement[p] = NoNode => sched[p] \in {"active", "parked"}

StopInvariant ==
    /\ FreshConditions /\ OneStop /\ Justified /\ MainInvariant /\ PendingStay

\* Who is about to send is the one who stops the analysis, before Main has ended.
LEMMA NoSend == StopInvariant => NoSendAfterClose
  <1>1. SUFFICES ASSUME StopInvariant, NEW t \in Thread, pc[t] = "send"
                 PROVE  stopOpen
    BY DEF NoSendAfterClose
  <1>2. t \in {Listener} \cup Pod
    BY <1>1 DEF StopInvariant, MainInvariant, Counting, Thread
  <1>3. ~Ended
    BY <1>1, <1>2 DEF StopInvariant, OneStop, Stopper
  <1>4. pc[Main] \notin {"returned", "exited"}
    BY <1>3 DEF Ended
  <1>5. QED
    BY <1>1, <1>4, Zenon DEF StopInvariant, MainInvariant

\* So nobody panics, nor does Run fail.
LEMMA NoPanic ==
    ASSUME StopInvariant
    PROVE  ~ReturnError /\ \A t \in Thread : ~Panic(t)
  <1>1. ~ReturnError
    BY DEF ReturnError, Goto, StopInvariant, MainInvariant, Counting
  <1>2. \A t \in Thread : ~Panic(t)
    BY NoSend DEF NoSendAfterClose, Panic
  <1>3. QED
    BY <1>1, <1>2


\* The invariants that other theorems rest on.
Known ==
    TypeOK /\ ChainInvariant /\ OrderInvariant /\ FullInvariant /\ ExactInvariant /\ NamesAreFresh

\* While the carrier of the chain is at work nobody stops the analysis.
LEMMA NobodyStops ==
    ASSUME Known, StopInvariant, NEW t \in {Main} \cup Pod, CarriesChain(t),
           t = Main \/ sched[t] # "parked"
    PROVE  /\ ~Stopping /\ ~Rejected /\ ~Ended /\ stopReason = "none" /\ report = NoReport
           /\ \A k \in DOMAIN updates : ~Signal(k)
           /\ \A u \in {Listener} \cup Pod : ~Stopper(u)
  <1>1. ~Stopping
    BY DEF Known, ExactInvariant, AtLimit
  <1>2. ~Rejected
    <2>1. SUFFICES ASSUME NEW p \in Pod \ Existing, sched[p] = "parked" PROVE FALSE
      BY DEF Rejected
    <2>2. pc[p] = "idle"
      BY <2>1 DEF Known, FullInvariant, PodsInPlace
    <2>3. p \in created
      BY <2>1 DEF Known, ChainInvariant, PodsAccounted
    <2>4. CarriesChain(p)
      BY <2>1, <2>2, <2>3 DEF CarriesChain
    <2>5. t = p
      BY <2>4 DEF Known, ChainInvariant, OneChain
    <2>6. QED
      BY <2>1, <2>5, Threads
  <1>3. ~Told
    BY <1>2 DEF StopInvariant, Justified
  <1>4. stopReason = "none"
    BY <1>1, <1>3 DEF Told, Stopping, Known, TypeOK, StopReason
  <1>5. ~Ended
    BY <1>4 DEF StopInvariant, OneStop
  <1>6. report = NoReport
    BY <1>5 DEF StopInvariant, MainInvariant, Ended
  <1>7. \A u \in {Listener} \cup Pod : ~Stopper(u)
    BY <1>1, <1>3 DEF Told, Stopping, Stopper
  <1>8. QED
    BY <1>1, <1>2, <1>3, <1>4, <1>5, <1>6, <1>7 DEF Told

\* The carrier moves on.
LEMMA MoveStop ==
    ASSUME Known, StopInvariant, NEW t \in {Main} \cup Pod, NEW to, CarriesChain(t),
           t = Main \/ sched[t] # "parked",
           pc' = [pc EXCEPT ![t] = to],
           to \notin {"setReason", "close", "send"},
           t = Main => to \in Counting \cup {"create", "wait"},
           FreshConditions',
           UNCHANGED <<stopReason, stopOpen, report, sched, updates>>
    PROVE  StopInvariant'
  <1>1. /\ ~Stopping /\ ~Rejected /\ ~Ended /\ stopReason = "none" /\ report = NoReport
        /\ \A k \in DOMAIN updates : ~Signal(k)
        /\ \A u \in {Listener} \cup Pod : ~Stopper(u)
    BY NobodyStops
  <1>2. /\ t \in Thread /\ pc'[t] = to
        /\ \A u \in Thread : u # t => pc'[u] = pc[u]
    BY Threads DEF Known, TypeOK
  <1>3. \A u \in {Listener} \cup Pod : ~Stopper(u)'
    BY <1>1, <1>2, Threads DEF Stopper
  <1>4. \A k \in DOMAIN updates' : ~Signal(k)'
    BY <1>1 DEF Signal
  <1>5. ~Ended'
    BY <1>1, <1>2, Threads DEF Ended, Counting
  <1>6. OneStop'
    BY <1>1, <1>3, <1>4, <1>5 DEF OneStop
  <1>7. ~Told' /\ ~Stopping'
    BY <1>1, <1>3, <1>4, Threads DEF Told, Stopping, Stopper
  <1>8. MainInvariant'
    BY <1>1, <1>2, <1>5, Threads DEF StopInvariant, MainInvariant, Ended, Counting
  <1>9. QED
    BY <1>6, <1>7, <1>8 DEF StopInvariant, Justified, PendingStay

LEMMA CreateNextPodStop ==
    ASSUME Known, StopInvariant, NEW t \in {Main} \cup Pod, CreateNextPod(t)
    PROVE  StopInvariant'
  <1>1. pc[t] \in Counting \cup {"create"}
    BY DEF CreateNextPod, GenerateName, LoadCounter, StoreCounter, LoadSimulated,
      StoreSimulated, CreatePod, CreateConflict, Goto, Counting
  <1>2. CarriesChain(t)
    BY <1>1, WorkerCarries DEF Known
  <1>3. t = Main \/ sched[t] # "parked"
    BY <1>1 DEF Known, FullInvariant, PodsInPlace, Counting
  <1>4. ~CreateConflict(t)
    BY Threads DEF CreateConflict, Goto, Known, NamesAreFresh
  <1>5. PICK to \in Counting \cup {"create", IF t = Main THEN "wait" ELSE "done"} :
          pc' = [pc EXCEPT ![t] = to]
    BY <1>4 DEF CreateNextPod, GenerateName, LoadCounter, StoreCounter, LoadSimulated,
      StoreSimulated, CreatePod, Goto, Counting
  <1>6. UNCHANGED <<stopReason, stopOpen, report, sched, updates, cond, copied>>
    BY <1>4 DEF CreateNextPod, GenerateName, LoadCounter, StoreCounter, LoadSimulated,
      StoreSimulated, CreatePod, fieldVars, runVars, localVars, storeVars, schedVars
  <1>7. FreshConditions'
    BY <1>5, <1>6, Threads DEF StopInvariant, FreshConditions, Known, TypeOK, Counting
  <1>8. QED
    BY <1>2, <1>3, <1>5, <1>6, <1>7, MoveStop DEF Counting

LEMMA BindingStop ==
    ASSUME Known, StopInvariant, NEW p \in Pod,
           GetPod(p) \/ UpdatePod(p) \/ LoadPods(p) \/ AppendPods(p) \/ CheckLimit(p)
    PROVE  StopInvariant'
  <1>1. pc[p] \in Binding \cup {"check"}
    BY DEF GetPod, UpdatePod, LoadPods, AppendPods, CheckLimit, Goto, Binding
  <1>2. p \in created \ Existing /\ CarriesChain(p)
    BY <1>1 DEF Known, ChainInvariant, PodsAccounted, ClusterPodsIdle, CarriesChain, Binding
  <1>3. sched[p] # "parked" /\ (pc[p] \in {"get", "update"} => sched[p] = "assumed")
    BY <1>1 DEF Known, FullInvariant, PodsInPlace, Binding
  <1>4. UNCHANGED <<stopReason, stopOpen, report, sched>>
    BY DEF GetPod, UpdatePod, LoadPods, AppendPods, CheckLimit, fieldVars, runVars, schedVars
  <1>5. PICK to \in {"update", "loadPods", "appendPods", "check", "setReason", "name"} :
          pc' = [pc EXCEPT ![p] = to]
    BY DEF GetPod, UpdatePod, LoadPods, AppendPods, CheckLimit, Goto
  <1>6. p # Main /\ p # Listener
    BY Threads
  <1>7. UNCHANGED updates /\ FreshConditions'
    <2>1. CASE GetPod(p)
      <3>1. /\ UNCHANGED <<updates, cond, sched>>
            /\ copied' = [copied EXCEPT ![p] = cond[p]]
        BY <2>1 DEF GetPod, storeVars, schedVars
      <3>2. cond[p] = NoCondition
        BY <1>2, <1>3 DEF StopInvariant, FreshConditions
      <3>3. QED
        BY <1>5, <3>1, <3>2, Threads DEF StopInvariant, FreshConditions, Known, TypeOK
    <2>2. CASE UpdatePod(p)
      <3>1. copied[p] = NoCondition
        BY <2>2 DEF UpdatePod, Goto, StopInvariant, FreshConditions
      <3>2. /\ UNCHANGED <<updates, copied, sched>>
            /\ cond' = [cond EXCEPT ![p] = NoCondition]
            /\ pc' = [pc EXCEPT ![p] = "loadPods"]
        BY <2>2, <3>1 DEF UpdatePod, Goto, localVars, schedVars
      <3>3. QED
        BY <3>2, Threads DEF StopInvariant, FreshConditions, Known, TypeOK
    <2>3. CASE LoadPods(p) \/ AppendPods(p) \/ CheckLimit(p)
      <3>1. UNCHANGED <<updates, cond, sched, copied>> /\ to # "update"
        BY <1>5, <2>3, Threads DEF LoadPods, AppendPods, CheckLimit, Goto, localVars,
          storeVars, schedVars, Known, TypeOK
      <3>2. QED
        BY <1>5, <3>1, Threads DEF StopInvariant, FreshConditions, Known, TypeOK
    <2>4. QED
      BY <2>1, <2>2, <2>3
  <1>8. CASE to # "setReason"
    BY <1>2, <1>3, <1>4, <1>5, <1>6, <1>7, <1>8, MoveStop
  <1>9. CASE to = "setReason"
    <2>1. /\ ~Stopping /\ ~Rejected /\ ~Ended /\ stopReason = "none" /\ report = NoReport
          /\ \A k \in DOMAIN updates : ~Signal(k)
          /\ \A u \in {Listener} \cup Pod : ~Stopper(u)
      BY <1>2, <1>3, NobodyStops
    <2>2. /\ pc'[p] = "setReason"
          /\ \A u \in Thread : u # p => pc'[u] = pc[u]
      BY <1>5, <1>9, Threads DEF Known, TypeOK
    <2>3. \A u \in {Listener} \cup Pod : Stopper(u)' <=> u = p
      BY <2>1, <2>2, Threads DEF Stopper
    <2>4. \A k \in DOMAIN updates' : ~Signal(k)'
      BY <1>7, <2>1 DEF Signal
    <2>5. ~Ended' /\ pc'[Main] = pc[Main]
      BY <1>6, <2>1, <2>2, Threads DEF Ended
    <2>6. ReasonOf(p)' = "none"
      BY <2>2 DEF ReasonOf
    <2>7. OneStop'
      BY <1>4, <2>1, <2>3, <2>4, <2>5, <2>6 DEF OneStop
    <2>8. ~Told'
      BY <1>4, <1>6, <2>1, <2>3, <2>4 DEF Told
    <2>9. CheckLimit(p) /\ LimitReached
      BY <1>5, <1>9, Threads DEF GetPod, UpdatePod, LoadPods, AppendPods, CheckLimit, Goto,
        Known, TypeOK
    <2>10. MaxSimulated > 0 /\ \A k \in Name : k \in created' <=> k < Len(pods')
      <3>1. OrderOf(p) /\ Made(p) \in Nat
        BY <1>2, CarrierMade DEF Known, OrderInvariant
      <3>2. pc[p] = "check" /\ UNCHANGED <<created, pods>>
        BY <2>9 DEF CheckLimit, Goto, fieldVars, storeVars
      <3>3. Len(pods) = Made(p)
        BY <3>1, <3>2 DEF OrderOf, Binding
      <3>4. QED
        BY <2>9, <3>1, <3>2, <3>3 DEF OrderOf, LimitReached
    <2>11. MainInvariant'
      BY <1>4, <2>1, <2>5 DEF StopInvariant, MainInvariant
    <2>12. QED
      BY <1>4, <1>7, <2>7, <2>8, <2>10, <2>11 DEF StopInvariant, Justified, PendingStay
  <1>10. QED
    BY <1>8, <1>9

LEMMA StopStop ==
    ASSUME Known, StopInvariant, NEW t \in {Listener} \cup Pod, SetStopReason(t) \/ Close(t)
    PROVE  StopInvariant'
  <1>1. t \in Thread /\ t # Main
    BY Threads
  <1>2. /\ pc[t] \in {"setReason", "close"} /\ pc'[t] \in {"close", "send"}
        /\ \A u \in Thread : u # t => pc'[u] = pc[u]
    BY <1>1 DEF SetStopReason, Close, Goto, Known, TypeOK
  <1>3. UNCHANGED <<pods, stopOpen, report, sched, updates, cond, copied, created>>
    BY DEF SetStopReason, Close, fieldVars, runVars, localVars, storeVars, schedVars
  <1>4. /\ ~Ended /\ \A k \in DOMAIN updates : ~Signal(k)
        /\ \A u \in {Listener} \cup Pod : Stopper(u) => u = t
        /\ stopReason = ReasonOf(t)
    BY <1>2 DEF StopInvariant, OneStop, Stopper
  <1>5. stopReason' = (IF t = Listener THEN "Unschedulable" ELSE "LimitReached")
    <2>1. CASE SetStopReason(t)
      BY <2>1 DEF SetStopReason
    <2>2. CASE Close(t)
      BY <1>4, <2>2 DEF Close, Goto, ReasonOf, fieldVars
    <2>3. QED
      BY <2>1, <2>2
  <1>6. \A u \in {Listener} \cup Pod : Stopper(u)' <=> u = t
    BY <1>2, <1>4, Threads DEF Stopper
  <1>7. ReasonOf(t)' = stopReason'
    BY <1>2, <1>5 DEF ReasonOf
  <1>8. ~Ended' /\ pc'[Main] = pc[Main]
    BY <1>1, <1>2, <1>4, Threads DEF Ended
  <1>9. \A k \in DOMAIN updates' : ~Signal(k)'
    BY <1>3, <1>4 DEF Signal
  <1>10. OneStop'
    BY <1>5, <1>6, <1>7, <1>8, <1>9 DEF OneStop
  <1>11. Told' => Told
    BY <1>2, <1>5, <1>6, <1>9, Threads DEF Told, Stopper
  <1>12. Stopping' => Stopping
    BY <1>1, <1>2, <1>5, Threads DEF Stopping
  <1>13. Justified'
    BY <1>3, <1>11, <1>12 DEF StopInvariant, Justified, Rejected
  <1>14. FreshConditions'
    BY <1>2, <1>3, Threads DEF StopInvariant, FreshConditions
  <1>15. QED
    BY <1>3, <1>8, <1>10, <1>13, <1>14 DEF StopInvariant, MainInvariant, PendingStay

\* Main takes the only stop there is.
LEMMA ReceiveStopStop ==
    ASSUME Known, StopInvariant, NEW t \in Thread, ReceiveStop(t)
    PROVE  StopInvariant'
  <1>1. t \in {Listener} \cup Pod /\ pc[t] = "send" /\ pc[Main] = "wait" /\ t # Main
    BY Threads DEF ReceiveStop, Thread
  <1>2. /\ pc'[Main] = "cancel" /\ pc'[t] \in {"idle", "done"}
        /\ \A u \in Thread : u \notin {t, Main} => pc'[u] = pc[u]
    BY <1>1, Threads DEF ReceiveStop, Known, TypeOK
  <1>3. UNCHANGED <<pods, stopReason, stopOpen, report, sched, updates, cond, copied, created>>
    BY DEF ReceiveStop, fieldVars, runVars, localVars, storeVars, schedVars
  <1>4. /\ \A k \in DOMAIN updates : ~Signal(k)
        /\ \A u \in {Listener} \cup Pod : Stopper(u) => u = t
        /\ stopReason # "none"
    BY <1>1 DEF StopInvariant, OneStop, Stopper, ReasonOf
  <1>5. \A u \in {Listener} \cup Pod : ~Stopper(u)'
    BY <1>1, <1>2, <1>4, Threads DEF Stopper
  <1>6. \A k \in DOMAIN updates' : ~Signal(k)'
    BY <1>3, <1>4 DEF Signal
  <1>7. Ended'
    BY <1>2 DEF Ended
  <1>8. OneStop'
    BY <1>3, <1>4, <1>5, <1>6, <1>7 DEF OneStop
  <1>9. Told' => Told
    BY <1>3, <1>5, <1>6 DEF Told
  <1>10. Stopping' => Stopping
    BY <1>3, <1>5 DEF Stopping, Stopper
  <1>11. Justified'
    BY <1>3, <1>9, <1>10 DEF StopInvariant, Justified, Rejected
  <1>12. FreshConditions'
    BY <1>1, <1>2, <1>3, Threads DEF StopInvariant, FreshConditions
  <1>13. MainInvariant'
    BY <1>1, <1>2, <1>3 DEF StopInvariant, MainInvariant
  <1>14. QED
    BY <1>3, <1>8, <1>11, <1>12, <1>13 DEF StopInvariant, PendingStay

\* Main ends.
LEMMA EndStop ==
    ASSUME Known, StopInvariant, CancelScheduler \/ CloseStop \/ MakeReport
    PROVE  StopInvariant'
  <1>1. /\ pc[Main] \in {"cancel", "closeStop", "returned"}
        /\ pc'[Main] \in {"closeStop", "returned", "exited"}
        /\ \A u \in Thread : u # Main => pc'[u] = pc[u]
    <2>1. pc[Main] # "closeAborted"
      BY DEF StopInvariant, MainInvariant, Counting
    <2>2. \/ Goto(Main, "cancel", "closeStop") \/ Goto(Main, "closeStop", "returned")
          \/ Goto(Main, "returned", "exited")
      BY <2>1 DEF CancelScheduler, CloseStop, MakeReport, Goto
    <2>3. QED
      BY <2>2, Threads DEF Goto, Known, TypeOK
  <1>2. UNCHANGED <<pods, stopReason, sched, updates, cond, copied, created>>
    BY DEF CancelScheduler, CloseStop, MakeReport, fieldVars, localVars, storeVars, schedVars
  <1>3. \A u \in {Listener} \cup Pod : /\ Stopper(u)' <=> Stopper(u)
                                       /\ ReasonOf(u)' = ReasonOf(u)
    BY <1>1, Threads DEF Stopper, ReasonOf
  <1>4. \A k \in DOMAIN updates : Signal(k)' <=> Signal(k)
    BY <1>2 DEF Signal
  <1>5. Ended /\ Ended'
    BY <1>1 DEF Ended
  <1>6. OneStop'
    BY <1>2, <1>3, <1>4, <1>5 DEF StopInvariant, OneStop
  <1>7. Told' => Told
    BY <1>2, <1>3, <1>4 DEF Told
  <1>8. Stopping' => Stopping
    BY <1>1, <1>2, Threads DEF Stopping
  <1>9. Justified'
    BY <1>2, <1>7, <1>8 DEF StopInvariant, Justified, Rejected
  <1>10. FreshConditions'
    BY <1>1, <1>2, Threads DEF StopInvariant, FreshConditions
  <1>11. report = NoReport
    BY <1>1 DEF StopInvariant, MainInvariant
  <1>12. MainInvariant'
    <2>1. CASE CancelScheduler
      BY <1>11, <2>1, Threads DEF CancelScheduler, Goto, StopInvariant, MainInvariant, Known,
        TypeOK
    <2>2. CASE CloseStop
      BY <1>1, <1>11, <2>2, Threads DEF CloseStop, Goto, StopInvariant, MainInvariant, Known,
        TypeOK
    <2>3. CASE MakeReport
      BY <1>2, <2>3, Threads DEF MakeReport, Goto, StopInvariant, MainInvariant, Known, TypeOK
    <2>4. QED
      BY <2>1, <2>2, <2>3
  <1>13. QED
    BY <1>2, <1>6, <1>9, <1>10, <1>12 DEF StopInvariant, PendingStay

LEMMA MainStepStop ==
    ASSUME Known, StopInvariant, MainStep
    PROVE  StopInvariant'
  <1>1. CASE WakeUp
    <2>1. CarriesChain(Main)
      BY <1>1 DEF WakeUp, Goto, CarriesChain
    <2>2. /\ pc' = [pc EXCEPT ![Main] = "name"]
          /\ UNCHANGED <<stopReason, stopOpen, report, sched, updates, cond, copied>>
      BY <1>1 DEF WakeUp, Goto, fieldVars, runVars, localVars, storeVars, schedVars
    <2>3. FreshConditions'
      BY <2>2, Threads DEF StopInvariant, FreshConditions, Known, TypeOK
    <2>4. QED
      BY <2>1, <2>2, <2>3, MoveStop DEF Counting
  <1>2. ~AbortRun
    BY DEF AbortRun, Goto, StopInvariant, MainInvariant, Counting
  <1>3. QED
    BY <1>1, <1>2, NoPanic, CreateNextPodStop, ReceiveStopStop, EndStop DEF MainStep

LEMMA DeliverUpdateStop ==
    ASSUME Known, StopInvariant, DeliverUpdate
    PROVE  StopInvariant'
  <1>1. /\ updates # <<>> /\ updates' = Tail(updates) /\ updates \in Seq(Update)
        /\ pc[Listener] = "idle"
        /\ UNCHANGED <<pods, stopReason, stopOpen, report, sched, cond, copied, created>>
    BY DEF DeliverUpdate, fieldVars, runVars, localVars, schedVars, Known, TypeOK
  <1>2. \A k \in DOMAIN updates' : k \in Nat /\ k + 1 \in DOMAIN updates
                                   /\ updates'[k] = updates[k + 1]
    BY <1>1
  <1>3. 1 \in DOMAIN updates /\ Head(updates) = updates[1]
    BY <1>1
  <1>4. \A k \in DOMAIN updates' : Signal(k)' => Signal(k + 1)
    BY <1>2 DEF Signal
  <1>5. \A u \in Thread : u # Listener => pc'[u] = pc[u]
    BY Threads DEF DeliverUpdate, Known, TypeOK
  <1>6. FreshConditions'
    BY <1>1, <1>5, Threads DEF StopInvariant, FreshConditions
  <1>7. MainInvariant'
    BY <1>1, <1>5, Threads DEF StopInvariant, MainInvariant
  <1>8. Stopping' => Stopping
    BY <1>1, <1>5, Threads DEF Stopping
  <1>9. \A u \in Pod : Stopper(u)' <=> Stopper(u)
    BY <1>5, Threads DEF Stopper
  <1>10. Ended' <=> Ended
    BY <1>5, Threads DEF Ended
  <1>11. CASE Signal(1)
    <2>1. pc'[Listener] = "setReason"
      BY <1>3, <1>11, Threads DEF DeliverUpdate, Signal, Known, TypeOK
    <2>2. \A k \in DOMAIN updates' : ~Signal(k)'
      <3>1. SUFFICES ASSUME NEW k \in DOMAIN updates', Signal(k)' PROVE FALSE
        OBVIOUS
      <3>2. k \in Nat /\ k + 1 \in DOMAIN updates /\ Signal(k + 1)
        BY <1>2, <1>4, <3>1
      <3>3. k + 1 = 1 /\ k >= 1
        BY <1>1, <1>3, <1>11, <3>2, <3>1 DEF StopInvariant, OneStop
      <3>4. QED
        BY <3>2, <3>3
    <2>3. stopReason = "none" /\ ~Ended /\ \A u \in Pod : ~Stopper(u)
      BY <1>3, <1>11 DEF StopInvariant, OneStop
    <2>4. ReasonOf(Listener)' = "none"
      BY <2>1 DEF ReasonOf
    <2>5. \A u \in {Listener} \cup Pod : Stopper(u)' <=> u = Listener
      BY <1>9, <2>1, <2>3, Threads DEF Stopper
    <2>6. OneStop'
      BY <1>1, <1>10, <2>2, <2>3, <2>4, <2>5 DEF OneStop
    <2>7. Told
      BY <1>3, <1>11 DEF Told
    <2>8. Justified'
      BY <1>1, <1>8, <2>7 DEF StopInvariant, Justified, Rejected
    <2>9. QED
      BY <1>1, <1>6, <1>7, <2>6, <2>8 DEF StopInvariant, PendingStay
  <1>12. CASE ~Signal(1)
    <2>1. UNCHANGED pc
      BY <1>3, <1>12 DEF DeliverUpdate, Signal
    <2>2. \A u \in {Listener} \cup Pod : /\ Stopper(u)' <=> Stopper(u)
                                         /\ ReasonOf(u)' = ReasonOf(u)
      BY <2>1 DEF Stopper, ReasonOf
    <2>3. \A j, k \in DOMAIN updates' : Signal(j)' /\ Signal(k)' => j = k
      <3>1. SUFFICES ASSUME NEW j \in DOMAIN updates', NEW k \in DOMAIN updates',
                            Signal(j)', Signal(k)'
                     PROVE  j = k
        OBVIOUS
      <3>2. j \in Nat /\ k \in Nat /\ j + 1 = k + 1
        BY <1>2, <1>4, <3>1 DEF StopInvariant, OneStop
      <3>3. QED
        BY <3>2
    <2>4. OneStop'
      BY <1>1, <1>2, <1>4, <1>10, <2>2, <2>3 DEF StopInvariant, OneStop
    <2>5. Told' => Told
      BY <1>1, <1>2, <1>4, <2>2 DEF Told
    <2>6. Justified'
      BY <1>1, <1>8, <2>5 DEF StopInvariant, Justified, Rejected
    <2>7. QED
      BY <1>1, <1>6, <1>7, <2>4, <2>6 DEF StopInvariant, PendingStay
  <1>13. QED
    BY <1>11, <1>12

\* The scheduler and the informers, as long as no pod of the analysis is parked
\* and none leaves the parked ones.
LEMMA QuietStop ==
    ASSUME StopInvariant,
           \A t \in Thread :
               \/ pc'[t] = pc[t]
               \/ t \in Pod /\ pc[t] \in {"idle", "done"} /\ pc'[t] = "get",
           \A p \in Pod \ Existing : sched'[p] = "parked" <=> sched[p] = "parked",
           PendingStay',
           \A p \in Pod \ Existing : cond'[p] = cond[p],
           \A k \in DOMAIN updates' :
               \/ k \in DOMAIN updates /\ updates'[k] = updates[k]
               \/ ~Signal(k)',
           \A k \in DOMAIN updates : k \in DOMAIN updates' /\ updates'[k] = updates[k],
           UNCHANGED <<pods, stopReason, stopOpen, report, copied, created>>
    PROVE  StopInvariant'
  <1>1. \A u \in {Listener} \cup Pod : /\ Stopper(u)' <=> Stopper(u)
                                       /\ ReasonOf(u)' = ReasonOf(u)
    BY Threads DEF Stopper, ReasonOf
  <1>2. pc'[Main] = pc[Main]
    BY Threads
  <1>3. Ended' <=> Ended
    BY <1>2 DEF Ended
  <1>4. \A k \in DOMAIN updates' : Signal(k)' => k \in DOMAIN updates /\ Signal(k)
    BY DEF Signal
  <1>5. OneStop'
    BY <1>1, <1>3, <1>4 DEF StopInvariant, OneStop
  <1>6. (Told' => Told) /\ (Rejected' <=> Rejected)
    BY <1>1, <1>4 DEF Told, Rejected
  <1>7. Stopping' => Stopping
    BY Threads DEF Stopping
  <1>8. Justified'
    BY <1>6, <1>7 DEF StopInvariant, Justified
  <1>9. FreshConditions'
    BY Threads DEF StopInvariant, FreshConditions
  <1>10. MainInvariant'
    BY <1>2 DEF StopInvariant, MainInvariant
  <1>11. QED
    BY <1>5, <1>8, <1>9, <1>10 DEF StopInvariant

\* Nothing of the cluster is scheduled.
LEMMA PopsPending ==
    ASSUME Undisturbed, Known, StopInvariant, NEW p \in Existing, sched[p] = "active"
    PROVE  Placement[p] = NoNode /\ Feasible(p) = {}
  <1>1. Placement[p] = NoNode
    BY DEF Known, ChainInvariant, ClusterPodsIdle
  <1>2. ~Provisioned(p)
    BY DEF Provisioned
  <1>3. \A n \in Nodes : ~Accepts(n, p)
    BY <1>1, <1>2 DEF Undisturbed, Accepts
  <1>4. QED
    BY <1>1, <1>3 DEF Feasible, Known, TypeOK

\* A pod of the analysis is rejected: the only one, and the first.
LEMMA RejectStop ==
    ASSUME Undisturbed, Known, StopInvariant, NEW p \in Pod, RejectPod(p)
    PROVE  StopInvariant'
  <1>1. /\ sched[p] = "active" /\ pc[p] \in {"idle", "done"}
        /\ sched' = [sched EXCEPT ![p] = "parked"]
        /\ UNCHANGED <<pc, pods, stopReason, stopOpen, report, copied, created>>
    BY DEF RejectPod, Pop, fieldVars, runVars, localVars
  <1>2. PendingStay'
    BY <1>1 DEF StopInvariant, PendingStay, Known, TypeOK, Pod
  <1>3. PICK c \in Condition : c.reason = "Unschedulable" /\ PatchCondition(p, c)
    BY NodesAssumption DEF RejectPod, Condition, Reason, Known, TypeOK
  <1>4. /\ cond' = [cond EXCEPT ![p] = c]
        /\ updates' = updates \/ updates' = Append(updates, [pod |-> p, reason |-> c.reason])
        /\ updates \in Seq(Update)
    BY <1>3 DEF PatchCondition, Known, TypeOK
  <1>5. CASE p \in Existing
    <2>1. /\ \A k \in DOMAIN updates : k \in DOMAIN updates' /\ updates'[k] = updates[k]
          /\ \A k \in DOMAIN updates' : k \in DOMAIN updates \/ updates'[k].pod = p
      BY <1>4
    <2>2. \A k \in DOMAIN updates' : k \in DOMAIN updates \/ ~Signal(k)'
      BY <1>5, <2>1 DEF Signal, Provisioned
    <2>3. /\ \A q \in Pod \ Existing : cond'[q] = cond[q]
          /\ \A q \in Pod \ Existing : sched'[q] = sched[q]
      BY <1>1, <1>4, <1>5 DEF Known, TypeOK
    <2>4. QED
      BY <1>1, <1>2, <2>1, <2>2, <2>3, QuietStop
  <1>6. CASE p \notin Existing
    <2>1. p \in created /\ CarriesChain(p)
      BY <1>1, <1>6 DEF Known, ChainInvariant, PodsAccounted, CarriesChain
    <2>2. /\ ~Stopping /\ ~Rejected /\ ~Ended /\ stopReason = "none" /\ report = NoReport
          /\ \A k \in DOMAIN updates : ~Signal(k)
          /\ \A u \in {Listener} \cup Pod : ~Stopper(u)
      BY <1>1, <2>1, NobodyStops
    <2>3. \A j \in DOMAIN updates' : Signal(j)' => j = Len(updates) + 1
      BY <1>4, <2>2 DEF Signal
    <2>4. /\ \A u \in {Listener} \cup Pod : ~Stopper(u)'
          /\ ~Ended'
      BY <1>1, <2>2 DEF Stopper, Ended
    <2>5. OneStop'
      BY <1>1, <2>2, <2>3, <2>4 DEF OneStop
    <2>6. Rejected'
      BY <1>1, <1>6 DEF Rejected, Known, TypeOK
    <2>7. ~Stopping'
      BY <1>1, <2>2 DEF Stopping
    <2>8. FreshConditions'
      BY <1>1, <1>4 DEF StopInvariant, FreshConditions, Known, TypeOK
    <2>9. MainInvariant'
      BY <1>1 DEF StopInvariant, MainInvariant
    <2>10. QED
      BY <1>2, <2>5, <2>6, <2>7, <2>8, <2>9 DEF StopInvariant, Justified
  <1>7. QED
    BY <1>5, <1>6

LEMMA NoPreemption ==
    ASSUME Undisturbed, Known, NEW p \in Pod
    PROVE  ~PreemptFor(p)
  <1>1. SUFFICES ASSUME NEW n \in seen, NEW V \in VictimSets(n, p), Feasible(p) = {}
                 PROVE  FALSE
    BY DEF PreemptFor
  <1>2. Provisioned(p) /\ V = {} /\ Cardinality(V) = Cardinality(Rivals(n, p)) - Capacity[n] + 1
    BY <1>1 DEF VictimSets, Undisturbed
  <1>3. n \in Nodes /\ ~HasRoom(n, p)
    BY <1>1, <1>2 DEF Feasible, Accepts, Known, TypeOK
  <1>4. Rivals(n, p) \subseteq Pod
    BY DEF Rivals, Occupants, Nominees
  <1>5. Cardinality(Rivals(n, p)) \in Nat /\ Capacity[n] \in Nat
    BY <1>3, <1>4, PodsFinite, FS_Subset, FS_CardinalityType, NodesAssumption
  <1>6. Cardinality(V) = 0
    BY <1>2, FS_EmptySet
  <1>7. QED
    BY <1>2, <1>3, <1>5, <1>6 DEF HasRoom

LEMMA QueueStop ==
    ASSUME Punctual, Undisturbed, Known, StopInvariant,
           \/ \E p \in Pod : SchedulePod(p) \/ EndBackoff(p) \/ SeePod(p) \/ SeeBinding(p)
           \/ \E n \in Nodes : SeeNode(n)
           \/ \E v \in Preemptible : Evict(v) \/ SeeDeletion(v)
           \/ UNCHANGED vars
    PROVE  StopInvariant'
  <1>1. ASSUME NEW p \in Pod, SchedulePod(p) PROVE StopInvariant'
    <2>1. p \notin Existing
      BY <1>1, PopsPending DEF SchedulePod, Pop
    <2>2. /\ sched[p] = "active" /\ pc[p] \in {"idle", "done"}
          /\ sched' = [sched EXCEPT ![p] = "assumed"]
          /\ pc' = pc \/ pc' = [pc EXCEPT ![p] = "get"]
          /\ UNCHANGED <<cond, updates, pods, stopReason, stopOpen, report, copied, created>>
      BY <1>1 DEF SchedulePod, Pop, fieldVars, runVars, localVars, storeVars
    <2>3. PendingStay'
      BY <2>1, <2>2 DEF StopInvariant, PendingStay, Known, TypeOK, Pod
    <2>4. /\ \A q \in Pod \ Existing : sched'[q] = "parked" <=> sched[q] = "parked"
          /\ \A t \in Thread : \/ pc'[t] = pc[t]
                               \/ t \in Pod /\ pc[t] \in {"idle", "done"} /\ pc'[t] = "get"
      BY <2>2, Threads DEF Known, TypeOK
    <2>5. QED
      BY <2>2, <2>3, <2>4, QuietStop
  <1>2. ASSUME NEW p \in Pod, SeePod(p) \/ SeeBinding(p) PROVE StopInvariant'
    <2>1. /\ sched[p] # "parked" /\ \A q \in Pod : q # p => sched'[q] = sched[q]
          /\ sched'[p] # "parked"
          /\ UNCHANGED <<pc, cond, updates, pods, stopReason, stopOpen, report, copied, created>>
      BY <1>2 DEF SeePod, SeeBinding, fieldVars, runVars, localVars, storeVars, Known, TypeOK,
        FullInvariant, PodsInPlace
    <2>2. p \in Existing => Placement[p] # NoNode
      BY <1>2 DEF SeePod, SeeBinding, StopInvariant, PendingStay, Known, ChainInvariant,
        ClusterPodsIdle
    <2>3. PendingStay'
      BY <2>1, <2>2 DEF StopInvariant, PendingStay, Pod
    <2>4. QED
      BY <2>1, <2>3, QuietStop
  <1>3. CASE UNCHANGED vars
    <2>1. UNCHANGED <<pc, sched, cond, updates, pods, stopReason, stopOpen, report, copied,
                      created>>
      BY <1>3 DEF vars, fieldVars, runVars, localVars, storeVars, schedVars
    <2>2. PendingStay'
      BY <2>1 DEF StopInvariant, PendingStay
    <2>3. QED
      BY <2>1, <2>2, QuietStop
  <1>4. ASSUME NEW p \in Pod PROVE ~EndBackoff(p)
    BY DEF EndBackoff
  <1>5. ASSUME NEW n \in Nodes PROVE ~SeeNode(n)
    BY DEF SeeNode, Known, FullInvariant, PodsInPlace
  <1>6. QED
    BY <1>1, <1>2, <1>3, <1>4, <1>5 DEF Undisturbed

LEMMA NextStop ==
    Punctual /\ Undisturbed /\ Known /\ StopInvariant /\ [Next]_vars => StopInvariant'
  <1> SUFFICES ASSUME Punctual, Undisturbed, Known, StopInvariant, [Next]_vars
               PROVE  StopInvariant'
    OBVIOUS
  <1>1. ASSUME NEW p \in Pod PROVE ~ForgetPod(p) /\ ~PatchBindError(p)
    BY DEF Known, OrderInvariant, ForgetPod, PatchBindError, Goto
  <1>2. ASSUME NEW p \in Pod, BindingCycle(p) PROVE StopInvariant'
    BY <1>1, <1>2, BindingStop, CreateNextPodStop, StopStop DEF BindingCycle
  <1>3. CASE ListenerStep
    BY <1>3, DeliverUpdateStop, StopStop DEF ListenerStep
  <1>4. QED
    BY <1>2, <1>3, NoPanic, MainStepStop, RejectStop, NoPreemption, QueueStop
    DEF Next, PodStep, Exited

LEMMA InitStop == Punctual /\ Undisturbed /\ Init => StopInvariant
  <1> SUFFICES ASSUME Punctual, Undisturbed, Init PROVE StopInvariant
    OBVIOUS
  <1>1. /\ pc[Main] = "sleep" /\ \A u \in {Listener} \cup Pod : ~Stopper(u) /\ pc[u] = "idle"
    BY Threads DEF Init, Stopper
  <1>2. OneStop /\ ~Told /\ ~Stopping
    <2>1. DOMAIN updates = {} /\ stopReason = "none" /\ ~Ended
      BY <1>1 DEF Init, Ended
    <2>2. \A p \in Pod : ~Stopper(p)
      BY <1>1
    <2>3. QED
      BY <1>1, <2>1, <2>2 DEF OneStop, Told, Stopping, Stopper
  <1>3. FreshConditions
    BY <1>1 DEF Init, FreshConditions
  <1>4. PendingStay
    BY DEF Init, PendingStay, Pod
  <1>5. QED
    BY <1>1, <1>2, <1>3, <1>4 DEF Init, StopInvariant, Justified, MainInvariant

\* All the invariants together.
Invariants == Known /\ RoomInvariant /\ BoundInvariant /\ StopInvariant

LEMMA InvariantsHold == ASSUME Punctual, Undisturbed PROVE Spec => []Invariants
  <1>1. NoPendingFits /\ NamesAreNew
    BY DEF Undisturbed, NoPendingFits
  <1>2. Init => FullInvariant /\ ExactInvariant /\ RoomInvariant /\ BoundInvariant /\ StopInvariant
    BY InitFull, InitExact, InitRoom, InitBound, InitStop
  <1>3. TypeOK /\ FullInvariant /\ [Next]_vars => FullInvariant'
    BY NextFull
  <1>4. TypeOK /\ ChainInvariant /\ ExactInvariant /\ [Next]_vars => ExactInvariant'
    BY NextExact
  <1>5. TypeOK /\ FullInvariant /\ OrderInvariant /\ RoomInvariant /\ [Next]_vars
        => RoomInvariant'
    BY <1>1, NextRoom
  <1>6. TypeOK /\ BoundInvariant /\ [Next]_vars => BoundInvariant'
    BY NextBound
  <1>7. Known /\ StopInvariant /\ [Next]_vars => StopInvariant'
    BY NextStop
  <1>8. Spec => []TypeOK /\ []ChainInvariant /\ []OrderInvariant /\ []NamesAreFresh
    BY <1>1, TypeCorrect, ChainHolds, OrderHolds, FreshNamesHold, PTL
  <1>9. Known <=> /\ TypeOK /\ ChainInvariant /\ OrderInvariant /\ FullInvariant
                  /\ ExactInvariant /\ NamesAreFresh
    BY DEF Known
  <1>10. Spec => []FullInvariant
    BY <1>2, <1>3, TypeCorrect, PTL DEF Spec
  <1>11. Spec => []ExactInvariant
    BY <1>2, <1>4, TypeCorrect, <1>8, PTL DEF Spec
  <1>12. Spec => []Known
    BY <1>8, <1>9, <1>10, <1>11, PTL
  <1>13. Spec => []RoomInvariant
    BY <1>2, <1>5, <1>8, <1>10, PTL DEF Spec
  <1>14. Spec => []BoundInvariant
    BY <1>2, <1>6, <1>8, PTL DEF Spec
  <1>15. Spec => []StopInvariant
    BY <1>2, <1>7, <1>12, PTL DEF Spec
  <1>16. QED
    BY <1>12, <1>13, <1>14, <1>15, PTL DEF Invariants

-----------------------------------------------------------------------------
\* No goroutine sends on c.stop once Run has closed it: the limit and a rejected
\* pod exclude each other, and each is noticed once.
THEOREM NoSendHolds ==
    ASSUME Punctual, Undisturbed PROVE Spec => []NoSendAfterClose
  <1>1. Invariants => NoSendAfterClose
    BY NoSend DEF Invariants
  <1>2. QED
    BY <1>1, InvariantsHold, PTL

\* So the close of c.stop meets nobody, and no goroutine panics, for every
\* cluster that leaves the analysis undisturbed, every limit and every
\* interleaving, if the informers are punctual.
THEOREM NeverCrashesHolds ==
    ASSUME Punctual, Undisturbed PROVE Spec => []NeverCrashes
  <1>1. Invariants => NeverCrashes
    BY DEF Invariants, StopInvariant, MainInvariant, Counting, NeverCrashes
  <1>2. QED
    BY <1>1, InvariantsHold, PTL

LEMMA FinalStep ==
    StopInvariant /\ [Next]_vars => (stopReason # "none" => stopReason' = stopReason)
  <1>1. SUFFICES ASSUME StopInvariant, [Next]_vars, stopReason' # stopReason
                 PROVE  stopReason = "none"
    BY DEF Invariants
  <1>2. PICK t \in {Listener} \cup Pod : SetStopReason(t)
    BY <1>1 DEF Next, MainStep, ListenerStep, PodStep, BindingCycle, Exited, vars, fieldVars,
      WakeUp, CreateNextPod, GenerateName, LoadCounter, StoreCounter, LoadSimulated,
      StoreSimulated, CreatePod, CreateConflict, ReceiveStop, CancelScheduler, AbortRun,
      CloseStop, ReturnError, MakeReport, Panic, Close, GetPod, UpdatePod, LoadPods, AppendPods, CheckLimit,
      ForgetPod, PatchBindError, SchedulePod, RejectPod, PreemptFor, Evict, EndBackoff,
      SeeNode, SeePod, SeeBinding, SeeDeletion, DeliverUpdate
  <1>3. Stopper(t) /\ ReasonOf(t) = "none"
    BY <1>2 DEF SetStopReason, Goto, Stopper, ReasonOf
  <1>4. QED
    BY <1>1, <1>3 DEF StopInvariant, OneStop

\* Nothing replaces the stop reason, before the report or after it.
THEOREM FinalHolds ==
    ASSUME Punctual, Undisturbed PROVE Spec => StopReasonIsFinal
  <1>1. Invariants /\ [Next]_vars => [stopReason # "none" => stopReason' = stopReason]_vars
    BY FinalStep DEF Invariants
  <1>2. QED
    BY <1>1, InvariantsHold, PTL DEF Spec, StopReasonIsFinal

\* Once the analysis is being stopped, the pods it has placed are those it lists.
LEMMA AllPlacedListed ==
    ASSUME Invariants, stopReason # "none"
    PROVE  \A p \in Pod \ Existing : boundTo[p] # NoNode => p \in Nat /\ p < Len(pods)
  <1> SUFFICES ASSUME NEW p \in Pod \ Existing, boundTo[p] # NoNode
               PROVE  p \in Nat /\ p < Len(pods)
    OBVIOUS
  <1>1. p \in Name /\ p \in Nat
    BY DEF Pod, Name
  <1>2. sched[p] \in {"assumed", "known"}
    BY PreemptionAssumption DEF Invariants, RoomInvariant, Counted
  <1>3. p \in created
    BY <1>2 DEF Invariants, Known, ChainInvariant, PodsAccounted
  <1>4. CASE stopReason = "LimitReached"
    BY <1>1, <1>3, <1>4 DEF Invariants, StopInvariant, Justified, Stopping
  <1>5. CASE stopReason = "Unschedulable"
    <2>1. PICK q \in Pod \ Existing : sched[q] = "parked"
      BY <1>5 DEF Invariants, StopInvariant, Justified, Told, Rejected
    <2>2. pc[q] = "idle" /\ q \in created /\ CarriesChain(q)
      BY <2>1 DEF Invariants, Known, FullInvariant, PodsInPlace, ChainInvariant, PodsAccounted,
        CarriesChain
    <2>3. q \in Nat /\ Made(q) = q + 1 /\ OrderOf(q)
      BY <2>1, <2>2, CarrierMade, Threads DEF Invariants, Known, OrderInvariant, Name
    <2>4. Len(pods) = q /\ p < q + 1
      BY <1>1, <1>3, <2>2, <2>3 DEF OrderOf, Binding
    <2>5. p # q
      BY <1>2, <2>1
    <2>6. QED
      BY <1>1, <2>3, <2>4, <2>5
  <1>6. QED
    BY <1>4, <1>5 DEF Invariants, Known, TypeOK, StopReason

\* The report lists every pod the analysis has placed, once.
THEOREM CompleteHolds ==
    ASSUME Punctual, Undisturbed PROVE Spec => []ReportIsComplete
  <1>1. Invariants => ReportIsComplete
    <2>1. SUFFICES ASSUME Invariants, HasReport
                   PROVE  /\ {report.pods[i] : i \in 1..Len(report.pods)} = PlacedPods
                          /\ Len(report.pods) = Cardinality(PlacedPods)
      BY DEF ReportIsComplete
    <2>2. report.pods = pods /\ stopReason # "none"
      BY <2>1 DEF HasReport, Invariants, StopInvariant, MainInvariant, OneStop, Ended
    <2>3. PodsInOrder /\ pods \in Seq(Pod) /\ Len(pods) \in Nat
      BY <2>1 DEF Invariants, Known, OrderInvariant, TypeOK
    <2>4. \A i \in 1..Len(pods) : pods[i] = i - 1 /\ pods[i] \in PlacedPods
      BY <2>1, <2>3 DEF Invariants, BoundInvariant, ListedPodsAreBound, PodsInOrder
    <2>5. \A p \in PlacedPods : p \in 0..(Len(pods) - 1)
      <3>1. SUFFICES ASSUME NEW p \in PlacedPods PROVE p \in 0..(Len(pods) - 1)
        OBVIOUS
      <3>2. p \notin Existing
        BY <2>1 DEF PlacedPods, Invariants, Known, ChainInvariant, ClusterPodsIdle
      <3>3. p \in Nat /\ p < Len(pods)
        BY <2>1, <2>2, <3>2, AllPlacedListed DEF PlacedPods
      <3>4. QED
        BY <2>3, <3>3
    <2>6. \A k \in 0..(Len(pods) - 1) : k + 1 \in 1..Len(pods) /\ pods[k + 1] = k
      BY <2>3, <2>4
    <2>7. PlacedPods = 0..(Len(pods) - 1)
      BY <2>4, <2>5, <2>6
    <2>8. {pods[i] : i \in 1..Len(pods)} = PlacedPods
      BY <2>4, <2>6, <2>7
    <2>9. Cardinality(0..(Len(pods) - 1)) = Len(pods)
      <3>1. Len(pods) - 1 \in Int
        BY <2>3
      <3>2. Cardinality(0..(Len(pods) - 1)) =
                IF 0 > Len(pods) - 1 THEN 0 ELSE (Len(pods) - 1) - 0 + 1
        BY <3>1, FS_Interval
      <3>3. QED
        BY <2>3, <3>2
    <2>10. QED
      BY <2>2, <2>7, <2>8, <2>9
  <1>2. QED
    BY <1>1, InvariantsHold, PTL

-----------------------------------------------------------------------------
(***************************************************************************)
(* The estimate.  Estimate!Used counts the listed pods of a node.          *)
(***************************************************************************)
HadAt(n) == {p \in Existing : Placement[p] = n}
IndexesAt(n) == {i \in 1..Len(pods) : boundTo[pods[i]] = n}
ListedAt(n) == {pods[i] : i \in IndexesAt(n)}

\* CapacityEstimate, as it is instantiated, has its own copy of Cardinality.
LEMMA SameCardinality == \A S : Estimate!Cardinality(S) = Cardinality(S)
  BY DEF Estimate!Cardinality, Cardinality

LEMMA UsedListed ==
    ASSUME Invariants, NEW n \in Nodes
    PROVE  Estimate!Used(n) = Cardinality(ListedAt(n))
  <1>1. Estimate!Used(n) = Cardinality(IndexesAt(n))
    <2>1. {i \in DOMAIN [j \in 1..Len(pods) |-> boundTo[pods[j]]] :
              [j \in 1..Len(pods) |-> boundTo[pods[j]]][i] = n} = IndexesAt(n)
      BY DEF IndexesAt
    <2>2. QED
      BY <2>1, SameCardinality DEF Estimate!Used
  <1>2. IsFiniteSet(IndexesAt(n))
    <2>1. Len(pods) \in Int /\ 1 \in Int
      BY DEF Invariants, Known, TypeOK
    <2>2. IsFiniteSet(1..Len(pods))
      BY <2>1, FS_Interval
    <2>3. QED
      BY <2>2, FS_Subset DEF IndexesAt
  <1> DEFINE f == [i \in IndexesAt(n) |-> pods[i]]
  <1>3. \A i, j \in IndexesAt(n) : pods[i] = pods[j] => i = j
    BY DEF Invariants, Known, OrderInvariant, PodsInOrder, IndexesAt, TypeOK
  <1>4. f \in Bijection(IndexesAt(n), ListedAt(n))
    BY <1>3 DEF Bijection, Injection, Surjection, IsInjective, ListedAt
  <1>5. QED
    BY <1>1, <1>2, <1>4, FS_Bijection DEF ExistsBijection

\* The estimate's room on a node is what the pods it had and the listed pods
\* leave.
LEMMA RoomLeft ==
    ASSUME Invariants, NEW n \in Nodes
    PROVE  /\ IsFiniteSet(HadAt(n) \cup ListedAt(n))
           /\ Cardinality(HadAt(n) \cup ListedAt(n)) = Cardinality(HadAt(n)) + Estimate!Used(n)
           /\ Cardinality(HadAt(n)) \in Nat /\ Estimate!Used(n) \in Nat
           /\ \A p \in ListedAt(n) : p \in Pod \ Existing /\ boundTo[p] = n
  <1>1. \A p \in ListedAt(n) : p \in Pod \ Existing /\ boundTo[p] = n
    <2>1. SUFFICES ASSUME NEW i \in IndexesAt(n)
                   PROVE  pods[i] \in Pod \ Existing /\ boundTo[pods[i]] = n
      BY DEF ListedAt
    <2>2. i \in 1..Len(pods) /\ boundTo[pods[i]] = n
      BY DEF IndexesAt
    <2>3. pods[i] \in PlacedPods
      BY <2>2 DEF Invariants, BoundInvariant, ListedPodsAreBound
    <2>4. QED
      BY <2>2, <2>3 DEF PlacedPods, Invariants, Known, ChainInvariant, ClusterPodsIdle
  <1>2. IsFiniteSet(HadAt(n)) /\ IsFiniteSet(ListedAt(n))
    <2>1. HadAt(n) \subseteq Pod /\ ListedAt(n) \subseteq Pod
      BY <1>1 DEF HadAt, Pod
    <2>2. QED
      BY <2>1, PodsFinite, FS_Subset
  <1>3. HadAt(n) \cap ListedAt(n) = {}
    BY <1>1 DEF HadAt
  <1>4. Cardinality(HadAt(n) \cap ListedAt(n)) = 0
    BY <1>3, FS_EmptySet
  <1>5. /\ IsFiniteSet(HadAt(n) \cup ListedAt(n))
        /\ Cardinality(HadAt(n) \cup ListedAt(n)) =
              Cardinality(HadAt(n)) + Cardinality(ListedAt(n)) - Cardinality(HadAt(n) \cap ListedAt(n))
    BY <1>2, FS_Union
  <1>6. Cardinality(HadAt(n)) \in Nat /\ Cardinality(ListedAt(n)) \in Nat
    BY <1>2, FS_CardinalityType
  <1>7. QED
    BY <1>1, <1>4, <1>5, <1>6, UsedListed


\* A pod that is being bound or listed is not listed yet.
LEMMA NotListed ==
    ASSUME Invariants, NEW p \in Pod, pc[p] \in {"update", "appendPods"}
    PROVE  /\ CarriesChain(p) /\ sched[p] # "parked"
           /\ \A i \in 1..Len(pods) : pods[i] # p
  <1>1. p \in created \ Existing /\ CarriesChain(p)
    BY DEF Invariants, Known, ChainInvariant, PodsAccounted, ClusterPodsIdle, CarriesChain,
      Binding
  <1>2. OrderOf(p) /\ Made(p) = p + 1 /\ p \in Nat
    BY <1>1, CarrierMade, Threads DEF Invariants, Known, OrderInvariant, Name
  <1>3. Len(pods) = p
    BY <1>2 DEF OrderOf, Binding
  <1>4. \A i \in 1..Len(pods) : pods[i] = i - 1
    BY DEF Invariants, Known, OrderInvariant, PodsInOrder
  <1>5. sched[p] # "parked"
    BY DEF Invariants, Known, FullInvariant, PodsInPlace
  <1>6. QED
    BY <1>1, <1>2, <1>3, <1>4, <1>5

\* There was room for the pod that is listed next.
LEMMA RoomForListed ==
    ASSUME Undisturbed, Invariants, NEW p \in Pod, pc[p] = "appendPods"
    PROVE  /\ boundTo[p] \in Nodes
           /\ Estimate!Used(boundTo[p]) < Capacity[boundTo[p]] - Cardinality(HadAt(boundTo[p]))
  <1> DEFINE n == boundTo[p]
  <1>1. n \in Nodes /\ ~HadNode(p)
    BY DEF Invariants, BoundInvariant, OnItsWay, Known, TypeOK
  <1>2. ASSUME NEW q \in Pod, boundTo[q] = n
        PROVE  q \in Occupants(n)
    <2>1. sched[q] \in {"assumed", "known"}
      BY <1>1, <1>2, NodesAssumption DEF Undisturbed, Invariants, RoomInvariant, Counted
    <2>2. sched[q] = "assumed" => target[q] = n
      BY <1>1, <1>2, NodesAssumption DEF Invariants, Known, FullInvariant, PodsInPlace
    <2>3. QED
      BY <1>2, <2>1, <2>2 DEF Occupants
  <1>3. HadAt(n) \cup ListedAt(n) \cup {p} \in SUBSET Occupants(n)
    <2>1. \A q \in HadAt(n) : q \in Pod /\ boundTo[q] = n
      BY DEF HadAt, Pod, Invariants, Known, ChainInvariant, ClusterPodsIdle
    <2>2. \A q \in ListedAt(n) : q \in Pod /\ boundTo[q] = n
      BY <1>1, RoomLeft
    <2>3. QED
      BY <1>2, <2>1, <2>2
  <1>4. p \notin HadAt(n) \cup ListedAt(n)
    <2>1. p \notin HadAt(n)
      BY <1>1, NodesAssumption DEF HadAt, HadNode
    <2>2. p \notin ListedAt(n)
      BY NotListed DEF ListedAt, IndexesAt
    <2>3. QED
      BY <2>1, <2>2
  <1>5. Cardinality(Occupants(n)) <= Capacity[n] /\ Occupants(n) \in SUBSET Pod
    <2>1. p \in Occupants(n)
      BY <1>2
    <2>2. QED
      BY <1>1, <2>1 DEF Occupants, Invariants, RoomInvariant
  <1>6. Cardinality(HadAt(n) \cup ListedAt(n) \cup {p}) <= Capacity[n]
    BY <1>1, <1>3, <1>5, FewerPods
  <1>7. /\ IsFiniteSet(HadAt(n) \cup ListedAt(n))
        /\ Cardinality(HadAt(n) \cup ListedAt(n)) = Cardinality(HadAt(n)) + Estimate!Used(n)
        /\ Cardinality(HadAt(n)) \in Nat /\ Estimate!Used(n) \in Nat
    BY <1>1, RoomLeft
  <1>8. Cardinality(HadAt(n) \cup ListedAt(n) \cup {p}) =
            Cardinality(HadAt(n) \cup ListedAt(n)) + 1
    BY <1>4, <1>7, FS_AddElement
  <1>9. Capacity[n] \in Nat
    BY <1>1, NodesAssumption
  <1>10. QED
    BY <1>1, <1>6, <1>7, <1>8, <1>9

\* When the analysis is stopped as Unschedulable, a node has the pods it had and
\* the listed ones, and is full.
LEMMA NoRoomLeft ==
    ASSUME Undisturbed, Invariants, stopReason = "Unschedulable", NEW n \in Nodes
    PROVE  Estimate!Used(n) >= Capacity[n] - Cardinality(HadAt(n))
  <1>1. PICK r \in Pod \ Existing : sched[r] = "parked"
    BY DEF Invariants, StopInvariant, Justified, Told, Rejected
  <1>2. pc[r] = "idle" /\ r \in created /\ CarriesChain(r)
    BY <1>1 DEF Invariants, Known, FullInvariant, PodsInPlace, ChainInvariant, PodsAccounted,
      CarriesChain
  <1>3. r \in Nat /\ Made(r) = r + 1 /\ OrderOf(r)
    BY <1>1, <1>2, CarrierMade, Threads DEF Invariants, Known, OrderInvariant, Name
  <1>4. Len(pods) = r /\ \A k \in Name : k \in created <=> k < r + 1
    BY <1>2, <1>3 DEF OrderOf, Binding
  <1>5. ASSUME NEW q \in Pod \ Existing, q \in created, q # r
        PROVE  q + 1 \in 1..Len(pods) /\ pods[q + 1] = q
    <2>1. q \in Name /\ q \in Nat
      BY <1>5 DEF Pod, Name
    <2>2. q < r
      BY <1>3, <1>4, <1>5, <2>1
    <2>3. q + 1 \in 1..Len(pods)
      BY <1>3, <1>4, <2>1, <2>2
    <2>4. \A i \in 1..Len(pods) : pods[i] = i - 1
      BY DEF Invariants, Known, OrderInvariant, PodsInOrder
    <2>5. QED
      BY <2>1, <2>3, <2>4
  <1>6. ASSUME NEW q \in Pod \ Existing, q \in Held(n)
        PROVE  q \in ListedAt(n)
    <2>1. q \in created /\ q # r
      <3>1. boundTo[q] = n \/ sched[q] \in {"assumed", "known"}
        BY <1>6 DEF Held, Occupants
      <3>2. sched[q] \in {"assumed", "known"}
        BY <3>1, NodesAssumption, PreemptionAssumption DEF Invariants, RoomInvariant, Counted
      <3>3. QED
        BY <1>1, <3>2 DEF Invariants, Known, ChainInvariant, PodsAccounted
    <2>2. q + 1 \in 1..Len(pods) /\ pods[q + 1] = q
      BY <1>5, <2>1
    <2>3. boundTo[q] # NoNode
      BY <2>2 DEF Invariants, BoundInvariant, ListedPodsAreBound, PlacedPods
    <2>4. boundTo[q] = n
      BY <1>6, <2>3 DEF Held, Occupants, Invariants, Known, FullInvariant, PodsInPlace
    <2>5. q + 1 \in IndexesAt(n)
      BY <2>2, <2>4 DEF IndexesAt
    <2>6. QED
      BY <2>2, <2>5 DEF ListedAt
  <1>7. ASSUME NEW q \in Existing, q \in Held(n)
        PROVE  q \in HadAt(n)
    <2>1. boundTo[q] = Placement[q] /\ sched[q] # "assumed"
      BY <1>7 DEF Invariants, StopInvariant, PendingStay, Known, ChainInvariant, ClusterPodsIdle
    <2>2. QED
      BY <1>7, <2>1 DEF Held, Occupants, HadAt
  <1>8. Held(n) \in SUBSET (HadAt(n) \cup ListedAt(n))
    BY <1>6, <1>7 DEF Held, Occupants
  <1>9. /\ IsFiniteSet(HadAt(n) \cup ListedAt(n))
        /\ Cardinality(HadAt(n) \cup ListedAt(n)) = Cardinality(HadAt(n)) + Estimate!Used(n)
        /\ Cardinality(HadAt(n)) \in Nat /\ Estimate!Used(n) \in Nat
    BY RoomLeft
  <1>10. /\ Cardinality(Held(n)) <= Cardinality(HadAt(n) \cup ListedAt(n))
         /\ Cardinality(Held(n)) \in Nat
    BY <1>8, <1>9, FS_Subset, FS_CardinalityType
  <1>11. Cardinality(Held(n)) >= Capacity[n] /\ Capacity[n] \in Nat
    BY NodesAssumption DEF Invariants, Known, FullInvariant, SaidUnschedulable, Full
  <1>12. QED
    BY <1>9, <1>10, <1>11

\* A step that lists nothing and does not tell Main to stop.
LEMMA Stutter ==
    ASSUME Invariants, UNCHANGED pods,
           \A i \in 1..Len(pods) : boundTo'[pods[i]] = boundTo[pods[i]],
           Ended' <=> Ended,
           Ended => stopReason' = stopReason
    PROVE  UNCHANGED Estimate!vars
  <1>1. [i \in 1..Len(pods') |-> boundTo'[pods'[i]]] = [i \in 1..Len(pods) |-> boundTo[pods[i]]]
    OBVIOUS
  <1>2. (IF Ended' THEN stopReason' ELSE "running") = (IF Ended THEN stopReason ELSE "running")
    OBVIOUS
  <1>3. QED
    BY <1>1, <1>2 DEF Estimate!vars, Ended

LEMMA AppendEstimate ==
    ASSUME Undisturbed, Invariants, NEW p \in Pod, AppendPods(p)
    PROVE  \E n \in Nodes : Estimate!PlaceOne(n)
  <1> DEFINE placed == [i \in 1..Len(pods) |-> boundTo[pods[i]]]
  <1>1. /\ pc[p] = "appendPods" /\ pods' = Append(slice[p], p)
        /\ UNCHANGED <<boundTo, stopReason>>
    BY DEF AppendPods, Goto, storeVars
  <1>2. CarriesChain(p) /\ sched[p] # "parked"
    BY <1>1, NotListed
  <1>3. slice[p] = pods /\ pods \in Seq(Pod)
    BY <1>1, <1>2 DEF Invariants, Known, ChainInvariant, CountsAgree, CountsOf, TypeOK
  <1>4. PICK n \in Nodes : /\ n = boundTo[p]
                          /\ Estimate!Used(n) < Capacity[n] - Cardinality(HadAt(n))
    BY <1>1, RoomForListed
  <1>5. [i \in 1..Len(pods') |-> boundTo'[pods'[i]]] = Append(placed, n)
    <2>1. pods' = Append(pods, p) /\ Len(pods) \in Nat
      BY <1>1, <1>3
    <2>2. Len(pods') = Len(pods) + 1 /\ \A i \in 1..Len(pods') :
              pods'[i] = IF i = Len(pods) + 1 THEN p ELSE pods[i]
      BY <1>3, <2>1
    <2>3. placed \in Seq(Nodes \cup {NoNode})
      BY <1>3 DEF Invariants, Known, TypeOK
    <2>4. Len(placed) = Len(pods)
      BY <2>1
    <2>5. QED
      BY <1>1, <1>4, <2>1, <2>2, <2>3, <2>4
  <1>6. ~Ended /\ ~Ended'
    <2>1. ~Ended
      BY <1>2, NobodyStops DEF Invariants
    <2>2. pc'[Main] = pc[Main]
      BY Threads DEF AppendPods, Goto, Invariants, Known, TypeOK
    <2>3. QED
      BY <2>1, <2>2 DEF Ended
  <1>7. ~Estimate!AtLimit
    <2>1. MaxSimulated > 0 => Len(pods) < MaxSimulated
      BY <1>1, <1>2, LimitAssumption DEF Invariants, Known, ChainInvariant, CountsAgree,
        CountsOf, Counting, TypeOK
    <2>2. Len(placed) = Len(pods)
      BY <1>3
    <2>3. QED
      BY <2>1, <2>2, <1>3, LimitAssumption DEF Estimate!AtLimit
  <1>8. Estimate!PlaceOne(n)
    BY <1>4, <1>5, <1>6, <1>7 DEF Estimate!PlaceOne, Ended, HadAt
  <1>9. QED
    BY <1>8

LEMMA ReceiveEstimate ==
    ASSUME Undisturbed, Invariants, NEW t \in Thread, ReceiveStop(t)
    PROVE  Estimate!StopAtLimit \/ Estimate!StopWhenFull
  <1>1. /\ t \in {Listener} \cup Pod /\ pc[t] = "send" /\ pc[Main] = "wait"
        /\ UNCHANGED <<pods, boundTo, stopReason>>
    BY Threads DEF ReceiveStop, Thread, fieldVars, storeVars
  <1>2. ~Ended /\ Ended'
    BY <1>1, Threads DEF ReceiveStop, Ended, Invariants, Known, TypeOK
  <1>3. stopReason \in {"Unschedulable", "LimitReached"}
    BY <1>1 DEF Invariants, StopInvariant, OneStop, Stopper, ReasonOf
  <1> DEFINE placed == [i \in 1..Len(pods) |-> boundTo[pods[i]]]
  <1>4. Len(placed) = Len(pods) /\ Len(pods) \in Nat
    BY DEF Invariants, Known, TypeOK
  <1>5. [i \in 1..Len(pods') |-> boundTo'[pods'[i]]] = placed
    BY <1>1
  <1>6. CASE stopReason = "LimitReached"
    <2>1. MaxSimulated > 0 /\ Len(pods) = MaxSimulated
      BY <1>6 DEF Invariants, StopInvariant, Justified, Stopping, Known, ExactInvariant, AtLimit
    <2>2. Estimate!AtLimit
      BY <1>4, <2>1, LimitAssumption DEF Estimate!AtLimit
    <2>3. QED
      BY <1>1, <1>2, <1>5, <1>6, <2>2 DEF Estimate!StopAtLimit, Ended
  <1>7. CASE stopReason = "Unschedulable"
    <2>1. ~Estimate!AtLimit
      <3>1. PICK r \in Pod \ Existing : sched[r] = "parked"
        BY <1>7 DEF Invariants, StopInvariant, Justified, Told, Rejected
      <3>2. pc[r] = "idle" /\ CarriesChain(r)
        BY <3>1 DEF Invariants, Known, FullInvariant, PodsInPlace, ChainInvariant,
          PodsAccounted, CarriesChain
      <3>3. MaxSimulated > 0 => Len(pods) < MaxSimulated
        BY <3>2, LimitAssumption DEF Invariants, Known, ChainInvariant, CountsAgree,
          CountsOf, Counting, TypeOK
      <3>4. QED
        BY <1>4, <3>3, LimitAssumption DEF Estimate!AtLimit
    <2>2. \A n \in Nodes : Estimate!Used(n) >= Capacity[n] - Cardinality(HadAt(n))
      BY <1>7, NoRoomLeft
    <2>3. QED
      BY <1>1, <1>2, <1>5, <1>7, <2>1, <2>2 DEF Estimate!StopWhenFull, Ended, HadAt
  <1>8. QED
    BY <1>3, <1>6, <1>7

\* Only AppendPods changes status.Pods, only UpdatePod the node of a pod.
LEMMA WhoAppends == ASSUME [Next]_vars, pods' # pods PROVE \E p \in Pod : AppendPods(p)
  BY DEF Next, MainStep, ListenerStep, PodStep, BindingCycle, Exited, vars, fieldVars, storeVars,
      WakeUp, CreateNextPod, GenerateName, LoadCounter, StoreCounter, LoadSimulated,
      StoreSimulated, CreatePod, CreateConflict, ReceiveStop, CancelScheduler, AbortRun,
      CloseStop, ReturnError, MakeReport, Panic, SetStopReason, Close, GetPod, LoadPods, CheckLimit,
      ForgetPod, PatchBindError, SchedulePod, RejectPod, PreemptFor, Evict, EndBackoff,
      SeeNode, SeePod, SeeBinding, SeeDeletion, DeliverUpdate, UpdatePod

LEMMA WhoBinds == ASSUME [Next]_vars, boundTo' # boundTo PROVE \E p \in Pod : UpdatePod(p)
  BY DEF Next, MainStep, ListenerStep, PodStep, BindingCycle, Exited, vars, fieldVars, storeVars,
      WakeUp, CreateNextPod, GenerateName, LoadCounter, StoreCounter, LoadSimulated,
      StoreSimulated, CreatePod, CreateConflict, ReceiveStop, CancelScheduler, AbortRun,
      CloseStop, ReturnError, MakeReport, Panic, SetStopReason, Close, GetPod, LoadPods, CheckLimit,
      ForgetPod, PatchBindError, SchedulePod, RejectPod, PreemptFor, Evict, EndBackoff,
      SeeNode, SeePod, SeeBinding, SeeDeletion, DeliverUpdate, AppendPods

\* Main moves by its own steps.
LEMMA WhoMovesMain ==
    ASSUME TypeOK, StopInvariant, [Next]_vars, pc'[Main] # pc[Main]
    PROVE  MainStep
  <1>1. ASSUME NEW t \in Thread \ {Main}, NEW to, pc' = [pc EXCEPT ![t] = to] PROVE FALSE
    BY <1>1 DEF TypeOK, Thread
  <1>2. ASSUME NEW t \in {Listener} \cup Pod, SetStopReason(t) \/ Close(t) PROVE FALSE
    <2>1. \E to : pc' = [pc EXCEPT ![t] = to]
      BY <1>2 DEF SetStopReason, Close, Goto
    <2>2. QED
      BY <2>1, <1>1, Threads DEF Thread
  <1>3. ASSUME NEW p \in Pod, CreateNextPod(p) PROVE FALSE
    <2>1. \E to : pc' = [pc EXCEPT ![p] = to]
      BY <1>3 DEF CreateNextPod, GenerateName, LoadCounter, StoreCounter, LoadSimulated,
        StoreSimulated, CreatePod, CreateConflict, Goto
    <2>2. QED
      BY <2>1, <1>1, Threads DEF Thread
  <1>4. ASSUME NEW p \in Pod,
               \/ GetPod(p) \/ UpdatePod(p) \/ LoadPods(p) \/ AppendPods(p)
               \/ CheckLimit(p) \/ ForgetPod(p) \/ PatchBindError(p)
        PROVE  FALSE
    <2>1. \E to : pc' = [pc EXCEPT ![p] = to]
      BY <1>4 DEF GetPod, UpdatePod, LoadPods, AppendPods, CheckLimit, ForgetPod,
        PatchBindError, Goto
    <2>2. QED
      BY <2>1, <1>1, Threads DEF Thread
  <1>5. ASSUME NEW p \in Pod,
               \/ SchedulePod(p) \/ RejectPod(p) \/ PreemptFor(p)
               \/ EndBackoff(p) \/ SeePod(p) \/ SeeBinding(p)
        PROVE  FALSE
    <2>1. pc' = pc \/ pc' = [pc EXCEPT ![p] = "get"]
      BY <1>5 DEF SchedulePod, RejectPod, PreemptFor, EndBackoff, SeePod, SeeBinding
    <2>2. QED
      BY <2>1, <1>1, Threads DEF Thread
  <1>6. ASSUME DeliverUpdate PROVE FALSE
    <2>1. pc' = pc \/ pc' = [pc EXCEPT ![Listener] = "setReason"]
      BY <1>6 DEF DeliverUpdate
    <2>2. QED
      BY <2>1, <1>1, Threads DEF Thread
  <1>7. ~(\E v \in Preemptible : Evict(v) \/ SeeDeletion(v)) /\ ~(\E n \in Nodes : SeeNode(n))
    BY DEF Evict, SeeDeletion, SeeNode
  <1>8. ~Exited /\ ~UNCHANGED vars
    BY DEF Exited, vars
  <1>9. \A p \in Pod : ~PodStep(p)
    BY <1>2, <1>3, <1>4, <1>5 DEF PodStep, BindingCycle
  <1>10. ~ListenerStep
    BY <1>2, <1>6 DEF ListenerStep
  <1>11. QED
    BY <1>7, <1>8, <1>9, <1>10, NoPanic DEF Next

\* Until it receives the stop Main has not ended, and then it has for good.
LEMMA EndedStays ==
    ASSUME Invariants, [Next]_vars, \A t \in Thread : ~ReceiveStop(t)
    PROVE  Ended' <=> Ended
  <1>1. CASE UNCHANGED pc[Main]
    BY <1>1 DEF Ended
  <1>2. CASE MainStep
    <2>1. TypeOK /\ pc[Main] \notin {"abort", "closeAborted"}
      BY DEF Invariants, Known, StopInvariant, MainInvariant, Counting
    <2>2. CASE WakeUp \/ CreateNextPod(Main)
      <3>1. ~Ended /\ \E to \in PC : /\ pc' = [pc EXCEPT ![Main] = to]
                                      /\ to \notin {"cancel", "closeStop", "returned", "exited"}
        BY <2>2 DEF WakeUp, CreateNextPod, GenerateName, LoadCounter, StoreCounter,
          LoadSimulated, StoreSimulated, CreatePod, CreateConflict, Goto, Ended, PC
      <3>2. QED
        BY <3>1, <2>1, Threads DEF Ended, TypeOK, Thread
    <2>3. CASE CancelScheduler \/ AbortRun \/ CloseStop \/ MakeReport
      <3>1. Ended /\ \E to \in {"closeStop", "returned", "exited"} : pc' = [pc EXCEPT ![Main] = to]
        BY <2>1, <2>3 DEF CancelScheduler, AbortRun, CloseStop, MakeReport, Goto, Ended
      <3>2. QED
        BY <3>1, <2>1, Threads DEF Ended, TypeOK, Thread
    <2>4. QED
      BY <1>2, <2>2, <2>3, NoPanic DEF MainStep, Invariants
  <1>3. QED
    BY <1>1, <1>2, WhoMovesMain DEF Invariants, Known

LEMMA NextEstimate ==
    Undisturbed /\ Invariants /\ [Next]_vars => [Estimate!Next]_(Estimate!vars)
  <1> SUFFICES ASSUME Undisturbed, Invariants, [Next]_vars
               PROVE  Estimate!Next \/ UNCHANGED Estimate!vars
    OBVIOUS
  <1>1. CASE \E p \in Pod : AppendPods(p)
    BY <1>1, AppendEstimate DEF Estimate!Next
  <1>2. CASE \E t \in Thread : ReceiveStop(t)
    BY <1>2, ReceiveEstimate DEF Estimate!Next
  <1>3. CASE ~(\E p \in Pod : AppendPods(p)) /\ ~(\E t \in Thread : ReceiveStop(t))
    <2>1. UNCHANGED pods
      BY <1>3, WhoAppends
    <2>2. \A i \in 1..Len(pods) : boundTo'[pods[i]] = boundTo[pods[i]]
      <3>1. ASSUME NEW p \in Pod, UpdatePod(p), NEW i \in 1..Len(pods)
            PROVE  boundTo'[pods[i]] = boundTo[pods[i]]
        <4>1. pods[i] # p /\ pods[i] \in Pod
          BY <3>1, NotListed DEF UpdatePod, Goto, Invariants, Known, TypeOK
        <4>2. QED
          BY <3>1, <4>1 DEF UpdatePod, Invariants, Known, TypeOK
      <3>2. QED
        BY <3>1, WhoBinds
    <2>3. Ended' <=> Ended
      BY <1>3, EndedStays
    <2>4. Ended => stopReason' = stopReason
      BY FinalStep DEF Invariants, StopInvariant, OneStop
    <2>5. QED
      BY <2>1, <2>2, <2>3, <2>4, Stutter
  <1>4. QED
    BY <1>1, <1>2, <1>3

LEMMA InitEstimate == Init => Estimate!Init
  <1> SUFFICES ASSUME Init PROVE Estimate!Init
    OBVIOUS
  <1>1. \A n \in Nodes : Cardinality(HadAt(n)) \in Nat /\ Capacity[n] \in Nat
    <2>1. \A n \in Nodes : IsFiniteSet(HadAt(n))
      BY ExistingAssumption, FS_Subset DEF HadAt
    <2>2. QED
      BY <2>1, FS_CardinalityType, NodesAssumption
  <1>2. [i \in 1..Len(pods) |-> boundTo[pods[i]]] = <<>>
    BY DEF Init
  <1>3. pc[Main] = "sleep"
    BY Threads DEF Init
  <1>4. QED
    BY <1>1, <1>2, <1>3 DEF Estimate!Init, HadAt

\* The analysis implements the estimate: each of its steps places one pod where
\* the estimate may, ends it with the right outcome, or changes nothing of it.
THEOREM EstimateHolds ==
    ASSUME Punctual, Undisturbed
    PROVE  Spec => Estimate!Init /\ [][Estimate!Next]_(Estimate!vars)
  BY InitEstimate, NextEstimate, InvariantsHold, PTL DEF Spec

=============================================================================
