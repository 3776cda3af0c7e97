---------------------------- MODULE OrderProofs ----------------------------
(***************************************************************************)
(* What follows from the chain when no pod of the cluster carries a name   *)
(* of the generator either: names are fresh, so no binding fails, and      *)
(* status.Pods is the generated pods in their order; and then, with        *)
(* punctual informers, no node is given more pods than it holds.           *)
(***************************************************************************)
EXTENDS FullClusterProofs, ReportProofs

NamesAreNew == Existing \cap Name = {}

\* How many pods the generator has made when t is the one to make the next.
Made(t) == IF t = Main THEN 0 ELSE t + 1

\* What the carrier t of the chain finds: the pods with the first Made(t) names
\* exist, the counter is there or one further, and all of them are listed but t
\* itself until it has appended itself.
OrderOf(t) ==
    /\ \A k \in Name : k \in created <=> k < Made(t)
    /\ counter = Made(t) + (IF pc[t] \in {"loadSimulated", "storeSimulated", "create"}
                            THEN 1 ELSE 0)
    /\ pc[t] \in {"loadCounter", "storeCounter", "loadSimulated", "storeSimulated", "create"} =>
          name[t] = Made(t)
    /\ pc[t] = "storeCounter" => reg[t] = counter
    /\ Len(pods) = Made(t) - (IF pc[t] \in Binding \cup {"idle"} THEN 1 ELSE 0)

\* The inductive invariant behind NamesAreFresh and PodsInOrder.
OrderInvariant ==
    /\ PodsInOrder
    /\ pc[Listener] \in {"idle", "setReason", "close", "send"}
    /\ \A p \in Pod : /\ pc[p] \notin {"forget", "patch"}
                      /\ pc[p] = "done" => sched[p] \in {"assumed", "known"}
    /\ \A t \in {Main} \cup Pod : CarriesChain(t) => OrderOf(t)

LEMMA CarrierMade ==
    ASSUME NEW t \in {Main} \cup Pod, CarriesChain(t)
    PROVE  /\ Made(t) \in Nat
           /\ t # Main => t \in Name /\ Made(t) = t + 1
  <1>1. CASE t = Main
    BY <1>1 DEF Made
  <1>2. CASE t # Main
    <2>1. t \in Name /\ t \in Nat
      BY <1>2, Threads DEF CarriesChain, Pod
    <2>2. Made(t) = t + 1
      BY <1>2 DEF Made
    <2>3. QED
      BY <2>1, <2>2
  <1>3. QED
    BY <1>1, <1>2

LEMMA MainIsNoPod == TypeOK => Main \notin created
  BY Threads DEF TypeOK

\* The carrier t moves on; afterwards t is the carrier or there is none.
LEMMA CarrierOrder ==
    ASSUME TypeOK, ChainInvariant, OrderInvariant,
           NEW t \in {Main} \cup Pod, NEW to, CarriesChain(t),
           pc' = [pc EXCEPT ![t] = to], to \notin {"forget", "patch", "done"},
           UNCHANGED <<created, sched>>,
           PodsInOrder',
           CarriesChain(t)' => OrderOf(t)'
    PROVE  OrderInvariant'
  <1>1. /\ pc'[t] = to /\ pc'[Listener] = pc[Listener]
        /\ \A u \in {Main} \cup Pod : u # t => pc'[u] = pc[u]
    BY Threads DEF TypeOK
  <1>2. ASSUME NEW u \in {Main} \cup Pod, CarriesChain(u)', u # t
        PROVE  FALSE
    <2>1. CarriesChain(u)
      BY <1>1, <1>2 DEF CarriesChain
    <2>2. QED
      BY <1>2, <2>1 DEF ChainInvariant, OneChain
  <1>3. \A p \in Pod : /\ pc'[p] \notin {"forget", "patch"}
                       /\ pc'[p] = "done" => sched'[p] \in {"assumed", "known"}
    BY <1>1, Threads DEF OrderInvariant
  <1>4. QED
    BY <1>1, <1>2, <1>3 DEF OrderInvariant

\* Everybody else leaves alone what the carrier works on, and makes no carrier
\* except that a pod in the queue may start to be bound.
LEMMA QuietOrder ==
    ASSUME OrderInvariant,
           \A u \in {Main} \cup Pod : CarriesChain(u)' =>
               /\ CarriesChain(u)
               /\ pc'[u] = pc[u] \/ (pc[u] = "idle" /\ pc'[u] = "get"),
           \A p \in Pod : /\ pc'[p] \notin {"forget", "patch"}
                          /\ pc'[p] = "done" => sched'[p] \in {"assumed", "known"},
           pc'[Listener] \in {"idle", "setReason", "close", "send"},
           \A k \in Name : k \in created' <=> k \in created,
           UNCHANGED <<counter, pods, name, reg>>
    PROVE  OrderInvariant'
  <1>1. ASSUME NEW u \in {Main} \cup Pod, CarriesChain(u)'
        PROVE  OrderOf(u)'
    <2>1. OrderOf(u) /\ (pc'[u] = pc[u] \/ (pc[u] = "idle" /\ pc'[u] = "get"))
      BY <1>1 DEF OrderInvariant
    <2>2. QED
      BY <2>1 DEF OrderOf, Made, Binding
  <1>2. QED
    BY <1>1 DEF OrderInvariant, PodsInOrder

LEMMA CreateNextPodOrder ==
    ASSUME TypeOK, ChainInvariant, OrderInvariant,
           NEW t \in {Main} \cup Pod, CreateNextPod(t)
    PROVE  OrderInvariant'
  <1>1. t \in Thread
    BY Threads
  <1>2. pc[t] \in Counting \cup {"create"}
    BY DEF CreateNextPod, GenerateName, LoadCounter, StoreCounter, LoadSimulated,
      StoreSimulated, CreatePod, CreateConflict, Goto, Counting
  <1>3. CarriesChain(t)
    BY <1>2, WorkerCarries
  <1>4. OrderOf(t) /\ Made(t) \in Nat
    BY <1>3, CarrierMade DEF OrderInvariant
  <1>5. pc[t] \notin Binding \cup {"idle"}
    BY <1>2 DEF Counting, Binding
  <1>6. CASE GenerateName(t) \/ LoadCounter(t) \/ StoreCounter(t) \/ LoadSimulated(t)
               \/ StoreSimulated(t)
    <2>1. PICK to \in {"loadCounter", "storeCounter", "loadSimulated", "storeSimulated",
                       "create"} : pc' = [pc EXCEPT ![t] = to]
      BY <1>6 DEF GenerateName, LoadCounter, StoreCounter, LoadSimulated, StoreSimulated, Goto
    <2>2. UNCHANGED <<created, sched, pods>>
      BY <1>6 DEF GenerateName, LoadCounter, StoreCounter, LoadSimulated, StoreSimulated,
        fieldVars, storeVars, schedVars
    <2>3. PodsInOrder'
      BY <2>2 DEF OrderInvariant, PodsInOrder
    <2>4. \A k \in Name : k \in created' <=> k < Made(t)
      BY <1>4, <2>2 DEF OrderOf
    <2>5. pc'[t] \notin Binding \cup {"idle"}
      BY <1>1, <2>1 DEF Binding, TypeOK
    <2>6. Len(pods') = Made(t) - (IF pc'[t] \in Binding \cup {"idle"} THEN 1 ELSE 0)
      BY <1>4, <1>5, <2>2, <2>5 DEF OrderOf
    <2>7. /\ counter' = Made(t) + (IF pc'[t] \in {"loadSimulated", "storeSimulated", "create"}
                                   THEN 1 ELSE 0)
          /\ name'[t] = Made(t)
          /\ pc'[t] = "storeCounter" => reg'[t] = counter'
      <3>1. CASE GenerateName(t)
        BY <1>1, <1>4, <3>1 DEF GenerateName, Goto, OrderOf, TypeOK, fieldVars
      <3>2. CASE LoadCounter(t)
        BY <1>1, <1>4, <3>2 DEF LoadCounter, Goto, OrderOf, TypeOK, fieldVars
      <3>3. CASE StoreCounter(t)
        BY <1>1, <1>4, <3>3 DEF StoreCounter, Goto, OrderOf, TypeOK, localVars
      <3>4. CASE LoadSimulated(t)
        BY <1>1, <1>4, <3>4 DEF LoadSimulated, Goto, OrderOf, TypeOK, fieldVars
      <3>5. CASE StoreSimulated(t)
        BY <1>1, <1>4, <3>5 DEF StoreSimulated, Goto, OrderOf, TypeOK, localVars
      <3>6. QED
        BY <1>6, <3>1, <3>2, <3>3, <3>4, <3>5
    <2>8. OrderOf(t)'
      BY <2>4, <2>6, <2>7 DEF OrderOf, Made
    <2>9. QED
      BY <1>3, <2>1, <2>2, <2>3, <2>8, CarrierOrder
  <1>7. CASE CreatePod(t)
    <2>1. /\ pc[t] = "create" /\ name[t] \in Name /\ name[t] \notin created
          /\ created' = created \cup {name[t]}
          /\ UNCHANGED <<counter, pods, sched>>
      BY <1>1, <1>7 DEF CreatePod, Goto, TypeOK, fieldVars, schedVars
    <2> DEFINE q == name[t]
    <2>2. q = Made(t) /\ counter = q + 1 /\ Len(pods) = q
      BY <1>4, <1>5, <2>1 DEF OrderOf
    <2>3. /\ pc'[t] \in {"wait", "done"} /\ (t = Main => pc'[t] = "wait")
          /\ pc'[Listener] = pc[Listener]
          /\ \A u \in {Main} \cup Pod : u # t => pc'[u] = pc[u]
      BY <1>1, <1>7, Threads DEF CreatePod, Goto, TypeOK
    <2>4. t \in Pod => sched[t] \in {"assumed", "known"}
      BY <2>1 DEF ChainInvariant, PodsAccounted
    <2>5. q \in Pod /\ q # Main /\ pc[q] = "idle" /\ q # t
      <3>1. q \in Pod /\ q # Main
        BY <2>1, Threads
      <3>2. pc[q] = "idle"
        BY <2>1, <3>1 DEF ChainInvariant, PodsAccounted
      <3>3. QED
        BY <2>1, <3>1, <3>2
    <2>6. \A k \in Name : k \in created' <=> k < Made(q)
      <3>1. Made(q) = q + 1 /\ q \in Nat /\ Name \subseteq Nat
        BY <2>1, <2>5, Threads DEF Made
      <3>2. \A k \in Name : k \in created <=> k < q
        BY <1>4, <2>2 DEF OrderOf
      <3>3. QED
        BY <2>1, <3>1, <3>2
    <2>7. OrderOf(q)'
      <3>1. pc'[q] = "idle" /\ Made(q) = q + 1 /\ q \in Nat
        BY <2>1, <2>3, <2>5, Threads DEF Made
      <3>2. /\ counter' = Made(q)
            /\ Len(pods') = Made(q) - 1
        BY <2>1, <2>2, <3>1
      <3>3. \A k \in Name : k \in created' <=> k < Made(q)
        BY <2>6
      <3>4. Made(q) + 0 = Made(q)
        BY <3>1
      <3>5. q' = q
        BY <1>7 DEF CreatePod, localVars
      <3>6. QED
        BY <3>1, <3>2, <3>3, <3>4, <3>5 DEF OrderOf, Made
    <2>8. ASSUME NEW u \in {Main} \cup Pod, CarriesChain(u)' PROVE u = q
      <3>1. ~CarriesChain(t)'
        BY <2>1, <2>3, <2>4, Threads DEF CarriesChain, Counting, Binding
      <3>2. ASSUME u # q PROVE FALSE
        <4>1. u # t
          BY <2>8, <3>1
        <4>2. CarriesChain(u)
          BY <2>1, <2>3, <2>8, <3>2, <4>1 DEF CarriesChain
        <4>3. QED
          BY <1>3, <4>1, <4>2 DEF ChainInvariant, OneChain
      <3>3. QED
        BY <3>2
    <2>9. \A p \in Pod : /\ pc'[p] \notin {"forget", "patch"}
                         /\ pc'[p] = "done" => sched'[p] \in {"assumed", "known"}
      BY <2>1, <2>3, <2>4 DEF OrderInvariant
    <2>10. PodsInOrder' /\ pc'[Listener] \in {"idle", "setReason", "close", "send"}
      BY <2>1, <2>3 DEF OrderInvariant, PodsInOrder
    <2>11. \A u \in {Main} \cup Pod : CarriesChain(u)' => OrderOf(u)'
      <3>1. q' = q
        BY <1>7 DEF CreatePod, localVars
      <3>2. QED
        BY <2>7, <2>8, <3>1
    <2>12. QED
      BY <2>9, <2>10, <2>11 DEF OrderInvariant
  <1>8. CASE CreateConflict(t)
    <2>1. pc[t] = "create" /\ name[t] \in Name /\ name[t] \in created
      BY <1>1, <1>8 DEF CreateConflict, Goto, TypeOK
    <2>2. name[t] = Made(t) /\ ~(name[t] < Made(t))
      BY <1>4, <2>1 DEF OrderOf
    <2>3. QED
      BY <1>4, <2>1, <2>2 DEF OrderOf
  <1>9. QED
    BY <1>6, <1>7, <1>8 DEF CreateNextPod

\* Bind and postBindHook up to the limit test.
LEMMA BindingOrder ==
    ASSUME TypeOK, ChainInvariant, OrderInvariant, NEW p \in Pod,
           \/ GetPod(p) \/ UpdatePod(p) \/ LoadPods(p) \/ AppendPods(p) \/ CheckLimit(p)
    PROVE  OrderInvariant'
  <1>1. p \in Thread /\ p # Main /\ p \in {Main} \cup Pod
    BY Threads
  <1>2. CarriesChain(p)
    <2>1. pc[p] \in Binding \cup {"check"}
      BY DEF GetPod, UpdatePod, LoadPods, AppendPods, CheckLimit, Goto, Binding
    <2>2. QED
      BY <1>1, <2>1, WorkerCarries
  <1>3. OrderOf(p) /\ p \in Name /\ p \in Nat /\ Made(p) = p + 1
    BY <1>1, <1>2, CarrierMade, Threads DEF OrderInvariant
  <1>4. UNCHANGED <<created, sched, counter>>
    BY DEF GetPod, UpdatePod, LoadPods, AppendPods, CheckLimit, fieldVars, storeVars, schedVars
  <1>5. \A k \in Name : k \in created' <=> k < Made(p)
    BY <1>3, <1>4 DEF OrderOf
  <1>6. CASE GetPod(p) \/ UpdatePod(p) \/ LoadPods(p) \/ CheckLimit(p)
    <2>1. PICK to \in {"update", "loadPods", "appendPods", "setReason", "name"} :
             /\ pc' = [pc EXCEPT ![p] = to]
             /\ to \in {"setReason", "name"} <=> pc[p] = "check"
      BY <1>6 DEF GetPod, UpdatePod, LoadPods, CheckLimit, Goto
    <2>2. UNCHANGED pods /\ pc[p] \in {"get", "update", "loadPods", "check"}
      BY <1>6 DEF GetPod, UpdatePod, LoadPods, CheckLimit, Goto, fieldVars
    <2>3. PodsInOrder'
      BY <2>2 DEF OrderInvariant, PodsInOrder
    <2>4. pc'[p] = to
      BY <1>1, <2>1 DEF TypeOK
    <2>5. pc'[p] \in Binding \cup {"idle"} <=> pc[p] \in Binding \cup {"idle"}
      BY <2>1, <2>2, <2>4 DEF Binding
    <2>6. OrderOf(p)'
      BY <1>3, <1>4, <1>5, <2>1, <2>2, <2>4, <2>5 DEF OrderOf, Made
    <2>7. QED
      BY <1>1, <1>2, <1>4, <2>1, <2>3, <2>6, CarrierOrder
  <1>7. CASE AppendPods(p)
    <2>1. /\ pc[p] = "appendPods" /\ pc' = [pc EXCEPT ![p] = "check"]
          /\ pods' = Append(slice[p], p)
      BY <1>7 DEF AppendPods, Goto
    <2>2. slice[p] = pods
      BY <1>1, <1>2, <2>1 DEF ChainInvariant, CountsAgree, CountsOf
    <2>3. Len(pods) = p
      BY <1>3, <2>1 DEF OrderOf, Binding
    <2>4. /\ Len(pods') = p + 1 /\ pods'[p + 1] = p
          /\ \A i \in 1..p : pods'[i] = pods[i]
      BY <1>3, <2>1, <2>2, <2>3 DEF TypeOK
    <2>5. PodsInOrder'
      BY <1>3, <2>3, <2>4 DEF OrderInvariant, PodsInOrder
    <2>6. pc'[p] = "check"
      BY <1>1, <2>1 DEF TypeOK
    <2>7. OrderOf(p)'
      BY <1>3, <1>4, <1>5, <2>1, <2>4, <2>6 DEF OrderOf, Made, Binding
    <2>8. QED
      BY <1>1, <1>2, <1>4, <2>1, <2>5, <2>7, CarrierOrder
  <1>8. QED
    BY <1>6, <1>7

\* A stop, from the reason to its receipt: none of its goroutines carries the
\* chain any more.
LEMMA StopOrder ==
    ASSUME TypeOK, ChainInvariant, OrderInvariant, NEW t \in {Listener} \cup Pod,
           pc[t] \in {"setReason", "close", "send"},
           NEW to \in {"close", "send", "idle", "done"},
           to = "idle" => t = Listener, to = "done" => t # Listener,
           pc'[t] = to,
           \A u \in Pod \cup {Listener} : u # t => pc'[u] = pc[u],
           pc'[Main] = pc[Main] \/ pc'[Main] = "cancel",
           UNCHANGED <<counter, pods, name, reg, created, sched>>
    PROVE  OrderInvariant'
  <1>1. t \in Pod => sched[t] \in {"assumed", "known"}
    BY DEF ChainInvariant, PodsAccounted
  <1>2. ASSUME NEW u \in {Main} \cup Pod, CarriesChain(u)'
        PROVE  CarriesChain(u) /\ pc'[u] = pc[u]
    <2>1. u # t
      BY <1>1, <1>2, Threads DEF CarriesChain, Counting, Binding
    <2>2. pc'[u] = pc[u]
      <3>1. CASE u = Main
        BY <1>2, <3>1, MainIsNoPod DEF CarriesChain, Counting
      <3>2. CASE u \in Pod
        BY <2>1, <3>2
      <3>3. QED
        BY <3>1, <3>2
    <2>3. QED
      BY <1>2, <2>2 DEF CarriesChain
  <1>3. \A p \in Pod : /\ pc'[p] \notin {"forget", "patch"}
                       /\ pc'[p] = "done" => sched'[p] \in {"assumed", "known"}
    BY <1>1, Threads DEF OrderInvariant
  <1>4. pc'[Listener] \in {"idle", "setReason", "close", "send"}
    BY DEF OrderInvariant
  <1>5. QED
    BY <1>2, <1>3, <1>4, QuietOrder

LEMMA SetOrder ==
    ASSUME TypeOK, ChainInvariant, OrderInvariant, NEW t \in {Listener} \cup Pod,
           SetStopReason(t) \/ Close(t)
    PROVE  OrderInvariant'
  <1>1. PICK to \in {"close", "send"} : pc' = [pc EXCEPT ![t] = to]
    BY DEF SetStopReason, Close, Goto
  <1>2. pc[t] \in {"setReason", "close"} /\ UNCHANGED <<counter, pods, name, reg, created, sched>>
    BY DEF SetStopReason, Close, Goto, fieldVars, localVars, storeVars, schedVars
  <1>3. /\ pc'[t] = to /\ pc'[Main] = pc[Main]
        /\ \A u \in Pod \cup {Listener} : u # t => pc'[u] = pc[u]
    BY <1>1, Threads DEF TypeOK
  <1>4. QED
    BY <1>1, <1>2, <1>3, StopOrder

LEMMA MainStepOrder ==
    ASSUME TypeOK, ChainInvariant, OrderInvariant, MainStep
    PROVE  OrderInvariant'
  <1>1. CASE WakeUp
    <2>1. /\ pc[Main] = "sleep" /\ pc' = [pc EXCEPT ![Main] = "name"] /\ pc'[Main] = "name"
          /\ UNCHANGED <<counter, pods, created, sched>>
      BY <1>1, Threads DEF WakeUp, Goto, TypeOK, fieldVars, storeVars, schedVars
    <2>2. CarriesChain(Main)
      BY <2>1 DEF CarriesChain
    <2>3. PodsInOrder'
      BY <2>1 DEF OrderInvariant, PodsInOrder
    <2>4. OrderOf(Main)'
      BY <2>1, <2>2 DEF OrderInvariant, OrderOf, Made, Binding
    <2>5. QED
      BY <2>1, <2>2, <2>3, <2>4, CarrierOrder
  <1>2. CASE CreateNextPod(Main)
    BY <1>2, CreateNextPodOrder
  <1>3. ASSUME NEW t \in Thread, ReceiveStop(t) PROVE OrderInvariant'
    <2>1. /\ pc[t] = "send" /\ pc[Main] = "wait"
          /\ UNCHANGED <<counter, pods, name, reg, created, sched>>
      BY <1>3 DEF ReceiveStop, fieldVars, localVars, storeVars, schedVars
    <2>2. t \in {Listener} \cup Pod
      BY <2>1 DEF Thread
    <2>3. /\ pc'[t] = IF t = Listener THEN "idle" ELSE "done"
          /\ pc'[Main] = "cancel"
          /\ \A u \in Pod \cup {Listener} : u # t => pc'[u] = pc[u]
      BY <1>3, <2>1, Threads DEF ReceiveStop, TypeOK
    <2>4. QED
      BY <2>1, <2>2, <2>3, StopOrder
  <1>4. CASE CancelScheduler \/ AbortRun \/ CloseStop \/ ReturnError \/ MakeReport
    <2>1. PICK to \in {"closeStop", "closeAborted", "aborted", "returned", "exited"} :
             pc' = [pc EXCEPT ![Main] = to]
      BY <1>4 DEF CancelScheduler, AbortRun, CloseStop, ReturnError, MakeReport, Goto
    <2>2. UNCHANGED <<counter, pods, name, reg, created, sched>>
      BY <1>4 DEF CancelScheduler, AbortRun, CloseStop, ReturnError, MakeReport, fieldVars,
        localVars, storeVars, schedVars
    <2>3. /\ pc'[Main] = to /\ pc'[Listener] = pc[Listener]
          /\ \A u \in Pod : pc'[u] = pc[u]
      BY <2>1, Threads DEF TypeOK
    <2>4. \A u \in {Main} \cup Pod : CarriesChain(u)' => CarriesChain(u) /\ pc'[u] = pc[u]
      <3>1. ~CarriesChain(Main)'
        BY <2>2, <2>3, MainIsNoPod DEF CarriesChain, Counting
      <3>2. ASSUME NEW u \in Pod, CarriesChain(u)' PROVE CarriesChain(u) /\ pc'[u] = pc[u]
        BY <2>2, <2>3, <3>2, Threads DEF CarriesChain
      <3>3. QED
        BY <3>1, <3>2
    <2>5. QED
      BY <2>2, <2>3, <2>4, QuietOrder DEF OrderInvariant
  <1>5. QED
    BY <1>1, <1>2, <1>3, <1>4 DEF MainStep

\* The scheduler and the informers: a carrier was one before.
LEMMA QueueOrder ==
    ASSUME NoPendingFits, TypeOK, ChainInvariant, OrderInvariant,
           \/ \E p \in Pod : \/ SchedulePod(p) \/ RejectPod(p) \/ PreemptFor(p)
                             \/ EndBackoff(p) \/ SeePod(p) \/ SeeBinding(p)
           \/ \E n \in Nodes : SeeNode(n)
           \/ \E v \in Preemptible : Evict(v) \/ SeeDeletion(v)
    PROVE  OrderInvariant'
  <1>1. UNCHANGED <<counter, pods, name, reg>>
    BY DEF SchedulePod, RejectPod, PreemptFor, EndBackoff, SeePod, SeeBinding, SeeNode, Evict,
      SeeDeletion, fieldVars, localVars
  <1>2. /\ \A k \in Name : k \in created' <=> k \in created
        /\ created' \subseteq created
    <2>1. created' = created \/ \E v \in Preemptible : created' = created \ {v}
      BY DEF SchedulePod, RejectPod, PreemptFor, EndBackoff, SeePod, SeeBinding, SeeNode, Evict,
        SeeDeletion, storeVars
    <2>2. QED
      BY <2>1, Threads
  <1>3. /\ pc'[Main] = pc[Main] /\ pc'[Listener] = pc[Listener]
        /\ \A q \in Pod : \/ pc'[q] = pc[q]
                          \/ /\ pc[q] \in {"idle", "done"} /\ pc'[q] = "get"
                             /\ sched[q] = "active"
    <2>1. CASE pc' = pc
      BY <2>1
    <2>2. ASSUME NEW p \in Pod, Pop(p), pc' = [pc EXCEPT ![p] = "get"]
          PROVE  /\ pc'[Main] = pc[Main] /\ pc'[Listener] = pc[Listener]
                 /\ \A q \in Pod : q # p => pc'[q] = pc[q]
                 /\ pc[p] \in {"idle", "done"} /\ pc'[p] = "get" /\ sched[p] = "active"
      BY <2>2, Threads DEF Pop, TypeOK
    <2>3. pc' = pc \/ \E p \in Pod : Pop(p) /\ pc' = [pc EXCEPT ![p] = "get"]
      BY DEF SchedulePod, RejectPod, PreemptFor, EndBackoff, SeePod, SeeBinding, SeeNode,
        Evict, SeeDeletion
    <2>4. QED
      BY <2>1, <2>2, <2>3
  <1>4. \A q \in Pod \ Preemptible :
            sched[q] \in {"assumed", "known"} => sched'[q] \in {"assumed", "known"}
    BY DEF SchedulePod, RejectPod, PreemptFor, EndBackoff, SeePod, SeeBinding, SeeNode, Evict,
      SeeDeletion, Pop, Activate, TypeOK, schedVars
  <1>5. \A q \in Preemptible : pc[q] = "idle" /\ sched[q] # "active"
    BY Threads, PreemptionAssumption DEF ChainInvariant, ClusterPodsIdle
  <1>6. ASSUME NEW u \in {Main} \cup Pod, CarriesChain(u)'
        PROVE  CarriesChain(u) /\ (pc'[u] = pc[u] \/ (pc[u] = "idle" /\ pc'[u] = "get"))
    <2>1. CASE u = Main
      BY <1>2, <1>3, <1>6, <2>1, MainIsNoPod DEF CarriesChain
    <2>2. CASE u \in Pod
      <3>1. u \in created \ Existing /\ u # Main
        BY <1>2, <1>6, <2>2, Threads DEF CarriesChain
      <3>2. pc'[u] = pc[u] \/ (pc[u] = "idle" /\ pc'[u] = "get" /\ sched[u] = "active")
        BY <1>3, <2>2 DEF OrderInvariant
      <3>3. CarriesChain(u)
        BY <1>4, <1>6, <2>2, <3>1, <3>2, Threads DEF CarriesChain
      <3>4. QED
        BY <3>2, <3>3
    <2>3. QED
      BY <2>1, <2>2
  <1>7. \A p \in Pod : /\ pc'[p] \notin {"forget", "patch"}
                       /\ pc'[p] = "done" => sched'[p] \in {"assumed", "known"}
    BY <1>3, <1>4, <1>5 DEF OrderInvariant
  <1>8. QED
    BY <1>1, <1>2, <1>3, <1>6, <1>7, QuietOrder DEF OrderInvariant

LEMMA NextOrder ==
    NoPendingFits /\ TypeOK /\ ChainInvariant /\ OrderInvariant /\ [Next]_vars => OrderInvariant'
  <1> SUFFICES ASSUME NoPendingFits, TypeOK, ChainInvariant, OrderInvariant, [Next]_vars
               PROVE  OrderInvariant'
    OBVIOUS
  <1>1. CASE MainStep
    BY <1>1, MainStepOrder
  <1>2. CASE DeliverUpdate
    <2>1. UNCHANGED <<counter, pods, name, reg, created, sched>>
      BY <1>2 DEF DeliverUpdate, fieldVars, localVars, schedVars
    <2>2. /\ pc'[Listener] \in {"idle", "setReason"}
          /\ \A u \in {Main} \cup Pod : pc'[u] = pc[u]
      BY <1>2, Threads DEF DeliverUpdate, TypeOK
    <2>3. \A u \in {Main} \cup Pod : CarriesChain(u)' => CarriesChain(u)
      BY <2>1, <2>2 DEF CarriesChain
    <2>4. QED
      BY <2>1, <2>2, <2>3, QuietOrder DEF OrderInvariant
  <1>3. CASE SetStopReason(Listener) \/ Close(Listener)
    BY <1>3, SetOrder
  <1>4. ASSUME NEW p \in Pod, BindingCycle(p) PROVE OrderInvariant'
    <2>1. ~ForgetPod(p) /\ ~PatchBindError(p)
      BY DEF OrderInvariant, ForgetPod, PatchBindError, Goto
    <2>2. QED
      BY <1>4, <2>1, BindingOrder, CreateNextPodOrder, SetOrder DEF BindingCycle
  <1>5. CASE UNCHANGED vars
    <2>1. UNCHANGED <<pc, counter, pods, name, reg, created, sched>>
      BY <1>5 DEF vars, fieldVars, localVars, storeVars, schedVars
    <2>2. \A u \in {Main} \cup Pod : CarriesChain(u)' => CarriesChain(u)
      BY <2>1 DEF CarriesChain
    <2>3. QED
      BY <2>1, <2>2, QuietOrder DEF OrderInvariant
  <1>6. ASSUME NEW t \in Thread, Panic(t) PROVE OrderInvariant'
    <2>1. /\ UNCHANGED <<counter, pods, name, reg, created, sched>>
          /\ pc'[Main] = "crashed" /\ pc'[Listener] = pc[Listener]
          /\ \A u \in Pod : pc'[u] = pc[u]
      BY <1>6, PanicStep, Threads DEF fieldVars, localVars, storeVars, schedVars
    <2>2. \A u \in {Main} \cup Pod : CarriesChain(u)' => CarriesChain(u) /\ pc'[u] = pc[u]
      BY <2>1, Threads DEF CarriesChain, Counting, TypeOK
    <2>3. QED
      BY <2>1, <2>2, QuietOrder DEF OrderInvariant
  <1>7. QED
    BY <1>1, <1>2, <1>3, <1>4, <1>5, <1>6, QueueOrder DEF Next, ListenerStep, PodStep, Exited

LEMMA InitOrder == NamesAreNew /\ Init => OrderInvariant
  <1> SUFFICES ASSUME NamesAreNew, Init PROVE OrderInvariant
    OBVIOUS
  <1>1. \A t \in {Main} \cup Pod : CarriesChain(t) => t = Main
    BY Threads DEF Init, CarriesChain
  <1>2. OrderOf(Main)
    BY Threads DEF Init, NamesAreNew, OrderOf, Made, Binding
  <1>3. PodsInOrder
    BY DEF Init, PodsInOrder
  <1>4. QED
    BY <1>1, <1>2, <1>3, Threads DEF Init, OrderInvariant

LEMMA OrderHolds == ASSUME NoPendingFits, NamesAreNew PROVE Spec => []OrderInvariant
  <1>1. Init => OrderInvariant
    BY InitOrder
  <1>2. TypeOK /\ ChainInvariant /\ OrderInvariant /\ [Next]_vars => OrderInvariant'
    BY NextOrder
  <1>3. QED
    BY <1>1, <1>2, TypeCorrect, ChainHolds, PTL DEF Spec

\* status.Pods is the generated pods in the order of their numbers, if no
\* pending pod of the cluster is bound and none carries a generated name,
\* however late the informers are.
THEOREM PodsInOrderHolds ==
    ASSUME NoPendingFits, NamesAreNew PROVE Spec => []PodsInOrder
  <1>1. OrderInvariant => PodsInOrder
    BY DEF OrderInvariant
  <1>2. QED
    BY <1>1, OrderHolds, PTL

-----------------------------------------------------------------------------
\* A bound pod of the analysis is listed or is the next to be, and a report is
\* what status.Pods was: the inductive invariant behind ReportMissesLastOnly.
MissInvariant ==
    /\ \A k \in Name : boundTo[k] # NoNode => k <= Len(pods)
    /\ report # NoReport => pc[Main] = "exited" /\ report.pods = pods

\* Only UpdatePod and AppendPods matter to who is bound and listed, and only
\* MakeReport, the last step of Main, to the report.
LEMMA NextMiss ==
    TypeOK /\ ChainInvariant /\ OrderInvariant /\ MissInvariant /\ [Next]_vars
    => MissInvariant'
  <1> SUFFICES ASSUME TypeOK, ChainInvariant, OrderInvariant, MissInvariant, [Next]_vars
               PROVE  MissInvariant'
    OBVIOUS
  <1>1. ASSUME UNCHANGED <<boundTo, pods, report>>, Alive \/ UNCHANGED pc PROVE MissInvariant'
    BY <1>1 DEF MissInvariant, Alive
  <1>2. CASE MakeReport
    BY <1>2, Threads DEF MakeReport, Goto, MissInvariant, TypeOK, fieldVars, storeVars
  <1>3. CASE MainStep
    <2>1. ASSUME NEW t \in {Main}, CreateNextPod(t) PROVE MissInvariant'
      BY <1>1, <2>1 DEF CreateNextPod, GenerateName, LoadCounter, StoreCounter, LoadSimulated,
        StoreSimulated, CreatePod, CreateConflict, Goto, fieldVars, runVars, storeVars
    <2>2. QED
      BY <1>1, <1>2, <1>3, <2>1 DEF MainStep, WakeUp, ReceiveStop, CancelScheduler, AbortRun,
        CloseStop, ReturnError, Goto, fieldVars, runVars, storeVars
  <1>4. ASSUME NEW p \in Pod, BindingCycle(p) PROVE MissInvariant'
    <2>1. CASE UpdatePod(p) \/ AppendPods(p)
      <3>1. /\ Alive /\ UNCHANGED report /\ report = NoReport
            /\ pc[p] \in Binding
        BY <2>1 DEF UpdatePod, AppendPods, Goto, Alive, MissInvariant, Binding, runVars
      <3>2. CarriesChain(p) /\ p \in {Main} \cup Pod /\ p # Main
        BY <3>1, WorkerCarries, Threads
      <3>3. OrderOf(p) /\ p \in Name /\ p \in Nat /\ Made(p) = p + 1
        BY <3>2, CarrierMade, Threads DEF OrderInvariant
      <3>4. Len(pods) = p
        BY <3>1, <3>3 DEF OrderOf
      <3>5. CASE UpdatePod(p)
        BY <3>1, <3>3, <3>4, <3>5 DEF UpdatePod, MissInvariant, TypeOK, fieldVars
      <3>6. CASE AppendPods(p)
        <4>1. slice[p] = pods
          BY <3>2, <3>6 DEF AppendPods, Goto, ChainInvariant, CountsAgree, CountsOf
        <4>2. Len(pods') = Len(pods) + 1 /\ UNCHANGED boundTo
          BY <3>6, <4>1 DEF AppendPods, TypeOK, storeVars
        <4>3. \A k \in Name : k \in Nat
          BY DEF Name
        <4>4. QED
          BY <3>1, <3>3, <3>4, <4>2, <4>3 DEF MissInvariant
      <3>7. QED
        BY <2>1, <3>5, <3>6
    <2>2. CASE CreateNextPod(p)
      BY <1>1, <2>2 DEF CreateNextPod, GenerateName, LoadCounter, StoreCounter, LoadSimulated,
        StoreSimulated, CreatePod, CreateConflict, Goto, fieldVars, runVars, storeVars
    <2>3. QED
      BY <1>1, <1>4, <2>1, <2>2 DEF BindingCycle, GetPod, LoadPods, CheckLimit, SetStopReason,
        Close, ForgetPod, PatchBindError, Goto, fieldVars, runVars, storeVars
  <1>5. CASE ListenerStep \/ UNCHANGED vars \/ \E t \in Thread : Panic(t)
    BY <1>1, <1>5 DEF ListenerStep, DeliverUpdate, SetStopReason, Close, Panic, Goto, vars,
      fieldVars, runVars, storeVars
  <1>6. CASE \/ \E p \in Pod : \/ SchedulePod(p) \/ RejectPod(p) \/ PreemptFor(p)
                                \/ EndBackoff(p) \/ SeePod(p) \/ SeeBinding(p)
             \/ \E n \in Nodes : SeeNode(n)
             \/ \E v \in Preemptible : Evict(v) \/ SeeDeletion(v)
    BY <1>1, <1>6 DEF SchedulePod, RejectPod, PreemptFor, EndBackoff, SeePod, SeeBinding,
      SeeNode, Evict, SeeDeletion, Pop, fieldVars, runVars, storeVars
  <1>7. QED
    BY <1>3, <1>4, <1>5, <1>6 DEF Next, PodStep, Exited

\* The report misses no pod but the one that the stop caught in its binding, if
\* no pending pod of the cluster is bound and none carries a generated name,
\* however late the informers are and whoever stops the analysis.
THEOREM ReportMissesLastOnlyHolds ==
    ASSUME NoPendingFits, NamesAreNew PROVE Spec => []ReportMissesLastOnly
  <1>1. Init => MissInvariant
    <2>1. \A k \in Name : k \in Pod /\ k \notin Existing
      BY Threads DEF NamesAreNew
    <2>2. QED
      BY <2>1 DEF Init, MissInvariant
  <1>2. TypeOK /\ ChainInvariant /\ OrderInvariant /\ MissInvariant => ReportMissesLastOnly
    <2> SUFFICES ASSUME TypeOK, ChainInvariant, OrderInvariant, MissInvariant, HasReport,
                        NEW p \in PlacedPods,
                        p \notin {report.pods[i] : i \in 1..Len(report.pods)}
                 PROVE  p = Len(report.pods)
      BY DEF ReportMissesLastOnly
    <2>1. report.pods = pods
      BY DEF HasReport, MissInvariant
    <2>2. p \in Name /\ p \in Nat /\ boundTo[p] # NoNode
      BY Threads DEF PlacedPods, Pod, ChainInvariant, ClusterPodsIdle, Name
    <2>3. p <= Len(pods) /\ Len(pods) \in Nat
      BY <2>2 DEF MissInvariant, TypeOK
    <2>4. p < Len(pods) => p + 1 \in 1..Len(pods) /\ pods[p + 1] = p
      BY <2>2, <2>3 DEF OrderInvariant, PodsInOrder
    <2>5. QED
      BY <2>1, <2>2, <2>3, <2>4
  <1>3. QED
    BY <1>1, <1>2, NextMiss, TypeCorrect, ChainHolds, OrderHolds, PTL DEF Spec

\* Then no name is used twice: createNextPod never meets AlreadyExists, and no
\* binding fails.
THEOREM FreshNamesHold ==
    ASSUME NoPendingFits, NamesAreNew PROVE Spec => []NamesAreFresh
  <1>1. TypeOK /\ ChainInvariant /\ OrderInvariant => NamesAreFresh
    <2>1. SUFFICES ASSUME TypeOK, ChainInvariant, OrderInvariant, NEW t \in Thread,
                          pc[t] = "create"
                   PROVE  name[t] \notin created
      BY DEF NamesAreFresh
    <2>2. t \in {Main} \cup Pod
      BY <2>1 DEF OrderInvariant, Thread
    <2>3. CarriesChain(t)
      BY <2>1, <2>2, WorkerCarries
    <2>4. OrderOf(t) /\ Made(t) \in Nat /\ name[t] \in Name
      BY <2>1, <2>2, <2>3, CarrierMade DEF OrderInvariant, TypeOK
    <2>5. name[t] = Made(t) /\ ~(name[t] < Made(t))
      BY <2>1, <2>4 DEF OrderOf
    <2>6. QED
      BY <2>4, <2>5 DEF OrderOf
  <1>2. QED
    BY <1>1, TypeCorrect, ChainHolds, OrderHolds, PTL

-----------------------------------------------------------------------------
(***************************************************************************)
(* The room.  The scheduler's cache counts every pod that has a node, and  *)
(* it takes no node more pods than fit, once the analysis has given that   *)
(* node one.                                                               *)
(***************************************************************************)
Counted(p) ==
    boundTo[p] # NoNode /\ (p \in Preemptible => p \in created) =>
        sched[p] \in {"assumed", "known"}

RoomInvariant ==
    /\ \A p \in Pod : Counted(p)
    /\ \A n \in Nodes : \/ \A p \in Occupants(n) : HadNode(p)
                        \/ Cardinality(Occupants(n)) <= Capacity[n]

LEMMA FewerPods ==
    ASSUME NEW n \in Nodes, NEW S \in SUBSET Pod, NEW T \in SUBSET S,
           Cardinality(S) <= Capacity[n]
    PROVE  Cardinality(T) <= Capacity[n]
  <1>1. IsFiniteSet(S)
    BY PodsFinite, FS_Subset
  <1>2. Cardinality(T) <= Cardinality(S) /\ Cardinality(T) \in Nat /\ Cardinality(S) \in Nat
    BY <1>1, FS_Subset, FS_CardinalityType
  <1>3. QED
    BY <1>2, NodesAssumption

\* A step after which the cache counts no pod on a node that it did not count
\* there before.
LEMMA NoNewOccupants ==
    ASSUME RoomInvariant,
           \A p \in Pod : Counted(p)',
           \A n \in Nodes : Occupants(n)' \subseteq Occupants(n)
    PROVE  RoomInvariant'
  <1> SUFFICES ASSUME NEW n \in Nodes
               PROVE  \/ \A p \in Occupants(n)' : HadNode(p)
                      \/ Cardinality(Occupants(n)') <= Capacity[n]
    BY DEF RoomInvariant, HadNode
  <1>1. Occupants(n) \in SUBSET Pod /\ Occupants(n)' \in SUBSET Occupants(n)
    BY DEF Occupants
  <1>2. QED
    BY <1>1, FewerPods DEF RoomInvariant

LEMMA StillRoom ==
    ASSUME RoomInvariant, UNCHANGED <<boundTo, sched, target>>,
           \A v \in Preemptible : v \in created' => v \in created
    PROVE  RoomInvariant'
  <1>1. \A p \in Pod : Counted(p)'
    BY DEF RoomInvariant, Counted
  <1>2. \A n \in Nodes : Occupants(n)' = Occupants(n)
    BY DEF Occupants
  <1>3. QED
    BY <1>1, <1>2, NoNewOccupants

\* The only step that fills a node.
LEMMA ScheduleRoom ==
    ASSUME TypeOK, FullInvariant, RoomInvariant, NEW p \in Pod, SchedulePod(p)
    PROVE  RoomInvariant'
  <1>1. PICK n \in Feasible(p) : target' = [target EXCEPT ![p] = n]
    BY DEF SchedulePod
  <1>2. n \in Nodes /\ HasRoom(n, p)
    BY DEF Feasible, TypeOK
  <1>3. /\ sched[p] = "active" /\ sched'[p] = "assumed" /\ target'[p] = n
        /\ \A q \in Pod : q # p => sched'[q] = sched[q] /\ target'[q] = target[q]
        /\ UNCHANGED <<boundTo, created>>
    BY <1>1 DEF SchedulePod, Pop, TypeOK, storeVars
  <1>4. \A q \in Pod : Counted(q)'
    BY <1>3 DEF RoomInvariant, Counted
  <1>5. ASSUME NEW m \in Nodes
        PROVE  \/ \A q \in Occupants(m)' : HadNode(q)
               \/ Cardinality(Occupants(m)') <= Capacity[m]
    <2>1. CASE m # n
      <3>1. Occupants(m)' = Occupants(m)
        BY <1>3, <2>1 DEF Occupants
      <3>2. QED
        BY <3>1 DEF RoomInvariant
    <2>2. CASE m = n
      <3>1. Occupants(n)' = Occupants(n) \cup {p} /\ p \notin Occupants(n)
        BY <1>2, <1>3 DEF Occupants
      <3>2. Occupants(n) \subseteq Rivals(n, p) /\ Rivals(n, p) \subseteq Pod
        BY DEF Rivals, Occupants, Nominees
      <3>3. IsFiniteSet(Rivals(n, p)) /\ IsFiniteSet(Occupants(n))
        BY <3>2, PodsFinite, FS_Subset
      <3>4. Cardinality(Occupants(n)') = Cardinality(Occupants(n)) + 1
        BY <3>1, <3>3, FS_AddElement
      <3>5. /\ Cardinality(Occupants(n)) <= Cardinality(Rivals(n, p))
            /\ Cardinality(Occupants(n)) \in Nat /\ Cardinality(Rivals(n, p)) \in Nat
        BY <3>2, <3>3, FS_Subset, FS_CardinalityType
      <3>6. Cardinality(Rivals(n, p)) < Capacity[n] /\ Capacity[n] \in Nat
        BY <1>2, NodesAssumption DEF HasRoom
      <3>7. QED
        BY <2>2, <3>4, <3>5, <3>6
    <2>3. QED
      BY <2>1, <2>2
  <1>6. QED
    BY <1>4, <1>5 DEF RoomInvariant, HadNode

LEMMA UpdatePodRoom ==
    ASSUME TypeOK, FullInvariant, RoomInvariant, NEW p \in Pod, UpdatePod(p)
    PROVE  RoomInvariant'
  <1>1. sched[p] = "assumed"
    BY DEF UpdatePod, Goto, FullInvariant, PodsInPlace
  <1>2. /\ UNCHANGED <<sched, target, created>>
        /\ \A q \in Pod : q # p => boundTo'[q] = boundTo[q]
    BY DEF UpdatePod, TypeOK, schedVars
  <1>3. \A q \in Pod : Counted(q)'
    BY <1>1, <1>2 DEF RoomInvariant, Counted
  <1>4. \A n \in Nodes : Occupants(n)' = Occupants(n)
    BY <1>1, <1>2 DEF Occupants
  <1>5. QED
    BY <1>3, <1>4, NoNewOccupants

\* Moves in the queue, and what the informers tell.
LEMMA QueueRoom ==
    ASSUME TypeOK, FullInvariant, RoomInvariant, NEW p \in Pod,
           RejectPod(p) \/ PreemptFor(p) \/ SeePod(p) \/ SeeBinding(p)
    PROVE  RoomInvariant'
  <1>1. /\ UNCHANGED <<boundTo, created>>
        /\ \A q \in Pod : q # p => sched'[q] = sched[q] /\ target'[q] = target[q]
    BY DEF RejectPod, PreemptFor, SeePod, SeeBinding, TypeOK, storeVars
  <1>2. CASE RejectPod(p) \/ PreemptFor(p) \/ SeePod(p)
    <2>1. boundTo[p] = NoNode /\ sched'[p] \in {"active", "parked"}
      <3>1. CASE RejectPod(p) \/ PreemptFor(p)
        BY <3>1 DEF RejectPod, PreemptFor, Pop, FullInvariant, PodsInPlace, TypeOK
      <3>2. CASE SeePod(p)
        BY <3>2 DEF SeePod, RoomInvariant, Counted, TypeOK
      <3>3. QED
        BY <1>2, <3>1, <3>2
    <2>2. \A q \in Pod : Counted(q)'
      BY <1>1, <2>1 DEF RoomInvariant, Counted
    <2>3. \A n \in Nodes : Occupants(n)' \subseteq Occupants(n)
      BY <1>1, <2>1 DEF Occupants
    <2>4. QED
      BY <2>2, <2>3, NoNewOccupants
  <1>3. CASE SeeBinding(p)
    <2>1. /\ boundTo[p] # NoNode /\ sched'[p] = "known"
          /\ sched[p] \in {"assumed", "active", "parked", "backoff"}
      BY <1>3 DEF SeeBinding, TypeOK
    <2>2. sched[p] = "assumed" /\ boundTo[p] = target[p]
      BY <2>1 DEF FullInvariant, PodsInPlace, RoomInvariant, Counted
    <2>3. \A q \in Pod : Counted(q)'
      BY <1>1, <2>1 DEF RoomInvariant, Counted
    <2>4. \A n \in Nodes : Occupants(n)' \subseteq Occupants(n)
      BY <1>1, <2>1, <2>2 DEF Occupants
    <2>5. QED
      BY <2>3, <2>4, NoNewOccupants
  <1>4. QED
    BY <1>2, <1>3

LEMMA EvictionRoom ==
    ASSUME TypeOK, FullInvariant, RoomInvariant, NEW v \in Preemptible, Evict(v) \/ SeeDeletion(v)
    PROVE  RoomInvariant'
  <1>1. CASE Evict(v)
    BY <1>1, StillRoom DEF Evict, schedVars
  <1>2. CASE SeeDeletion(v)
    <2>1. /\ UNCHANGED <<boundTo, created, target>> /\ v \notin created /\ v \in Pod
          /\ sched'[v] = "unseen"
          /\ \A q \in Pod : q # v => \/ sched'[q] = sched[q]
                                     \/ sched[q] = "parked" /\ sched'[q] = "active"
      BY <1>2, Threads DEF SeeDeletion, TypeOK, storeVars
    <2>2. \A q \in Pod : Counted(q)'
      BY <2>1 DEF RoomInvariant, Counted
    <2>3. \A n \in Nodes : Occupants(n)' \subseteq Occupants(n)
      BY <2>1 DEF Occupants
    <2>4. QED
      BY <2>2, <2>3, NoNewOccupants
  <1>3. QED
    BY <1>1, <1>2

\* Steps that neither bind a pod nor move one in the queue.
LEMMA OtherRoom ==
    ASSUME TypeOK, RoomInvariant,
           \/ MainStep \/ ListenerStep \/ UNCHANGED vars \/ \E t \in Thread : Panic(t)
           \/ \E p \in Pod : \/ GetPod(p) \/ LoadPods(p) \/ AppendPods(p) \/ CheckLimit(p)
                             \/ CreateNextPod(p) \/ SetStopReason(p) \/ Close(p)
                             \/ PatchBindError(p)
    PROVE  RoomInvariant'
  <1>1. ASSUME NEW t \in {Main} \cup Pod, CreateNextPod(t) PROVE RoomInvariant'
    <2>1. UNCHANGED <<boundTo, sched, target>>
      BY <1>1 DEF CreateNextPod, GenerateName, LoadCounter, StoreCounter, LoadSimulated,
        StoreSimulated, CreatePod, CreateConflict, storeVars, schedVars
    <2>2. created' = created \/ created' = created \cup {name[t]}
      BY <1>1 DEF CreateNextPod, GenerateName, LoadCounter, StoreCounter, LoadSimulated,
        StoreSimulated, CreatePod, CreateConflict, storeVars
    <2>3. name[t] \in Name
      BY Threads DEF TypeOK
    <2>4. QED
      BY <2>1, <2>2, <2>3, Threads, StillRoom
  <1>2. ASSUME UNCHANGED <<boundTo, sched, target, created>> PROVE RoomInvariant'
    BY <1>2, StillRoom
  <1>3. CASE MainStep
    BY <1>1, <1>2, <1>3 DEF MainStep, WakeUp, ReceiveStop, CancelScheduler, AbortRun, CloseStop,
      ReturnError, MakeReport, storeVars, schedVars
  <1>4. CASE ListenerStep \/ UNCHANGED vars
    BY <1>2, <1>4 DEF ListenerStep, DeliverUpdate, SetStopReason, Close, vars, storeVars,
      schedVars
  <1>5. ASSUME NEW p \in Pod,
               \/ GetPod(p) \/ LoadPods(p) \/ AppendPods(p) \/ CheckLimit(p)
               \/ SetStopReason(p) \/ Close(p) \/ PatchBindError(p)
        PROVE  RoomInvariant'
    BY <1>2, <1>5 DEF GetPod, LoadPods, AppendPods, CheckLimit, SetStopReason, Close,
      PatchBindError, storeVars, schedVars
  <1>6. ASSUME NEW t \in Thread, Panic(t) PROVE RoomInvariant'
    BY <1>2, <1>6 DEF Panic, storeVars, schedVars
  <1>7. QED
    BY <1>1, <1>3, <1>4, <1>5, <1>6

LEMMA NextRoom ==
    /\ Punctual /\ TypeOK /\ FullInvariant /\ OrderInvariant /\ RoomInvariant
    /\ [Next]_vars
    => RoomInvariant'
  <1> SUFFICES ASSUME Punctual, TypeOK, FullInvariant, OrderInvariant, RoomInvariant,
                      [Next]_vars
               PROVE  RoomInvariant'
    OBVIOUS
  <1>1. CASE MainStep \/ ListenerStep \/ UNCHANGED vars \/ \E t \in Thread : Panic(t)
    BY <1>1, OtherRoom
  <1>2. ASSUME NEW p \in Pod, BindingCycle(p) PROVE RoomInvariant'
    <2>1. ~ForgetPod(p)
      BY DEF OrderInvariant, ForgetPod, Goto
    <2>2. QED
      BY <1>2, <2>1, OtherRoom, UpdatePodRoom DEF BindingCycle
  <1>3. ASSUME NEW p \in Pod,
               \/ SchedulePod(p) \/ RejectPod(p) \/ PreemptFor(p) \/ EndBackoff(p)
               \/ SeePod(p) \/ SeeBinding(p)
        PROVE  RoomInvariant'
    <2>1. ~EndBackoff(p)
      BY DEF EndBackoff
    <2>2. QED
      BY <1>3, <2>1, ScheduleRoom, QueueRoom
  <1>4. ASSUME NEW n \in Nodes, SeeNode(n) PROVE RoomInvariant'
    BY <1>4 DEF SeeNode, FullInvariant, PodsInPlace
  <1>5. ASSUME NEW v \in Preemptible, Evict(v) \/ SeeDeletion(v) PROVE RoomInvariant'
    BY <1>5, EvictionRoom
  <1>6. QED
    BY <1>1, <1>2, <1>3, <1>4, <1>5 DEF Next, PodStep, Exited

LEMMA InitRoom == Punctual /\ Init => RoomInvariant
  <1> SUFFICES ASSUME Punctual, Init PROVE RoomInvariant
    OBVIOUS
  <1>1. \A p \in Pod : Counted(p)
    BY DEF Init, Counted
  <1>2. \A n \in Nodes : \A p \in Occupants(n) : HadNode(p)
    BY NodesAssumption DEF Init, Occupants, HadNode
  <1>3. QED
    BY <1>1, <1>2 DEF RoomInvariant

\* No node that the analysis uses is given more pods than it holds: the
\* scheduler's cache is never behind the bindings of Bind, if the informers are
\* punctual and no binding fails.
THEOREM NoOvercommitHolds ==
    ASSUME Punctual, NoPendingFits, NamesAreNew PROVE Spec => []NoOvercommit
  <1>1. TypeOK /\ FullInvariant /\ RoomInvariant => NoOvercommit
    <2> SUFFICES ASSUME TypeOK, FullInvariant, RoomInvariant, NEW n \in Nodes,
                        BoundAt(n) \cap PlacedPods # {}
                 PROVE  Cardinality(BoundAt(n)) <= Capacity[n]
      BY DEF NoOvercommit
    <2>1. BoundAt(n) \subseteq Occupants(n)
      <3>1. SUFFICES ASSUME NEW p \in Pod, p \in created, boundTo[p] = n
                     PROVE  p \in Occupants(n)
        BY DEF BoundAt, TypeOK
      <3>2. boundTo[p] # NoNode
        BY <3>1, NodesAssumption
      <3>3. sched[p] \in {"assumed", "known"}
        BY <3>1, <3>2 DEF RoomInvariant, Counted
      <3>4. sched[p] = "assumed" => target[p] = n
        BY <3>1, <3>2 DEF FullInvariant, PodsInPlace
      <3>5. QED
        BY <3>1, <3>3, <3>4 DEF Occupants
    <2>2. \E p \in Occupants(n) : ~HadNode(p)
      BY <2>1 DEF PlacedPods, HadNode, BoundAt
    <2>3. Cardinality(Occupants(n)) <= Capacity[n]
      BY <2>2 DEF RoomInvariant
    <2>4. Occupants(n) \in SUBSET Pod
      BY DEF Occupants
    <2>5. QED
      BY <2>1, <2>3, <2>4, FewerPods
  <1>2. Init => RoomInvariant
    BY InitRoom
  <1>3. TypeOK /\ FullInvariant /\ OrderInvariant /\ RoomInvariant /\ [Next]_vars
        => RoomInvariant'
    BY NextRoom
  <1>4. Init => FullInvariant
    BY InitFull
  <1>5. TypeOK /\ FullInvariant /\ [Next]_vars => FullInvariant'
    BY NextFull
  <1>6. Spec => []FullInvariant
    BY <1>4, <1>5, TypeCorrect, PTL DEF Spec
  <1>7. QED
    BY <1>1, <1>2, <1>3, <1>6, TypeCorrect, OrderHolds, PTL DEF Spec

=============================================================================
