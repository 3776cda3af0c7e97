----------------------- MODULE ClusterSnapshotProofs -----------------------
(***************************************************************************)
(* Theorems about ClusterSnapshot, for every live cluster, however it      *)
(* changes while SyncWithClient copies it.                                 *)
(***************************************************************************)
EXTENDS ClusterSnapshot, TLAPS

\* No kind is listed twice.
LEMMA OrderIsInjective ==
    /\ Len(Order) = 10
    /\ \A i, j \in 1..10 : Order[i] = Order[j] => i = j
    /\ Kinds = {Order[i] : i \in 1..10}
  <1>1. Len(Order) = 10
    BY DEF Order
  <1>2. \A i \in 1..10 : i \in {1, 2, 3, 4, 5, 6, 7, 8, 9, 10}
    OBVIOUS
  <1>3. \A i, j \in 1..10 : Order[i] = Order[j] => i = j
    BY <1>2 DEF Order
  <1>4. QED
    BY <1>1, <1>3 DEF Kinds

\* The indices of the lists that have been read.
Read == 1..(IF listed THEN next ELSE next - 1)

\* What the copy should have of o, as the live cluster is now.
Right(i, o) ==
    /\ o \in live \ (finished \cup ExcludeNodes)
    /\ o \in Pods => i.node = bound[o]
    /\ o \notin Pods => i.node = NoNode

\* The items read so far, copied or not, have the kinds read so far, and are
\* right about the objects that have not changed: the inductive invariant behind
\* SteadyIsExact and CopiedOnce.
SyncInvariant ==
    /\ CopiedOnce
    /\ \A i \in copy \cup todo : \E k \in Read : KindOf[i.object] = Order[k]
    /\ \A o \in steady : (\E k \in Read : KindOf[o] = Order[k]) =>
          \A i \in Item : i.object = o => (i \in copy \cup todo <=> Right(i, o))
    /\ todo # {} => listed
    /\ listed => next <= 10
    /\ result = "synced" => next = 11

LEMMA ItemType == ASSUME TypeOK, NEW o \in Objects PROVE ItemOf(o) \in Item /\ ItemOf(o).object = o
  BY DEF TypeOK, ItemOf, Item

LEMMA InitSync == Init => TypeOK /\ SyncInvariant
  <1> SUFFICES ASSUME Init PROVE TypeOK /\ SyncInvariant
    OBVIOUS
  <1>1. bound \in [Pods -> Nodes \cup {NoNode}]
    BY DEF Init
  <1>2. TypeOK
    <2>1. /\ live \subseteq Objects /\ finished \subseteq Pods /\ steady \subseteq Objects
        /\ gone \subseteq Nodes
      BY DEF Init
    <2>2. next \in 1..(Len(Order) + 1)
      BY OrderIsInjective DEF Init
    <2>3. listed \in BOOLEAN
      BY DEF Init
    <2>4. todo \subseteq Item /\ copy \subseteq Item /\ result \in {"syncing", "synced", "failed"}
      BY DEF Init
    <2>5. QED
      BY <1>1, <2>1, <2>2, <2>3, <2>4 DEF TypeOK
  <1>3. Read = {}
    BY DEF Init, Read
  <1>4. SyncInvariant
    BY <1>3 DEF Init, SyncInvariant, CopiedOnce
  <1>5. QED
    BY <1>2, <1>4

LEMMA LiveType == TypeOK /\ LiveStep => TypeOK'
  <1> SUFFICES ASSUME TypeOK, LiveStep PROVE TypeOK'
    OBVIOUS
  <1>1. UNCHANGED syncVars
    BY DEF LiveStep, Create, Delete, BindPod, FinishPod, Changed
  <1>2. /\ live' \subseteq Objects /\ finished' \subseteq Pods /\ steady' \subseteq Objects
        /\ gone' \subseteq Nodes
    BY DEF LiveStep, Create, Delete, BindPod, FinishPod, Changed, TypeOK, Pods, Nodes
  <1>3. bound' \in [Pods -> Nodes \cup {NoNode}]
    BY DEF LiveStep, Create, Delete, BindPod, FinishPod, TypeOK
  <1>4. QED
    BY <1>1, <1>2, <1>3 DEF TypeOK, syncVars

LEMMA SyncType == TypeOK /\ SyncStep => TypeOK'
  <1> SUFFICES ASSUME TypeOK, SyncStep PROVE TypeOK'
    OBVIOUS
  <1>1. UNCHANGED <<live, bound, finished, steady, gone>>
    BY DEF SyncStep, List, CopyItem, NextKind, Fail, liveVars
  <1>2. todo' \subseteq Item /\ copy' \subseteq Item
    BY ItemType DEF SyncStep, List, CopyItem, NextKind, Fail, TypeOK
  <1>3. next' \in 1..(Len(Order) + 1) /\ result' \in {"syncing", "synced", "failed"}
    BY OrderIsInjective DEF SyncStep, List, CopyItem, NextKind, Fail, TypeOK, Syncing
  <1>4. listed' \in BOOLEAN
    BY DEF SyncStep, List, CopyItem, NextKind, Fail, TypeOK
  <1>5. QED
    BY <1>1, <1>2, <1>3, <1>4 DEF TypeOK

LEMMA NextType == TypeOK /\ [Next]_vars => TypeOK'
  <1>1. TypeOK /\ UNCHANGED vars => TypeOK'
    BY DEF vars, liveVars, syncVars, TypeOK
  <1>2. QED
    BY <1>1, LiveType, SyncType DEF Next, Ended

\* A change in the live cluster makes its object unsteady and leaves what is
\* right of the others.
LEMMA LiveSync == TypeOK /\ SyncInvariant /\ LiveStep => SyncInvariant'
  <1> SUFFICES ASSUME TypeOK, SyncInvariant, LiveStep PROVE SyncInvariant'
    OBVIOUS
  <1>1. UNCHANGED <<next, listed, todo, copy, result>>
    BY DEF LiveStep, Create, Delete, BindPod, FinishPod, Changed, syncVars
  <1>2. PICK x \in Objects :
          /\ steady' = steady \ {x}
          /\ \A o \in Objects : o # x =>
                /\ o \in live' <=> o \in live
                /\ o \in finished' <=> o \in finished
                /\ o \in Pods => bound'[o] = bound[o]
    BY DEF LiveStep, Create, Delete, BindPod, FinishPod, Changed, TypeOK, Pods, Nodes
  <1>3. Read' = Read
    BY <1>1 DEF Read
  <1>4. ASSUME NEW o \in steady', NEW i \in Item PROVE Right(i, o)' <=> Right(i, o)
    BY <1>2, <1>4 DEF Right, TypeOK
  <1>5. ASSUME NEW o \in steady', \E k \in Read' : KindOf[o] = Order[k],
               NEW i \in Item, i.object = o
        PROVE  i \in copy' \cup todo' <=> Right(i, o)'
    BY <1>1, <1>2, <1>3, <1>4, <1>5 DEF SyncInvariant
  <1>6. CopiedOnce'
    BY <1>1 DEF SyncInvariant, CopiedOnce
  <1>7. QED
    BY <1>1, <1>3, <1>5, <1>6 DEF SyncInvariant

\* The next list: right about every object of its kind, none of which has been
\* copied.
LEMMA ListSync == TypeOK /\ SyncInvariant /\ List => SyncInvariant'
  <1> SUFFICES ASSUME TypeOK, SyncInvariant, List PROVE SyncInvariant'
    OBVIOUS
  <1> DEFINE L == {x \in live : KindOf[x] = Order[next] /\ Wanted(x)}
  <1>1. /\ next \in 1..10 /\ ~listed /\ listed' /\ result = "syncing" /\ todo = {}
        /\ todo' = {ItemOf(o) : o \in L}
        /\ UNCHANGED <<live, bound, finished, steady, next, copy, result>>
    BY OrderIsInjective DEF List, Syncing, liveVars, SyncInvariant, TypeOK
  <1>2. L \subseteq Objects /\ \A i \in todo' : i.object \in L /\ i = ItemOf(i.object)
    BY <1>1, ItemType DEF TypeOK
  <1>3. Read = 1..(next - 1) /\ Read' = 1..next
    BY <1>1 DEF Read
  <1>4. \A i \in todo' : KindOf[i.object] = Order[next]
    BY <1>2
  <1>5. \A i \in copy : KindOf[i.object] # Order[next]
    <2>1. SUFFICES ASSUME NEW i \in copy, NEW k \in 1..(next - 1), Order[k] = Order[next]
                   PROVE  FALSE
      BY <1>3 DEF SyncInvariant
    <2>2. k \in 1..10 /\ k # next
      BY <1>1, <2>1
    <2>3. QED
      BY <1>1, <2>1, <2>2, OrderIsInjective
  <1>6. CopiedOnce'
    <2>1. ASSUME NEW i \in copy' \cup todo', NEW j \in copy' \cup todo', i.object = j.object
          PROVE  i = j
      <3>1. CASE i \in copy /\ j \in copy
        BY <3>1, <2>1 DEF SyncInvariant, CopiedOnce
      <3>2. CASE i \in todo' /\ j \in todo'
        BY <1>2, <2>1, <3>2
      <3>3. CASE i \in copy /\ j \in todo'
        BY <1>4, <1>5, <2>1, <3>3
      <3>4. CASE i \in todo' /\ j \in copy
        BY <1>4, <1>5, <2>1, <3>4
      <3>5. QED
        BY <1>1, <2>1, <3>1, <3>2, <3>3, <3>4
    <2>2. QED
      BY <2>1 DEF CopiedOnce
  <1>7. \A i \in copy' \cup todo' : \E k \in Read' : KindOf[i.object] = Order[k]
    BY <1>1, <1>3, <1>4 DEF SyncInvariant
  <1>8. ASSUME NEW o \in steady', NEW i \in Item, i.object = o
        PROVE  Right(i, o)' <=> Right(i, o)
    BY <1>1 DEF Right
  <1>9. ASSUME NEW o \in steady', NEW k \in Read', KindOf[o] = Order[k],
               NEW i \in Item, i.object = o
        PROVE  i \in copy' \cup todo' <=> Right(i, o)'
    <2>0. o \in Objects
      BY <1>1, <1>9 DEF TypeOK
    <2>1. CASE k = next
      <3>1. i \notin copy
        BY <1>5, <1>9, <2>1
      <3>2. i \in todo' => Right(i, o)
        BY <1>2, <1>9 DEF ItemOf, Right, Wanted
      <3>3. ASSUME Right(i, o) PROVE i \in todo'
        <4>1. o \in L
          BY <1>9, <2>1, <3>3 DEF Right, Wanted
        <4>2. i = ItemOf(o)
          BY <1>9, <2>0, <3>3 DEF Right, ItemOf, Item
        <4>3. QED
          BY <1>1, <4>1, <4>2
      <3>4. QED
        BY <1>1, <1>8, <1>9, <3>1, <3>2, <3>3
    <2>2. CASE k # next
      <3>1. k \in Read /\ k \in 1..10
        BY <1>1, <1>3, <2>2
      <3>2. i \notin todo'
        BY <1>1, <1>4, <1>9, <2>2, <3>1, OrderIsInjective
      <3>3. i \in copy <=> Right(i, o)
        BY <1>1, <1>9, <3>1 DEF SyncInvariant
      <3>4. QED
        BY <1>1, <1>8, <1>9, <3>2, <3>3
    <2>3. QED
      BY <2>1, <2>2
  <1>10. QED
    BY <1>1, <1>6, <1>7, <1>9 DEF SyncInvariant

LEMMA SyncSync ==
    TypeOK /\ SyncInvariant /\ (CopyItem \/ NextKind \/ Fail \/ UNCHANGED vars) => SyncInvariant'
  <1> SUFFICES ASSUME TypeOK, SyncInvariant, CopyItem \/ NextKind \/ Fail \/ UNCHANGED vars
               PROVE  SyncInvariant'
    OBVIOUS
  <1>1. /\ UNCHANGED <<live, bound, finished, steady>>
        /\ copy' \cup todo' = copy \cup todo
    BY DEF CopyItem, NextKind, Fail, vars, liveVars, syncVars
  <1>2. Read' = Read
    BY OrderIsInjective DEF CopyItem, NextKind, Fail, vars, syncVars, Read, TypeOK, Syncing
  <1>3. CopiedOnce'
    BY <1>1 DEF SyncInvariant, CopiedOnce
  <1>4. \A o \in Objects : \A i \in Item : Right(i, o)' <=> Right(i, o)
    BY <1>1 DEF Right
  <1>5. steady \subseteq Objects
    BY DEF TypeOK
  <1>6. /\ todo' # {} => listed'
        /\ listed' => next' <= 10
        /\ result' = "synced" => next' = 11
    BY OrderIsInjective DEF CopyItem, NextKind, Fail, vars, syncVars, Syncing, SyncInvariant,
      TypeOK
  <1>7. QED
    BY <1>1, <1>2, <1>3, <1>4, <1>5, <1>6 DEF SyncInvariant

LEMMA SyncHolds == Spec => [](TypeOK /\ SyncInvariant)
  <1>1. TypeOK /\ SyncInvariant /\ [Next]_vars => SyncInvariant'
    BY LiveSync, ListSync, SyncSync DEF Next, SyncStep, Ended
  <1>2. QED
    BY <1>1, InitSync, NextType, PTL DEF Spec

\* A complete copy is right about every object that did not change meanwhile,
\* for every cluster and however the rest of it changes.
THEOREM SteadyHolds == Spec => []SteadyIsExact
  <1>1. TypeOK /\ SyncInvariant => SteadyIsExact
    <2>1. SUFFICES ASSUME TypeOK, SyncInvariant, result = "synced",
                          NEW o \in steady, NEW i \in Item, i.object = o
                   PROVE  i \in copy <=> Right(i, o)
      BY DEF SteadyIsExact, Right
    <2>2. next = 11 /\ ~listed /\ todo = {}
      BY <2>1 DEF SyncInvariant
    <2>3. Read = 1..10
      BY <2>2 DEF Read
    <2>4. \E k \in 1..10 : KindOf[o] = Order[k]
      BY <2>1, OrderIsInjective, ObjectsAssumption DEF TypeOK
    <2>5. QED
      BY <2>1, <2>2, <2>3, <2>4 DEF SyncInvariant
  <1>2. QED
    BY <1>1, SyncHolds, PTL

-----------------------------------------------------------------------------
\* A pod, and an item of one, is on a node that exists or has been deleted, and
\* once the nodes have been listed the copy has, or will have, those of its pods:
\* the inductive invariant behind NoDanglingPods.
NodeInvariant ==
    /\ \A p \in Pods : bound[p] \in live \cup gone \cup {NoNode}
    /\ \A i \in copy \cup todo : i.node \in live \cup gone \cup {NoNode}
    /\ 3 \in Read =>
          \A i \in copy \cup todo :
              i.node \notin {NoNode} \cup ExcludeNodes \cup gone =>
                  [object |-> i.node, node |-> NoNode] \in copy \cup todo

LEMMA NotBoth == Pods \cap Nodes = {} /\ NoNode \notin Nodes
  BY ObjectsAssumption DEF Pods, Nodes

\* No node disappears but into gone, and pods are bound to live nodes only.
LEMMA LiveNode == TypeOK /\ NodeInvariant /\ LiveStep => NodeInvariant'
  <1> SUFFICES ASSUME TypeOK, NodeInvariant, LiveStep PROVE NodeInvariant'
    OBVIOUS
  <1>1. UNCHANGED <<next, listed, todo, copy, result>>
    BY DEF LiveStep, Create, Delete, BindPod, FinishPod, Changed, syncVars
  <1>2. gone \subseteq gone' /\ Nodes \cap (live \cup gone) \subseteq live' \cup gone'
    BY DEF LiveStep, Create, Delete, BindPod, FinishPod
  <1>3. ASSUME NEW p \in Pods PROVE bound'[p] \in {bound[p], NoNode} \cup live'
    BY <1>3 DEF LiveStep, Create, Delete, BindPod, FinishPod, TypeOK
  <1>4. \A p \in Pods : bound[p] \in Nodes \cup {NoNode}
    BY DEF TypeOK
  <1>5. \A i \in copy \cup todo : i.node \in Nodes \cup {NoNode}
    BY DEF TypeOK, Item
  <1>6. \A p \in Pods : bound'[p] \in live' \cup gone' \cup {NoNode}
    BY <1>2, <1>3, <1>4 DEF NodeInvariant
  <1>7. QED
    BY <1>1, <1>2, <1>5, <1>6 DEF NodeInvariant, Read

\* A list of pods names nodes that exist or are gone; the list of nodes, which
\* is read later, has all that exist but the excluded ones.
LEMMA ListNode == TypeOK /\ SyncInvariant /\ NodeInvariant /\ List => NodeInvariant'
  <1> SUFFICES ASSUME TypeOK, SyncInvariant, NodeInvariant, List PROVE NodeInvariant'
    OBVIOUS
  <1> DEFINE L == {x \in live : KindOf[x] = Order[next] /\ Wanted(x)}
  <1>1. /\ next \in 1..10 /\ ~listed /\ listed' /\ todo = {}
        /\ todo' = {ItemOf(o) : o \in L}
        /\ UNCHANGED <<live, bound, finished, gone, next, copy>>
    BY OrderIsInjective DEF List, Syncing, liveVars, SyncInvariant, TypeOK
  <1>2. Read = 1..(next - 1) /\ Read' = 1..next
    BY <1>1 DEF Read
  <1>3. Order[2] = "pods" /\ Order[3] = "nodes"
    BY DEF Order
  <1>4. \A i \in todo' : i.node \in live \cup gone \cup {NoNode}
    BY <1>1 DEF ItemOf, NodeInvariant
  <1>5. next # 2 => \A i \in todo' : i.node = NoNode
    <2>1. next # 2 => \A o \in L : o \notin Pods
      BY <1>1, <1>3, OrderIsInjective DEF Pods
    <2>2. QED
      BY <1>1, <2>1 DEF ItemOf
  <1>6. ASSUME 3 \in Read', NEW i \in copy' \cup todo',
               i.node \notin {NoNode} \cup ExcludeNodes \cup gone'
        PROVE  [object |-> i.node, node |-> NoNode] \in copy' \cup todo'
    <2>1. next # 2 /\ i \in copy
      BY <1>1, <1>2, <1>5, <1>6
    <2>2. CASE next = 3
      <3>1. i.node \in live /\ i.node \in Nodes
        BY <1>1, <1>6, <2>1 DEF NodeInvariant, TypeOK, Item
      <3>2. i.node \in L /\ i.node \notin Pods
        BY <1>1, <1>3, <1>6, <2>2, <3>1, NotBoth DEF Wanted, TypeOK, Nodes
      <3>3. ItemOf(i.node) = [object |-> i.node, node |-> NoNode]
        BY <3>2 DEF ItemOf
      <3>4. QED
        BY <1>1, <3>2, <3>3
    <2>3. CASE next # 3
      <3>1. 3 \in Read
        BY <1>1, <1>2, <1>6, <2>3
      <3>2. QED
        BY <1>1, <1>6, <2>1, <3>1 DEF NodeInvariant
    <2>4. QED
      BY <2>2, <2>3
  <1>7. QED
    BY <1>1, <1>4, <1>6 DEF NodeInvariant

LEMMA SyncNode ==
    TypeOK /\ NodeInvariant /\ (CopyItem \/ NextKind \/ Fail \/ UNCHANGED vars) => NodeInvariant'
  <1> SUFFICES ASSUME TypeOK, NodeInvariant, CopyItem \/ NextKind \/ Fail \/ UNCHANGED vars
               PROVE  NodeInvariant'
    OBVIOUS
  <1>1. /\ UNCHANGED <<live, bound, gone>>
        /\ copy' \cup todo' = copy \cup todo
    BY DEF CopyItem, NextKind, Fail, vars, liveVars, syncVars
  <1>2. Read' = Read
    BY OrderIsInjective DEF CopyItem, NextKind, Fail, vars, syncVars, Read, TypeOK, Syncing
  <1>3. QED
    BY <1>1, <1>2 DEF NodeInvariant

\* No pod of a complete copy is on a node that the copy lacks, unless the node
\* is excluded or was deleted meanwhile: for every cluster and however it
\* changes.
THEOREM NoDanglingPodsHolds == Spec => []NoDanglingPods
  <1>1. Init => NodeInvariant
    BY DEF Init, NodeInvariant, Read
  <1>2. TypeOK /\ SyncInvariant /\ NodeInvariant /\ [Next]_vars => NodeInvariant'
    BY LiveNode, ListNode, SyncNode DEF Next, SyncStep, Ended
  <1>3. TypeOK /\ SyncInvariant /\ NodeInvariant => NoDanglingPods
    <2>1. ASSUME SyncInvariant, result = "synced" PROVE todo = {} /\ 3 \in Read
      BY <2>1 DEF SyncInvariant, Read
    <2>2. QED
      BY <2>1 DEF NodeInvariant, NoDanglingPods
  <1>4. QED
    BY <1>1, <1>2, <1>3, SyncHolds, PTL DEF Spec

\* No create of SyncWithClient conflicts with an earlier one.
THEOREM CopiedOnceHolds == Spec => []CopiedOnce
  <1>1. SyncInvariant => CopiedOnce
    BY DEF SyncInvariant
  <1>2. QED
    BY <1>1, SyncHolds, PTL

=============================================================================
