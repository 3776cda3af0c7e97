---------------------------- MODULE GenPodProofs ----------------------------
(***************************************************************************)
(* The loop of RetrieveNamespacePod finds the smallest maxima, whatever    *)
(* limit ranges the namespace has; in the genpod command too, whose pod is *)
(* made of a namespace of the cluster that will be analysed.               *)
(***************************************************************************)
EXTENDS GenPodCommand, TLAPS

LEMMA InitType == Init => TypeOK
  BY DEF Init, TypeOK, Nothing, Amounts, Selector

\* What a list of the limit ranges returns.
LEMMA ListType == ASSUME ListLimitRanges PROVE items' \in Seq(LimitItem)
  <1>1. PICK n \in 0..MaxItems : items' \in [1..n -> LimitItem]
    BY DEF ListLimitRanges
  <1>2. n \in Nat
    BY <1>1, AmountAssumption
  <1>3. QED
    BY <1>1, <1>2

\* An item of the list is a limit item.
LEMMA ItemType ==
    ASSUME TypeOK, NEW k \in 1..Len(items)
    PROVE  items[k].max \in Amounts
  <1>1. items[k] \in LimitItem
    BY DEF TypeOK
  <1>2. QED
    BY <1>1 DEF LimitItem

LEMMA NextType == TypeOK /\ [Next]_vars => TypeOK'
  <1> SUFFICES ASSUME TypeOK, [Next]_vars PROVE TypeOK'
    OBVIOUS
  <1>1. CASE VisitItem
    <2>1. items' = items /\ Len(items) \in Nat /\ i \in 1..Len(items)
      BY <1>1 DEF VisitItem, TypeOK
    <2>2. items[i].max \in Amounts
      BY <2>1, ItemType
    <2>3. resources' \in Amounts
      BY <1>1, <2>2 DEF VisitItem, TypeOK, Amounts, Smaller
    <2>4. i' \in 1..(Len(items') + 1)
      BY <1>1, <2>1 DEF VisitItem
    <2>5. QED
      BY <1>1, <2>3, <2>4 DEF VisitItem, TypeOK
  <1>2. CASE EndLoop
    BY <1>2 DEF EndLoop, TypeOK
  <1>3. CASE SetLimits
    BY <1>3 DEF SetLimits, TypeOK
  <1>4. CASE SetSelector
    BY <1>4 DEF SetSelector, TypeOK
  <1>5. CASE UNCHANGED vars
    BY <1>5 DEF vars, TypeOK
  <1>6. CASE GetNamespace
    BY <1>6 DEF GetNamespace, TypeOK
  <1>7. CASE ListLimitRanges
    <2>1. items' \in Seq(LimitItem)
      BY <1>7, ListType
    <2>2. i' \in 1..(Len(items') + 1) /\ resources' \in Amounts
      BY <1>7, <2>1 DEF ListLimitRanges, Nothing, Amounts
    <2>3. QED
      BY <1>7, <2>1, <2>2 DEF ListLimitRanges, TypeOK
  <1>8. CASE RequestFails
    BY <1>8 DEF RequestFails, TypeOK
  <1>9. QED
    BY <1>1, <1>2, <1>3, <1>4, <1>5, <1>6, <1>7, <1>8 DEF Next, Retrieve, Returned

\* What one more item adds to the maxima the loop has seen.
LEMMA MaximaNext ==
    ASSUME TypeOK, NEW r \in Resources, i \in 1..Len(items)
    PROVE  Maxima(r, i) = IF items[i].type # "Pod" THEN Maxima(r, i - 1)
                          ELSE Maxima(r, i - 1) \cup ({items[i].max[r]} \ {Unset})
  <1>1. Len(items) \in Nat /\ i \in Nat
    BY DEF TypeOK
  <1>2. 1..i = (1..(i - 1)) \cup {i} /\ i \notin 1..(i - 1)
    BY <1>1
  <1>3. QED
    BY <1>2 DEF Maxima

\* Maxima are amounts.
LEMMA MaximaType ==
    ASSUME TypeOK, NEW r \in Resources, NEW n \in 0..Len(items)
    PROVE  Maxima(r, n) \subseteq Amount
  <1>1. \A k \in 1..n : k \in 1..Len(items)
    BY DEF TypeOK
  <1>2. \A k \in 1..n : items[k].max \in Amounts
    BY <1>1, ItemType
  <1>3. QED
    BY <1>2 DEF Maxima, Amounts

\* Smaller keeps the smallest of the maxima seen.
LEMMA SmallerIsSmallest ==
    ASSUME NEW S \in SUBSET Nat, NEW a \in Nat \cup {Unset}, IsSmallest(a, S),
           NEW b \in Nat \cup {Unset}
    PROVE  IsSmallest(IF b # Unset /\ (a = Unset \/ a > b) THEN b ELSE a,
                      S \cup ({b} \ {Unset}))
  <1>1. CASE b = Unset
    BY <1>1
  <1>2. CASE b # Unset /\ S = {}
    BY <1>2 DEF IsSmallest
  <1>3. CASE b # Unset /\ S # {}
    <2>1. a \in S /\ a \in Nat /\ b \in Nat /\ a # Unset /\ \A c \in S : a <= c
      BY <1>3, AmountAssumption DEF IsSmallest
    <2>2. S \cup ({b} \ {Unset}) = S \cup {b}
      BY <1>3
    <2>3. CASE a > b
      <3>1. \A c \in S \cup {b} : b <= c
        BY <2>1, <2>3
      <3>2. QED
        BY <1>3, <2>2, <2>3, <3>1 DEF IsSmallest
    <2>4. CASE ~(a > b)
      <3>1. \A c \in S \cup {b} : a <= c
        BY <2>1, <2>4
      <3>2. QED
        BY <2>1, <2>2, <2>4, <3>1 DEF IsSmallest
    <2>5. QED
      BY <2>3, <2>4
  <1>4. QED
    BY <1>1, <1>2, <1>3

LEMMA InitLoop == Init => LoopInvariant
  <1> SUFFICES ASSUME Init PROVE LoopInvariant
    OBVIOUS
  <1>1. i = Len(items) + 1 /\ 1..(i - 1) = {} /\ pc = "get"
    BY DEF Init
  <1>2. \A r \in Resources : Maxima(r, i - 1) = {} /\ resources[r] = Unset
    BY <1>1 DEF Maxima, Init, Nothing
  <1>3. QED
    BY <1>1, <1>2 DEF LoopInvariant, IsSmallest

LEMMA NextLoop == TypeOK /\ LoopInvariant /\ [Next]_vars => LoopInvariant'
  <1> SUFFICES ASSUME TypeOK, LoopInvariant, [Next]_vars PROVE LoopInvariant'
    OBVIOUS
  <1>1. CASE VisitItem
    <2>1. /\ items' = items /\ i' = i + 1 /\ pc' = "loop" /\ pc = "loop"
          /\ i \in 1..Len(items) /\ Len(items) \in Nat /\ (i + 1) - 1 = i
      BY <1>1 DEF VisitItem, TypeOK
    <2>2. ASSUME NEW r \in Resources
          PROVE  IsSmallest(resources'[r], Maxima(r, i))
      <3>1. /\ items[i].max[r] \in Amount \cup {Unset}
            /\ resources[r] \in Amount \cup {Unset}
        BY <2>1, ItemType DEF TypeOK, Amounts
      <3>2. Maxima(r, i - 1) \in SUBSET Nat
        BY <2>1, MaximaType DEF Amount
      <3>3. IsSmallest(resources[r], Maxima(r, i - 1))
        BY DEF LoopInvariant
      <3>4. CASE items[i].type # "Pod"
        BY <1>1, <2>1, <3>3, <3>4, MaximaNext DEF VisitItem
      <3>5. CASE items[i].type = "Pod"
        <4>1. resources'[r] = Smaller(r, items[i].max)
          BY <1>1, <3>5 DEF VisitItem
        <4>2. Maxima(r, i) = Maxima(r, i - 1) \cup ({items[i].max[r]} \ {Unset})
          BY <2>1, <3>5, MaximaNext
        <4>0. Amount \subseteq Nat
          BY AmountAssumption DEF Amount
        <4>3. PICK a \in Nat \cup {Unset} : a = resources[r]
          BY <3>1, <4>0, Zenon
        <4>4. PICK b \in Nat \cup {Unset} : b = items[i].max[r]
          BY <3>1, <4>0, Zenon
        <4>5. PICK S \in SUBSET Nat : S = Maxima(r, i - 1)
          BY <3>2
        <4>6. IsSmallest(a, S)
          BY <3>3, <4>3, <4>5
        <4>7. IsSmallest(IF b # Unset /\ (a = Unset \/ a > b) THEN b ELSE a,
                         S \cup ({b} \ {Unset}))
          BY <4>6, SmallerIsSmallest
        <4>8. QED
          BY <4>1, <4>2, <4>3, <4>4, <4>5, <4>7 DEF Smaller
      <3>6. QED
        BY <3>4, <3>5
    <2>3. \A r \in Resources : Maxima(r, i)' = Maxima(r, i')
      BY <2>1 DEF Maxima
    <2>4. \A r \in Resources : IsSmallest(resources[r], Maxima(r, i - 1))'
      BY <2>1, <2>2 DEF Maxima, IsSmallest
    <2>5. QED
      BY <2>1, <2>4 DEF LoopInvariant
  <1>2. CASE EndLoop
    <2>1. i = Len(items) + 1
      BY <1>2 DEF EndLoop, TypeOK
    <2>2. UNCHANGED <<items, i, resources>> /\ pc' = "limits"
      BY <1>2 DEF EndLoop
    <2>3. \A r \in Resources : IsSmallest(resources[r], Maxima(r, i - 1))'
      BY <2>2 DEF LoopInvariant, Maxima
    <2>4. QED
      BY <2>1, <2>2, <2>3 DEF LoopInvariant
  <1>3. CASE SetLimits
    BY <1>3 DEF SetLimits, LoopInvariant, Maxima, Nonzero
  <1>4. CASE SetSelector
    BY <1>4 DEF SetSelector, LoopInvariant, Maxima, Nonzero
  <1>5. CASE UNCHANGED vars
    BY <1>5 DEF vars, LoopInvariant, Maxima, Nonzero
  <1>6. CASE GetNamespace
    BY <1>6 DEF GetNamespace, LoopInvariant, Maxima, Nonzero
  <1>7. CASE ListLimitRanges
    <2>1. i' = 1 /\ pc' = "loop" /\ \A r \in Resources : resources'[r] = Unset
      BY <1>7 DEF ListLimitRanges, Nothing
    <2>2. \A r \in Resources : Maxima(r, i - 1)' = {}
      BY <2>1 DEF Maxima
    <2>3. QED
      BY <2>1, <2>2 DEF LoopInvariant, IsSmallest
  <1>8. CASE RequestFails
    BY <1>8 DEF RequestFails, LoopInvariant, Maxima, Nonzero
  <1>9. QED
    BY <1>1, <1>2, <1>3, <1>4, <1>5, <1>6, <1>7, <1>8 DEF Next, Retrieve, Returned

\* Every variable of RetrieveNamespacePod keeps its type.
THEOREM NamespacePodType == Spec => []TypeOK
  BY InitType, NextType, PTL DEF Spec

LEMMA LoopHolds == Spec => []LoopInvariant
  <1>1. TypeOK /\ LoopInvariant /\ [Next]_vars => LoopInvariant'
    BY NextLoop
  <1>2. QED
    BY InitLoop, <1>1, NamespacePodType, PTL DEF Spec

\* The loop over the limit ranges picks the minimum of the pod constraints for
\* every number, order and amount of the items.
THEOREM MinimumHolds == Spec => []LimitsAreTheMinimum
  <1>1. TypeOK /\ LoopInvariant => LimitsAreTheMinimum
    <2>1. SUFFICES ASSUME TypeOK, LoopInvariant, pc # "loop"
                   PROVE  \A r \in Resources : IsSmallest(resources[r], Maxima(r, Len(items)))
      BY DEF LimitsAreTheMinimum
    <2>2. i - 1 = Len(items)
      BY <2>1 DEF LoopInvariant, TypeOK
    <2>3. QED
      BY <2>1, <2>2 DEF LoopInvariant
  <1>2. QED
    BY <1>1, NamespacePodType, LoopHolds, PTL

\* The pod of a namespace that allows something carries exactly those minima.
THEOREM KeptHolds == Spec => []LimitsAreKept
  <1>1. LoopInvariant /\ LimitsAreTheMinimum => LimitsAreKept
    BY DEF LoopInvariant, LimitsAreTheMinimum, LimitsAreKept, Nonzero
  <1>2. QED
    BY <1>1, LoopHolds, MinimumHolds, PTL


-----------------------------------------------------------------------------
(***************************************************************************)
(* The command.                                                            *)
(***************************************************************************)
\* The genpod command runs RetrieveNamespacePod and nothing else on its state:
\* all that holds of the one holds of the other.
THEOREM CommandRuns == CommandSpec => Spec
  <1>1. CommandInit => Init
    BY DEF CommandInit
  <1>2. [CommandNext]_<<vars, commandVars>> => [Next]_vars
    BY DEF CommandNext, Validate, Connect, NewClient, RetrieveNamespacePod, WritePod, Fail,
           Fatal, Exited, Next
  <1>3. QED
    BY <1>1, <1>2, PTL DEF CommandSpec, Spec

\* The pod that the command prints has the smallest maxima of its namespace.
THEOREM CommandMinimumHolds == CommandSpec => [](LimitsAreTheMinimum /\ LimitsAreKept)
  BY CommandRuns, MinimumHolds, KeptHolds, PTL

\* The namespace is one of the cluster that cluster-capacity will analyse, given
\* the same kubeconfig, environment and files, unless both --kubeconfig and
\* CC_INCLUSTER are given, which genpod and cluster-capacity rank differently.
THEOREM SameClusterHolds == CommandSpec => []SameClusterAsAnalysis
  <1>1. CommandInit => SameClusterAsAnalysis
    BY DEF CommandInit, SameClusterAsAnalysis
  <1>2. SameClusterAsAnalysis /\ [CommandNext]_<<vars, commandVars>> => SameClusterAsAnalysis'
    <2> SUFFICES ASSUME SameClusterAsAnalysis, [CommandNext]_<<vars, commandVars>>
                 PROVE  SameClusterAsAnalysis'
      OBVIOUS
    <2> USE DEF SameClusterAsAnalysis, Goto
    <2>1. CASE Validate \/ NewClient
      BY <2>1 DEF Validate, NewClient
    <2>2. CASE Connect
      <3>1. stage' = "client" /\ UNCHANGED flagVars /\ server' # NoServer
            /\ server' = IF inCluster THEN InCluster ELSE GetMasterFromKubeConfig(disk, flag)
        BY <2>2 DEF Connect
      <3>2. CASE inCluster
        BY <3>1, <3>2 DEF AnalysisServer, flagVars
      <3>3. CASE ~inCluster
        <4>1. flag # NoPath
          BY <3>1, <3>3 DEF GetMasterFromKubeConfig
        <4>2. QED
          BY <3>1, <3>3, <4>1 DEF AnalysisServer, flagVars
      <3>4. QED
        BY <3>2, <3>3
    <2>3. CASE RetrieveNamespacePod
      BY <2>3 DEF RetrieveNamespacePod, commandVars
    <2>4. CASE WritePod \/ Fail \/ Fatal
      BY <2>4 DEF WritePod, Fail, Fatal
    <2>5. CASE UNCHANGED <<vars, commandVars>>
      BY <2>5 DEF commandVars, flagVars
    <2>6. QED
      BY <2>1, <2>2, <2>3, <2>4, <2>5 DEF CommandNext, Exited
  <1>3. QED
    BY <1>1, <1>2, PTL DEF CommandSpec

=============================================================================
