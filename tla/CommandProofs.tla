--------------------------- MODULE CommandProofs ---------------------------
(***************************************************************************)
(* What holds of every run of the cluster-capacity command: it analyses    *)
(* the cluster it is told, and its review adds up, fits the cluster and    *)
(* explains why the analysis stopped.                                      *)
(*                                                                         *)
(* Induction is by WFMin, the least element of a set of naturals: the set  *)
(* of those that a claim holds for contains 0 and the successor of each.   *)
(***************************************************************************)
EXTENDS CapacityCommand, WellFoundedInduction, FiniteSetTheorems, TLAPS

-----------------------------------------------------------------------------
(***************************************************************************)
(* Sets of naturals.                                                       *)
(***************************************************************************)
LEMMA Least ==
    ASSUME NEW S, S \subseteq Nat, S # {}
    PROVE  \E m \in S : \A n \in S : m <= n
  <1> DEFINE R == {ss \in Nat \X Nat : ss[1] < ss[2]}
  <1>1. IsWellFoundedOn(R, Nat)
    BY NatLessThanWellFounded DEF OpToRel
  <1>2. \E m \in S : \A n \in S : <<n, m>> \notin R
    <2> HIDE DEF R
    <2> QED
      BY <1>1, WFMin
  <1>3. \A m, n \in Nat : <<n, m>> \notin R => m <= n
    OBVIOUS
  <1>4. QED
    BY <1>2, <1>3

LEMMA Induction ==
    ASSUME NEW S, 0 \in S, \A n \in Nat : n \in S => n + 1 \in S
    PROVE  Nat \subseteq S
  <1> SUFFICES ASSUME Nat \ S # {} PROVE FALSE
    OBVIOUS
  <1>1. PICK m \in Nat \ S : \A n \in Nat \ S : m <= n
    BY Least
  <1>2. m - 1 \in Nat /\ m - 1 \in S
    BY <1>1
  <1>3. QED
    BY <1>1, <1>2

\* The smallest and the largest element, where there are.
LEMMA MinIs ==
    ASSUME NEW S, S \subseteq Nat, S # {}
    PROVE  Min(S) \in S /\ \A n \in S : Min(S) <= n
  BY Least DEF Min

LEMMA MaxIs ==
    ASSUME NEW S, S \subseteq Nat, S # {}, NEW b \in Nat, \A n \in S : n <= b
    PROVE  Max(S) \in S /\ \A n \in S : n <= Max(S)
  <1> DEFINE Bounds == {c \in Nat : \A n \in S : n <= c}
  <1>1. PICK m \in Bounds : \A c \in Bounds : m <= c
    BY Least
  <1>2. m \in S
    <2>1. SUFFICES ASSUME m \notin S PROVE FALSE
      OBVIOUS
    <2>2. \A n \in S : n <= m - 1 /\ m - 1 \in Nat
      BY <1>1, <2>1
    <2>3. m - 1 \in Bounds
      BY <1>1, <2>2
    <2>4. QED
      BY <1>1, <2>3
  <1>3. QED
    BY <1>1, <1>2 DEF Max

\* Among the first n numbers the largest of all is n.
LEMMA MaxOfPart ==
    ASSUME NEW n \in Nat, NEW t \in SUBSET (1..n), t # {}
    PROVE  Max(t) \in t /\ \A k \in t : k <= Max(t)
  <1>1. t \subseteq Nat /\ \A k \in t : k <= n
    OBVIOUS
  <1>2. QED
    BY <1>1, MaxIs

LEMMA MaxOfRange ==
    ASSUME NEW n \in Nat, n # 0
    PROVE  Max(1..n) = n /\ (1..n) \ {n} = 1..(n - 1)
  <1>1. n \in 1..n
    OBVIOUS
  <1>2. Max(1..n) \in 1..n /\ \A k \in 1..n : k <= Max(1..n)
    BY <1>1, MaxOfPart
  <1>3. QED
    BY <1>1, <1>2

-----------------------------------------------------------------------------
(***************************************************************************)
(* Sums.  p has the partial sums of the first n values.                    *)
(***************************************************************************)
IsSum(p, value, n) ==
    /\ p \in [0..n -> Nat] /\ p[0] = 0
    /\ \A k \in 1..n : p[k] = p[k - 1] + value[k]

\* The recursive function behind a fold of values is defined.
SumEquation(f, value, n) ==
    f = [t \in SUBSET (1..n) |-> IF t = {} THEN 0 ELSE f[t \ {Max(t)}] + value[Max(t)]]

LEMMA SumExists ==
    ASSUME NEW n \in Nat, NEW value \in [1..n -> Nat]
    PROVE  \E f \in [SUBSET (1..n) -> Nat] : SumEquation(f, value, n)
  <1> DEFINE Upto(k) == \E f \in [SUBSET (1..k) -> Nat] : SumEquation(f, value, k)
  <1> DEFINE Defined == {k \in Nat : k <= n => Upto(k)}
  <1>1. 0 \in Defined
    <2> DEFINE f == [t \in SUBSET (1..0) |-> 0]
    <2>1. f \in [SUBSET (1..0) -> Nat] /\ SUBSET (1..0) = {{}}
      OBVIOUS
    <2>2. SumEquation(f, value, 0)
      BY <2>1 DEF SumEquation
    <2>3. QED
      BY <2>1, <2>2
  <1>2. ASSUME NEW k \in Nat, k \in Defined PROVE k + 1 \in Defined
    <2>1. SUFFICES ASSUME k + 1 <= n PROVE Upto(k + 1)
      <3> HIDE DEF Upto
      <3> QED
        OBVIOUS
    <2>2. PICK f \in [SUBSET (1..k) -> Nat] : SumEquation(f, value, k)
      <3>1. Upto(k)
        <4> HIDE DEF Upto
        <4> QED
          BY <1>2, <2>1
      <3>2. QED
        BY <3>1
    <2> DEFINE g == [t \in SUBSET (1..(k + 1)) |->
                       IF k + 1 \in t THEN f[t \ {k + 1}] + value[k + 1] ELSE f[t]]
    <2>3. \A t \in SUBSET (1..(k + 1)) :
             /\ k + 1 \in t => t \ {k + 1} \in SUBSET (1..k)
             /\ k + 1 \notin t => t \in SUBSET (1..k)
      <3>1. 1..(k + 1) = (1..k) \cup {k + 1}
        OBVIOUS
      <3>2. QED
        BY <3>1
    <2>4. g \in [SUBSET (1..(k + 1)) -> Nat]
      <3>1. value[k + 1] \in Nat
        BY <2>1
      <3>2. QED
        BY <2>3, <3>1
    <2>5. ASSUME NEW t \in SUBSET (1..(k + 1))
          PROVE  g[t] = IF t = {} THEN 0 ELSE g[t \ {Max(t)}] + value[Max(t)]
      <3>1. CASE k + 1 \in t
        <4>1. Max(t) = k + 1
          <5>1. t # {} /\ k + 1 \in Nat
            BY <3>1
          <5>2. Max(t) \in t /\ \A u \in t : u <= Max(t)
            BY <5>1, MaxOfPart
          <5>3. Max(t) \in 1..(k + 1) /\ k + 1 <= Max(t)
            BY <3>1, <5>2
          <5>4. QED
            BY <5>3
        <4>2. t \ {k + 1} \in SUBSET (1..(k + 1)) /\ k + 1 \notin t \ {k + 1}
          OBVIOUS
        <4>3. g[t] = f[t \ {k + 1}] + value[k + 1] /\ g[t \ {k + 1}] = f[t \ {k + 1}]
          BY <3>1, <4>2
        <4>4. QED
          BY <3>1, <4>1, <4>3
      <3>2. CASE k + 1 \notin t
        <4>1. t \in SUBSET (1..k) /\ \A u : t \ {u} \in SUBSET (1..k) /\ k + 1 \notin t \ {u}
          BY <2>3, <3>2
        <4>2. f[t] = IF t = {} THEN 0 ELSE f[t \ {Max(t)}] + value[Max(t)]
          BY <2>2, <4>1 DEF SumEquation
        <4>3. \A u : t \ {u} \in SUBSET (1..(k + 1))
          OBVIOUS
        <4>4. QED
          BY <3>2, <4>1, <4>2, <4>3
      <3>3. QED
        BY <3>1, <3>2
    <2>6. SumEquation(g, value, k + 1)
      <3> HIDE DEF g
      <3> QED
        BY <2>4, <2>5 DEF SumEquation
    <2>7. QED
      BY <2>4, <2>6
  <1>3. n \in Defined
    <2> HIDE DEF Defined
    <2> QED
      BY <1>1, <1>2, Induction
  <1>4. Upto(n)
    <2> HIDE DEF Upto
    <2> QED
      BY <1>3
  <1>5. QED
    BY <1>4

\* Its values on the first numbers are the partial sums.
LEMMA SumPartial ==
    ASSUME NEW n \in Nat, NEW value \in [1..n -> Nat], NEW f, SumEquation(f, value, n)
    PROVE  IsSum([k \in 0..n |-> f[1..k]], value, n)
  <1> DEFINE Natural == {k \in Nat : k <= n => f[1..k] \in Nat}
  <1>1. f[1..0] = 0
    <2>1. 1..0 = {} /\ {} \in SUBSET (1..n)
      OBVIOUS
    <2>2. QED
      BY <2>1 DEF SumEquation
  <1>2. ASSUME NEW k \in 1..n PROVE f[1..k] = f[1..(k - 1)] + value[k]
    <2>1. 1..k \in SUBSET (1..n) /\ k \in 1..k
      OBVIOUS
    <2>2. Max(1..k) = k /\ (1..k) \ {k} = 1..(k - 1)
      BY MaxOfRange
    <2>3. QED
      BY <2>1, <2>2 DEF SumEquation
  <1>3. ASSUME NEW k \in Nat, k \in Natural PROVE k + 1 \in Natural
    <2>1. SUFFICES ASSUME k + 1 <= n PROVE f[1..(k + 1)] \in Nat
      OBVIOUS
    <2>2. k + 1 \in 1..n /\ f[1..k] \in Nat /\ (k + 1) - 1 = k
      BY <1>3, <2>1
    <2>3. f[1..(k + 1)] = f[1..k] + value[k + 1]
      BY <1>2, <2>2
    <2>4. QED
      BY <2>2, <2>3
  <1>4. Nat \subseteq Natural
    <2>1. 0 \in Natural
      BY <1>1
    <2> HIDE DEF Natural
    <2> QED
      BY <2>1, <1>3, Induction
  <1>5. \A k \in 0..n : f[1..k] \in Nat
    BY <1>4
  <1>6. QED
    BY <1>1, <1>2, <1>5 DEF IsSum

\* A value that is d larger makes the sum d larger.
Raised(value, larger, n, j, d) ==
    \A k \in 1..n : value[k] \in Nat /\ larger[k] = IF k = j THEN value[k] + d ELSE value[k]

LEMMA SumGrows ==
    ASSUME NEW n \in Nat, NEW value, NEW larger, NEW p, NEW q, NEW j, NEW d \in Nat,
           IsSum(p, value, n), IsSum(q, larger, n), Raised(value, larger, n, j, d)
    PROVE  q[n] = IF j \in 1..n THEN p[n] + d ELSE p[n]
  <1> DEFINE Grown == {k \in Nat : k <= n => q[k] = IF j \in 1..k THEN p[k] + d ELSE p[k]}
  <1>1. 0 \in Grown
    BY DEF IsSum
  <1>2. ASSUME NEW k \in Nat, k \in Grown PROVE k + 1 \in Grown
    <2>1. SUFFICES ASSUME k + 1 <= n
                   PROVE  q[k + 1] = IF j \in 1..(k + 1) THEN p[k + 1] + d ELSE p[k + 1]
      OBVIOUS
    <2>2. k + 1 \in 1..n /\ (k + 1) - 1 = k /\ k \in 0..n
      BY <2>1
    <2>3. q[k + 1] = q[k] + larger[k + 1] /\ p[k + 1] = p[k] + value[k + 1]
      BY <2>2 DEF IsSum
    <2>4. q[k] = IF j \in 1..k THEN p[k] + d ELSE p[k]
      BY <1>2, <2>1
    <2>5. p[k] \in Nat
      BY <2>2 DEF IsSum
    <2>6. j \in 1..(k + 1) <=> j \in 1..k \/ j = k + 1
      OBVIOUS
    <2>7. k + 1 \notin 1..k
      OBVIOUS
    <2>8. QED
      BY <2>2, <2>3, <2>4, <2>5, <2>6, <2>7 DEF Raised
  <1>3. Nat \subseteq Grown
    <2> HIDE DEF Grown
    <2> QED
      BY <1>1, <1>2, Induction
  <1>4. QED
    BY <1>3

LEMMA SumSame ==
    ASSUME NEW n \in Nat, NEW value, NEW same, NEW p, NEW q,
           IsSum(p, value, n), IsSum(q, same, n), Raised(value, same, n, 0, 0)
    PROVE  q[n] = p[n]
  <1> DEFINE zero == 0
  <1>1. zero \in Nat /\ zero \notin 1..n
    OBVIOUS
  <1>2. Raised(value, same, n, zero, zero)
    OBVIOUS
  <1> HIDE DEF zero
  <1>3. QED
    BY <1>1, <1>2, SumGrows

\* What the entries of a list are.
LEMMA EntryType ==
    ASSUME NEW list \in Seq(ReplicasOnNode), NEW k \in 1..Len(list)
    PROVE  /\ list[k] \in [node : Nodes, replicas : Nat]
           /\ list[k].node \in Nodes /\ list[k].replicas \in Nat
  <1>1. list[k] \in ReplicasOnNode
    OBVIOUS
  <1>2. QED
    BY <1>1 DEF ReplicasOnNode

\* What instancesSum prints.
LEMMA InstancesSum ==
    ASSUME NEW list \in Seq(ReplicasOnNode)
    PROVE  \E p : IsSum(p, [k \in 1..Len(list) |-> list[k].replicas], Len(list)) /\ instancesSum(list) = p[Len(list)]
  <1> DEFINE n == Len(list)
  <1> DEFINE value == [k \in 1..Len(list) |-> list[k].replicas]
  <1> DEFINE Equation(f) ==
        f = [t \in SUBSET DOMAIN list |->
               IF t = {} THEN 0 ELSE f[t \ {Max(t)}] + list[Max(t)].replicas]
  <1>1. n \in Nat /\ DOMAIN list = 1..n /\ value \in [1..n -> Nat]
    <2>1. \A k \in 1..n : list[k].replicas \in Nat
      BY EntryType
    <2>2. QED
      BY <2>1
  <1>2. \A k \in 1..n : value[k] = list[k].replicas
    OBVIOUS
  <1>3. instancesSum(list) = (CHOOSE f : Equation(f))[1..n]
    BY <1>1 DEF instancesSum, FoldLeft, MapThenFoldSet
  <1>4. \A f : Equation(f) <=> SumEquation(f, value, n)
    <2> HIDE DEF value, n
    <2>1. \A t \in SUBSET (1..n) : t # {} => Max(t) \in 1..n
      BY <1>1, MaxOfPart
    <2>2. \A t \in SUBSET (1..n) : t # {} => value[Max(t)] = list[Max(t)].replicas
      BY <1>2, <2>1
    <2>3. ASSUME NEW f PROVE
          [t \in SUBSET (1..n) |-> IF t = {} THEN 0 ELSE f[t \ {Max(t)}] + value[Max(t)]]
          = [t \in SUBSET (1..n) |->
               IF t = {} THEN 0 ELSE f[t \ {Max(t)}] + list[Max(t)].replicas]
      BY <2>2
    <2>4. QED
      BY <1>1, <2>3 DEF SumEquation
  <1>5. Equation(CHOOSE f : Equation(f))
    <2> HIDE DEF value, n, Equation
    <2>1. \E f : Equation(f)
      BY <1>1, <1>4, SumExists
    <2>2. QED
      BY <2>1
  <1>6. QED
    <2> HIDE DEF Equation, value, n
    <2> DEFINE p == [k \in 0..n |-> (CHOOSE f : Equation(f))[1..k]]
    <2>1. IsSum(p, value, n)
      BY <1>1, <1>4, <1>5, SumPartial
    <2>2. instancesSum(list) = p[n]
      BY <1>1, <1>3
    <2> HIDE DEF p
    <2>3. QED
      BY <2>1, <2>2 DEF value, n

LEMMA InstancesType == \A list \in Seq(ReplicasOnNode) : instancesSum(list) \in Nat
  BY InstancesSum DEF IsSum

\* What the containers of a pod ask for together.
LEMMA TogetherSum ==
    ASSUME NEW s, s.containers \in Seq(Requests), NEW r \in Resources
    PROVE  \E p : IsSum(p, [k \in 1..Len(s.containers) |-> s.containers[k][r]], Len(s.containers)) /\ Together(s, r) = p[Len(s.containers)]
  <1> DEFINE n == Len(s.containers)
  <1> DEFINE value == [k \in 1..Len(s.containers) |-> s.containers[k][r]]
  <1> DEFINE Equation(f) ==
        f = [t \in SUBSET DOMAIN s.containers |->
               IF t = {} THEN 0 ELSE f[t \ {Max(t)}] + s.containers[Max(t)][r]]
  <1>1. n \in Nat /\ DOMAIN s.containers = 1..n /\ value \in [1..n -> Nat]
    <2>1. \A k \in 1..n : s.containers[k][r] \in Nat
      BY DEF Requests
    <2>2. QED
      BY <2>1
  <1>2. \A k \in 1..n : value[k] = s.containers[k][r]
    OBVIOUS
  <1>3. Together(s, r) = (CHOOSE f : Equation(f))[1..n]
    BY <1>1 DEF Together, FoldLeft, MapThenFoldSet
  <1>4. \A f : Equation(f) <=> SumEquation(f, value, n)
    <2> HIDE DEF value, n
    <2>1. \A t \in SUBSET (1..n) : t # {} => Max(t) \in 1..n
      BY <1>1, MaxOfPart
    <2>2. \A t \in SUBSET (1..n) : t # {} => value[Max(t)] = s.containers[Max(t)][r]
      BY <1>2, <2>1
    <2>3. ASSUME NEW f PROVE
          [t \in SUBSET (1..n) |-> IF t = {} THEN 0 ELSE f[t \ {Max(t)}] + value[Max(t)]]
          = [t \in SUBSET (1..n) |->
               IF t = {} THEN 0 ELSE f[t \ {Max(t)}] + s.containers[Max(t)][r]]
      BY <2>2
    <2>4. QED
      BY <1>1, <2>3 DEF SumEquation
  <1>5. Equation(CHOOSE f : Equation(f))
    <2> HIDE DEF value, n, Equation
    <2>1. \E f : Equation(f)
      BY <1>1, <1>4, SumExists
    <2>2. QED
      BY <2>1
  <1>6. QED
    <2> HIDE DEF Equation, value, n
    <2> DEFINE p == [k \in 0..n |-> (CHOOSE f : Equation(f))[1..k]]
    <2>1. IsSum(p, value, n)
      BY <1>1, <1>4, <1>5, SumPartial
    <2>2. Together(s, r) = p[n]
      BY <1>1, <1>3
    <2> HIDE DEF p
    <2>3. QED
      BY <2>1, <2>2 DEF value, n

\* What the text prints for all templates.
ListsOf(results) == [k \in 1..Templates |-> results[k - 1]]

LEMMA ListsType ==
    ASSUME NEW results \in [Template -> Seq(ReplicasOnNode)]
    PROVE  /\ Templates \in Nat /\ DOMAIN ListsOf(results) = 1..Templates
           /\ \A k \in 1..Templates : /\ k - 1 \in Template
                                      /\ ListsOf(results)[k] = results[k - 1]
                                      /\ instancesSum(ListsOf(results)[k]) \in Nat
  <1>1. Templates \in Nat /\ \A k \in 1..Templates : k - 1 \in Template
    BY TemplatesAssumption DEF Template
  <1>2. DOMAIN ListsOf(results) = 1..Templates
        /\ \A k \in 1..Templates : ListsOf(results)[k] = results[k - 1]
    BY DEF ListsOf
  <1>3. \A k \in 1..Templates : results[k - 1] \in Seq(ReplicasOnNode)
    BY <1>1
  <1>4. QED
    BY <1>1, <1>2, <1>3, InstancesType

LEMMA PrintedIsSum ==
    ASSUME NEW results \in [Template -> Seq(ReplicasOnNode)]
    PROVE  \E p : /\ IsSum(p, [k \in 1..Templates |-> instancesSum(ListsOf(results)[k])], Templates)
                  /\ PrintedSum(results) = p[Templates]
  <1> DEFINE lists == ListsOf(results)
             value == [k \in 1..Templates |-> instancesSum(lists[k])]
             Equation(f) ==
               f = [t \in SUBSET DOMAIN lists |->
                      IF t = {} THEN 0 ELSE f[t \ {Max(t)}] + instancesSum(lists[Max(t)])]
  <1>1. Templates \in Nat /\ DOMAIN lists = 1..Templates /\ value \in [1..Templates -> Nat]
    BY ListsType
  <1>2. \A k \in 1..Templates : value[k] = instancesSum(lists[k])
    OBVIOUS
  <1>3. PrintedSum(results) = (CHOOSE f : Equation(f))[1..Templates]
    <2>1. PrintedSum(results) = (CHOOSE f : Equation(f))[DOMAIN lists]
      BY DEF PrintedSum, ListsOf, FoldLeft, MapThenFoldSet
    <2>2. QED
      BY <1>1, <2>1
  <1>4. \A f : Equation(f) <=> SumEquation(f, value, Templates)
    <2> HIDE DEF value, lists
    <2>1. \A t \in SUBSET (1..Templates) : t # {} => Max(t) \in 1..Templates
      BY <1>1, MaxOfPart
    <2>2. \A t \in SUBSET (1..Templates) : t # {} => value[Max(t)] = instancesSum(lists[Max(t)])
      BY <1>2, <2>1
    <2>3. ASSUME NEW f PROVE
          [t \in SUBSET (1..Templates) |-> IF t = {} THEN 0 ELSE f[t \ {Max(t)}] + value[Max(t)]]
          = [t \in SUBSET (1..Templates) |->
               IF t = {} THEN 0 ELSE f[t \ {Max(t)}] + instancesSum(lists[Max(t)])]
      BY <2>2
    <2>4. QED
      BY <1>1, <2>3 DEF SumEquation
  <1>5. Equation(CHOOSE f : Equation(f))
    <2> HIDE DEF value, lists, Equation
    <2>1. \E f : Equation(f)
      BY <1>1, <1>4, SumExists
    <2>2. QED
      BY <2>1
  <1>6. QED
    <2> HIDE DEF Equation, value, lists
    <2> DEFINE p == [k \in 0..Templates |-> (CHOOSE f : Equation(f))[1..k]]
    <2>1. IsSum(p, value, Templates)
      BY <1>1, <1>4, <1>5, SumPartial
    <2>2. PrintedSum(results) = p[Templates]
      BY <1>1, <1>3
    <2> HIDE DEF p
    <2>3. QED
      BY <2>1, <2>2 DEF value, lists

\* One more pod on node n adds one to what is printed: the entry of n is
\* incremented,
LEMMA IncrementedSum ==
    ASSUME NEW list \in Seq(ReplicasOnNode), NEW j \in DOMAIN list
    PROVE  LET more == [k \in DOMAIN list |->
                          IF k = j THEN [list[k] EXCEPT !.replicas = @ + 1] ELSE list[k]]
           IN  more \in Seq(ReplicasOnNode) /\ instancesSum(more) = instancesSum(list) + 1
  <1> DEFINE n == Len(list)
             more == [k \in DOMAIN list |->
                        IF k = j THEN [list[k] EXCEPT !.replicas = @ + 1] ELSE list[k]]
             value == [k \in 1..Len(list) |-> list[k].replicas]
             larger == [k \in 1..Len(more) |-> more[k].replicas]
  <1>1. n \in Nat /\ DOMAIN list = 1..n /\ j \in 1..n
    OBVIOUS
  <1>2. \A k \in 1..n : list[k] \in [node : Nodes, replicas : Nat]
    BY EntryType
  <1>3. \A k \in 1..n : /\ more[k] \in [node : Nodes, replicas : Nat]
                        /\ more[k].replicas = IF k = j THEN list[k].replicas + 1
                                              ELSE list[k].replicas
    BY <1>1, <1>2
  <1>4. more \in Seq(ReplicasOnNode) /\ Len(more) = n
    BY <1>1, <1>3 DEF ReplicasOnNode
  <1>5. PICK p : IsSum(p, value, n) /\ instancesSum(list) = p[n]
    BY InstancesSum
  <1>6. PICK q : IsSum(q, larger, n) /\ instancesSum(more) = q[n]
    <2> HIDE DEF more
    <2> QED
      BY <1>4, InstancesSum
  <1>7. \A k \in 1..n : value[k] \in Nat
    BY <1>2
  <1>8. Raised(value, larger, n, j, 1)
    <2> HIDE DEF more
    <2> QED
      BY <1>3, <1>4, <1>7 DEF Raised
  <1>9. p[n] \in Nat
    BY <1>1, <1>5 DEF IsSum
  <1>10. q[n] = p[n] + 1
    <2> HIDE DEF value, larger, more, n
    <2>1. q[n] = IF j \in 1..n THEN p[n] + 1 ELSE p[n]
      BY <1>1, <1>5, <1>6, <1>7, <1>8, SumGrows
    <2>2. QED
      BY <1>1, <2>1
  <1>11. QED
    BY <1>4, <1>5, <1>6, <1>10

\* or there is one more entry.
LEMMA AppendedSum ==
    ASSUME NEW list \in Seq(ReplicasOnNode), NEW entry \in ReplicasOnNode
    PROVE  instancesSum(Append(list, entry)) = instancesSum(list) + entry.replicas
  <1> DEFINE n == Len(list)
             more == Append(list, entry)
             value == [k \in 1..Len(list) |-> list[k].replicas]
             larger == [k \in 1..Len(more) |-> more[k].replicas]
  <1>1. /\ n \in Nat /\ more \in Seq(ReplicasOnNode) /\ Len(more) = n + 1
        /\ \A k \in 1..n : more[k] = list[k]
        /\ more[n + 1] = entry
    OBVIOUS
  <1>2. \A k \in 1..n : list[k] \in [node : Nodes, replicas : Nat]
    BY EntryType
  <1>3. PICK p : IsSum(p, value, n) /\ instancesSum(list) = p[n]
    BY InstancesSum
  <1>4. PICK q : IsSum(q, larger, n + 1) /\ instancesSum(more) = q[n + 1]
    <2> HIDE DEF more
    <2> QED
      BY <1>1, InstancesSum
  <1>5. /\ \A k \in 1..n : larger[k] = value[k]
        /\ larger[n + 1] = entry.replicas
    <2> HIDE DEF more
    <2> QED
      BY <1>1
  <1>6. \A k \in 1..n : value[k] \in Nat
    BY <1>2
  <1>7. q[n] = p[n]
    <2> DEFINE part == [k \in 0..n |-> q[k]]
    <2> HIDE DEF value, larger, more, n
    <2>1. IsSum(part, larger, n)
      BY <1>1, <1>4 DEF IsSum
    <2>2. part[n] = q[n]
      BY <1>1
    <2> HIDE DEF part
    <2>3. Raised(value, larger, n, 0, 0)
      BY <1>5, <1>6 DEF Raised
    <2>4. part[n] = p[n]
      <3>1. n \in Nat /\ IsSum(p, value, n)
        BY <1>1, <1>3
      <3>2. QED
        BY <3>1, <2>1, <2>3, SumSame
    <2>5. QED
      BY <1>1, <2>2, <2>4
  <1>8. q[n + 1] = q[n] + entry.replicas
    <2> HIDE DEF value, larger, more, n
    <2>1. n + 1 \in 1..(n + 1) /\ (n + 1) - 1 = n
      BY <1>1
    <2>2. QED
      BY <1>4, <1>5, <2>1 DEF IsSum
  <1>9. QED
    BY <1>3, <1>4, <1>7, <1>8

LEMMA TallySum ==
    ASSUME NEW list \in Seq(ReplicasOnNode), NEW n \in Nodes,
           \A j, k \in DOMAIN list : list[j].node = n /\ list[k].node = n => j = k
    PROVE  /\ Tally(list, n) \in Seq(ReplicasOnNode)
           /\ instancesSum(Tally(list, n)) = instancesSum(list) + 1
  <1>1. CASE \E k \in DOMAIN list : list[k].node = n
    <2>1. PICK j \in DOMAIN list : list[j].node = n
      BY <1>1
    <2>2. Tally(list, n) = [k \in DOMAIN list |->
                              IF k = j THEN [list[k] EXCEPT !.replicas = @ + 1] ELSE list[k]]
      BY <1>1, <2>1 DEF Tally
    <2>3. QED
      BY <2>2, IncrementedSum
  <1>2. CASE ~\E k \in DOMAIN list : list[k].node = n
    <2>1. Tally(list, n) = Append(list, [node |-> n, replicas |-> 1])
      BY <1>2 DEF Tally
    <2>2. [node |-> n, replicas |-> 1] \in ReplicasOnNode
      BY DEF ReplicasOnNode
    <2>3. Append(list, [node |-> n, replicas |-> 1]) \in Seq(ReplicasOnNode)
      BY <2>2
    <2>4. QED
      BY <2>1, <2>2, <2>3, AppendedSum
  <1>3. QED
    BY <1>1, <1>2

LEMMA PrintedGrows ==
    ASSUME NEW results \in [Template -> Seq(ReplicasOnNode)], NEW t \in Template,
           NEW list \in Seq(ReplicasOnNode),
           instancesSum(list) = instancesSum(results[t]) + 1
    PROVE  PrintedSum([results EXCEPT ![t] = list]) = PrintedSum(results) + 1
  <1> DEFINE more == [results EXCEPT ![t] = list]
             value == [k \in 1..Templates |-> instancesSum(ListsOf(results)[k])]
             larger == [k \in 1..Templates |-> instancesSum(ListsOf(more)[k])]
             turn == t + 1
  <1>1. more \in [Template -> Seq(ReplicasOnNode)]
    OBVIOUS
  <1>2. PICK p : IsSum(p, value, Templates) /\ PrintedSum(results) = p[Templates]
    BY PrintedIsSum
  <1>3. PICK q : IsSum(q, larger, Templates) /\ PrintedSum(more) = q[Templates]
    <2> HIDE DEF more
    <2> QED
      BY <1>1, PrintedIsSum
  <1>4. Templates \in Nat /\ turn \in 1..Templates
    BY TemplatesAssumption DEF Template
  <1>5. \A k \in 1..Templates : value[k] \in Nat
    BY ListsType
  <1>6. ASSUME NEW k \in 1..Templates
        PROVE  value[k] \in Nat /\ larger[k] = IF k = turn THEN value[k] + 1 ELSE value[k]
    <2>1. k - 1 \in Template /\ value[k] = instancesSum(results[k - 1])
      BY ListsType
    <2>2. larger[k] = instancesSum(more[k - 1])
      <3> HIDE DEF more
      <3> QED
        BY <1>1, ListsType
    <2>3. k - 1 = t <=> k = turn
      BY DEF Template
    <2>4. more[k - 1] = IF k - 1 = t THEN list ELSE results[k - 1]
      BY <2>1
    <2>5. QED
      BY <1>5, <2>1, <2>2, <2>3, <2>4
  <1>7. q[Templates] = IF turn \in 1..Templates THEN p[Templates] + 1 ELSE p[Templates]
    <2> HIDE DEF value, larger, more, turn
    <2>1. Raised(value, larger, Templates, turn, 1)
      BY <1>6 DEF Raised
    <2>2. QED
      BY <1>2, <1>3, <1>4, <2>1, SumGrows
  <1>8. QED
    BY <1>2, <1>3, <1>4, <1>7

-----------------------------------------------------------------------------
(***************************************************************************)
(* Kubeconfig files.  The fold of Loaded, as that of a sum.                *)
(***************************************************************************)
LoadEquation(f, files, n) ==
    f = [t \in SUBSET (1..n) |->
           IF t = {} THEN Nowhere ELSE Merge(f[t \ {Max(t)}], files[Precedence[Max(t)]])]

LEMMA LoadExists ==
    ASSUME NEW n \in Nat, NEW files
    PROVE  \E f : LoadEquation(f, files, n)
  <1> DEFINE Upto(k) == \E f : LoadEquation(f, files, k)
  <1> DEFINE Defined == {k \in Nat : Upto(k)}
  <1>1. 0 \in Defined
    <2> DEFINE f == [t \in SUBSET (1..0) |-> Nowhere]
    <2>1. SUBSET (1..0) = {{}}
      OBVIOUS
    <2>2. LoadEquation(f, files, 0)
      BY <2>1 DEF LoadEquation
    <2> HIDE DEF f
    <2>3. QED
      BY <2>2
  <1>2. ASSUME NEW k \in Nat, k \in Defined PROVE k + 1 \in Defined
    <2>1. PICK f : LoadEquation(f, files, k)
      BY <1>2
    <2> DEFINE g == [t \in SUBSET (1..(k + 1)) |->
                       IF k + 1 \in t THEN Merge(f[t \ {k + 1}], files[Precedence[k + 1]])
                       ELSE f[t]]
    <2>2. \A t \in SUBSET (1..(k + 1)) : k + 1 \notin t => t \in SUBSET (1..k)
      <3>1. 1..(k + 1) = (1..k) \cup {k + 1}
        OBVIOUS
      <3>2. QED
        BY <3>1
    <2>3. ASSUME NEW t \in SUBSET (1..(k + 1))
          PROVE  g[t] = IF t = {} THEN Nowhere
                        ELSE Merge(g[t \ {Max(t)}], files[Precedence[Max(t)]])
      <3>1. CASE k + 1 \in t
        <4>1. Max(t) = k + 1
          <5>1. t # {} /\ k + 1 \in Nat
            BY <3>1
          <5>2. Max(t) \in t /\ \A u \in t : u <= Max(t)
            BY <5>1, MaxOfPart
          <5>3. Max(t) \in 1..(k + 1) /\ k + 1 <= Max(t)
            BY <3>1, <5>2
          <5>4. QED
            BY <5>3
        <4>2. t \ {k + 1} \in SUBSET (1..(k + 1)) /\ k + 1 \notin t \ {k + 1}
          OBVIOUS
        <4>3. /\ g[t] = Merge(f[t \ {k + 1}], files[Precedence[k + 1]])
              /\ g[t \ {k + 1}] = f[t \ {k + 1}]
          BY <3>1, <4>2
        <4>4. QED
          BY <3>1, <4>1, <4>3
      <3>2. CASE k + 1 \notin t
        <4>1. t \in SUBSET (1..k) /\ \A u : t \ {u} \in SUBSET (1..k) /\ k + 1 \notin t \ {u}
          BY <2>2, <3>2
        <4>2. f[t] = IF t = {} THEN Nowhere
                     ELSE Merge(f[t \ {Max(t)}], files[Precedence[Max(t)]])
          BY <2>1, <4>1 DEF LoadEquation
        <4>3. \A u : t \ {u} \in SUBSET (1..(k + 1))
          OBVIOUS
        <4>4. \A u : g[t \ {u}] = f[t \ {u}]
          BY <4>1, <4>3
        <4>5. g[t] = f[t]
          BY <3>2
        <4> HIDE DEF g
        <4>6. QED
          BY <4>2, <4>4, <4>5
      <3>3. QED
        BY <3>1, <3>2
    <2>4. LoadEquation(g, files, k + 1)
      <3>1. g = [t \in SUBSET (1..(k + 1)) |-> g[t]]
        OBVIOUS
      <3> HIDE DEF g
      <3>2. QED
        BY <2>3, <3>1 DEF LoadEquation
    <2> HIDE DEF g
    <2>5. QED
      BY <2>4
  <1>3. n \in Defined
    <2> HIDE DEF Defined
    <2> QED
      BY <1>1, <1>2, Induction
  <1>4. Upto(n)
    <2> HIDE DEF Upto
    <2> QED
      BY <1>3
  <1>5. QED
    BY <1>4

\* After each file what is loaded is what was before it, and what it adds.
LEMMA LoadedSteps ==
    ASSUME NEW files
    PROVE  \E q : /\ q[0] = Nowhere /\ q[Len(Precedence)] = Loaded(files)
                  /\ \A k \in 1..Len(Precedence) :
                        q[k] = Merge(q[k - 1], files[Precedence[k]])
  <1> DEFINE n == Len(Precedence)
             Equation(f) ==
               f = [t \in SUBSET DOMAIN Precedence |->
                      IF t = {} THEN Nowhere
                      ELSE Merge(f[t \ {Max(t)}], files[Precedence[Max(t)]])]
             f == CHOOSE f : Equation(f)
             q == [k \in 0..n |-> f[1..k]]
  <1>1. n \in Nat /\ DOMAIN Precedence = 1..n
    BY PathsAssumption
  <1>2. Loaded(files) = (CHOOSE ff : Equation(ff))[DOMAIN Precedence]
    BY DEF Loaded, FoldLeft, MapThenFoldSet
  <1>3. Equation(f)
    <2>1. PICK ff : LoadEquation(ff, files, n)
      BY <1>1, LoadExists
    <2>2. Equation(ff)
      BY <1>1, <2>1 DEF LoadEquation
    <2> HIDE DEF Equation
    <2>3. QED
      BY <2>2
  <1>4. f[1..0] = Nowhere
    <2>1. 1..0 = {} /\ {} \in SUBSET DOMAIN Precedence
      OBVIOUS
    <2> HIDE DEF f
    <2>2. QED
      BY <1>3, <2>1
  <1>5. ASSUME NEW k \in 1..n PROVE f[1..k] = Merge(f[1..(k - 1)], files[Precedence[k]])
    <2>1. 1..k \in SUBSET DOMAIN Precedence /\ k \in 1..k
      BY <1>1
    <2>2. Max(1..k) = k /\ (1..k) \ {k} = 1..(k - 1)
      BY MaxOfRange
    <2> HIDE DEF f
    <2>3. QED
      BY <1>3, <2>1, <2>2
  <1> HIDE DEF f, Equation
  <1>6. q[0] = Nowhere /\ q[n] = Loaded(files)
    BY <1>1, <1>2, <1>4 DEF f
  <1>7. \A k \in 1..n : q[k] = Merge(q[k - 1], files[Precedence[k]])
    BY <1>1, <1>5
  <1> HIDE DEF q
  <1>8. QED
    BY <1>6, <1>7

\* A context or cluster that the first of two files has is not replaced.
LEMMA MergeKeeps ==
    ASSUME NEW config, NEW file
    PROVE  /\ Merge(config, file).current
                = IF config.current # NoContext THEN config.current ELSE file.current
           /\ \A x \in DOMAIN config.contexts :
                 /\ x \in DOMAIN Merge(config, file).contexts
                 /\ Merge(config, file).contexts[x] = config.contexts[x]
           /\ \A x \in DOMAIN config.clusters :
                 /\ x \in DOMAIN Merge(config, file).clusters
                 /\ Merge(config, file).clusters[x] = config.clusters[x]
  BY DEF Merge, MergeMaps

\* What is there first leads to the server that all files together lead to: of
\* an empty configuration nothing is kept.
NoEmptyName == \A c \in Contents : NoContext \notin DOMAIN c.contexts

LEMMA FirstWins ==
    ASSUME NoEmptyName, NEW files \in [Paths -> Contents], There(files) # {},
           ServerOf(files[Precedence[Min(There(files))]]) # NoServer
    PROVE  ServerOf(Loaded(files)) = ServerOf(files[Precedence[Min(There(files))]])
  <1> DEFINE n == Len(Precedence)
             m == Min(There(files))
             first == files[Precedence[m]]
             Kept(config) ==
               /\ config.current = first.current
               /\ \A x \in DOMAIN first.contexts :
                     x \in DOMAIN config.contexts /\ config.contexts[x] = first.contexts[x]
               /\ \A x \in DOMAIN first.clusters :
                     x \in DOMAIN config.clusters /\ config.clusters[x] = first.clusters[x]
             Empty(config) ==
               /\ config.current = NoContext
               /\ DOMAIN config.contexts = {} /\ DOMAIN config.clusters = {}
  <1>1. n \in Nat /\ DOMAIN Precedence = 1..n /\ \A k \in 1..n : Precedence[k] \in Paths
    BY PathsAssumption
  <1>2. m \in 1..n /\ \A k \in There(files) : m <= k
    <2>1. There(files) \subseteq 1..n /\ There(files) \subseteq Nat
      BY <1>1 DEF There
    <2>2. QED
      BY <2>1, MinIs
  <1>3. PICK q : /\ q[0] = Nowhere /\ q[n] = Loaded(files)
                 /\ \A k \in 1..n : q[k] = Merge(q[k - 1], files[Precedence[k]])
    BY LoadedSteps
  <1>4. \A k \in 1..(m - 1) : files[Precedence[k]] = Nowhere
    <2>1. ASSUME NEW k \in 1..(m - 1) PROVE k \in DOMAIN Precedence /\ k \notin There(files)
      BY <1>1, <1>2
    <2>2. ASSUME NEW k \in 1..(m - 1) PROVE files[Precedence[k]].state = "missing"
      BY <2>1 DEF There
    <2>3. QED
      BY <1>1, <2>1, <2>2, ContentsAssumption
  <1>5. first.current # NoContext /\ first \in Contents
    BY <1>1, <1>2 DEF ServerOf, NoEmptyName
  <1>6. Empty(Nowhere)
    BY DEF Nowhere, NoMap
  <1>7. \A config : Empty(config) => Empty(Merge(config, Nowhere)) /\ Kept(Merge(config, first))
    <2>1. ASSUME NEW config, Empty(config) PROVE Empty(Merge(config, Nowhere))
      BY <1>6, <2>1 DEF Merge, MergeMaps
    <2>2. ASSUME NEW config, Empty(config) PROVE Kept(Merge(config, first))
      <3> HIDE DEF first
      <3> QED
        BY <2>2 DEF Merge, MergeMaps
    <2>3. QED
      BY <2>1, <2>2
  <1>8. \A config, file : Kept(config) => Kept(Merge(config, file))
    <2> HIDE DEF first
    <2> QED
      BY <1>5, MergeKeeps
  <1> DEFINE Claim == {k \in Nat : k <= n => IF k < m THEN Empty(q[k]) ELSE Kept(q[k])}
  <1> HIDE DEF Empty, Kept, first
  <1>9. 0 \in Claim
    BY <1>2, <1>3, <1>6
  <1>10. ASSUME NEW k \in Nat, k \in Claim PROVE k + 1 \in Claim
    <2>1. SUFFICES ASSUME k + 1 <= n
                   PROVE  IF k + 1 < m THEN Empty(q[k + 1]) ELSE Kept(q[k + 1])
      OBVIOUS
    <2>2. q[k + 1] = Merge(q[k], files[Precedence[k + 1]])
      <3>1. k + 1 \in 1..n /\ (k + 1) - 1 = k
        BY <1>1, <2>1
      <3>2. QED
        BY <1>3, <3>1
    <2>3. CASE k + 1 < m
      <3>1. k + 1 \in 1..(m - 1) /\ k < m
        BY <1>1, <1>2, <2>3
      <3>2. Empty(q[k])
        BY <1>1, <1>10, <2>1, <3>1
      <3>3. QED
        BY <1>4, <1>7, <2>2, <2>3, <3>1, <3>2
    <2>4. CASE k + 1 = m
      <3>1. Empty(q[k]) /\ k < m
        BY <1>1, <1>2, <1>10, <2>1, <2>4
      <3>2. Kept(q[k + 1])
        BY <1>7, <2>2, <2>4, <3>1 DEF first
      <3>3. QED
        BY <1>2, <2>4, <3>2
    <2>5. CASE k + 1 > m
      <3>1. Kept(q[k]) /\ ~(k + 1 < m)
        BY <1>1, <1>2, <1>10, <2>1, <2>5
      <3>2. QED
        BY <1>8, <2>2, <3>1
    <2>6. QED
      BY <1>1, <1>2, <2>3, <2>4, <2>5
  <1>11. Kept(Loaded(files))
    <2>1. n \in Claim
      <3> HIDE DEF Claim
      <3> QED
        BY <1>1, <1>9, <1>10, Induction
    <2>2. Kept(q[n])
      BY <1>1, <1>2, <2>1
    <2>3. QED
      BY <1>3, <2>2
  <1>12. QED
    BY <1>11 DEF Kept, first, ServerOf

-----------------------------------------------------------------------------
(***************************************************************************)
(* The inductive invariant.                                                *)
(***************************************************************************)
\* What a client configuration is made from: Validate has set opt.Kubeconfig
\* to the file that is there first, or left it, and nobody else writes it.
ChosenFile ==
    IF flag # NoPath \/ inCluster THEN flag ELSE GetDefaultFilename(disk)

RightCluster ==
    /\ stage \in {"validate", "config", "build", "podspec", "connect", "new"} =>
         disk \in [Paths -> Contents]
    /\ stage = "validate" => kubeconfig = flag
    /\ stage \in {"config", "build", "podspec", "connect", "new"} => kubeconfig = ChosenFile
    /\ stage = "new" =>
         /\ server # NoServer
         /\ server = IF kubeconfig # NoPath THEN GetMasterFromKubeConfig(disk, kubeconfig)
                     ELSE InCluster

Preparing ==
    {"validate", "config", "build", "podspec", "connect", "new", "sync", "create"}

PodFits(n) == {k \in 0..Slots[n] : \A r \in Resources : k * PodRequest(spec, r) <= Free[n][r]}

\* The analysis fills the room there is for the pod that was read.
RightEstimate ==
    /\ spec.containers \in Seq(Requests) /\ spec.initContainers \in Seq(Requests)
    /\ stage \in Preparing => pods = <<>>
    /\ stage \in Preparing \cup {"run"} => outcome = "running"
    /\ stage = "report" => outcome # "running"
    /\ stage \in {"create", "run", "report", "print"} \/ written = "review" =>
         room = [n \in Nodes |-> Max(PodFits(n))]
    /\ MaxLimit > 0 => Len(pods) <= MaxLimit
    /\ outcome = "LimitReached" => MaxLimit > 0 /\ Len(pods) >= MaxLimit
    /\ \A n \in Nodes : Estimate!Used(n) <= room[n]
    /\ outcome = "Unschedulable" => \A n \in Nodes : Estimate!Used(n) >= room[n]

\* The review is made of the pods of the analysis, and of all of them.
RightReview ==
    /\ stage \in Preparing \cup {"run"} => pc = "idle"
    /\ stage = "print" \/ written = "review" => pc = "done"
    /\ pc = "idle" => i = 0 /\ replicasOnNodes = [t \in Template |-> <<>>]
    /\ pc # "idle" =>
         /\ requirements = getResourceRequest(spec.containers, spec.initContainers)
         /\ replicas = int32(Len(pods))
         /\ failType = outcome
    /\ pc = "done" => i = Len(pods) /\ wanted = int32(MaxLimit)
    /\ TallyIsExact
    /\ PrintedSum(replicasOnNodes) = i

CommandInvariant == CommandType /\ RightCluster /\ RightEstimate /\ RightReview

-----------------------------------------------------------------------------
(***************************************************************************)
(* The cluster that is analysed.                                           *)
(***************************************************************************)
LEMMA InitCluster == Init => RightCluster
  BY DEF Init, RightCluster

LEMMA NextCluster == RightCluster /\ [Next]_vars => RightCluster'
  <1> SUFFICES ASSUME RightCluster, [Next]_vars PROVE RightCluster'
    OBVIOUS
  <1> USE DEF RightCluster, Goto, clusterVars
  <1>1. CASE Validate
    BY <1>1 DEF Validate, ChosenFile
  <1>2. CASE LoadConfig \/ BuildConfig \/ ParseAPISpec
    BY <1>2 DEF LoadConfig, BuildConfig, ParseAPISpec, ChosenFile
  <1>3. CASE Connect
    BY <1>3 DEF Connect, ChosenFile
  <1>4. CASE New
    BY <1>4 DEF New
  <1>5. CASE SyncWithClient \/ CreateFirstPod
    BY <1>5 DEF SyncWithClient, CreateFirstPod
  <1>6. CASE Place \/ Stop \/ Report
    BY <1>6 DEF Place, Stop, Report, commandVars
  <1>7. CASE PrintReview \/ Fail
    BY <1>7 DEF PrintReview, Fail
  <1>8. CASE UNCHANGED vars
    BY <1>8 DEF vars, commandVars, ChosenFile
  <1>9. QED
    BY <1>1, <1>2, <1>3, <1>4, <1>5, <1>6, <1>7, <1>8 DEF Next, WaitForever, Exited

\* The file whose name Validate keeps leads, alone, where all files together do.
LEMMA ChosenServer ==
    ASSUME NoEmptyName, RightCluster, stage = "new"
    PROVE  server = AnalysisServer(disk, flag, inCluster)
  <1>1. disk \in [Paths -> Contents] /\ kubeconfig = ChosenFile /\ server # NoServer
    BY DEF RightCluster
  <1>2. server = IF kubeconfig # NoPath THEN GetMasterFromKubeConfig(disk, kubeconfig)
                 ELSE InCluster
    BY DEF RightCluster
  <1>3. CASE flag # NoPath \/ inCluster
    BY <1>1, <1>2, <1>3 DEF ChosenFile, AnalysisServer
  <1>4. CASE flag = NoPath /\ ~inCluster
    <2> DEFINE at == IF There(disk) = {} THEN 1 ELSE Min(There(disk))
    <2>1. kubeconfig = Precedence[at]
      BY <1>1, <1>4 DEF ChosenFile, GetDefaultFilename
    <2>2. at \in DOMAIN Precedence /\ Precedence[at] \in Paths
      <3>1. 1 \in DOMAIN Precedence /\ DOMAIN Precedence \subseteq Nat
            /\ \A k \in DOMAIN Precedence : Precedence[k] \in Paths
        BY PathsAssumption
      <3>2. There(disk) \subseteq DOMAIN Precedence
        BY DEF There
      <3>3. There(disk) # {} => Min(There(disk)) \in There(disk)
        BY <3>1, <3>2, MinIs
      <3>4. QED
        BY <3>1, <3>2, <3>3
    <2>3. server = GetMasterFromKubeConfig(disk, Precedence[at])
      BY <1>2, <2>1, <2>2, PathsAssumption
    <2>4. disk[Precedence[at]].state = "read" /\ server = ServerOf(disk[Precedence[at]])
      BY <1>1, <2>3 DEF GetMasterFromKubeConfig
    <2>5. at \in There(disk)
      BY <2>2, <2>4 DEF There
    <2>6. There(disk) # {} /\ at = Min(There(disk))
      BY <2>5
    <2>7. ServerOf(Loaded(disk)) = server
      BY <1>1, <2>4, <2>6, FirstWins
    <2>8. QED
      BY <1>4, <2>7 DEF AnalysisServer
  <1>5. QED
    BY <1>3, <1>4

\* Run connects to the API server that the flags, the environment and the
\* kubeconfig files name, or to none, whatever is in the files and however many
\* $KUBECONFIG lists: loading them all and reading the first alone, as Validate
\* and Run do between them, comes to the same.  client-go refuses contexts with
\* an empty name.
THEOREM SameServer == ASSUME NoEmptyName PROVE Spec => []NeverAnotherCluster
  <1>1. RightCluster => NeverAnotherCluster
    BY ChosenServer DEF NeverAnotherCluster
  <1>2. QED
    BY <1>1, InitCluster, NextCluster, PTL DEF Spec


-----------------------------------------------------------------------------
(***************************************************************************)
(* The room for the pod, and how much of it is used.                       *)
(***************************************************************************)
\* Finitely many values have a bound.
LEMMA Bounded ==
    ASSUME NEW seq \in Seq(Requests), NEW r \in Resources
    PROVE  \E b \in Nat : \A k \in 1..Len(seq) : seq[k][r] <= b
  <1> DEFINE Bound(k) == \E b \in Nat : \A j \in 1..Len(seq) : j <= k => seq[j][r] <= b
  <1> DEFINE Claim == {k \in Nat : Bound(k)}
  <1>1. Len(seq) \in Nat /\ \A k \in 1..Len(seq) : seq[k][r] \in Nat
    BY DEF Requests
  <1>2. 0 \in Claim
    <2>1. \A j \in 1..Len(seq) : ~(j <= 0)
      BY <1>1
    <2>2. Bound(0)
      BY <2>1
    <2> HIDE DEF Bound
    <2>3. QED
      BY <2>2
  <1>3. ASSUME NEW k \in Nat, k \in Claim PROVE Bound(k + 1)
    <2>1. PICK b \in Nat : \A j \in 1..Len(seq) : j <= k => seq[j][r] <= b
      BY <1>3
    <2>2. CASE k + 1 \in 1..Len(seq)
      <3> DEFINE d == IF seq[k + 1][r] <= b THEN b ELSE seq[k + 1][r]
      <3>1. d \in Nat
        BY <1>1, <2>2
      <3>2. \A j \in 1..Len(seq) : j <= k + 1 => seq[j][r] <= d
        <4>1. SUFFICES ASSUME NEW j \in 1..Len(seq), j <= k + 1 PROVE seq[j][r] <= d
          OBVIOUS
        <4>2. CASE j = k + 1
          BY <1>1, <2>2, <4>2
        <4>3. CASE j <= k
          BY <1>1, <2>1, <2>2, <4>3
        <4>4. QED
          BY <1>1, <4>1, <4>2, <4>3
      <3> HIDE DEF d
      <3>3. QED
        BY <3>1, <3>2
    <2>3. CASE k + 1 \notin 1..Len(seq)
      <3>1. \A j \in 1..Len(seq) : j <= k + 1 => j <= k
        BY <1>1, <2>3
      <3>2. QED
        BY <2>1, <3>1
    <2>4. QED
      BY <2>2, <2>3
  <1>4. Bound(Len(seq))
    <2>1. Len(seq) \in Claim
      <3> HIDE DEF Bound
      <3>1. \A k \in Nat : k \in Claim => k + 1 \in Claim
        BY <1>3
      <3> HIDE DEF Claim
      <3>2. QED
        BY <1>1, <1>2, <3>1, Induction
    <2> HIDE DEF Bound
    <2>2. QED
      BY <2>1
  <1>5. PICK b \in Nat : \A j \in 1..Len(seq) : j <= Len(seq) => seq[j][r] <= b
    BY <1>4
  <1>6. \A j \in 1..Len(seq) : j <= Len(seq)
    BY <1>1
  <1>7. QED
    BY <1>5, <1>6

\* A pod asks for at least what its containers need together.
LEMMA PodRequestIs ==
    ASSUME NEW s, s.containers \in Seq(Requests), s.initContainers \in Seq(Requests),
           NEW r \in Resources
    PROVE  /\ PodRequest(s, r) \in Nat /\ Together(s, r) \in Nat
           /\ Together(s, r) <= PodRequest(s, r)
  <1> DEFINE init == s.initContainers
             asked == {Together(s, r)} \cup {c[r] : c \in ToSet(init)}
  <1>1. Together(s, r) \in Nat
    <2>1. Len(s.containers) \in Nat
      OBVIOUS
    <2>2. QED
      BY <2>1, TogetherSum DEF IsSum
  <1>2. ToSet(init) = {init[k] : k \in 1..Len(init)}
    BY DEF ToSet
  <1>3. \A k \in 1..Len(init) : init[k][r] \in Nat
    BY DEF Requests
  <1>4. asked \subseteq Nat
    BY <1>1, <1>2, <1>3
  <1>5. PICK b \in Nat : \A k \in 1..Len(init) : init[k][r] <= b
    BY Bounded
  <1>6. \A x \in asked : x <= b + Together(s, r)
    <2>1. \A k \in 1..Len(init) : init[k][r] <= b + Together(s, r)
      BY <1>1, <1>3, <1>5
    <2>2. Together(s, r) <= b + Together(s, r)
      BY <1>1
    <2>3. QED
      BY <1>2, <2>1, <2>2
  <1>7. Max(asked) \in asked /\ \A x \in asked : x <= Max(asked)
    <2>1. b + Together(s, r) \in Nat /\ asked # {}
      BY <1>1
    <2> HIDE DEF asked
    <2>2. QED
      BY <1>4, <1>6, <2>1, MaxIs
  <1>8. PodRequest(s, r) = Max(asked)
    BY DEF PodRequest
  <1>9. Together(s, r) \in asked
    OBVIOUS
  <1> HIDE DEF asked
  <1>10. QED
    BY <1>1, <1>4, <1>7, <1>8, <1>9

\* The room on a node is the largest number of pods that fit.
LEMMA RoomIs ==
    ASSUME spec.containers \in Seq(Requests), spec.initContainers \in Seq(Requests),
           NEW n \in Nodes
    PROVE  /\ Max(PodFits(n)) \in PodFits(n) /\ Max(PodFits(n)) \in Nat
           /\ \A k \in PodFits(n) : k <= Max(PodFits(n))
  <1>1. Slots[n] \in Nat /\ \A r \in Resources : Free[n][r] \in Nat
    BY CommandAssumption DEF Requests
  <1>2. PodFits(n) \subseteq Nat /\ \A k \in PodFits(n) : k <= Slots[n]
    BY <1>1 DEF PodFits
  <1>3. 0 \in PodFits(n)
    <2>1. \A r \in Resources : 0 * PodRequest(spec, r) = 0
      BY PodRequestIs
    <2>2. QED
      BY <1>1, <2>1 DEF PodFits
  <1>4. QED
    BY <1>1, <1>2, <1>3, MaxIs

\* The pods of the analysis on node n.
On(n) == {k \in 1..Len(pods) : pods[k] = n}

LEMMA SameCardinality == \A S : Estimate!Cardinality(S) = Cardinality(S)
  BY DEF Estimate!Cardinality, Cardinality

LEMMA OnFinite == pods \in Seq(Nodes) => \A n \in Nodes : IsFiniteSet(On(n))
  <1> SUFFICES ASSUME pods \in Seq(Nodes), NEW n \in Nodes PROVE IsFiniteSet(On(n))
    OBVIOUS
  <1>1. Len(pods) \in Int /\ 1 \in Int
    OBVIOUS
  <1>2. IsFiniteSet(1..Len(pods))
    BY <1>1, FS_Interval
  <1>3. QED
    BY <1>2, FS_Subset DEF On

LEMMA UsedIs ==
    ASSUME pods \in Seq(Nodes), NEW n \in Nodes
    PROVE  Estimate!Used(n) = Cardinality(On(n)) /\ Estimate!Used(n) \in Nat
  <1>1. Estimate!Used(n) = Cardinality(On(n))
    <2>1. {k \in DOMAIN pods : pods[k] = n} = On(n)
      BY DEF On
    <2>2. QED
      BY <2>1, SameCardinality DEF Estimate!Used
  <1>2. QED
    BY <1>1, OnFinite, FS_CardinalityType

LEMMA UsedNone ==
    ASSUME pods = <<>>, NEW n \in Nodes
    PROVE  Estimate!Used(n) = 0
  <1>1. pods \in Seq(Nodes) /\ On(n) = {}
    BY DEF On
  <1>2. QED
    BY <1>1, UsedIs, FS_EmptySet

LEMMA UsedGrows ==
    ASSUME pods \in Seq(Nodes), NEW m \in Nodes, pods' = Append(pods, m), NEW n \in Nodes
    PROVE  Estimate!Used(n)' = IF n = m THEN Estimate!Used(n) + 1 ELSE Estimate!Used(n)
  <1>1. /\ Len(pods') = Len(pods) + 1 /\ Len(pods) \in Nat
        /\ DOMAIN pods' = 1..(Len(pods) + 1)
        /\ pods'[Len(pods) + 1] = m /\ \A k \in 1..Len(pods) : pods'[k] = pods[k]
    OBVIOUS
  <1> DEFINE next == {k \in DOMAIN pods' : pods'[k] = n}
  <1>2. Estimate!Used(n)' = Cardinality(next)
    BY SameCardinality DEF Estimate!Used
  <1>3. next = IF n = m THEN On(n) \cup {Len(pods) + 1} ELSE On(n)
    BY <1>1 DEF On
  <1>4. Len(pods) + 1 \notin On(n)
    BY <1>1 DEF On
  <1>5. Cardinality(On(n) \cup {Len(pods) + 1}) = Cardinality(On(n)) + 1
    BY <1>4, OnFinite, FS_AddElement
  <1> HIDE DEF next
  <1>6. QED
    BY <1>2, <1>3, <1>5, UsedIs


-----------------------------------------------------------------------------
(***************************************************************************)
(* Types.                                                                  *)
(***************************************************************************)
LEMMA int32Type == \A x \in Int : int32(x) \in Int32
  <1> SUFFICES ASSUME NEW x \in Int PROVE int32(x) \in Int32
    OBVIOUS
  <1> DEFINE size == 2 * HalfRange
             rest == (x + HalfRange) % size
  <1>1. HalfRange \in Nat /\ size \in Nat /\ size > 0 /\ x + HalfRange \in Int
    BY RangeAssumption
  <1>2. rest \in 0..(size - 1)
    <2> HIDE DEF size
    <2> QED
      BY <1>1
  <1>3. rest \in Int /\ 0 <= rest /\ rest <= 2 * HalfRange - 1
    BY <1>1, <1>2
  <1>4. int32(x) = rest - HalfRange
    BY DEF int32
  <1> HIDE DEF rest
  <1>5. QED
    BY <1>1, <1>3, <1>4 DEF Int32

\* The review's requirements are what the containers ask for together.
LEMMA RequestIs ==
    getResourceRequest(spec.containers, spec.initContainers) = [r \in Listed |-> Together(spec, r)]
  BY DEF getResourceRequest, Together

LEMMA RequestType ==
    ASSUME spec.containers \in Seq(Requests), spec.initContainers \in Seq(Requests)
    PROVE  getResourceRequest(spec.containers, spec.initContainers) \in [Listed -> Nat]
  <1>1. \A r \in Listed : Together(spec, r) \in Nat
    BY PodRequestIs, ResourcesAssumption
  <1>2. QED
    BY <1>1, RequestIs

LEMMA TallyType ==
    ASSUME NEW list \in Seq(ReplicasOnNode), NEW n \in Nodes
    PROVE  Tally(list, n) \in Seq(ReplicasOnNode)
  <1>1. CASE \E k \in DOMAIN list : list[k].node = n
    <2> DEFINE more == [k \in DOMAIN list |->
                          IF list[k].node = n THEN [list[k] EXCEPT !.replicas = @ + 1]
                          ELSE list[k]]
    <2>1. \A k \in 1..Len(list) : list[k] \in [node : Nodes, replicas : Nat]
      BY EntryType
    <2>2. \A k \in 1..Len(list) : more[k] \in ReplicasOnNode
      BY <2>1 DEF ReplicasOnNode
    <2>3. more \in Seq(ReplicasOnNode)
      <3>1. Len(list) \in Nat /\ DOMAIN list = 1..Len(list)
        OBVIOUS
      <3>2. more \in [1..Len(list) -> ReplicasOnNode]
        BY <2>2, <3>1
      <3> HIDE DEF more
      <3>3. QED
        BY <3>1, <3>2
    <2>4. QED
      BY <1>1, <2>3 DEF Tally
  <1>2. CASE ~\E k \in DOMAIN list : list[k].node = n
    <2>1. [node |-> n, replicas |-> 1] \in ReplicasOnNode
      BY DEF ReplicasOnNode
    <2>2. QED
      BY <1>2, <2>1 DEF Tally
  <1>3. QED
    BY <1>1, <1>2

\* The pod at hand goes to one of the templates.
LEMMA TurnType == \A k \in Nat : k % Templates \in Template
  BY TemplatesAssumption DEF Template

LEMMA InitType == Init => CommandType
  <1> SUFFICES ASSUME Init PROVE CommandType
    OBVIOUS
  <1>1. ReportType
    <2>1. replicas \in Int32 /\ wanted \in Int32
      BY RangeAssumption DEF Init, ReportInit, Int32
    <2>2. replicasOnNodes \in [Template -> Seq(ReplicasOnNode)]
      BY DEF Init, ReportInit
    <2>3. QED
      BY <2>1, <2>2 DEF Init, ReportInit, ReportType
  <1>2. QED
    BY <1>1 DEF Init, CommandType

LEMMA ReportTypeStep ==
    ASSUME CommandType, RightEstimate, Report PROVE CommandType'
  <1> USE DEF CommandType, ReportType, clusterVars, commandVars, Goto
  <1>1. ASSUME stage = "report", UNCHANGED <<clusterVars, commandVars>>,
               GetReport(spec.containers, spec.initContainers, outcome)
        PROVE  CommandType'
    <2>1. requirements' \in [Listed -> Nat]
      BY <1>1, RequestType DEF RightEstimate, GetReport
    <2>2. replicas' \in Int32
      BY <1>1, int32Type DEF GetReport
    <2>3. failType' \in {"LimitReached", "Unschedulable"}
      BY <1>1 DEF RightEstimate, GetReport, getMainFailReason
    <2>4. QED
      BY <1>1, <2>1, <2>2, <2>3 DEF GetReport
  <1>2. ASSUME UNCHANGED <<clusterVars, commandVars>>, VisitPod PROVE CommandType'
    <2>1. i \in Nat /\ i + 1 \in 1..Len(pods) /\ i' \in 0..Len(pods)
      BY <1>2 DEF VisitPod
    <2>2. i % Templates \in Template /\ pods[i + 1] \in Nodes
      BY <2>1, TurnType
    <2>3. Tally(replicasOnNodes[i % Templates], pods[i + 1]) \in Seq(ReplicasOnNode)
      BY <2>2, TallyType
    <2>4. replicasOnNodes' \in [Template -> Seq(ReplicasOnNode)]
      BY <1>2, <2>3 DEF VisitPod
    <2>5. QED
      BY <1>2, <2>1, <2>4 DEF VisitPod
  <1>3. ASSUME Goto("report", "print"), FinishReport(MaxLimit),
               UNCHANGED <<clusterVars, profiles, spec, room, outcome>>
        PROVE  CommandType'
    <2>1. wanted' \in Int32
      BY <1>3, int32Type, CommandAssumption DEF FinishReport
    <2>2. QED
      BY <1>3, <2>1 DEF FinishReport
  <1>4. QED
    BY <1>1, <1>2, <1>3 DEF Report

LEMMA NextType == CommandType /\ RightCluster /\ RightEstimate /\ [Next]_vars => CommandType'
  <1> SUFFICES ASSUME CommandType, RightCluster, RightEstimate, [Next]_vars
               PROVE  CommandType'
    OBVIOUS
  <1> USE DEF CommandType, ReportType, Goto, clusterVars, reviewVars
  <1>1. CASE Validate
    <2>1. kubeconfig' \in Paths \cup {NoPath}
      <3>1. \A k \in DOMAIN Precedence : Precedence[k] \in Paths
        BY PathsAssumption
      <3>2. (IF There(disk) = {} THEN 1 ELSE Min(There(disk))) \in DOMAIN Precedence
        <4>1. 1 \in DOMAIN Precedence /\ DOMAIN Precedence \subseteq Nat
          BY PathsAssumption
        <4>2. There(disk) \subseteq DOMAIN Precedence
          BY DEF There
        <4>3. There(disk) # {} => Min(There(disk)) \in There(disk)
          BY <4>1, <4>2, MinIs
        <4>4. QED
          BY <4>1, <4>2, <4>3
      <3>3. GetDefaultFilename(disk) \in Paths
        BY <3>1, <3>2 DEF GetDefaultFilename
      <3>4. QED
        BY <1>1, <3>3 DEF Validate
    <2>2. QED
      BY <1>1, <2>1 DEF Validate
  <1>2. CASE LoadConfig \/ BuildConfig \/ ParseAPISpec
    BY <1>2 DEF LoadConfig, BuildConfig, ParseAPISpec
  <1>3. CASE Connect \/ New \/ CreateFirstPod
    BY <1>3 DEF Connect, New, CreateFirstPod
  <1>4. CASE SyncWithClient
    <2>1. room' = [n \in Nodes |-> Max(PodFits(n))]
      BY <1>4 DEF SyncWithClient, PodFits
    <2>2. \A n \in Nodes : Max(PodFits(n)) \in Nat
      BY RoomIs DEF RightEstimate
    <2>3. QED
      BY <1>4, <2>1, <2>2 DEF SyncWithClient
  <1>5. CASE Place
    <2>1. PICK n \in Nodes : pods' = Append(pods, n) /\ room' = room /\ outcome' = outcome
      BY <1>5 DEF Place, Estimate!PlaceOne
    <2>2. pods' \in Seq(Nodes) /\ Len(pods') = Len(pods) + 1
      BY <2>1
    <2>3. i' \in 0..Len(pods')
      BY <1>5, <2>2 DEF Place
    <2>4. QED
      BY <1>5, <2>1, <2>2, <2>3 DEF Place
  <1>6. CASE Stop
    BY <1>6 DEF Stop, Estimate!StopAtLimit, Estimate!StopWhenFull
  <1>7. CASE Report
    BY <1>7, ReportTypeStep
  <1>8. CASE PrintReview \/ Fail
    BY <1>8 DEF PrintReview, Fail
  <1>9. CASE UNCHANGED vars
    BY <1>9 DEF vars, commandVars
  <1>10. QED
    BY <1>1, <1>2, <1>3, <1>4, <1>5, <1>6, <1>7, <1>8, <1>9 DEF Next, WaitForever, Exited


-----------------------------------------------------------------------------
(***************************************************************************)
(* The estimate.                                                           *)
(***************************************************************************)
LEMMA InitEstimate == Init => RightEstimate
  <1> SUFFICES ASSUME Init PROVE RightEstimate
    OBVIOUS
  <1>1. pods = <<>> /\ Len(pods) = 0
    BY DEF Init, ReportInit
  <1>2. \A n \in Nodes : Estimate!Used(n) <= room[n]
    BY <1>1, UsedNone DEF Init
  <1>3. spec.containers \in Seq(Requests) /\ spec.initContainers \in Seq(Requests)
    BY DEF Init, NoSpec
  <1>4. QED
    BY <1>1, <1>2, <1>3, CommandAssumption DEF Init, RightEstimate, Preparing

\* Between reading the pod and reading the cluster there are no pods.
LEMMA ParseEstimate == RightEstimate /\ RightReview /\ ParseAPISpec => RightEstimate'
  <1> SUFFICES ASSUME RightEstimate, RightReview, ParseAPISpec PROVE RightEstimate'
    OBVIOUS
  <1>1. spec'.containers \in Seq(Requests) /\ spec'.initContainers \in Seq(Requests)
    <2>1. PICK s \in PodSpecs :
             spec' = IF s.schedulerName = NoName THEN [s EXCEPT !.schedulerName = DefaultName]
                     ELSE s
      BY DEF ParseAPISpec
    <2>2. s \in [schedulerName : {s.schedulerName}, gated : BOOLEAN,
                 containers : Seq(Requests), initContainers : Seq(Requests)]
      BY CommandAssumption
    <2>3. QED
      BY <2>1, <2>2
  <1>2. \A n \in Nodes : Estimate!Used(n)' = Estimate!Used(n)
    BY DEF ParseAPISpec, Estimate!Used
  <1>3. /\ stage = "podspec" /\ stage' = "connect" /\ written' = written
        /\ UNCHANGED <<room, outcome, pods>>
    BY DEF ParseAPISpec, Goto
  <1>4. written' # "review"
    BY <1>3 DEF RightReview, Preparing
  <1>5. QED
    BY <1>1, <1>2, <1>3, <1>4 DEF RightEstimate, Preparing

LEMMA SyncEstimate == RightEstimate /\ SyncWithClient => RightEstimate'
  <1> SUFFICES ASSUME RightEstimate, SyncWithClient PROVE RightEstimate'
    OBVIOUS
  <1>1. /\ stage = "sync" /\ stage' = "create" /\ written' = written
        /\ room' = [n \in Nodes |-> Max(PodFits(n))]
        /\ UNCHANGED <<spec, outcome, pods>>
    BY DEF SyncWithClient, Goto, PodFits
  <1>2. pods = <<>> /\ outcome = "running"
    BY <1>1 DEF RightEstimate, Preparing
  <1>3. \A n \in Nodes : PodFits(n)' = PodFits(n)
    BY <1>1 DEF PodFits
  <1>4. \A n \in Nodes : Estimate!Used(n)' = 0 /\ room'[n] \in Nat
    <2>1. \A n \in Nodes : Estimate!Used(n)' = Estimate!Used(n)
      BY <1>1 DEF Estimate!Used
    <2>2. QED
      BY <1>1, <1>2, <2>1, UsedNone, RoomIs DEF RightEstimate
  <1>5. QED
    BY <1>1, <1>2, <1>3, <1>4 DEF RightEstimate, Preparing

LEMMA PlaceEstimate == CommandType /\ RightEstimate /\ RightReview /\ Place => RightEstimate'
  <1> SUFFICES ASSUME CommandType, RightEstimate, RightReview, Place PROVE RightEstimate'
    OBVIOUS
  <1>1. PICK m \in Nodes : Estimate!PlaceOne(m)
    BY DEF Place
  <1>2. /\ stage = "run" /\ UNCHANGED <<stage, written, spec, room, outcome>>
        /\ outcome = "running" /\ pods' = Append(pods, m)
        /\ Estimate!Used(m) < room[m] /\ ~Estimate!AtLimit
    BY <1>1 DEF Place, Estimate!PlaceOne
  <1>3. pods \in Seq(Nodes) /\ MaxLimit \in Int /\ Len(pods') = Len(pods) + 1 /\ Len(pods) \in Nat
    BY <1>2, CommandAssumption DEF CommandType, ReportType
  <1>4. MaxLimit > 0 => Len(pods') <= MaxLimit
    BY <1>2, <1>3 DEF Estimate!AtLimit
  <1>5. ASSUME NEW n \in Nodes PROVE (Estimate!Used(n) <= room[n])'
    <2>1. Estimate!Used(n)' = IF n = m THEN Estimate!Used(n) + 1 ELSE Estimate!Used(n)
      BY <1>2, <1>3, UsedGrows
    <2>2. Estimate!Used(n) \in Nat /\ Estimate!Used(m) \in Nat /\ room[n] \in Nat /\ room[m] \in Nat
      BY <1>3, UsedIs DEF CommandType
    <2>3. Estimate!Used(n) <= room[n]
      BY DEF RightEstimate
    <2>4. Estimate!Used(n)' <= room[n]
      BY <1>2, <2>1, <2>2, <2>3
    <2>5. QED
      BY <1>2, <2>4
  <1>6. \A n \in Nodes : PodFits(n)' = PodFits(n)
    BY <1>2 DEF PodFits
  <1>7. QED
    BY <1>2, <1>4, <1>5, <1>6 DEF RightEstimate, Preparing

\* A step that reads no pod and no cluster and places nothing.
LEMMA QuietEstimate ==
    ASSUME RightEstimate, UNCHANGED <<spec, room, pods>>,
           /\ stage' \in Preparing => stage \in Preparing
           /\ stage' \in Preparing \cup {"run"} => outcome' = "running"
           /\ stage' = "report" => outcome' # "running"
           /\ stage' \in {"create", "run", "report", "print"} \/ written' = "review" =>
                stage \in {"create", "run", "report", "print"} \/ written = "review"
           /\ outcome' = "LimitReached" => MaxLimit > 0 /\ Len(pods) >= MaxLimit
           /\ outcome' = "Unschedulable" => \A n \in Nodes : Estimate!Used(n) >= room[n]
    PROVE  RightEstimate'
  <1>1. \A n \in Nodes : PodFits(n)' = PodFits(n) /\ Estimate!Used(n)' = Estimate!Used(n)
    BY DEF PodFits, Estimate!Used
  <1>2. QED
    BY <1>1 DEF RightEstimate

LEMMA NextEstimate == CommandType /\ RightEstimate /\ RightReview /\ [Next]_vars => RightEstimate'
  <1> SUFFICES ASSUME CommandType, RightEstimate, RightReview, [Next]_vars
               PROVE  RightEstimate'
    OBVIOUS
  <1> USE DEF Goto, Preparing
  <1>1. CASE Validate \/ LoadConfig \/ BuildConfig \/ Connect \/ New
    <2>1. UNCHANGED <<spec, room, pods, outcome, written>>
          /\ stage \in Preparing /\ stage' \in Preparing \ {"create"} /\ outcome = "running"
      BY <1>1 DEF Validate, LoadConfig, BuildConfig, Connect, New, RightEstimate
    <2>2. QED
      BY <2>1, QuietEstimate
  <1>2. CASE ParseAPISpec
    BY <1>2, ParseEstimate
  <1>3. CASE SyncWithClient
    BY <1>3, SyncEstimate
  <1>4. CASE CreateFirstPod
    BY <1>4, QuietEstimate DEF CreateFirstPod, RightEstimate
  <1>5. CASE Place
    BY <1>5, PlaceEstimate
  <1>6. CASE Stop
    <2>1. /\ UNCHANGED <<spec, room, pods, written>> /\ stage = "run" /\ stage' = "report"
          /\ outcome' # "running"
          /\ outcome' = "LimitReached" => MaxLimit > 0 /\ Len(pods) >= MaxLimit
          /\ outcome' = "Unschedulable" => \A n \in Nodes : Estimate!Used(n) >= room[n]
      BY <1>6 DEF Stop, Estimate!StopAtLimit, Estimate!StopWhenFull, Estimate!AtLimit
    <2>2. QED
      BY <2>1, QuietEstimate
  <1>7. CASE Report
    <2>1. /\ UNCHANGED <<spec, room, pods, written, outcome>> /\ stage = "report"
          /\ stage' \in {"report", "print"}
      BY <1>7 DEF Report, GetReport, VisitPod, FinishReport, commandVars
    <2>2. QED
      BY <2>1, QuietEstimate DEF RightEstimate
  <1>8. CASE PrintReview
    BY <1>8, QuietEstimate DEF PrintReview, RightEstimate
  <1>9. CASE Fail
    BY <1>9, QuietEstimate DEF Fail, RightEstimate
  <1>10. CASE UNCHANGED vars
    BY <1>10, QuietEstimate DEF vars, commandVars, RightEstimate
  <1>11. QED
    BY <1>1, <1>2, <1>3, <1>4, <1>5, <1>6, <1>7, <1>8, <1>9, <1>10 DEF Next, WaitForever, Exited


-----------------------------------------------------------------------------
(***************************************************************************)
(* The review.                                                             *)
(***************************************************************************)
\* What a list says of node n, of which there are c pods.
Says(list, n, c) ==
    LET entries == {k \in DOMAIN list : list[k].node = n}
    IN  IF c = 0 THEN entries = {}
        ELSE \E k \in entries : entries = {k} /\ list[k].replicas = c

\* One more pod on node m is one more in what the list says of m, and the same
\* of every other node.
LEMMA TallySays ==
    ASSUME NEW list \in Seq(ReplicasOnNode), NEW m \in Nodes, NEW n \in Nodes, NEW c \in Nat,
           Says(list, n, c)
    PROVE  Says(Tally(list, m), n, IF n = m THEN c + 1 ELSE c)
  <1> DEFINE entries == {k \in DOMAIN list : list[k].node = n}
             more == Tally(list, m)
             entriesMore == {k \in DOMAIN more : more[k].node = n}
  <1>1. \A k \in DOMAIN list : list[k] \in [node : Nodes, replicas : Nat]
    BY EntryType
  <1>2. CASE \E k \in DOMAIN list : list[k].node = m
    <2>1. more = [k \in DOMAIN list |->
                    IF list[k].node = m THEN [list[k] EXCEPT !.replicas = @ + 1] ELSE list[k]]
      BY <1>2 DEF Tally
    <2>2. \A k \in DOMAIN list : /\ more[k].node = list[k].node
                                 /\ more[k].replicas = IF list[k].node = m
                                                       THEN list[k].replicas + 1
                                                       ELSE list[k].replicas
      BY <1>1, <2>1
    <2>3. DOMAIN more = DOMAIN list
      BY <2>1
    <2> HIDE DEF more
    <2>4. entriesMore = entries
      BY <2>2, <2>3
    <2>5. n = m => c # 0
      BY <1>2 DEF Says
    <2>6. \A k \in entries : more[k].replicas = IF n = m THEN list[k].replicas + 1
                                                ELSE list[k].replicas
      BY <2>2
    <2>7. QED
      BY <2>4, <2>5, <2>6 DEF Says, more
  <1>3. CASE ~\E k \in DOMAIN list : list[k].node = m
    <2> DEFINE last == Len(list) + 1
    <2>1. more = Append(list, [node |-> m, replicas |-> 1])
      BY <1>3 DEF Tally
    <2>2. /\ DOMAIN more = DOMAIN list \cup {last} /\ last \notin DOMAIN list
          /\ \A k \in DOMAIN list : more[k] = list[k]
          /\ more[last].node = m /\ more[last].replicas = 1
      BY <2>1
    <2> HIDE DEF more, last
    <2>3. CASE n = m
      <3>1. entries = {}
        BY <1>3, <2>3
      <3>2. c = 0
        BY <3>1 DEF Says
      <3>3. entriesMore = {last}
        BY <1>3, <2>2, <2>3
      <3>4. QED
        BY <2>2, <2>3, <3>2, <3>3 DEF Says, more
    <2>4. CASE n # m
      <3>1. entriesMore = entries
        BY <2>2, <2>4
      <3>2. \A k \in entries : more[k] = list[k]
        BY <2>2
      <3>3. QED
        BY <2>4, <3>1, <3>2 DEF Says, more
    <2>5. QED
      BY <2>3, <2>4
  <1>4. QED
    BY <1>2, <1>3

\* TallyIsExact, with the number of pods in the place of their set.
LEMMA PodsOfFinite ==
    ASSUME i \in Nat, NEW t, NEW n
    PROVE  /\ IsFiniteSet(PodsOf(t, n)) /\ Cardinality(PodsOf(t, n)) \in Nat
           /\ Cardinality(PodsOf(t, n)) = 0 <=> PodsOf(t, n) = {}
  <1>1. IsFiniteSet(1..i)
    BY FS_Interval
  <1>2. IsFiniteSet(PodsOf(t, n))
    BY <1>1, FS_Subset DEF PodsOf
  <1>3. QED
    BY <1>2, FS_CardinalityType, FS_EmptySet

LEMMA ExactSays ==
    ASSUME i \in Nat
    PROVE  TallyIsExact <=>
             \A t \in Template : \A n \in Nodes :
                Says(replicasOnNodes[t], n, Cardinality(PodsOf(t, n)))
  BY PodsOfFinite DEF TallyIsExact, Says

LEMMA SameTally ==
    ASSUME TallyIsExact, UNCHANGED <<pods, i, replicasOnNodes>> PROVE TallyIsExact'
  <1>1. \A t, n : PodsOf(t, n)' = PodsOf(t, n)
    BY DEF PodsOf
  <1>2. QED
    BY <1>1 DEF TallyIsExact

\* One turn of the loop keeps the tally exact and adds one to its sum.
LEMMA VisitReview ==
    ASSUME CommandType, RightReview, VisitPod, stage = "report",
           UNCHANGED <<clusterVars, commandVars>>
    PROVE  RightReview'
  <1> DEFINE t == i % Templates
             m == pods[i + 1]
             list == replicasOnNodes[t]
             more == Tally(list, m)
  <1>1. /\ i \in Nat /\ i + 1 \in 1..Len(pods) /\ i' = i + 1 /\ pc = "loop" /\ pc' = "loop"
        /\ replicasOnNodes' = [replicasOnNodes EXCEPT ![t] = more]
        /\ UNCHANGED <<pods, requirements, replicas, wanted, failType>>
    BY DEF VisitPod, CommandType, ReportType
  <1>2. t \in Template /\ m \in Nodes /\ list \in Seq(ReplicasOnNode)
        /\ replicasOnNodes \in [Template -> Seq(ReplicasOnNode)]
    <2>1. i % Templates \in Template
      BY <1>1, TurnType
    <2>2. pods[i + 1] \in Nodes /\ replicasOnNodes \in [Template -> Seq(ReplicasOnNode)]
      BY <1>1 DEF CommandType, ReportType
    <2>3. QED
      BY <2>1, <2>2
  <1>3. \A u \in Template : \A n \in Nodes : Says(replicasOnNodes[u], n, Cardinality(PodsOf(u, n)))
    BY <1>1, ExactSays DEF RightReview
  <1>4. ASSUME NEW u \in Template, NEW n \in Nodes
        PROVE  /\ Cardinality(PodsOf(u, n)') = IF u = t /\ n = m THEN Cardinality(PodsOf(u, n)) + 1
                                               ELSE Cardinality(PodsOf(u, n))
               /\ Cardinality(PodsOf(u, n)') = 0 <=> PodsOf(u, n)' = {}
    <2>1. PodsOf(u, n)' = IF u = t /\ n = m THEN PodsOf(u, n) \cup {i + 1} ELSE PodsOf(u, n)
      <3>1. (i + 1) - 1 = i /\ 1..(i + 1) = (1..i) \cup {i + 1}
        BY <1>1
      <3>2. QED
        BY <1>1, <3>1 DEF PodsOf
    <2>2. i + 1 \notin PodsOf(u, n)
      BY <1>1 DEF PodsOf
    <2>3. Cardinality(PodsOf(u, n) \cup {i + 1}) = Cardinality(PodsOf(u, n)) + 1
      BY <1>1, <2>2, PodsOfFinite, FS_AddElement
    <2>4. Cardinality(PodsOf(u, n)) \in Nat
      BY <1>1, PodsOfFinite
    <2>5. Cardinality(PodsOf(u, n)) = 0 <=> PodsOf(u, n) = {}
      BY <1>1, PodsOfFinite
    <2>6. QED
      BY <2>1, <2>3, <2>4, <2>5
  <1> HIDE DEF t, m
  <1>5. ASSUME NEW u \in Template, NEW n \in Nodes
        PROVE  Says(replicasOnNodes'[u], n, Cardinality(PodsOf(u, n)'))
    <2>1. Cardinality(PodsOf(u, n)) \in Nat
      BY <1>1, PodsOfFinite
    <2>2. Says(replicasOnNodes[u], n, Cardinality(PodsOf(u, n)))
      BY <1>3
    <2>3. CASE u = t
      <3>1. replicasOnNodes'[u] = Tally(replicasOnNodes[u], m)
        BY <1>1, <1>2, <2>3
      <3>2. Says(Tally(replicasOnNodes[u], m), n,
                 IF n = m THEN Cardinality(PodsOf(u, n)) + 1 ELSE Cardinality(PodsOf(u, n)))
        BY <1>2, <2>1, <2>2, <2>3, TallySays
      <3>3. QED
        BY <1>4, <2>3, <3>1, <3>2
    <2>4. CASE u # t
      BY <1>1, <1>2, <1>4, <2>2, <2>4
    <2>5. QED
      BY <2>3, <2>4
  <1>6. TallyIsExact'
    <2>1. ASSUME NEW u \in Template, NEW n \in Nodes
          PROVE  LET entries == {k \in DOMAIN replicasOnNodes'[u] : replicasOnNodes'[u][k].node = n}
                 IN  IF PodsOf(u, n)' = {} THEN entries = {}
                     ELSE \E k \in entries :
                             /\ entries = {k}
                             /\ replicasOnNodes'[u][k].replicas = Cardinality(PodsOf(u, n)')
      BY <1>4, <1>5 DEF Says
    <2>2. QED
      BY <2>1 DEF TallyIsExact
  <1>7. PrintedSum(replicasOnNodes)' = i'
    <2>1. \A j, k \in DOMAIN list : list[j].node = m /\ list[k].node = m => j = k
      <3>1. Says(list, m, Cardinality(PodsOf(t, m)))
        BY <1>2, <1>3
      <3>2. QED
        BY <3>1 DEF Says
    <2>2. more \in Seq(ReplicasOnNode) /\ instancesSum(more) = instancesSum(list) + 1
      BY <1>2, <2>1, TallySum
    <2>3. PrintedSum([replicasOnNodes EXCEPT ![t] = more]) = PrintedSum(replicasOnNodes) + 1
      <3> HIDE DEF more
      <3> QED
        BY <1>2, <2>2, PrintedGrows
    <2>4. PrintedSum(replicasOnNodes) = i
      BY DEF RightReview
    <2>5. QED
      BY <1>1, <2>3, <2>4
  <1>8. UNCHANGED <<stage, written, spec, outcome>>
    BY DEF commandVars
  <1>9. QED
    BY <1>1, <1>6, <1>7, <1>8 DEF RightReview, Preparing

LEMMA ReportReview ==
    ASSUME CommandType, RightEstimate, RightReview, Report PROVE RightReview'
  <1> USE DEF Preparing
  <1>1. ASSUME stage = "report", UNCHANGED <<clusterVars, commandVars>>,
               GetReport(spec.containers, spec.initContainers, outcome)
        PROVE  RightReview'
    <2>1. /\ pc = "idle" /\ pc' = "loop" /\ stage' = "report"
          /\ written' # "review" /\ UNCHANGED <<pods, i, replicasOnNodes, wanted, spec, outcome>>
          /\ requirements' = getResourceRequest(spec.containers, spec.initContainers)
          /\ replicas' = int32(Len(pods)) /\ failType' = outcome
      BY <1>1 DEF GetReport, getMainFailReason, commandVars, RightReview
    <2>2. TallyIsExact'
      <3>1. TallyIsExact
        BY DEF RightReview
      <3>2. QED
        BY <2>1, <3>1, SameTally
    <2>3. PrintedSum(replicasOnNodes)' = i'
      BY <2>1 DEF RightReview
    <2>4. QED
      BY <2>1, <2>2, <2>3 DEF RightReview
  <1>2. ASSUME stage = "report", UNCHANGED <<clusterVars, commandVars>>, VisitPod
        PROVE  RightReview'
    BY <1>2, VisitReview
  <1>3. ASSUME Goto("report", "print"), FinishReport(MaxLimit),
               UNCHANGED <<clusterVars, profiles, spec, room, outcome>>
        PROVE  RightReview'
    <2>1. /\ pc' = "done" /\ stage' = "print" /\ i = Len(pods) /\ wanted' = int32(MaxLimit)
          /\ pc # "idle"
          /\ UNCHANGED <<pods, i, requirements, replicasOnNodes, replicas, failType, spec, outcome>>
      BY <1>3 DEF FinishReport, Goto
    <2>2. TallyIsExact'
      <3>1. TallyIsExact
        BY DEF RightReview
      <3>2. QED
        BY <2>1, <3>1, SameTally
    <2>3. PrintedSum(replicasOnNodes)' = i'
      BY <2>1 DEF RightReview
    <2>4. QED
      BY <2>1, <2>2, <2>3 DEF RightReview
  <1>4. QED
    BY <1>1, <1>2, <1>3 DEF Report

\* Nothing else touches the review.
LEMMA QuietReview ==
    ASSUME RightReview, UNCHANGED reviewVars,
           pc # "idle" => UNCHANGED <<pods, spec, outcome>>,
           stage' \in Preparing \cup {"run"} => stage \in Preparing \cup {"run"},
           stage' = "print" \/ written' = "review" => stage = "print" \/ written = "review"
    PROVE  RightReview'
  <1>1. TallyIsExact'
    <2>1. CASE pc = "idle"
      <3>1. i = 0 /\ i' = 0 /\ replicasOnNodes' = [t \in Template |-> <<>>]
        BY <2>1 DEF RightReview, reviewVars
      <3>2. \A t \in Template : DOMAIN replicasOnNodes'[t] = {}
        BY <3>1
      <3>3. \A t, n : PodsOf(t, n)' = {}
        BY <3>1 DEF PodsOf
      <3>4. QED
        BY <3>2, <3>3 DEF TallyIsExact
    <2>2. CASE pc # "idle"
      <3>1. UNCHANGED <<pods, i, replicasOnNodes>> /\ TallyIsExact
        BY <2>2 DEF RightReview, reviewVars
      <3>2. QED
        BY <3>1, SameTally
    <2>3. QED
      BY <2>1, <2>2
  <1>2. PrintedSum(replicasOnNodes)' = i'
    BY DEF RightReview, reviewVars
  <1>3. QED
    BY <1>1, <1>2 DEF RightReview, reviewVars

LEMMA InitReview == Init => RightReview
  <1> SUFFICES ASSUME Init PROVE RightReview
    OBVIOUS
  <1>1. i = 0 /\ replicasOnNodes = [t \in Template |-> <<>>] /\ pc = "idle"
    BY DEF Init, ReportInit
  <1>2. TallyIsExact
    <2>1. \A t \in Template : DOMAIN replicasOnNodes[t] = {}
      BY <1>1
    <2>2. \A t, n : PodsOf(t, n) = {}
      BY <1>1 DEF PodsOf
    <2>3. QED
      BY <2>1, <2>2 DEF TallyIsExact
  <1>3. PrintedSum(replicasOnNodes) = 0
    <2>1. replicasOnNodes \in [Template -> Seq(ReplicasOnNode)]
      BY <1>1
    <2>2. PICK p : /\ IsSum(p, [k \in 1..Templates |-> instancesSum(ListsOf(replicasOnNodes)[k])],
                            Templates)
                   /\ PrintedSum(replicasOnNodes) = p[Templates]
      BY <2>1, PrintedIsSum
    <2>3. \A k \in 1..Templates : instancesSum(ListsOf(replicasOnNodes)[k]) = 0
      <3>1. instancesSum(<<>>) = 0
        <4>1. <<>> \in Seq(ReplicasOnNode) /\ Len(<<>>) = 0
          OBVIOUS
        <4>2. QED
          BY <4>1, InstancesSum DEF IsSum
      <3>2. \A k \in 1..Templates : k - 1 \in Template /\ ListsOf(replicasOnNodes)[k] = <<>>
        BY <1>1, <2>1, ListsType
      <3>3. QED
        BY <3>1, <3>2
    <2> DEFINE Zero == {k \in Nat : k <= Templates => p[k] = 0}
    <2>4. 0 \in Zero /\ Templates \in Nat
      BY <2>2, TemplatesAssumption DEF IsSum
    <2>5. ASSUME NEW k \in Nat, k \in Zero PROVE k + 1 \in Zero
      <3>1. SUFFICES ASSUME k + 1 <= Templates PROVE p[k + 1] = 0
        OBVIOUS
      <3>2. k + 1 \in 1..Templates /\ (k + 1) - 1 = k /\ p[k] = 0
        BY <2>4, <2>5, <3>1
      <3>3. QED
        BY <2>2, <2>3, <3>2 DEF IsSum
    <2>6. Templates \in Zero
      <3> HIDE DEF Zero
      <3> QED
        BY <2>4, <2>5, Induction
    <2>7. QED
      BY <2>2, <2>6
  <1>4. QED
    BY <1>1, <1>2, <1>3 DEF Init, ReportInit, RightReview

LEMMA NextReview == CommandType /\ RightEstimate /\ RightReview /\ [Next]_vars => RightReview'
  <1> SUFFICES ASSUME CommandType, RightEstimate, RightReview, [Next]_vars
               PROVE  RightReview'
    OBVIOUS
  <1> USE DEF Goto, Preparing
  <1>1. CASE Validate \/ LoadConfig \/ BuildConfig \/ ParseAPISpec \/ Connect \/ New
             \/ SyncWithClient \/ CreateFirstPod \/ Place \/ Stop
    <2>1. /\ stage \in Preparing \cup {"run"} /\ stage' # "print" /\ written' = written
          /\ UNCHANGED reviewVars
      BY <1>1 DEF Validate, LoadConfig, BuildConfig, ParseAPISpec, Connect, New,
                  SyncWithClient, CreateFirstPod, Place, Stop
    <2>2. pc = "idle"
      BY <2>1 DEF RightReview
    <2>3. QED
      BY <2>1, <2>2, QuietReview
  <1>2. CASE Report
    BY <1>2, ReportReview
  <1>3. CASE PrintReview
    BY <1>3, QuietReview DEF PrintReview
  <1>4. CASE Fail
    BY <1>4, QuietReview DEF Fail
  <1>5. CASE UNCHANGED vars
    BY <1>5, QuietReview DEF vars, commandVars
  <1>6. QED
    BY <1>1, <1>2, <1>3, <1>4, <1>5 DEF Next, WaitForever, Exited

LEMMA InvariantHolds == Spec => []CommandInvariant
  <1>1. Init => CommandInvariant
    BY InitType, InitCluster, InitEstimate, InitReview DEF CommandInvariant
  <1>2. CommandInvariant /\ [Next]_vars => CommandInvariant'
    BY NextType, NextCluster, NextEstimate, NextReview DEF CommandInvariant
  <1>3. QED
    BY <1>1, <1>2, PTL DEF Spec

-----------------------------------------------------------------------------
(***************************************************************************)
(* What the invariant says to a reader of the review.                      *)
(***************************************************************************)
LEMMA AtLeastAsMuch ==
    ASSUME NEW a \in Nat, NEW b \in Nat, NEW c \in Nat, NEW d \in Nat, a <= b, c <= d
    PROVE  a * c <= b * d
  <1>1. PICK e \in Nat : b = a + e
    <2>1. b - a \in Nat /\ b = a + (b - a)
      OBVIOUS
    <2>2. QED
      BY <2>1
  <1>2. PICK g \in Nat : d = c + g
    <2>1. d - c \in Nat /\ d = c + (d - c)
      OBVIOUS
    <2>2. QED
      BY <2>1
  <1>3. a * g \in Nat /\ e * c \in Nat /\ e * g \in Nat /\ a * c \in Nat
    OBVIOUS
  <1>4. b * d = a * c + a * g + e * c + e * g
    BY <1>1, <1>2
  <1>5. QED
    BY <1>3, <1>4

\* The replicas on a node are the pods of the analysis there, for the first
\* template; of more than one, it has a part of them.
LEMMA ReplicasAtIs ==
    ASSUME CommandInvariant, pc = "done", NEW n \in Nodes
    PROVE  /\ ReplicasAt(n) \in Nat /\ ReplicasAt(n) <= Estimate!Used(n)
           /\ Templates = 1 => ReplicasAt(n) = Estimate!Used(n)
  <1> DEFINE list == replicasOnNodes[0]
             c == Cardinality(PodsOf(0, n))
             entries == {entry \in {list[k] : k \in DOMAIN list} : entry.node = n}
  <1>1. /\ i \in Nat /\ i = Len(pods) /\ pods \in Seq(Nodes)
        /\ replicasOnNodes \in [Template -> Seq(ReplicasOnNode)] /\ TallyIsExact
    BY DEF CommandInvariant, CommandType, ReportType, RightReview
  <1>2. 0 \in Template
    BY TemplatesAssumption DEF Template
  <1>3. c \in Nat /\ Says(list, n, c)
    BY <1>1, <1>2, PodsOfFinite, ExactSays
  <1>4. ReplicasAt(n) = c
    <2> HIDE DEF c, list
    <2>1. CASE c = 0
      <3>1. entries = {}
        BY <1>3, <2>1 DEF Says
      <3>2. QED
        BY <2>1, <3>1 DEF ReplicasAt, list
    <2>2. CASE c # 0
      <3>1. PICK k \in DOMAIN list : /\ {j \in DOMAIN list : list[j].node = n} = {k}
                                     /\ list[k].replicas = c
        BY <1>3, <2>2 DEF Says
      <3>2. entries = {list[k]}
        BY <3>1
      <3>3. (CHOOSE entry \in {list[k]} : TRUE) = list[k]
        OBVIOUS
      <3>4. QED
        BY <3>1, <3>2, <3>3 DEF ReplicasAt, list
    <2>3. QED
      BY <2>1, <2>2
  <1>5. PodsOf(0, n) \subseteq On(n) /\ (Templates = 1 => PodsOf(0, n) = On(n))
    <2>1. PodsOf(0, n) \subseteq On(n)
      BY <1>1 DEF PodsOf, On
    <2>2. ASSUME Templates = 1 PROVE On(n) \subseteq PodsOf(0, n)
      BY <1>1, <2>2 DEF PodsOf, On
    <2>3. QED
      BY <2>1, <2>2
  <1>6. c <= Cardinality(On(n))
    BY <1>1, <1>5, OnFinite, FS_Subset
  <1>7. QED
    BY <1>1, <1>3, <1>4, <1>5, <1>6, UsedIs

\* What a printed review is about.
LEMMA ReviewIs ==
    ASSUME CommandInvariant, written = "review", NEW n \in Nodes
    PROVE  /\ pc = "done"
           /\ \A r \in Listed : requirements[r] = Together(spec, r)
           /\ spec.containers \in Seq(Requests) /\ spec.initContainers \in Seq(Requests)
           /\ room[n] = Max(PodFits(n))
           /\ Estimate!Used(n) \in Nat /\ Estimate!Used(n) <= room[n]
           /\ failType = "Unschedulable" => Estimate!Used(n) >= room[n]
  <1>1. pc = "done" /\ failType = outcome
    BY DEF CommandInvariant, RightReview
  <1>2. requirements = [r \in Listed |-> Together(spec, r)]
    BY <1>1, RequestIs DEF CommandInvariant, RightReview
  <1>3. Estimate!Used(n) \in Nat
    BY UsedIs DEF CommandInvariant, CommandType, ReportType
  <1>4. QED
    BY <1>1, <1>2, <1>3 DEF CommandInvariant, RightEstimate

LEMMA Fits == CommandInvariant => ReviewFits
  <1> SUFFICES ASSUME CommandInvariant, written = "review", NEW n \in Nodes, NEW r \in Listed
               PROVE  ReplicasAt(n) * requirements[r] <= Free[n][r]
    BY DEF ReviewFits
  <1>1. /\ spec.containers \in Seq(Requests) /\ spec.initContainers \in Seq(Requests)
        /\ requirements[r] = Together(spec, r)
        /\ room[n] = Max(PodFits(n)) /\ Estimate!Used(n) <= room[n] /\ Estimate!Used(n) \in Nat
    BY ReviewIs
  <1>2. ReplicasAt(n) \in Nat /\ ReplicasAt(n) <= Estimate!Used(n)
    BY ReviewIs, ReplicasAtIs
  <1>3. room[n] \in Nat /\ room[n] \in PodFits(n)
    BY <1>1, RoomIs
  <1>4. r \in Resources
    BY ResourcesAssumption
  <1>5. room[n] * PodRequest(spec, r) <= Free[n][r]
    BY <1>3, <1>4 DEF PodFits
  <1>6. /\ PodRequest(spec, r) \in Nat /\ Together(spec, r) \in Nat
        /\ Together(spec, r) <= PodRequest(spec, r)
    BY <1>1, <1>4, PodRequestIs
  <1>7. ReplicasAt(n) <= room[n]
    BY <1>1, <1>2, <1>3
  <1>8. ReplicasAt(n) * Together(spec, r) <= room[n] * PodRequest(spec, r)
    BY <1>2, <1>3, <1>6, <1>7, AtLeastAsMuch
  <1>9. Free[n][r] \in Nat
    BY <1>4, CommandAssumption DEF Requests
  <1>10. /\ ReplicasAt(n) * Together(spec, r) \in Nat /\ room[n] * PodRequest(spec, r) \in Nat
    BY <1>2, <1>3, <1>6
  <1>11. QED
    BY <1>1, <1>5, <1>8, <1>9, <1>10

LEMMA Explains ==
    ASSUME Templates = 1, CommandInvariant PROVE ReviewExplainsStop
  <1> SUFFICES ASSUME written = "review", failType = "Unschedulable", OnlyListed, NEW n \in Nodes,
                      ReplicasAt(n) # Slots[n]
               PROVE  \E r \in Listed : (ReplicasAt(n) + 1) * requirements[r] > Free[n][r]
    BY DEF ReviewExplainsStop, Explained
  <1>1. /\ spec.containers \in Seq(Requests) /\ spec.initContainers \in Seq(Requests)
        /\ \A r \in Listed : requirements[r] = Together(spec, r)
        /\ room[n] = Max(PodFits(n)) /\ Estimate!Used(n) \in Nat
        /\ Estimate!Used(n) <= room[n] /\ Estimate!Used(n) >= room[n]
    BY ReviewIs
  <1>2. ReplicasAt(n) = Estimate!Used(n)
    BY ReviewIs, ReplicasAtIs
  <1>3. /\ room[n] \in Nat /\ room[n] \in PodFits(n)
        /\ \A k \in PodFits(n) : k <= room[n]
    BY <1>1, RoomIs
  <1>4. ReplicasAt(n) = room[n]
    BY <1>1, <1>2, <1>3
  <1> DEFINE more == ReplicasAt(n) + 1
  <1>5. more \in 0..Slots[n] /\ more \in Nat
    <2>1. Slots[n] \in Nat /\ room[n] \in 0..Slots[n]
      BY <1>3, CommandAssumption DEF PodFits
    <2>2. QED
      BY <1>4, <2>1
  <1>6. more \notin PodFits(n)
    BY <1>3, <1>4
  <1> HIDE DEF more
  <1>7. PICK r \in Resources : ~(more * PodRequest(spec, r) <= Free[n][r])
    BY <1>5, <1>6 DEF PodFits
  <1>8. Free[n][r] \in Nat /\ PodRequest(spec, r) \in Nat
    BY <1>1, PodRequestIs, CommandAssumption DEF Requests
  <1>9. r \in Listed
    <2>1. SUFFICES ASSUME PodRequest(spec, r) = 0 PROVE FALSE
      BY DEF OnlyListed
    <2>2. more * 0 = 0
      BY <1>5
    <2>3. QED
      BY <1>7, <1>8, <2>1, <2>2
  <1>10. PodRequest(spec, r) = requirements[r]
    BY <1>1, <1>9 DEF OnlyListed
  <1>11. more * requirements[r] \in Nat
    BY <1>5, <1>8, <1>10
  <1>12. more * requirements[r] > Free[n][r]
    BY <1>7, <1>8, <1>10, <1>11
  <1>13. QED
    BY <1>9, <1>12 DEF more

LEMMA Adds == CommandInvariant => TallyIsExact /\ PrintedSumIsReplicas /\ LimitReviewAgrees
  <1> SUFFICES ASSUME CommandInvariant
               PROVE  TallyIsExact /\ PrintedSumIsReplicas /\ LimitReviewAgrees
    OBVIOUS
  <1>1. pods \in Seq(Nodes) /\ MaxLimit \in Int
    BY CommandAssumption DEF CommandInvariant, CommandType, ReportType
  <1>2. TallyIsExact /\ PrintedSum(replicasOnNodes) = i
    BY DEF CommandInvariant, RightReview
  <1>3. ASSUME pc = "done"
        PROVE  /\ i = Len(pods) /\ replicas = int32(Len(pods)) /\ wanted = int32(MaxLimit)
               /\ failType = outcome
    BY <1>3 DEF CommandInvariant, RightReview
  <1>4. outcome = "LimitReached" => Len(pods) = MaxLimit
    BY <1>1 DEF CommandInvariant, RightEstimate
  <1>5. QED
    BY <1>2, <1>3, <1>4 DEF PrintedSumIsReplicas, LimitReviewAgrees

\* The state of the command is well formed at every step, and its numbers in
\* the review are 32-bit ones.
THEOREM CommandTypeHolds == Spec => []CommandType
  BY InvariantHolds, PTL DEF CommandInvariant

\* A review lists a node once for each template, with the number of the
\* template's pods there, in whatever order the scheduler went through the
\* nodes (parsePodsReview).
THEOREM TallyHolds == Spec => []TallyIsExact
  BY InvariantHolds, Adds, PTL

\* The numbers of instances in the text of a review add up to the replicas of
\* the JSON and YAML review, cut to 32 bits (instancesSum, getReviewStatus).
THEOREM PrintedSumHolds == Spec => []PrintedSumIsReplicas
  BY InvariantHolds, Adds, PTL

\* A review that says LimitReached has as many replicas as were asked for, with
\* limits beyond 32 bits too (GetReport and Report).
THEOREM LimitReviewHolds == Spec => []LimitReviewAgrees
  BY InvariantHolds, Adds, PTL

\* The replicas of a review times its requirements fit into what each node has
\* left, for every pod, cluster and number of templates: what the review says a
\* pod requires is never more than the scheduler takes it to ask for.
THEOREM ReviewFitsHolds == Spec => []ReviewFits
  BY InvariantHolds, Fits, PTL

\* A review that says Unschedulable shows what is short on each node, for a pod
\* that asks for nothing the review does not list and needs no more to start
\* than to run.  Report passes one template.
THEOREM ReviewExplainsHolds == ASSUME Templates = 1 PROVE Spec => []ReviewExplainsStop
  <1>1. CommandInvariant => ReviewExplainsStop
    BY Explains
  <1>2. QED
    BY <1>1, InvariantHolds, PTL

=============================================================================
