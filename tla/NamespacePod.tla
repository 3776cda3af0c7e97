---------------------------- MODULE NamespacePod ----------------------------
(***************************************************************************)
(* client.RetrieveNamespacePod, the work of genpod: a stub pod whose       *)
(* container asks for the smallest of the maxima that the limit ranges of  *)
(* the namespace set for a pod.                                            *)
(***************************************************************************)
EXTENDS Integers, Sequences

CONSTANTS
    Resources,  \* memory, cpu and gpu
    MaxAmount,  \* bound: the largest amount of a resource
    MaxItems,   \* bound: the items of all limit ranges of the namespace
    Unset       \* a nil quantity, or a resource the item does not mention

Amount == 0..MaxAmount
Amounts == [Resources -> Amount \cup {Unset}]

ASSUME AmountAssumption ==
    MaxAmount \in Nat /\ MaxItems \in Nat /\ Unset \notin Nat

\* An item of a limit range: what it limits, and its Max.
LimitItem == [type : {"Pod", "Container"}, max : Amounts]
Selector == {"none", "valid", "invalid"}  \* the node-selector annotation

VARIABLES
    items,      \* the items of the limit ranges, in the order they are listed
    annotation, \* of the namespace
    i,          \* the index of the item the loop is at
    resources,  \* the minimum so far
    limits,     \* the limits and the requests of the stub container
    pc

vars == <<items, annotation, i, resources, limits, pc>>

TypeOK ==
    /\ items \in Seq(LimitItem)
    /\ annotation \in Selector
    /\ i \in 1..(Len(items) + 1)
    /\ resources \in Amounts /\ limits \in Amounts
    /\ pc \in {"get", "list", "loop", "limits", "selector", "pod", "error"}

Nothing == [r \in Resources |-> Unset]

Init ==
    /\ items = <<>> /\ annotation = "none"
    /\ i = 1
    /\ resources = Nothing /\ limits = Nothing
    /\ pc = "get"

GetNamespace ==
    /\ pc = "get" /\ pc' = "list"
    /\ annotation' \in Selector
    /\ UNCHANGED <<items, i, resources, limits>>

ListLimitRanges ==
    /\ pc = "list" /\ pc' = "loop"
    /\ items' \in UNION {[1..n -> LimitItem] : n \in 0..MaxItems}
    /\ i' = 1 /\ resources' = Nothing
    /\ UNCHANGED <<annotation, limits>>

\* The namespace is not found, or its limit ranges cannot be listed.
RequestFails ==
    /\ pc \in {"get", "list"} /\ pc' = "error"
    /\ UNCHANGED <<items, annotation, i, resources, limits>>

\* What resourceType has after an item that limits pods.
Smaller_Maximum(r, max) ==
    IF max[r] # Unset /\ (resources[r] = Unset \/ resources[r] < max[r])
    THEN max[r] ELSE resources[r]

Smaller(r, max) ==
    IF max[r] # Unset /\ (resources[r] = Unset \/ resources[r] > max[r])
    THEN max[r] ELSE resources[r]

\* One turn of the loop over the items; another kind of item is skipped.
VisitItem ==
    /\ pc = "loop" /\ i <= Len(items)
    /\ resources' = IF items[i].type # "Pod" THEN resources
                    ELSE [r \in Resources |-> Smaller(r, items[i].max)]
    /\ i' = i + 1
    /\ UNCHANGED <<items, annotation, limits, pc>>

EndLoop ==
    /\ pc = "loop" /\ i > Len(items)
    /\ pc' = "limits"
    /\ UNCHANGED <<items, annotation, i, resources, limits>>

Nonzero_Every == \A r \in Resources : resources[r] \notin {Unset, 0}
Nonzero == \E r \in Resources : resources[r] \notin {Unset, 0}

\* The container gets the limits, unless all of them are zero or unset.
SetLimits ==
    /\ pc = "limits"
    /\ limits' = IF Nonzero THEN resources ELSE limits
    /\ pc' = "selector"
    /\ UNCHANGED <<items, annotation, i, resources>>

\* A node selector that does not parse is an error; there is no pod then.
SetSelector ==
    /\ pc = "selector"
    /\ pc' = IF annotation = "invalid" THEN "error" ELSE "pod"
    /\ UNCHANGED <<items, annotation, i, resources, limits>>

Returned == pc \in {"pod", "error"} /\ UNCHANGED vars

Retrieve ==
    \/ GetNamespace \/ ListLimitRanges \/ RequestFails
    \/ VisitItem \/ EndLoop \/ SetLimits \/ SetSelector

Next == Retrieve \/ Returned

Spec == Init /\ [][Next]_vars

-----------------------------------------------------------------------------
\* The maxima the first n items set for r.
Maxima(r, n) ==
    {items[k].max[r] : k \in {j \in 1..n : items[j].type = "Pod"}} \ {Unset}

\* a is the smallest of the amounts in S, and unset if there is none.
IsSmallest(a, S) == IF S = {} THEN a = Unset ELSE a \in S /\ \A b \in S : a <= b

\* "Iterate through all limit ranges and pick the minimum of all related to pod
\* constraints": whatever the order of the items, the loop ends with the minima.
LimitsAreTheMinimum ==
    pc # "loop" => \A r \in Resources : IsSmallest(resources[r], Maxima(r, Len(items)))

\* The inductive invariant behind LimitsAreTheMinimum and LimitsAreKept.
LoopInvariant ==
    /\ \A r \in Resources : IsSmallest(resources[r], Maxima(r, i - 1))
    /\ pc # "loop" => i = Len(items) + 1
    /\ pc \in {"selector", "pod"} /\ Nonzero => limits = resources

\* The pod of a namespace that allows something has every limit the namespace
\* sets, those that are zero included.
LimitsAreKept ==
    pc = "pod" /\ (\E r \in Resources : resources[r] \notin {Unset, 0}) =>
        \A r \in Resources : IsSmallest(limits[r], Maxima(r, Len(items)))

=============================================================================
