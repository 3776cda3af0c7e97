------------------------- MODULE MCCapacityCommand -------------------------
(***************************************************************************)
(* Three nodes with five slots together, two kubeconfig files in the       *)
(* loading rules and a third to name explicitly, and the pods and the      *)
(* scheduler configurations that differ in what the command does with them.*)
(***************************************************************************)
EXTENDS CapacityCommand

CONSTANTS n1, n2, n3, memory, cpu, gpu, storage, first, second, extra, work, home

SmallPrecedence == <<first, second>>

File(current, contexts, clusters) ==
    [state |-> "read", current |-> current, contexts |-> contexts, clusters |-> clusters]

\* A file that is not there or does not parse, files with everything for one
\* context, and files that hold only a part: the current context, its cluster,
\* or its server.
SmallContents ==
    {Nowhere, Broken}
    \cup {File(c, [d \in {c} |-> d], [d \in {c} |-> <<c, "a">>]) : c \in {work, home}}
    \cup {File(work, NoMap, NoMap),
          File(work, [d \in {work} |-> home], NoMap),
          File(NoContext, [d \in {work} |-> work], [d \in {work} |-> <<work, "b">>]),
          File(NoContext, NoMap, [d \in {work, home} |-> <<d, "c">>])}

SmallConfigs ==
    {<<DefaultName>>, <<"custom">>, <<DefaultName, "custom">>, <<"custom", DefaultName>>}

Container(m, c, g, s) == [r \in Resources |->
    CASE r = memory -> m [] r = cpu -> c [] r = gpu -> g [] r = storage -> s]

Pod(containers, initContainers) ==
    [schedulerName |-> NoName, gated |-> FALSE,
     containers |-> containers, initContainers |-> initContainers]

\* Pods of one and of two containers, one that needs more to start, one that
\* asks for a resource the review does not list, one of another scheduler and
\* one that is gated.
SmallPodSpecs ==
    {Pod(<<Container(0, 0, 0, 0)>>, <<>>),
     Pod(<<Container(2, 0, 0, 0), Container(1, 1, 1, 0)>>, <<Container(1, 1, 0, 0)>>),
     Pod(<<Container(1, 1, 0, 0)>>, <<Container(3, 1, 0, 0)>>),
     Pod(<<Container(1, 0, 0, 2), Container(0, 1, 0, 0)>>, <<>>),
     [Pod(<<Container(0, 1, 0, 0)>>, <<>>) EXCEPT !.schedulerName = "custom"],
     [Pod(<<Container(0, 1, 0, 0)>>, <<>>) EXCEPT !.gated = TRUE]}

SmallSlots == [n \in Nodes |-> IF n = n3 THEN 1 ELSE 2]
SmallFree ==
    [n \in Nodes |-> IF n = n1 THEN Container(4, 5, 2, 3) ELSE Container(3, 2, 1, 2)]

=============================================================================
