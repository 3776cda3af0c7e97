CONSTANTS
  p1 = p1
  p2 = p2
  n1 = n1
  n2 = n2
  NoNode = NoNode
  Objects = {p1, p2, n1, n2}
  KindOf <- SmallKinds
  ExcludeNodes = {n2}
SPECIFICATION Spec
INVARIANT SteadyIsExact
INVARIANT NoDanglingPods
INVARIANT CopiedOnce
PROPERTY SyncEnds
