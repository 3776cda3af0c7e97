CONSTANTS
  memory = memory
  cpu = cpu
  Unset = Unset
  first = first
  second = second
  context = context
  NoPath = NoPath
  NoServer = NoServer
  InCluster = InCluster
  NoContext = NoContext
  Paths = {first, second}
  Precedence <- SmallPrecedence
  Contents <- SmallContents
  Resources = {memory, cpu}
  MaxAmount = 1
  MaxItems = 3
SPECIFICATION CommandSpec
INVARIANT LimitsAreTheMinimum
INVARIANT LimitsAreKept
INVARIANT SameClusterAsAnalysis
