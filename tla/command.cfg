CONSTANTS
  n1 = n1
  n2 = n2
  n3 = n3
  memory = memory
  cpu = cpu
  gpu = gpu
  storage = storage
  first = first
  second = second
  extra = extra
  work = work
  home = home
  NoPath = NoPath
  NoServer = NoServer
  InCluster = InCluster
  NoContext = NoContext
  Nodes = {n1, n2, n3}
  Templates = 1
  Resources = {memory, cpu, gpu, storage}
  Listed = {memory, cpu, gpu}
  HalfRange = 2
  Paths = {first, second, extra}
  Precedence <- SmallPrecedence
  MaxLimit = 4
  Contents <- SmallContents
  Configs <- SmallConfigs
  PodSpecs <- SmallPodSpecs
  DefaultName = "default-scheduler"
  NoName = ""
  Slots <- SmallSlots
  Free <- SmallFree
SPECIFICATION Spec
INVARIANT CommandType
INVARIANT NeverAnotherCluster
INVARIANT TallyIsExact
INVARIANT PrintedSumIsReplicas
INVARIANT LimitReviewAgrees
INVARIANT ReviewFits
INVARIANT ReviewExplainsStop
PROPERTY CommandEnds
