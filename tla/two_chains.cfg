CONSTANTS
  n1 = n1
  n2 = n2
  running = running
  stuck = stuck
  waiting = waiting
  Main = Main
  Listener = Listener
  NoNode = NoNode
  Nodes = {n1}
  Capacity <- SmallCapacity
  Existing = {waiting}
  Placement <- SmallPlacement
  Admits <- OnlyWaiting
  Preemptible = {}
  OtherProfile = {}
  MaxSimulated = 0
  MaxName = 6
  Punctual = TRUE
SPECIFICATION Spec
INVARIANT UnschedulableIsExhaustive
INVARIANT ListedPodsAreBound
INVARIANT ReportHasReason
CHECK_DEADLOCK FALSE
