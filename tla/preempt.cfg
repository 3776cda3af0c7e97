CONSTANTS
  n1 = n1
  n2 = n2
  running = running
  stuck = stuck
  waiting = waiting
  Main = Main
  Listener = Listener
  NoNode = NoNode
  Nodes = {n1, n2}
  Capacity <- TinyCapacity
  Existing = {running, waiting}
  Placement <- SmallPlacement
  Admits <- OnlyWaiting
  Preemptible = {running}
  OtherProfile = {waiting}
  MaxSimulated = 0
  MaxName = 6
  Punctual = TRUE
SPECIFICATION Spec
INVARIANT NoOvercommit
INVARIANT UnschedulableIsExhaustive
INVARIANT FullInvariant
INVARIANT ChainInvariant
