CONSTANTS
  n1 = n1
  n2 = n2
  running = running
  stuck = stuck
  waiting = waiting
  Main = Main
  Listener = Listener
  NoNode = NoNode
  Nodes = {n1, n2}
  Capacity <- SmallCapacity
  Existing = {running}
  Placement <- SmallPlacement
  Admits <- OnlyWaiting
  Preemptible = {}
  OtherProfile = {}
  MaxSimulated = 2
  MaxName = 6
  Punctual = FALSE
SPECIFICATION Spec
INVARIANT NeverCrashes
