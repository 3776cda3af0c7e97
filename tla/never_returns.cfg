CONSTANTS
  n1 = n1
  n2 = n2
  running = running
  stuck = stuck
  waiting = waiting
  Main = Main
  Listener = Listener
  NoNode = NoNode
  Nodes = {n1, n2}
  Capacity <- SmallCapacity
  Existing = {running, 1}
  Placement <- SmallPlacement
  Admits <- OnlyWaiting
  Preemptible = {}
  OtherProfile = {}
  MaxSimulated = 0
  MaxName = 6
  Punctual = TRUE
SPECIFICATION FairSpec
CHECK_DEADLOCK FALSE
PROPERTY RunReturns
