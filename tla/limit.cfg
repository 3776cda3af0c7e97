CONSTANTS
  n1 = n1
  n2 = n2
  running = running
  stuck = stuck
  waiting = waiting
  Main = Main
  Listener = Listener
  NoNode = NoNode
  Nodes = {n1, n2}
  Capacity <- LargeCapacity
  Existing = {running, stuck}
  Placement <- SmallPlacement
  Admits <- OnlyWaiting
  Preemptible = {}
  OtherProfile = {}
  MaxSimulated = 4
  MaxName = 6
  Punctual = TRUE
SPECIFICATION FairSpec
INVARIANT LimitIsExact
INVARIANT NoSendAfterClose
PROPERTY StopReasonIsFinal
PROPERTY ImplementsEstimate
