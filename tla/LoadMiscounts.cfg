CONSTANTS
  r1 = r1
  r2 = r2
  o1 = o1
  o2 = o2
  o3 = o3
  p1 = p1
  p2 = p2
  l1 = l1
  l2 = l2
  Runs = {r1}
  Partitions = {p1, p2}
  Consumers = {l1, l2}
  NoTxn = NoTxn
  Boundary = Boundary
  Records = {o1, o2, o3}
  Feed <- OneRun
  Rejects = {o3}
  Restless = {}
  BatchSize = 1
  FlushAt = 2
  MaxCrashes = 1
  MaxRebalances = 0
SPECIFICATION LoadSpec
CHECK_DEADLOCK FALSE
INVARIANTS
  FinalFiguresExact
