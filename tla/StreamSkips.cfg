CONSTANTS
  r1 = r1
  r2 = r2
  o1 = o1
  o2 = o2
  p1 = p1
  p2 = p2
  t1 = t1
  t2 = t2
  l1 = l1
  l2 = l2
  Runs = {r1}
  Partitions = {p1, p2}
  Consumers = {t1}
  NoTxn = NoTxn
  Boundary = Boundary
  Records <- TwoRecords
  Publishes <- AllRecords
  RawPartition <- RawOf
  CleanPartition <- CleanOf
  TransformRejects = {}
  LoadRejects = {}
  Undecodable = {o2}
  Subscribes <- OneTransform
  MaxCrashes = 0
  MaxTries = 1
SPECIFICATION Spec
CHECK_DEADLOCK FALSE
INVARIANTS
  NothingSkipped
