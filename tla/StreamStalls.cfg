CONSTANTS
  r1 = r1
  r2 = r2
  o1 = o1
  o2 = o2
  p1 = p1
  p2 = p2
  t1 = t1
  t2 = t2
  l1 = l1
  l2 = l2
  Runs = {r1}
  Partitions = {p1, p2}
  Consumers = {t1, l1, l2}
  NoTxn = NoTxn
  Boundary = Boundary
  Records <- TwoRecords
  Publishes <- OneRecord
  RawPartition <- RawOf
  CleanPartition <- CleanOf
  TransformRejects = {}
  LoadRejects = {}
  Undecodable = {}
  Subscribes <- OneTransform
  MaxCrashes = 0
  MaxTries = 1
SPECIFICATION FairSpec
CHECK_DEADLOCK FALSE
PROPERTIES
  BoundaryClosesRun
