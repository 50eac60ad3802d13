CONSTANTS
  r1 = r1
  r2 = r2
  o1 = o1
  o2 = o2
  p1 = p1
  p2 = p2
  t1 = t1
  t2 = t2
  l1 = l1
  l2 = l2
  Runs = {r1}
  Partitions = {p1, p2}
  Consumers = {t1, l1}
  NoTxn = NoTxn
  Boundary = Boundary
  Records <- TwoRecords
  Publishes <- AllRecords
  RawPartition <- RawTogether
  CleanPartition <- CleanOf
  TransformRejects = {}
  LoadRejects = {}
  Undecodable = {}
  Subscribes <- OneTransform
  MaxCrashes = 1
  MaxTries = 1
SPECIFICATION StreamsFairSpec
CHECK_DEADLOCK FALSE
PROPERTIES
  EveryRecordSettles
  BoundaryClosesRun
