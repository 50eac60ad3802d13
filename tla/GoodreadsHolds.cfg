SPECIFICATION GoodreadsSpec
CONSTANTS
  early = early
  later = later
  stuck = stuck
  Dags = {"enrichment", "ingestion"}
  Retries <- RetriesOf
  Cooldown = 1
  MaxRecords = 2
  MaxTime = 2
  Ways = {"resolve", "byId"}
  Queries = {"dune"}
  Threshold = 2
  TransientRetries = 1
  BlockRetries = 1
  MaxDetail = 2
  Batches = 2
  BatchLen = 2
  MaxLoads = 2
INVARIANTS OnlyRefusalsKeepAway LateBounded SeriesReplayed
PROPERTIES RecordedRefusalHolds CandidateEnds EnrichedLeavesBacklog BacklogDrains
CHECK_DEADLOCK FALSE
