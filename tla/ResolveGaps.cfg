SPECIFICATION Spec
CONSTANTS
  dump = dump
  bare = bare
  index = index
  export = export
  Manifest <- Mixed
  Payload <- PayloadOf
  Named <- NamedOf
  Off = {}
  Limit <- TwoEach
  Concurrency = 2
  BatchSize = 2
  Enrich = FALSE
  WithGoodreads = TRUE
  None = None
INVARIANTS OneGoodreadsCall
PROPERTIES RunEnds
CHECK_DEADLOCK FALSE
