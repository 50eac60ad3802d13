SPECIFICATION Spec
CONSTANTS
  dump = dump
  bare = bare
  index = index
  export = export
  Manifest <- Three
  Payload <- PayloadOf
  Named <- NamedOf
  Off = {}
  Limit <- OneEach
  Concurrency = 2
  BatchSize = 3
  Enrich = FALSE
  WithGoodreads = FALSE
  None = None
INVARIANTS RetainedIsPromoted
CHECK_DEADLOCK FALSE
