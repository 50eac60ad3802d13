SPECIFICATION IngestionSpec
CONSTANTS
  dump = dump
  bare = bare
  export = export
  Manifest <- Three
  Payload <- PayloadOf
  Named <- NamedOf
  Off = {"gutendex"}
  Limit <- TwoEach
  Concurrency = 2
  BatchSize = 2
  Enrich = TRUE
  WithGoodreads = TRUE
  None = None
  Files <- FilesOf
  Languages = {"eng"}
  Feeds = {"openlibrary_dump", "goodreads_export", "gutendex"}
  Limits = {1, NoLimit}
  NoLimit = NoLimit
  Resumes = {TRUE, FALSE}
  Refreshes = {FALSE}
  Sliced = FALSE
  Retries = 1
  MaxFaults = 1
  Calls = {1, 2, 3, 4}
  Batch <- BatchOf
  Paced = TRUE
  Interval = 2
  Slack = 0
  MaxAttempts = 2
  BaseDelay = 1
  MaxDelay = 1
  RetryAfter = {}
  Unset = Unset
INVARIANTS WithinBudget CallsAreAccounted NothingSkipped
PROPERTIES NoneAfterRefusal ResumesAfter Spaced CallsEnd
CHECK_DEADLOCK FALSE
