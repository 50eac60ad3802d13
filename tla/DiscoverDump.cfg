SPECIFICATION DiscoverySpec
CONSTANTS
  Files <- Dumps
  Languages = {"eng"}
  Feeds = {"openlibrary_dump"}
  Limits = {1, 2, NoLimit}
  NoLimit = NoLimit
  Resumes = {TRUE}
  Refreshes = {FALSE}
  Sliced = FALSE
  Retries = 1
  MaxFaults = 2
INVARIANTS DiscoveryTypeOK
PROPERTIES ResumesAfter ReadToTheEnd Refreshed
CHECK_DEADLOCK FALSE
