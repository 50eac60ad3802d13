SPECIFICATION DiscoverySpec
CONSTANTS
  Files <- Dumps
  Languages = {"eng"}
  Feeds = {"openlibrary_dump"}
  Limits = {2}
  NoLimit = NoLimit
  Resumes = {TRUE}
  Refreshes = {FALSE}
  Sliced = TRUE
  Retries = 1
  MaxFaults = 0
PROPERTIES Refreshed
CHECK_DEADLOCK FALSE
