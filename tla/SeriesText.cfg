SPECIFICATION SeriesSpec
CONSTANTS
  dune = dune
  hyperion = hyperion
  Works = {dune, hyperion}
  Observed = {1, 2, 3}
  Home <- Homes
  SeriesNames = {"expanse"}
  SeriesIds = {"45175"}
  NoId = "none"
  Displays = {1, 2}
  Positions = {}
  Unsaid = Unsaid
INVARIANTS TextFollows
CHECK_DEADLOCK FALSE
