SPECIFICATION CatalogueSpec
CONSTANTS
  r1 = r1
  r2 = r2
  o1 = o1
  o2 = o2
  o3 = o3
  p1 = p1
  p2 = p2
  l1 = l1
  l2 = l2
  A = A
  B = B
  C = C
  X = X
  F = F
  w1 = w1
  w2 = w2
  dune = dune
  emma = emma
  None = None
  NoIsbn = NoIsbn
  CleanBooks <- Merging
  Writers = {w1, w2}
  Assigned = {w2}
  Ids = {1, 2, 3, 4}
  MaxLength = 2
  MaxBatches = 4
  Hurried = FALSE
  DEADLOCK_RETRIES = 1
  Works = {dune, emma}
  Observed = {1, 2, 3}
  Home <- Homes
  SeriesNames = {"expanse", "leviathan"}
  SeriesIds = {"45175"}
  NoId = "none"
  Displays = {1}
  Positions = {1}
  Unsaid = Unsaid
  Nothing = Nothing
  Loaders = {w1, w2}
  Books = {dune, emma}
  Authors = {1}
  Subjects = {2}
  Years = {1850, 1900}
  BatchLength = 2
  MaxLoads = 2
  Runs = {r1, r2}
  Partitions = {p1, p2}
  Consumers = {l1, l2}
  NoTxn = NoTxn
  Boundary = Boundary
  Records = {o1, o2, o3}
  Feed <- TwoRuns
  Rejects = {o3}
  Restless <- FirstRun
  BatchSize = 2
  FlushAt = 2
  MaxCrashes = 1
  MaxRebalances = 1
INVARIANTS
  ClosedRunIsWritten CommittedIsWritten LoadedNeverInflated QuietFiguresExact
  ProvenanceBothWays FiguresExact BooksAgreeAlone CirclesCrossRecords
PROPERTIES
  EffectsSpec StoresSpec RedeliveryAlone CrossingEnds
  NoMembershipLost PlaceKept MergeKeepsTheSeries
CHECK_DEADLOCK FALSE
