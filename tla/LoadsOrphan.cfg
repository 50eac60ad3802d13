SPECIFICATION LoaderSpec
CONSTANTS
  A = A
  B = B
  C = C
  X = X
  Y = Y
  F = F
  p = p
  q = q
  None = None
  NoIsbn = NoIsbn
  CleanBooks <- Learning
  Writers <- Two
  Assigned <- Two
  Ids = {1, 2, 3, 4}
  MaxLength = 1
  MaxBatches = 3
  Hurried = TRUE
  DEADLOCK_RETRIES = 1
INVARIANTS ProvenanceBothWays
CHECK_DEADLOCK FALSE
