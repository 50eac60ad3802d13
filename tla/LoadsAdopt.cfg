SPECIFICATION LoaderSpec
CONSTANTS
  A = A
  B = B
  C = C
  X = X
  Y = Y
  F = F
  p = p
  q = q
  None = None
  NoIsbn = NoIsbn
  CleanBooks <- Merging
  Writers <- Two
  Assigned <- One
  Ids = {1, 2, 3, 4}
  MaxLength = 1
  MaxBatches = 4
  Hurried = FALSE
  DEADLOCK_RETRIES = 1
INVARIANTS TheirsIsThere
CHECK_DEADLOCK FALSE
