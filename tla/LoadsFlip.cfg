SPECIFICATION LoaderSpec
CONSTANTS
  A = A
  B = B
  C = C
  X = X
  Y = Y
  F = F
  p = p
  q = q
  None = None
  NoIsbn = NoIsbn
  CleanBooks <- Editions
  Writers <- One
  Assigned <- One
  Ids = {1, 2, 3}
  MaxLength = 1
  MaxBatches = 5
  Hurried = FALSE
  DEADLOCK_RETRIES = 0
PROPERTIES RedeliveryChangesNothing
CHECK_DEADLOCK FALSE
