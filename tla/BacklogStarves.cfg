SPECIFICATION Spec
CONSTANTS
  a = a
  b = b
  c = c
  stuck = stuck
  Records <- Four
  Answerable <- Three
  Slice = 1
  MaxArrivals = 2
PROPERTY EveryRecordAsked
CHECK_DEADLOCK FALSE
