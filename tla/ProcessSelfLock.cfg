\* Two executors: block() calls itself with the mutex held.
CONSTANTS
  Holders = {a, b}
  Destructor = d
  Codes = {c0, c1}
  Detached = FALSE
SPECIFICATION ProcessFairSpec
PROPERTY
  BlockReturns
CHECK_DEADLOCK FALSE
