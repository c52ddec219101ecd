\* Release stores may be delayed past later loads, as on x86-64.
CONSTANTS
  m = m
  a = a
  b = b
  Executors = {m}
  Main = m
  BufferedStores = TRUE
  EarlyCollection = FALSE
SPECIFICATION Spec
INVARIANT
  WorldStopped
