\* Main forks up to two executors; collections run at any time.
CONSTANTS
  m = m
  a = a
  b = b
  Executors = {m, a, b}
  Main = m
  BufferedStores = FALSE
  EarlyCollection = FALSE
SPECIFICATION Spec
SYMMETRY Forks
INVARIANTS
  WorldStopped
  AllStacksVisible
PROPERTIES
  ImplementsWorld
