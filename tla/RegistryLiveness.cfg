\* Main forks at most one executor, stores may be delayed.
CONSTANTS
  m = m
  a = a
  b = b
  Executors = {m, a}
  Main = m
  BufferedStores = TRUE
  EarlyCollection = FALSE
SPECIFICATION FairSpec
PROPERTIES
  PauseCompletes
  ShutdownCompletes
