\* Two executors on every kind of stream and socket, on one directory, and
\* on a watched tree of three directories; every platform call.
SPECIFICATION MCSpec
CONSTANTS
  e1 = e1
  e2 = e2
  Executors = {e1, e2}
  StreamIds = {1, 2, 3}
  Descriptors = {0, 1}
  Sizes = {0, 2}
  MaxSignals = 1
  Scenarios <- MCScenarios
  FileExecutors = {e1, e2}
  Names = {"a", "bb", "ccc"}
  NameLength <- MCNameLength
  NameMax = 3
  Slots = {1, 2, 3}
  FileScenarios <- MCFileScenarios
  WatchExecutors = {e1, e2}
  Dirs = {"x", "y"}
  DirNames = {"p", "q"}
  Trees <- MCTrees
  MaxChanges = 2
  MaxEvents = 2
  PathMax = 2
INVARIANTS
  CallsSound
  DescriptorsOwned
  ResultsHonest
  FilesSound
  WatcherSound
PROPERTIES
  AcceptEnds
