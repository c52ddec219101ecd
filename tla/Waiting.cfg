\* Two executors request collections, poll and await a future, and await a
\* process, until it ends or the machine stops.
CONSTANTS
  Threads = {m, a}
  Main = m
  AccumMax = 1
  ByteInterval = 1
  MaxAlloc = 1
  MaxCollections = 2
  StartMayFail = TRUE
  Waiters = {m, a}
  Holders = {m, a}
  Destructor = d
  Codes = {c0, c1}
  Detached = FALSE
SPECIFICATION WaitingSpec
INVARIANTS
  CollectNowSound
  AnswerSound
  NoWaiterWhenFreed
  ExitCodeAgrees
  NoZombie
PROPERTIES
  CollectNowReturns
  ShutdownReturns
  Wakes
  DestructorReturns
  BlockReturnsOrSelfLocks
\* A virtual machine whose collector could not be started never ends, and a
\* caller of ProcessRef::block() may wait for its own mutex.
CHECK_DEADLOCK FALSE
