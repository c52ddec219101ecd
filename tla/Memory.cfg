\* Two executors and three pieces of memory that are reused; two threads and
\* two chunks per area: caches overflow, run dry and move.
CONSTANTS
  Nil = Nil
  Kinds = {"struct", "string", "link"}
  Executors = {m, a}
  Main = m
  Refs = {r1, r2, r3}
  Threads = {m, a}
  ChunksPerArea = 2
  PreAllocate = 1
  MaxAreas = 2
SPECIFICATION MemorySpec
SYMMETRY Memory
INVARIANTS
  HeapSound
  CollectionComplete
  ChunksSound
