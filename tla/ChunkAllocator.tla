--------------------------- MODULE ChunkAllocator ---------------------------
(***************************************************************************)
(* The pool of fixed-size chunks behind every small reference              *)
(* (memory_allocator.cpp): a cache per thread, a global list of chunk sets *)
(* under globalChunksMutex, and areas mapped from the system.              *)
(*                                                                         *)
(* An intrusive list of chunks is the sequence of its members; the count   *)
(* that is kept beside it is separate state.                               *)
(***************************************************************************)
EXTENDS Naturals, Sequences, SequencesExt, FiniteSets

CONSTANTS Threads,
          ChunksPerArea,  \* also maxChunksPerThread
          PreAllocate,    \* preAllocateChunkSetCount
          MaxAreas        \* bound: the system maps no more areas

ASSUME AllocatorAssumption ==
  /\ ChunksPerArea \in Nat \ {0} /\ PreAllocate \in Nat /\ MaxAreas \in Nat

VARIABLES
  cache,   \* threadCache.chunks of each thread
  global,  \* globalChunkSets
  areas,   \* how many areas were mapped
  inUse,    \* the chunks that references live in
  pc       \* where each thread is

chunkVars == <<cache, global, areas, inUse, pc>>

NoChunks == [list |-> <<>>, count |-> 0]

\* allocChunkSet(): the chunks of an area, linked in the order of addresses.
AreaSet(a) ==
  [list |-> [i \in 1..ChunksPerArea |-> <<a, i>>], count |-> ChunksPerArea]

\* preAllocateChunkSets() stops at the first area that cannot be mapped.
ChunksInit ==
  /\ cache = [t \in Threads |-> NoChunks]
  /\ \E n \in 0..PreAllocate :
       /\ areas = n /\ n <= MaxAreas
       /\ global = [a \in 1..n |-> AreaSet(a)]
  /\ inUse = {}
  /\ pc = [t \in Threads |-> "idle"]

Goto(t, l) == pc' = [pc EXCEPT ![t] = l]

\* The head of a set is handed out.
Take(t, set) ==
  /\ cache' = [cache EXCEPT ![t] = [list |-> Tail(set.list), count |-> set.count - 1]]
  /\ inUse' = inUse \cup {Head(set.list)}
-----------------------------------------------------------------------------
\* getThreadChunk() from the thread's cache ...
AllocCached(t) ==
  /\ pc[t] = "idle" /\ cache[t].count # 0
  /\ Take(t, cache[t])
  /\ UNCHANGED <<global, areas, pc>>

\* ... or from the last global set ...
AllocGlobal(t) ==
  /\ pc[t] = "idle" /\ cache[t].count = 0 /\ global # <<>>
  /\ global' = Front(global)
  /\ Take(t, Last(global))
  /\ UNCHANGED <<areas, pc>>

\* ... or, after the mutex is unlocked ...
AllocMiss(t) ==
  /\ pc[t] = "idle" /\ cache[t].count = 0 /\ global = <<>>
  /\ Goto(t, "map")
  /\ UNCHANGED <<cache, global, areas, inUse>>

\* ... from a new area ...
AllocMap(t) ==
  /\ pc[t] = "map" /\ areas < MaxAreas
  /\ areas' = areas + 1
  /\ Take(t, AreaSet(areas + 1))
  /\ Goto(t, "idle")
  /\ UNCHANGED global

\* ... which the system may refuse: alloc() returns nullptr.
AllocFails(t) ==
  /\ pc[t] = "map"
  /\ cache' = [cache EXCEPT ![t] = NoChunks]
  /\ Goto(t, "idle")
  /\ UNCHANGED <<global, areas, inUse>>

\* freeChunk(): any thread may free any chunk, once.
FreeChunk(t, c) ==
  /\ pc[t] = "idle" /\ c \in inUse
  /\ inUse' = inUse \ {c}
  /\ cache' = [cache EXCEPT ![t] = [list |-> <<c>> \o @.list, count |-> @.count + 1]]
  /\ Goto(t, IF cache[t].count + 1 > ChunksPerArea THEN "flush" ELSE "idle")
  /\ UNCHANGED <<global, areas>>

\* A full cache becomes a global set, from when on others may use it ...
Flush(t) ==
  /\ pc[t] = "flush"
  /\ global' = Append(global, cache[t])
  /\ Goto(t, "reset")
  /\ UNCHANGED <<cache, areas, inUse>>

\* Mutant: the thread keeps its copy of the set.
ResetNothing(t) ==
  /\ pc[t] = "reset"
  /\ Goto(t, "idle")
  /\ UNCHANGED <<cache, global, areas, inUse>>

\* ... and the thread starts an empty one.
Reset(t) ==
  /\ pc[t] = "reset"
  /\ cache' = [cache EXCEPT ![t] = NoChunks]
  /\ Goto(t, "idle")
  /\ UNCHANGED <<global, areas, inUse>>

\* ~ThreadCache(), when a thread ends; another may start in its place.
ThreadEnd(t) ==
  /\ pc[t] = "idle" /\ cache[t].count > 0
  /\ cache' = [cache EXCEPT ![t] = NoChunks]
  /\ global' = Append(global, cache[t])
  /\ UNCHANGED <<areas, inUse, pc>>

ThreadStep(t) ==
  \/ AllocCached(t) \/ AllocGlobal(t) \/ AllocMiss(t) \/ AllocMap(t) \/ AllocFails(t)
  \/ (\E c \in inUse : FreeChunk(t, c)) \/ Flush(t) \/ Reset(t) \/ ThreadEnd(t)

ChunksNext == \E t \in Threads : ThreadStep(t)

ChunksSpec == ChunksInit /\ [][ChunksNext]_chunkVars
-----------------------------------------------------------------------------
(***************************************************************************)
(* Properties.                                                             *)
(***************************************************************************)
Mapped == (1..areas) \X (1..ChunksPerArea)

\* The cache of a thread, as far as it is its own.
Own(t) == IF pc[t] = "reset" THEN NoChunks ELSE cache[t]

Chunks(set) == ToSet(set.list)

\* Every chunk that was mapped is in exactly one place: in use, in one
\* thread's cache, or in one global set.  A chunk in two places would be two
\* references at one address, one in none would be leaked.
EachChunkOnce ==
  /\ \A t \in Threads :
       /\ IsInjective(Own(t).list) /\ Chunks(Own(t)) \cap inUse = {}
       /\ \A u \in Threads \ {t} : Chunks(Own(t)) \cap Chunks(Own(u)) = {}
       /\ \A i \in DOMAIN global : Chunks(Own(t)) \cap Chunks(global[i]) = {}
  /\ \A i \in DOMAIN global :
       /\ IsInjective(global[i].list) /\ Chunks(global[i]) \cap inUse = {}
       /\ \A j \in DOMAIN global \ {i} : Chunks(global[i]) \cap Chunks(global[j]) = {}
  /\ (UNION {Chunks(Own(t)) : t \in Threads})
       \cup (UNION {Chunks(global[i]) : i \in DOMAIN global}) \cup inUse = Mapped

\* The counts say how long the lists are; no set in the global list is empty, as
\* getChunkSet() and freeChunkSet() assert, and none is larger than a full
\* cache and the chunk that made it overflow.
CountsExact ==
  /\ \A t \in Threads : cache[t].count = Len(cache[t].list)
  /\ \A i \in DOMAIN global :
       /\ global[i].count = Len(global[i].list)
       /\ global[i].count \in 1..ChunksPerArea + 1

\* Memory is handed out to one reference at a time, and none is lost.
ChunksSound == EachChunkOnce /\ CountsExact

ChunkSets == [list : Seq(Nat \X Nat), count : Nat]

ChunksTypeOK ==
  /\ cache \in [Threads -> ChunkSets] /\ global \in Seq(ChunkSets)
  /\ areas \in Nat /\ inUse \subseteq Nat \X Nat
  /\ pc \in [Threads -> {"idle", "map", "flush", "reset"}]

\* A thread has an empty cache when it maps an area, a full one when it flushes.
CacheSizes ==
  \A t \in Threads :
    /\ pc[t] = "idle" => cache[t].count <= ChunksPerArea
    /\ pc[t] = "map" => cache[t].count = 0
    /\ pc[t] = "flush" => cache[t].count \in 1..ChunksPerArea + 1

\* The inductive invariant.
ChunksInv == ChunksTypeOK /\ ChunksSound /\ CacheSizes
=============================================================================
