----------------------------- MODULE ChunkProofs -----------------------------
(***************************************************************************)
(* Proofs about ChunkAllocator, for any threads, any size of an area and   *)
(* any number of areas.                                                    *)
(***************************************************************************)
EXTENDS ChunkAllocator, TLAPS

\* Taking the first of a list without duplicates.
LEMMA ListTail ==
  ASSUME NEW S, NEW s \in Seq(S), Len(s) > 0, IsInjective(s)
  PROVE  /\ Tail(s) \in Seq(S) /\ Len(Tail(s)) = Len(s) - 1 /\ IsInjective(Tail(s))
         /\ Head(s) \in ToSet(s) /\ Head(s) \in S
         /\ ToSet(Tail(s)) = ToSet(s) \ {Head(s)}
<1>1. /\ Tail(s) \in Seq(S) /\ Len(Tail(s)) = Len(s) - 1 /\ s # <<>>
      /\ DOMAIN s = 1..Len(s) /\ DOMAIN Tail(s) = 1..(Len(s) - 1)
      /\ \A i \in 1..(Len(s) - 1) : Tail(s)[i] = s[i + 1]
      /\ Head(s) = s[1] /\ Len(s) \in Nat
  OBVIOUS
<1>2. IsInjective(Tail(s))
  BY <1>1 DEF IsInjective
<1>3. Head(s) \in ToSet(s) /\ Head(s) \in S
  BY <1>1 DEF ToSet
<1>4. ASSUME NEW x \in ToSet(s), x # Head(s) PROVE x \in ToSet(Tail(s))
  <2>1. PICK i \in 1..Len(s) : x = s[i]
    BY <1>1, <1>4 DEF ToSet
  <2>2. i - 1 \in 1..(Len(s) - 1) /\ Tail(s)[i - 1] = x
    BY <1>1, <1>4, <2>1
  <2> QED BY <1>1, <2>2 DEF ToSet
<1>5. ASSUME NEW x \in ToSet(Tail(s)) PROVE x \in ToSet(s) /\ x # Head(s)
  <2>1. PICK i \in 1..(Len(s) - 1) : x = s[i + 1]
    BY <1>1, <1>5 DEF ToSet
  <2>2. i + 1 \in 1..Len(s) /\ i + 1 # 1 /\ 1 \in 1..Len(s)
    BY <1>1, <2>1
  <2> QED BY <1>1, <2>1, <2>2 DEF ToSet, IsInjective
<1> QED BY <1>1, <1>2, <1>3, <1>4, <1>5

\* Putting an element in front of a list that does not hold it.
LEMMA ListCons ==
  ASSUME NEW S, NEW s \in Seq(S), NEW c \in S, IsInjective(s), c \notin ToSet(s)
  PROVE  /\ <<c>> \o s \in Seq(S) /\ Len(<<c>> \o s) = Len(s) + 1
         /\ IsInjective(<<c>> \o s)
         /\ ToSet(<<c>> \o s) = ToSet(s) \cup {c}
<1> DEFINE u == <<c>> \o s
<1>1. /\ u \in Seq(S) /\ Len(u) = Len(s) + 1 /\ Len(s) \in Nat
      /\ DOMAIN s = 1..Len(s) /\ DOMAIN u = 1..(Len(s) + 1)
      /\ u[1] = c /\ \A i \in 1..Len(s) : u[i + 1] = s[i]
  <2>1. <<c>> \in Seq(S) /\ Len(<<c>>) = 1 /\ <<c>>[1] = c /\ Len(s) \in Nat
    OBVIOUS
  <2>2. u \in Seq(S) /\ Len(u) = 1 + Len(s)
    BY <2>1
  <2>3. \A i \in 1..Len(s) : i + 1 \in 1..Len(u) /\ i + 1 > 1 /\ (i + 1) - 1 = i
    BY <2>1, <2>2
  <2>4. \A i \in 1..Len(s) : u[i + 1] = s[i]
    BY <2>1, <2>3
  <2>5. Len(u) = Len(s) + 1
    BY <2>1, <2>2
  <2>6. DOMAIN s = 1..Len(s) /\ DOMAIN u = 1..Len(u)
    BY <2>2
  <2>7. u[1] = c
    BY <2>1
  <2> QED BY <2>1, <2>2, <2>4, <2>5, <2>6, <2>7
<1>2. \A i \in 2..(Len(s) + 1) : i - 1 \in 1..Len(s) /\ u[i] = s[i - 1]
  <2> SUFFICES ASSUME NEW i \in 2..(Len(s) + 1) PROVE i - 1 \in 1..Len(s) /\ u[i] = s[i - 1]
    OBVIOUS
  <2>1. i - 1 \in 1..Len(s) /\ (i - 1) + 1 = i
    BY <1>1
  <2> QED BY <1>1, <2>1
<1> HIDE DEF u
<1>3. \A i \in 1..Len(s) : s[i] # c
  BY <1>1 DEF ToSet
<1>4. IsInjective(u)
  <2> SUFFICES ASSUME NEW i \in 1..(Len(s) + 1), NEW j \in 1..(Len(s) + 1), u[i] = u[j] PROVE i = j
    BY <1>1 DEF IsInjective
  <2>1. i = 1 \/ i \in 2..(Len(s) + 1)
    BY <1>1
  <2>2. j = 1 \/ j \in 2..(Len(s) + 1)
    BY <1>1
  <2>3. CASE i = 1 \/ j = 1
    BY <1>1, <1>2, <1>3, <2>1, <2>2, <2>3
  <2>4. CASE i \in 2..(Len(s) + 1) /\ j \in 2..(Len(s) + 1)
    <3>1. /\ i - 1 \in DOMAIN s /\ j - 1 \in DOMAIN s /\ s[i - 1] = s[j - 1]
      BY <1>1, <1>2, <2>4
    <3>2. i - 1 = j - 1
      BY <3>1 DEF IsInjective
    <3> QED BY <1>1, <3>2
  <2> QED BY <2>1, <2>2, <2>3, <2>4
<1>5. ToSet(u) \subseteq ToSet(s) \cup {c}
  BY <1>1, <1>2 DEF ToSet
<1>6. ToSet(s) \cup {c} \subseteq ToSet(u)
  <2>1. 1 \in DOMAIN u /\ \A i \in 1..Len(s) : i + 1 \in DOMAIN u
    BY <1>1
  <2> QED BY <1>1, <2>1 DEF ToSet
<1> QED BY <1>1, <1>4, <1>5, <1>6 DEF u

\* A new area is a list of its own chunks.
LEMMA AreaFacts ==
  ASSUME NEW a \in Nat
  PROVE  /\ AreaSet(a) \in ChunkSets /\ AreaSet(a).count = Len(AreaSet(a).list)
         /\ AreaSet(a).count = ChunksPerArea
         /\ IsInjective(AreaSet(a).list)
         /\ Chunks(AreaSet(a)) = {a} \X (1..ChunksPerArea)
<1> DEFINE l == [i \in 1..ChunksPerArea |-> <<a, i>>]
<1>1. ChunksPerArea \in Nat /\ AreaSet(a) = [list |-> l, count |-> ChunksPerArea]
  BY AllocatorAssumption DEF AreaSet
<1>2. l \in Seq(Nat \X Nat) /\ Len(l) = ChunksPerArea /\ DOMAIN l = 1..ChunksPerArea
  BY <1>1
<1>3. IsInjective(l)
  BY <1>2 DEF IsInjective
<1>4. ToSet(l) = {a} \X (1..ChunksPerArea)
  BY <1>1, <1>2 DEF ToSet
<1> QED BY <1>1, <1>2, <1>3, <1>4 DEF ChunkSets, Chunks

\* The empty set of chunks.
LEMMA NoChunksFacts ==
  /\ NoChunks \in ChunkSets /\ NoChunks.count = 0 /\ NoChunks.list = <<>>
  /\ Len(NoChunks.list) = 0 /\ IsInjective(NoChunks.list) /\ Chunks(NoChunks) = {}
BY DEF NoChunks, ChunkSets, IsInjective, Chunks, ToSet
-----------------------------------------------------------------------------
(* The partition of the mapped chunks, as sets. *)

Partition(own, gl, used, mapped) ==
  /\ \A t \in Threads :
       /\ own[t] \cap used = {}
       /\ \A u \in Threads \ {t} : own[t] \cap own[u] = {}
       /\ \A i \in DOMAIN gl : own[t] \cap gl[i] = {}
  /\ \A i \in DOMAIN gl :
       /\ gl[i] \cap used = {}
       /\ \A j \in DOMAIN gl \ {i} : gl[i] \cap gl[j] = {}
  /\ \A c : c \in mapped <=> \/ c \in used
                             \/ \E t \in Threads : c \in own[t]
                             \/ \E i \in DOMAIN gl : c \in gl[i]

OwnSets == [t \in Threads |-> Chunks(Own(t))]
GlobalSets == [i \in DOMAIN global |-> Chunks(global[i])]

NoDuplicates ==
  /\ \A t \in Threads : IsInjective(Own(t).list)
  /\ \A i \in DOMAIN global : IsInjective(global[i].list)

\* EachChunkOnce in terms of sets.
LEMMA OnceMeansPartition ==
  EachChunkOnce <=> NoDuplicates /\ Partition(OwnSets, GlobalSets, inUse, Mapped)
<1> DEFINE Caches == UNION {Chunks(Own(t)) : t \in Threads}
           Globals == UNION {Chunks(global[i]) : i \in DOMAIN global}
<1>1. /\ \A t \in Threads : OwnSets[t] = Chunks(Own(t))
      /\ DOMAIN GlobalSets = DOMAIN global
      /\ \A i \in DOMAIN global : GlobalSets[i] = Chunks(global[i])
  BY DEF OwnSets, GlobalSets
<1>2. \A c : c \in Caches <=> \E t \in Threads : c \in OwnSets[t]
  <2>1. \A c : c \in Caches <=> \E t \in Threads : c \in Chunks(Own(t))
    OBVIOUS
  <2> QED BY <1>1, <2>1
<1>3. \A c : c \in Globals <=> \E i \in DOMAIN GlobalSets : c \in GlobalSets[i]
  <2>1. \A c : c \in Globals <=> \E i \in DOMAIN global : c \in Chunks(global[i])
    OBVIOUS
  <2> QED BY <1>1, <2>1
<1>4. ASSUME EachChunkOnce PROVE NoDuplicates /\ Partition(OwnSets, GlobalSets, inUse, Mapped)
  <2>1. Caches \cup Globals \cup inUse = Mapped
    BY <1>4 DEF EachChunkOnce
  <2> HIDE DEF Caches, Globals
  <2> QED BY <1>1, <1>2, <1>3, <1>4, <2>1 DEF EachChunkOnce, NoDuplicates, Partition
<1>5. ASSUME NoDuplicates, Partition(OwnSets, GlobalSets, inUse, Mapped) PROVE EachChunkOnce
  <2>1. Caches \cup Globals \cup inUse = Mapped
    <3> HIDE DEF Caches, Globals
    <3> QED BY <1>2, <1>3, <1>5 DEF Partition
  <2> QED BY <1>1, <1>5, <2>1 DEF EachChunkOnce, NoDuplicates, Partition
<1> QED BY <1>4, <1>5

\* The same of the next state.
LEMMA OnceMeansPartitionNext ==
  EachChunkOnce' <=> NoDuplicates' /\ Partition(OwnSets', GlobalSets', inUse', Mapped')
<1>1. (EachChunkOnce <=> NoDuplicates /\ Partition(OwnSets, GlobalSets, inUse, Mapped))'
  BY OnceMeansPartition, PTL
<1> QED BY <1>1

\* A thread and the references in use exchange chunks, or get new ones.
LEMMA PartitionLocal ==
  ASSUME NEW own, NEW gl, NEW used, NEW mapped, Partition(own, gl, used, mapped),
         NEW t \in Threads, NEW A, NEW used2, NEW mapped2, mapped \subseteq mapped2,
         A \cap used2 = {}, A \cup used2 = own[t] \cup used \cup (mapped2 \ mapped),
         NEW own2, own2[t] = A, \A u \in Threads \ {t} : own2[u] = own[u]
  PROVE  Partition(own2, gl, used2, mapped2)
<1>1. \A u \in Threads \ {t} : own[u] \cap (A \cup used2) = {}
  BY DEF Partition
<1>2. \A i \in DOMAIN gl : gl[i] \cap (A \cup used2) = {}
  BY DEF Partition
<1>3. ASSUME NEW u \in Threads
      PROVE  /\ own2[u] \cap used2 = {}
             /\ \A v \in Threads \ {u} : own2[u] \cap own2[v] = {}
             /\ \A i \in DOMAIN gl : own2[u] \cap gl[i] = {}
  <2>1. CASE u = t
    BY <1>1, <1>2, <2>1
  <2>2. CASE u # t
    BY <1>1, <1>2, <2>2 DEF Partition
  <2> QED BY <2>1, <2>2
<1>4. \A c : c \in mapped2 <=> \/ c \in used2
                               \/ \E u \in Threads : c \in own2[u]
                               \/ \E i \in DOMAIN gl : c \in gl[i]
  <2> TAKE c
  <2>1. (\E u \in Threads : c \in own2[u]) <=> c \in A \/ \E u \in Threads \ {t} : c \in own[u]
    OBVIOUS
  <2>2. (\E u \in Threads : c \in own[u]) <=> c \in own[t] \/ \E u \in Threads \ {t} : c \in own[u]
    OBVIOUS
  <2>3. c \in mapped <=> \/ c \in used
                         \/ \E u \in Threads : c \in own[u]
                         \/ \E i \in DOMAIN gl : c \in gl[i]
    BY DEF Partition
  <2> QED BY <2>1, <2>2, <2>3
<1>5. \A i \in DOMAIN gl : gl[i] \cap used2 = {} /\ \A j \in DOMAIN gl \ {i} : gl[i] \cap gl[j] = {}
  BY <1>2 DEF Partition
<1> QED BY <1>3, <1>4, <1>5 DEF Partition

\* A thread with an empty cache takes the last global set.
LEMMA PartitionTake ==
  ASSUME NEW own, NEW gl, NEW used, NEW mapped, Partition(own, gl, used, mapped),
         NEW t \in Threads, own[t] = {}, NEW n \in Nat, n > 0, DOMAIN gl = 1..n,
         NEW own2, NEW used2, own2[t] \cap used2 = {}, own2[t] \cup used2 = gl[n] \cup used,
         \A u \in Threads \ {t} : own2[u] = own[u],
         NEW gl2, DOMAIN gl2 = 1..(n - 1), \A i \in 1..(n - 1) : gl2[i] = gl[i]
  PROVE  Partition(own2, gl2, used2, mapped)
<1>1. n \in 1..n /\ \A i \in 1..n : i = n \/ (i \in 1..(n - 1) /\ i # n)
  OBVIOUS
<1>2. \A i \in 1..(n - 1) : i \in 1..n /\ i # n
  OBVIOUS
<1>3. \A u \in Threads \ {t} : own[u] \cap (own2[t] \cup used2) = {}
  BY <1>1 DEF Partition
<1>4. \A i \in 1..(n - 1) : gl[i] \cap (own2[t] \cup used2) = {}
  BY <1>1, <1>2 DEF Partition
<1>5. ASSUME NEW u \in Threads
      PROVE  /\ own2[u] \cap used2 = {}
             /\ \A v \in Threads \ {u} : own2[u] \cap own2[v] = {}
             /\ \A i \in DOMAIN gl2 : own2[u] \cap gl2[i] = {}
  <2>1. CASE u = t
    BY <1>3, <1>4, <2>1
  <2>2. CASE u # t
    BY <1>2, <1>3, <1>4, <2>2 DEF Partition
  <2> QED BY <2>1, <2>2
<1>6. \A c : c \in mapped <=> \/ c \in used2
                              \/ \E u \in Threads : c \in own2[u]
                              \/ \E i \in DOMAIN gl2 : c \in gl2[i]
  <2> TAKE c
  <2>1. (\E u \in Threads : c \in own2[u]) <=> c \in own2[t] \/ \E u \in Threads : c \in own[u]
    OBVIOUS
  <2>2. (\E i \in DOMAIN gl : c \in gl[i]) <=> c \in gl[n] \/ \E i \in DOMAIN gl2 : c \in gl2[i]
    BY <1>1, <1>2
  <2>3. c \in mapped <=> \/ c \in used
                         \/ \E u \in Threads : c \in own[u]
                         \/ \E i \in DOMAIN gl : c \in gl[i]
    BY DEF Partition
  <2> QED BY <2>1, <2>2, <2>3
<1>7. \A i \in DOMAIN gl2 :
        gl2[i] \cap used2 = {} /\ \A j \in DOMAIN gl2 \ {i} : gl2[i] \cap gl2[j] = {}
  BY <1>2, <1>4 DEF Partition
<1> QED BY <1>5, <1>6, <1>7 DEF Partition

\* A thread gives its cache to the global list.
LEMMA PartitionGive ==
  ASSUME NEW own, NEW gl, NEW used, NEW mapped, Partition(own, gl, used, mapped),
         NEW t \in Threads, NEW n \in Nat, DOMAIN gl = 1..n,
         NEW own2, own2[t] = {}, \A u \in Threads \ {t} : own2[u] = own[u],
         NEW gl2, DOMAIN gl2 = 1..(n + 1), \A i \in 1..n : gl2[i] = gl[i], gl2[n + 1] = own[t]
  PROVE  Partition(own2, gl2, used, mapped)
<1>1. n + 1 \in 1..(n + 1) /\ \A i \in 1..(n + 1) : i = n + 1 \/ i \in 1..n
  OBVIOUS
<1>2. \A i \in 1..n : i \in 1..(n + 1) /\ i # n + 1
  OBVIOUS
<1>3. ASSUME NEW u \in Threads
      PROVE  /\ own2[u] \cap used = {}
             /\ \A v \in Threads \ {u} : own2[u] \cap own2[v] = {}
             /\ \A i \in DOMAIN gl2 : own2[u] \cap gl2[i] = {}
  <2>1. CASE u = t
    BY <2>1
  <2>2. CASE u # t
    <3>1. \A i \in DOMAIN gl2 : own2[u] \cap gl2[i] = {}
      BY <1>1, <2>2 DEF Partition
    <3> QED BY <2>2, <3>1 DEF Partition
  <2> QED BY <2>1, <2>2
<1>4. \A c : c \in mapped <=> \/ c \in used
                              \/ \E u \in Threads : c \in own2[u]
                              \/ \E i \in DOMAIN gl2 : c \in gl2[i]
  <2> TAKE c
  <2>1. (\E u \in Threads : c \in own[u]) <=> c \in own[t] \/ \E u \in Threads : c \in own2[u]
    OBVIOUS
  <2>2. (\E i \in DOMAIN gl2 : c \in gl2[i]) <=> c \in own[t] \/ \E i \in DOMAIN gl : c \in gl[i]
    BY <1>1, <1>2
  <2>3. c \in mapped <=> \/ c \in used
                         \/ \E u \in Threads : c \in own[u]
                         \/ \E i \in DOMAIN gl : c \in gl[i]
    BY DEF Partition
  <2> QED BY <2>1, <2>2, <2>3
<1>5. ASSUME NEW i \in DOMAIN gl2
      PROVE  gl2[i] \cap used = {} /\ \A j \in DOMAIN gl2 \ {i} : gl2[i] \cap gl2[j] = {}
  <2>1. CASE i = n + 1
    BY <1>1, <2>1 DEF Partition
  <2>2. CASE i \in 1..n
    <3> SUFFICES ASSUME NEW j \in DOMAIN gl2, j # i PROVE gl2[i] \cap used = {} /\ gl2[i] \cap gl2[j] = {}
      BY <2>2 DEF Partition
    <3>1. CASE j = n + 1
      BY <2>2, <3>1 DEF Partition
    <3>2. CASE j \in 1..n
      BY <2>2, <3>2 DEF Partition
    <3> QED BY <1>1, <3>1, <3>2
  <2> QED BY <1>1, <2>1, <2>2
<1> QED BY <1>3, <1>4, <1>5 DEF Partition
-----------------------------------------------------------------------------
(* The steps. *)

\* The variables stay within their types.
LEMMA TypeStep == ChunksInv /\ [ChunksNext]_chunkVars => ChunksTypeOK'
<1> SUFFICES ASSUME ChunksInv, [ChunksNext]_chunkVars PROVE ChunksTypeOK'
  OBVIOUS
<1>1. /\ cache \in [Threads -> ChunkSets] /\ global \in Seq(ChunkSets)
      /\ areas \in Nat /\ inUse \subseteq Nat \X Nat
      /\ pc \in [Threads -> {"idle", "map", "flush", "reset"}]
  BY DEF ChunksInv, ChunksTypeOK
<1>2. CountsExact
  BY DEF ChunksInv, ChunksSound
<1>3. ASSUME NEW t \in Threads, NEW s \in ChunkSets, s.count = Len(s.list), s.count > 0, Take(t, s)
      PROVE  cache' \in [Threads -> ChunkSets] /\ inUse' \subseteq Nat \X Nat
  <2>1. s.list \in Seq(Nat \X Nat) /\ s.count \in Nat /\ Len(s.list) > 0
    BY <1>3 DEF ChunkSets
  <2>2. Tail(s.list) \in Seq(Nat \X Nat) /\ Head(s.list) \in Nat \X Nat
    BY <2>1
  <2>3. [list |-> Tail(s.list), count |-> s.count - 1] \in ChunkSets
    BY <1>3, <2>1, <2>2 DEF ChunkSets
  <2> QED BY <1>1, <1>3, <2>2, <2>3 DEF Take
<1>4. ASSUME NEW t \in Threads, ThreadStep(t) PROVE ChunksTypeOK'
  <2>1. CASE AllocCached(t)
    <3>1. /\ cache[t] \in ChunkSets /\ cache[t].count = Len(cache[t].list) /\ cache[t].count > 0
          /\ Take(t, cache[t])
      BY <1>1, <1>2, <2>1 DEF AllocCached, CountsExact, ChunkSets
    <3> QED BY <1>1, <1>3, <2>1, <3>1 DEF AllocCached, ChunksTypeOK
  <2>2. CASE AllocGlobal(t)
    <3>1. Len(global) \in DOMAIN global /\ Last(global) = global[Len(global)]
          /\ Front(global) \in Seq(ChunkSets)
      BY <1>1, <2>2 DEF AllocGlobal, Last, Front
    <3>2. /\ Last(global) \in ChunkSets /\ Last(global).count = Len(Last(global).list)
          /\ Last(global).count > 0
      BY <1>1, <1>2, <3>1, AllocatorAssumption DEF CountsExact
    <3> QED BY <1>1, <1>3, <2>2, <3>1, <3>2 DEF AllocGlobal, ChunksTypeOK
  <2>3. CASE AllocMap(t)
    <3>1. areas + 1 \in Nat /\ ChunksPerArea > 0
      BY <1>1, AllocatorAssumption
    <3>2. AreaSet(areas + 1) \in ChunkSets /\ AreaSet(areas + 1).count > 0
          /\ AreaSet(areas + 1).count = Len(AreaSet(areas + 1).list)
      BY <3>1, AreaFacts
    <3>3. cache' \in [Threads -> ChunkSets] /\ inUse' \subseteq Nat \X Nat
      BY <1>3, <2>3, <3>2 DEF AllocMap
    <3> QED BY <1>1, <2>3, <3>1, <3>3 DEF AllocMap, ChunksTypeOK, Goto
  <2>4. CASE AllocMiss(t) \/ AllocFails(t) \/ Reset(t)
    BY <1>1, <2>4, NoChunksFacts DEF AllocMiss, AllocFails, Reset, ChunksTypeOK, Goto
  <2>5. ASSUME NEW c \in inUse, FreeChunk(t, c) PROVE ChunksTypeOK'
    <3>1. cache[t].list \in Seq(Nat \X Nat) /\ cache[t].count \in Nat /\ c \in Nat \X Nat
      BY <1>1 DEF ChunkSets
    <3>2. [list |-> <<c>> \o cache[t].list, count |-> cache[t].count + 1] \in ChunkSets
      BY <3>1 DEF ChunkSets
    <3> QED BY <1>1, <2>5, <3>2 DEF FreeChunk, ChunksTypeOK, Goto
  <2>6. CASE Flush(t) \/ ThreadEnd(t)
    <3>1. Append(global, cache[t]) \in Seq(ChunkSets)
      BY <1>1
    <3> QED BY <1>1, <2>6, <3>1, NoChunksFacts DEF Flush, ThreadEnd, ChunksTypeOK, Goto
  <2> QED BY <1>4, <2>1, <2>2, <2>3, <2>4, <2>5, <2>6 DEF ThreadStep
<1>5. CASE UNCHANGED chunkVars
  BY <1>1, <1>5 DEF chunkVars, ChunksTypeOK
<1> QED BY <1>4, <1>5 DEF ChunksNext

\* Counts and sizes stay exact, so the asserts on sets of chunks hold.
LEMMA CountStep == ChunksInv /\ [ChunksNext]_chunkVars => CountsExact' /\ CacheSizes'
<1> SUFFICES ASSUME ChunksInv, [ChunksNext]_chunkVars PROVE CountsExact' /\ CacheSizes'
  OBVIOUS
<1>1. /\ cache \in [Threads -> ChunkSets] /\ global \in Seq(ChunkSets)
      /\ areas \in Nat /\ inUse \subseteq Nat \X Nat
      /\ pc \in [Threads -> {"idle", "map", "flush", "reset"}]
      /\ ChunksPerArea \in Nat \ {0}
  BY AllocatorAssumption DEF ChunksInv, ChunksTypeOK
<1>2. CountsExact /\ CacheSizes
  BY DEF ChunksInv, ChunksSound
<1> DEFINE Exact(s) == s.count = Len(s.list)
           Sized(t) == /\ cache'[t].count = Len(cache'[t].list)
                       /\ pc'[t] = "idle" => cache'[t].count <= ChunksPerArea
                       /\ pc'[t] = "map" => cache'[t].count = 0
                       /\ pc'[t] = "flush" => cache'[t].count \in 1..ChunksPerArea + 1
           Global == \A i \in DOMAIN global' :
                       /\ global'[i].count = Len(global'[i].list)
                       /\ global'[i].count \in 1..ChunksPerArea + 1
<1>3. ASSUME NEW t \in Threads, Sized(t), Global, \A u \in Threads \ {t} : cache'[u] = cache[u] /\ pc'[u] = pc[u]
      PROVE  CountsExact' /\ CacheSizes'
  <2>1. \A u \in Threads : Sized(u)
    BY <1>2, <1>3 DEF CountsExact, CacheSizes
  <2> QED BY <1>3, <2>1 DEF CountsExact, CacheSizes
<1>4. ASSUME global' = global PROVE Global
  BY <1>2, <1>4 DEF CountsExact
<1>5. ASSUME NEW t \in Threads, NEW s \in ChunkSets, Exact(s), s.count \in 1..ChunksPerArea + 1,
             Take(t, s), pc'[t] = "idle"
      PROVE  Sized(t)
  <2>1. s.list \in Seq(Nat \X Nat) /\ s.count \in Nat /\ Len(s.list) > 0
    BY <1>1, <1>5 DEF ChunkSets
  <2>2. Len(Tail(s.list)) = Len(s.list) - 1
    BY <2>1
  <2>3. cache'[t].list = Tail(s.list) /\ cache'[t].count = s.count - 1
    BY <1>1, <1>5 DEF Take
  <2> QED BY <1>1, <1>5, <2>1, <2>2, <2>3
<1>6. ASSUME NEW t \in Threads, ThreadStep(t) PROVE CountsExact' /\ CacheSizes'
  <2>1. CASE AllocCached(t)
    <3>1. cache[t] \in ChunkSets /\ Exact(cache[t]) /\ cache[t].count \in 1..ChunksPerArea + 1
      BY <1>1, <1>2, <2>1 DEF AllocCached, CountsExact, CacheSizes, ChunkSets
    <3>2. Sized(t)
      BY <1>5, <2>1, <3>1 DEF AllocCached
    <3>3. \A u \in Threads \ {t} : cache'[u] = cache[u] /\ pc'[u] = pc[u]
      BY <1>1, <2>1 DEF AllocCached, Take
    <3>4. Global
      BY <1>4, <2>1 DEF AllocCached
    <3> HIDE DEF Sized, Global
    <3> QED BY <1>3, <3>2, <3>3, <3>4
  <2>2. CASE AllocGlobal(t)
    <3>1. /\ Len(global) \in DOMAIN global /\ Last(global) = global[Len(global)]
          /\ DOMAIN Front(global) \subseteq DOMAIN global
          /\ \A i \in DOMAIN Front(global) : Front(global)[i] = global[i]
      BY <1>1, <2>2 DEF AllocGlobal, Last, Front
    <3>2. Last(global) \in ChunkSets /\ Exact(Last(global)) /\ Last(global).count \in 1..ChunksPerArea + 1
      BY <1>1, <1>2, <3>1 DEF CountsExact
    <3>3. Sized(t)
      BY <1>5, <2>2, <3>2 DEF AllocGlobal
    <3>4. \A u \in Threads \ {t} : cache'[u] = cache[u] /\ pc'[u] = pc[u]
      BY <1>1, <2>2 DEF AllocGlobal, Take
    <3>5. Global
      BY <1>2, <2>2, <3>1 DEF AllocGlobal, CountsExact
    <3> HIDE DEF Sized, Global
    <3> QED BY <1>3, <3>3, <3>4, <3>5
  <2>3. CASE AllocMap(t)
    <3>1. /\ AreaSet(areas + 1) \in ChunkSets /\ Exact(AreaSet(areas + 1))
          /\ AreaSet(areas + 1).count \in 1..ChunksPerArea + 1
      BY <1>1, AreaFacts
    <3>2. pc'[t] = "idle" /\ Take(t, AreaSet(areas + 1))
      BY <1>1, <2>3 DEF AllocMap, Goto
    <3>3. Sized(t)
      BY <1>5, <3>1, <3>2
    <3>4. \A u \in Threads \ {t} : cache'[u] = cache[u] /\ pc'[u] = pc[u]
      BY <1>1, <2>3 DEF AllocMap, Take, Goto
    <3>5. Global
      BY <1>4, <2>3 DEF AllocMap
    <3> HIDE DEF Sized, Global
    <3> QED BY <1>3, <3>3, <3>4, <3>5
  <2>4. CASE AllocMiss(t) \/ AllocFails(t) \/ Reset(t)
    <3>1. Sized(t)
      BY <1>1, <1>2, <2>4, NoChunksFacts DEF AllocMiss, AllocFails, Reset, Goto, CountsExact
    <3>2. \A u \in Threads \ {t} : cache'[u] = cache[u] /\ pc'[u] = pc[u]
      BY <1>1, <2>4 DEF AllocMiss, AllocFails, Reset, Goto
    <3>3. Global
      BY <1>4, <2>4 DEF AllocMiss, AllocFails, Reset
    <3> HIDE DEF Sized, Global
    <3> QED BY <1>3, <3>1, <3>2, <3>3
  <2>5. ASSUME NEW c \in inUse, FreeChunk(t, c) PROVE CountsExact' /\ CacheSizes'
    <3>1. /\ cache[t].list \in Seq(Nat \X Nat) /\ c \in Nat \X Nat /\ cache[t].count \in Nat
          /\ Exact(cache[t]) /\ cache[t].count <= ChunksPerArea
      BY <1>1, <1>2, <2>5 DEF ChunkSets, CountsExact, CacheSizes, FreeChunk
    <3>2. Len(<<c>> \o cache[t].list) = Len(cache[t].list) + 1
      BY <3>1
    <3>3. /\ cache'[t].list = <<c>> \o cache[t].list /\ cache'[t].count = cache[t].count + 1
          /\ pc'[t] = IF cache[t].count + 1 > ChunksPerArea THEN "flush" ELSE "idle"
      BY <1>1, <2>5 DEF FreeChunk, Goto
    <3>4. Sized(t)
      BY <1>1, <3>1, <3>2, <3>3
    <3>5. \A u \in Threads \ {t} : cache'[u] = cache[u] /\ pc'[u] = pc[u]
      BY <1>1, <2>5 DEF FreeChunk, Goto
    <3>6. Global
      BY <1>4, <2>5 DEF FreeChunk
    <3> HIDE DEF Sized, Global
    <3> QED BY <1>3, <3>4, <3>5, <3>6
  <2>6. CASE Flush(t) \/ ThreadEnd(t)
    <3>1. cache[t] \in ChunkSets /\ Exact(cache[t]) /\ cache[t].count \in 1..ChunksPerArea + 1
      BY <1>1, <1>2, <2>6 DEF Flush, ThreadEnd, CountsExact, CacheSizes, ChunkSets
    <3>2. /\ DOMAIN global' = 1..Len(global) + 1 /\ global'[Len(global) + 1] = cache[t]
          /\ \A i \in 1..Len(global) : i \in DOMAIN global /\ global'[i] = global[i]
      BY <1>1, <2>6 DEF Flush, ThreadEnd
    <3>3. Global
      <4>1. \A i \in DOMAIN global' : i = Len(global) + 1 \/ i \in 1..Len(global)
        BY <1>1, <3>2
      <4> QED BY <1>2, <3>1, <3>2, <4>1 DEF CountsExact
    <3>4. Sized(t)
      BY <1>1, <1>2, <2>6, NoChunksFacts DEF Flush, ThreadEnd, Goto, CountsExact
    <3>5. \A u \in Threads \ {t} : cache'[u] = cache[u] /\ pc'[u] = pc[u]
      BY <1>1, <2>6 DEF Flush, ThreadEnd, Goto
    <3> HIDE DEF Sized, Global
    <3> QED BY <1>3, <3>3, <3>4, <3>5
  <2> QED BY <1>6, <2>1, <2>2, <2>3, <2>4, <2>5, <2>6 DEF ThreadStep
<1>7. CASE UNCHANGED chunkVars
  BY <1>2, <1>7 DEF chunkVars, CountsExact, CacheSizes
<1> QED BY <1>6, <1>7 DEF ChunksNext

\* No step duplicates or loses a chunk.
LEMMA OnceStep == ChunksInv /\ [ChunksNext]_chunkVars => EachChunkOnce'
<1> SUFFICES ASSUME ChunksInv, [ChunksNext]_chunkVars PROVE EachChunkOnce'
  OBVIOUS
<1>1. /\ cache \in [Threads -> ChunkSets] /\ global \in Seq(ChunkSets)
      /\ areas \in Nat /\ inUse \subseteq Nat \X Nat
      /\ pc \in [Threads -> {"idle", "map", "flush", "reset"}]
      /\ ChunksPerArea \in Nat \ {0}
  BY AllocatorAssumption DEF ChunksInv, ChunksTypeOK
<1>2. CountsExact /\ CacheSizes
  BY DEF ChunksInv, ChunksSound
<1>3. NoDuplicates /\ Partition(OwnSets, GlobalSets, inUse, Mapped)
  BY OnceMeansPartition DEF ChunksInv, ChunksSound
<1>4. /\ \A u \in Threads : OwnSets[u] = Chunks(Own(u))
      /\ \A u \in Threads : OwnSets'[u] = Chunks(Own(u)')
  BY DEF OwnSets, Chunks
<1>5. /\ DOMAIN GlobalSets = 1..Len(global) /\ Len(global) \in Nat
      /\ \A i \in 1..Len(global) : GlobalSets[i] = Chunks(global[i])
      /\ DOMAIN GlobalSets' = DOMAIN global'
      /\ \A i \in DOMAIN global' : GlobalSets'[i] = Chunks(global'[i])
  BY <1>1 DEF GlobalSets, Chunks
<1> DEFINE Same(t) == \A u \in Threads \ {t} : cache'[u] = cache[u] /\ pc'[u] = pc[u]
<1>6. ASSUME NEW t \in Threads, Same(t) PROVE \A u \in Threads \ {t} : OwnSets'[u] = OwnSets[u] /\ Own(u)' = Own(u)
  BY <1>4, <1>6 DEF Own
<1>7. ASSUME global' = global PROVE GlobalSets' = GlobalSets
  BY <1>7 DEF GlobalSets, Chunks
<1>8. ASSUME areas' = areas PROVE Mapped' = Mapped
  BY <1>8 DEF Mapped
\* Its duties, for a step of one thread.
<1>9. ASSUME NEW t \in Threads, Same(t), IsInjective(Own(t)'.list),
             \A i \in DOMAIN global' : IsInjective(global'[i].list),
             Partition(OwnSets', GlobalSets', inUse', Mapped')
      PROVE  EachChunkOnce'
  <2>1. \A u \in Threads : IsInjective(Own(u)'.list)
    BY <1>3, <1>6, <1>9 DEF NoDuplicates
  <2>2. NoDuplicates'
    BY <1>9, <2>1 DEF NoDuplicates
  <2> QED BY <1>9, <2>2, OnceMeansPartitionNext
\* What a thread has after it took the first of a set.
<1>10. ASSUME NEW t \in Threads, NEW s \in ChunkSets, s.count = Len(s.list), s.count > 0,
              IsInjective(s.list), Chunks(s) \cap inUse = {}, Take(t, s), pc'[t] = "idle"
       PROVE  /\ IsInjective(Own(t)'.list)
              /\ OwnSets'[t] \cap inUse' = {}
              /\ OwnSets'[t] \cup inUse' = Chunks(s) \cup inUse
              /\ \A u \in Threads \ {t} : cache'[u] = cache[u]
  <2>1. s.list \in Seq(Nat \X Nat) /\ Len(s.list) > 0
    BY <1>10 DEF ChunkSets
  <2>2. /\ IsInjective(Tail(s.list)) /\ Head(s.list) \in ToSet(s.list)
        /\ ToSet(Tail(s.list)) = ToSet(s.list) \ {Head(s.list)}
    BY <1>10, <2>1, ListTail
  <2>3. Own(t)'.list = Tail(s.list) /\ inUse' = inUse \cup {Head(s.list)}
    BY <1>1, <1>10 DEF Take, Own
  <2>4. OwnSets'[t] = ToSet(s.list) \ {Head(s.list)}
    BY <1>4, <2>2, <2>3 DEF Chunks
  <2> QED BY <1>1, <1>10, <2>2, <2>3, <2>4 DEF Chunks, Take
<1>11. ASSUME NEW t \in Threads, ThreadStep(t) PROVE EachChunkOnce'
  <2>1. CASE AllocCached(t)
    <3>1. /\ Own(t) = cache[t] /\ cache[t] \in ChunkSets /\ Take(t, cache[t]) /\ pc'[t] = "idle"
          /\ cache[t].count = Len(cache[t].list) /\ cache[t].count > 0
          /\ global' = global /\ areas' = areas /\ pc' = pc
      BY <1>1, <1>2, <2>1 DEF AllocCached, Own, ChunkSets, CountsExact
    <3>2. IsInjective(cache[t].list) /\ Chunks(cache[t]) = OwnSets[t] /\ OwnSets[t] \cap inUse = {}
      BY <1>3, <1>4, <3>1 DEF NoDuplicates, Partition
    <3>3. /\ IsInjective(Own(t)'.list)
          /\ OwnSets'[t] \cap inUse' = {}
          /\ OwnSets'[t] \cup inUse' = OwnSets[t] \cup inUse
          /\ Same(t)
      BY <1>10, <3>1, <3>2
    <3>4. Partition(OwnSets', GlobalSets, inUse', Mapped)
      <4>1. OwnSets'[t] \cup inUse' = OwnSets[t] \cup inUse \cup (Mapped \ Mapped) /\ Mapped \subseteq Mapped
        BY <3>3
      <4>2. \A u \in Threads \ {t} : OwnSets'[u] = OwnSets[u]
        BY <1>6, <3>3
      <4> QED BY <1>3, <3>3, <4>1, <4>2, PartitionLocal
    <3>5. \A i \in DOMAIN global' : IsInjective(global'[i].list)
      BY <1>3, <3>1 DEF NoDuplicates
    <3>6. Partition(OwnSets', GlobalSets', inUse', Mapped')
      BY <1>7, <1>8, <3>1, <3>4
    <3> QED BY <1>9, <3>3, <3>5, <3>6
  <2>2. CASE AllocGlobal(t)
    <3> DEFINE n == Len(global)
               s == Last(global)
    <3>1. /\ n > 0 /\ n \in Nat /\ n \in DOMAIN global /\ s = global[n] /\ s \in ChunkSets
          /\ DOMAIN Front(global) = 1..(n - 1) /\ \A i \in 1..(n - 1) : Front(global)[i] = global[i]
      BY <1>1, <2>2 DEF AllocGlobal, Last, Front
    <3>2. /\ Take(t, s) /\ pc' = pc /\ pc'[t] = "idle" /\ areas' = areas /\ global' = Front(global)
          /\ s.count = Len(s.list) /\ s.count > 0
      BY <1>1, <1>2, <2>2, <3>1 DEF AllocGlobal, CountsExact
    <3>3. IsInjective(s.list) /\ Chunks(s) = GlobalSets[n] /\ GlobalSets[n] \cap inUse = {}
      BY <1>3, <1>5, <3>1 DEF NoDuplicates, Partition
    <3>4. OwnSets[t] = {}
      <4>1. Own(t) = cache[t] /\ Len(cache[t].list) = 0 /\ cache[t].list \in Seq(Nat \X Nat)
        BY <1>1, <1>2, <2>2 DEF AllocGlobal, Own, CountsExact, ChunkSets
      <4>2. DOMAIN cache[t].list = {}
        BY <4>1
      <4> QED BY <1>4, <4>1, <4>2 DEF Chunks, ToSet
    <3>5. /\ IsInjective(Own(t)'.list)
          /\ OwnSets'[t] \cap inUse' = {}
          /\ OwnSets'[t] \cup inUse' = GlobalSets[n] \cup inUse
          /\ Same(t)
      BY <1>10, <3>1, <3>2, <3>3
    <3>6. DOMAIN GlobalSets' = 1..(n - 1) /\ \A i \in 1..(n - 1) : i \in 1..n /\ GlobalSets'[i] = GlobalSets[i]
      BY <1>5, <3>1, <3>2
    <3>7. Partition(OwnSets', GlobalSets', inUse', Mapped)
      <4>1. \A u \in Threads \ {t} : OwnSets'[u] = OwnSets[u]
        BY <1>6, <3>5
      <4>2. DOMAIN GlobalSets = 1..n /\ n \in Nat /\ n > 0
        BY <1>5, <3>1
      <4>3. Partition(OwnSets, GlobalSets, inUse, Mapped)
        BY <1>3
      <4>4. \A i \in 1..(n - 1) : GlobalSets'[i] = GlobalSets[i]
        BY <3>6
      <4> HIDE DEF n, s
      <4> QED BY <3>4, <3>5, <3>6, <4>1, <4>2, <4>3, <4>4, PartitionTake
    <3>8. \A i \in DOMAIN global' : IsInjective(global'[i].list)
      <4>1. \A i \in 1..(n - 1) : i \in DOMAIN global /\ global'[i] = global[i]
        BY <1>1, <3>1, <3>2
      <4>2. DOMAIN global' = 1..(n - 1)
        BY <3>1, <3>2
      <4> HIDE DEF n, s
      <4> QED BY <1>3, <4>1, <4>2 DEF NoDuplicates
    <3>9. Partition(OwnSets', GlobalSets', inUse', Mapped')
      BY <1>8, <3>2, <3>7
    <3> QED BY <1>9, <3>5, <3>8, <3>9
  <2>3. CASE AllocMap(t)
    <3> DEFINE s == AreaSet(areas + 1)
    <3>1. /\ s \in ChunkSets /\ s.count = Len(s.list) /\ s.count > 0 /\ IsInjective(s.list)
          /\ Chunks(s) = {areas + 1} \X (1..ChunksPerArea)
      BY <1>1, AreaFacts
    <3>2. /\ Take(t, s) /\ pc'[t] = "idle" /\ \A u \in Threads \ {t} : pc'[u] = pc[u]
          /\ areas' = areas + 1 /\ global' = global
      BY <1>1, <2>3 DEF AllocMap, Goto
    <3>3. Mapped \subseteq Mapped' /\ Mapped' \ Mapped = Chunks(s)
      <4>1. /\ \A a \in 1..areas : a \in 1..(areas + 1) /\ a # areas + 1
            /\ areas + 1 \in 1..(areas + 1)
            /\ \A a \in 1..(areas + 1) : a = areas + 1 \/ a \in 1..areas
        BY <1>1
      <4>2. Mapped = (1..areas) \X (1..ChunksPerArea) /\ Mapped' = (1..(areas + 1)) \X (1..ChunksPerArea)
        BY <3>2 DEF Mapped
      <4> QED BY <3>1, <4>1, <4>2
    <3>4. inUse \subseteq Mapped
      BY <1>3 DEF Partition
    <3>5. OwnSets[t] = {}
      <4>1. Own(t) = cache[t] /\ Len(cache[t].list) = 0 /\ cache[t].list \in Seq(Nat \X Nat)
        BY <1>1, <1>2, <2>3 DEF AllocMap, Own, CountsExact, CacheSizes, ChunkSets
      <4>2. DOMAIN cache[t].list = {}
        BY <4>1
      <4> QED BY <1>4, <4>1, <4>2 DEF Chunks, ToSet
    <3>6. Chunks(s) \cap inUse = {}
      BY <3>3, <3>4
    <3>7. /\ IsInjective(Own(t)'.list)
          /\ OwnSets'[t] \cap inUse' = {}
          /\ OwnSets'[t] \cup inUse' = Chunks(s) \cup inUse
          /\ Same(t)
      BY <1>10, <3>1, <3>2, <3>6
    <3>8. Partition(OwnSets', GlobalSets, inUse', Mapped')
      <4>1. OwnSets'[t] \cup inUse' = OwnSets[t] \cup inUse \cup (Mapped' \ Mapped)
        BY <3>3, <3>5, <3>7
      <4>2. \A u \in Threads \ {t} : OwnSets'[u] = OwnSets[u]
        BY <1>6, <3>7
      <4>3. Partition(OwnSets, GlobalSets, inUse, Mapped) /\ Mapped \subseteq Mapped' /\ OwnSets'[t] \cap inUse' = {}
        BY <1>3, <3>3, <3>7
      <4> HIDE DEF s
      <4> QED BY <4>1, <4>2, <4>3, PartitionLocal
    <3>9. \A i \in DOMAIN global' : IsInjective(global'[i].list)
      BY <1>3, <3>2 DEF NoDuplicates
    <3>10. Partition(OwnSets', GlobalSets', inUse', Mapped')
      BY <1>7, <3>2, <3>8
    <3> QED BY <1>9, <3>7, <3>9, <3>10
  <2>4. CASE AllocMiss(t) \/ AllocFails(t) \/ Reset(t)
    <3>1. /\ global' = global /\ areas' = areas /\ inUse' = inUse /\ Same(t)
      BY <1>1, <2>4 DEF AllocMiss, AllocFails, Reset, Goto
    <3>2. Own(t).list = <<>> /\ Own(t)'.list = <<>>
      <4>1. \A l \in Seq(Nat \X Nat) : Len(l) = 0 => l = <<>>
        OBVIOUS
      <4>2. /\ pc[t] # "reset" => Own(t) = cache[t] /\ cache[t].list \in Seq(Nat \X Nat) /\ Len(cache[t].list) = 0
            /\ pc[t] = "reset" => Own(t) = NoChunks
        BY <1>1, <1>2, <2>4 DEF AllocMiss, AllocFails, Reset, Own, CountsExact, CacheSizes, ChunkSets
      <4>3. Own(t)' = Own(t) \/ Own(t)' = NoChunks
        BY <1>1, <2>4 DEF AllocMiss, AllocFails, Reset, Own, Goto
      <4> QED BY <4>1, <4>2, <4>3, NoChunksFacts
    <3>3. \A u \in Threads : OwnSets'[u] = OwnSets[u]
      BY <1>4, <1>6, <3>1, <3>2 DEF Chunks
    <3>4. Partition(OwnSets', GlobalSets', inUse', Mapped')
      BY <1>3, <1>7, <1>8, <3>1, <3>3 DEF Partition
    <3>5. IsInjective(Own(t)'.list) /\ \A i \in DOMAIN global' : IsInjective(global'[i].list)
      BY <1>3, <3>1, <3>2, NoChunksFacts DEF NoDuplicates
    <3> QED BY <1>9, <3>1, <3>4, <3>5
  <2>5. ASSUME NEW c \in inUse, FreeChunk(t, c) PROVE EachChunkOnce'
    <3>1. /\ Own(t) = cache[t] /\ cache[t].list \in Seq(Nat \X Nat) /\ c \in Nat \X Nat
          /\ global' = global /\ areas' = areas /\ inUse' = inUse \ {c} /\ Same(t)
          /\ Own(t)'.list = <<c>> \o cache[t].list
      BY <1>1, <2>5 DEF FreeChunk, Own, ChunkSets, Goto
    <3>2. IsInjective(cache[t].list) /\ OwnSets[t] = ToSet(cache[t].list) /\ c \notin ToSet(cache[t].list)
          /\ OwnSets[t] \cap inUse = {}
      BY <1>3, <1>4, <3>1 DEF NoDuplicates, Partition, Chunks
    <3>3. IsInjective(Own(t)'.list) /\ ToSet(Own(t)'.list) = ToSet(cache[t].list) \cup {c}
      BY <3>1, <3>2, ListCons
    <3>4. OwnSets'[t] = OwnSets[t] \cup {c}
      BY <1>4, <3>2, <3>3 DEF Chunks
    <3>5. Partition(OwnSets', GlobalSets, inUse', Mapped)
      <4>1. /\ OwnSets'[t] \cup inUse' = OwnSets[t] \cup inUse \cup (Mapped \ Mapped)
            /\ OwnSets'[t] \cap inUse' = {} /\ Mapped \subseteq Mapped
        BY <2>5, <3>1, <3>2, <3>4
      <4>2. \A u \in Threads \ {t} : OwnSets'[u] = OwnSets[u]
        BY <1>6, <3>1
      <4> QED BY <1>3, <4>1, <4>2, PartitionLocal
    <3>6. \A i \in DOMAIN global' : IsInjective(global'[i].list)
      BY <1>3, <3>1 DEF NoDuplicates
    <3>7. Partition(OwnSets', GlobalSets', inUse', Mapped')
      BY <1>7, <1>8, <3>1, <3>5
    <3> QED BY <1>9, <3>1, <3>3, <3>6, <3>7
  <2>6. CASE Flush(t) \/ ThreadEnd(t)
    <3> DEFINE n == Len(global)
    <3>1. /\ Own(t) = cache[t] /\ areas' = areas /\ inUse' = inUse /\ Same(t)
          /\ global' = Append(global, cache[t]) /\ Own(t)' = NoChunks
      BY <1>1, <2>6 DEF Flush, ThreadEnd, Own, Goto
    <3>2. /\ DOMAIN global' = 1..(n + 1) /\ global'[n + 1] = cache[t] /\ n \in Nat /\ n + 1 \in 1..(n + 1)
          /\ \A i \in 1..n : i \in DOMAIN global /\ i \in 1..(n + 1) /\ global'[i] = global[i]
          /\ \A i \in 1..(n + 1) : i = n + 1 \/ i \in 1..n
      BY <1>1, <3>1
    <3>3. OwnSets'[t] = {} /\ OwnSets[t] = Chunks(cache[t]) /\ IsInjective(Own(t)'.list)
      BY <1>4, <3>1, NoChunksFacts
    <3> HIDE DEF n
    <3>4. /\ DOMAIN GlobalSets' = 1..(n + 1) /\ GlobalSets'[n + 1] = OwnSets[t]
          /\ \A i \in 1..n : GlobalSets'[i] = GlobalSets[i]
      BY <1>5, <3>2, <3>3 DEF n
    <3>5. Partition(OwnSets', GlobalSets', inUse, Mapped)
      <4>1. \A u \in Threads \ {t} : OwnSets'[u] = OwnSets[u]
        BY <1>6, <3>1
      <4>2. DOMAIN GlobalSets = 1..n
        BY <1>5 DEF n
      <4> QED BY <1>3, <3>2, <3>3, <3>4, <4>1, <4>2, PartitionGive
    <3>6. \A i \in DOMAIN global' : IsInjective(global'[i].list)
      BY <1>3, <3>1, <3>2 DEF NoDuplicates
    <3>7. Partition(OwnSets', GlobalSets', inUse', Mapped')
      BY <1>8, <3>1, <3>5
    <3> QED BY <1>9, <3>1, <3>3, <3>6, <3>7
  <2> QED BY <1>11, <2>1, <2>2, <2>3, <2>4, <2>5, <2>6 DEF ThreadStep
<1>12. CASE UNCHANGED chunkVars
  <2>1. \A u \in Threads : Own(u)' = Own(u)
    BY <1>12 DEF chunkVars, Own
  <2>2. OwnSets' = OwnSets
    BY <2>1 DEF OwnSets, Chunks
  <2>3. GlobalSets' = GlobalSets /\ inUse' = inUse /\ Mapped' = Mapped /\ global' = global
    BY <1>7, <1>8, <1>12 DEF chunkVars
  <2>4. NoDuplicates'
    BY <1>3, <2>1, <2>3 DEF NoDuplicates
  <2>5. Partition(OwnSets', GlobalSets', inUse', Mapped')
    BY <1>3, <2>2, <2>3
  <2> QED BY <2>4, <2>5, OnceMeansPartitionNext
<1> QED BY <1>11, <1>12 DEF ChunksNext

\* The pool starts with the chunks of the areas mapped in advance.
LEMMA ChunksStart == ChunksInit => ChunksInv
<1> SUFFICES ASSUME ChunksInit PROVE ChunksInv
  OBVIOUS
<1>1. PICK n \in 0..PreAllocate : areas = n /\ global = [a \in 1..n |-> AreaSet(a)]
  BY DEF ChunksInit
<1>2. n \in Nat /\ ChunksPerArea \in Nat \ {0}
  BY AllocatorAssumption
<1>3. /\ cache = [t \in Threads |-> NoChunks] /\ inUse = {} /\ pc = [t \in Threads |-> "idle"]
  BY DEF ChunksInit
<1>4. \A a \in 1..n : a \in Nat /\ AreaSet(a) \in ChunkSets
  BY <1>2, AreaFacts
<1>5. ChunksTypeOK
  <2>1. global \in Seq(ChunkSets)
    BY <1>1, <1>2, <1>4
  <2> QED BY <1>1, <1>2, <1>3, <2>1, NoChunksFacts DEF ChunksTypeOK
<1>6. DOMAIN global = 1..n /\ \A i \in 1..n : global[i] = AreaSet(i)
  BY <1>1
<1>7. CountsExact /\ CacheSizes
  BY <1>2, <1>3, <1>4, <1>6, AreaFacts, NoChunksFacts DEF CountsExact, CacheSizes
<1>8. \A t \in Threads : Own(t) = NoChunks /\ OwnSets[t] = {}
  BY <1>3, NoChunksFacts DEF Own, OwnSets
<1>9. NoDuplicates
  BY <1>4, <1>6, <1>8, AreaFacts, NoChunksFacts DEF NoDuplicates
<1>10. DOMAIN GlobalSets = 1..n /\ \A i \in 1..n : GlobalSets[i] = {i} \X (1..ChunksPerArea)
  BY <1>4, <1>6, AreaFacts DEF GlobalSets
<1>11. \A c : c \in Mapped <=> \E i \in 1..n : c \in {i} \X (1..ChunksPerArea)
  BY <1>1 DEF Mapped
<1>12. Partition(OwnSets, GlobalSets, inUse, Mapped)
  BY <1>3, <1>8, <1>10, <1>11 DEF Partition
<1> QED BY <1>5, <1>7, <1>9, <1>12, OnceMeansPartition DEF ChunksInv, ChunksSound

\* The inductive invariant of the pool of chunks, whatever the threads do and
\* whenever the system refuses to map an area.
THEOREM Inductive == ChunksSpec => []ChunksInv
<1>1. ChunksInv /\ [ChunksNext]_chunkVars => ChunksInv'
  BY TypeStep, CountStep, OnceStep DEF ChunksInv, ChunksSound
<1> QED BY <1>1, ChunksStart, PTL DEF ChunksSpec

\* A chunk is never handed out twice and never lost, and the counts that the
\* asserts of the allocator read are exact: for any number of threads, any
\* size of an area, any number of areas, mapped before or on demand.
THEOREM ChunksSoundHolds == ChunksSpec => []ChunksSound
<1>1. ChunksInv => ChunksSound
  BY DEF ChunksInv
<1> QED BY <1>1, Inductive, PTL
=============================================================================
