-------------------------------- MODULE Heap --------------------------------
(***************************************************************************)
(* The references of the virtual machine: allocation on the lock-free list *)
(* of RefAllocator, use by the executors, and the mark and sweep of the    *)
(* garbage collector, whose sweep runs while the executors do.             *)
(* (ref_allocator.cpp/hpp, garbage_collector.cpp, ref_string_link.hpp,     *)
(* string_link_utilities.hpp, and the opcodes of executor.cpp and pcalls   *)
(* of pcall.hpp that move references.)                                     *)
(*                                                                         *)
(* When executors run and when they are stopped is StopTheWorld, which     *)
(* ExecutorRegistry implements.  A reference has at most one child in      *)
(* 'field' (the field of a struct, the result of a future, the process of  *)
(* a process stream, the previous part of a string-link); characters and   *)
(* other payload are left out.  The stack of an executor is the set of     *)
(* references on it.                                                       *)
(***************************************************************************)
EXTENDS StopTheWorld

CONSTANTS Refs,  \* pieces of memory that can hold a reference
          Nil,   \* nullptr
          Kinds  \* the kinds of references the program allocates

ASSUME HeapAssumption ==
  Nil \notin Refs /\ Kinds \subseteq {"struct", "string", "link"}

VARIABLES
  live,       \* memory in use: linked, or being constructed
  kind,       \* Ref::m_kind: "struct", "string" or "link"
  field,      \* the child reference
  collapsed,  \* StringLinkRef::m_collapsed
  next,       \* Ref::m_next
  head,       \* RefAllocator::m_head
  stack,      \* references on the stack of each executor
  opc,        \* where an executor is in an operation that has several steps
  tmp,        \* the reference it is allocating
  link,       \* the string-link it is collapsing, or Nil
  held,       \* the string it passes to a blocking call, or Nil
  marked,     \* references with RefFlags::GcMarked
  queue,      \* GarbageCollector::m_markQueue
  cpc,        \* where the collector is
  blocking,   \* GcCollectBlockingSweep of the current collection
  prev,       \* the local 'prev' of sweep(), first the local 'head'
  garbage     \* history: unreachable when marked (the head apart), not yet freed

refVars  == <<live, kind, field, collapsed, next, head>>
execVars == <<stack, opc, tmp, link, held>>
gcVars   == <<marked, queue, cpc, blocking, prev, garbage>>
vars == <<worldVars, refVars, execVars, gcVars>>

RefOrNil == Refs \cup {Nil}

Init ==
  /\ WorldInit
  /\ live = {} /\ head = Nil
  /\ kind = [r \in Refs |-> "string"]
  /\ field = [r \in Refs |-> Nil]
  /\ collapsed = [r \in Refs |-> Nil]
  /\ next = [r \in Refs |-> Nil]
  /\ stack = [e \in Executors |-> {}]
  /\ opc = [e \in Executors |-> "ready"]
  /\ tmp = [e \in Executors |-> Nil]
  /\ link = [e \in Executors |-> Nil]
  /\ held = [e \in Executors |-> Nil]
  /\ marked = {} /\ queue = {} /\ garbage = {}
  /\ cpc = "idle" /\ blocking = FALSE /\ prev = Nil

Ready(e) == mode[e] = "active" /\ opc[e] = "ready"
-----------------------------------------------------------------------------
(***************************************************************************)
(* RefAllocator: construct a reference, then push it on the list of all    *)
(* references with compare-and-swap.                                       *)
(***************************************************************************)

\* alloc() and the constructor; initRef() loads m_head into m_next.
Construct(e, r, k, f) ==
  /\ r \notin live
  /\ live' = live \cup {r}
  /\ kind' = [kind EXCEPT ![r] = k]
  /\ field' = [field EXCEPT ![r] = f]
  /\ collapsed' = [collapsed EXCEPT ![r] = Nil]
  /\ next' = [next EXCEPT ![r] = head]
  /\ tmp' = [tmp EXCEPT ![e] = r]
  /\ opc' = [opc EXCEPT ![e] = "cas"]
  /\ UNCHANGED head

\* allocStruct/allocStr/allocStrLink/allocPlain with children from the stack.
Alloc(e, r) ==
  /\ Ready(e)
  /\ \E k \in Kinds, f \in stack[e] \cup {Nil} :
       /\ k = "string" => f = Nil
       /\ k = "link" => f # Nil /\ kind[f] \in {"string", "link"}
       /\ Construct(e, r, k, f)
  /\ UNCHANGED <<worldVars, stack, link, held, gcVars>>

\* One iteration of the compare-and-swap loop of initRef().  On success the
\* opcode pushes the new reference, or collapseStringLink() goes on.
Cas(e) ==
  /\ opc[e] = "cas"
  /\ IF head = next[tmp[e]]
       THEN /\ head' = tmp[e]
            /\ UNCHANGED next
            /\ IF link[e] = Nil
                 THEN /\ opc' = [opc EXCEPT ![e] = "ready"]
                      /\ stack' = [stack EXCEPT ![e] = @ \cup {tmp[e]}]
                      /\ tmp' = [tmp EXCEPT ![e] = Nil]
                 ELSE /\ opc' = [opc EXCEPT ![e] = "store"]
                      /\ UNCHANGED <<stack, tmp>>
       ELSE /\ next' = [next EXCEPT ![tmp[e]] = head]
            /\ UNCHANGED <<head, opc, stack, tmp>>
  /\ UNCHANGED <<worldVars, live, kind, field, collapsed, link, held, gcVars>>
-----------------------------------------------------------------------------
(***************************************************************************)
(* Opcodes that move references.                                           *)
(***************************************************************************)

\* Pop, Ret, StackStore: a reference disappears from the stack.
Drop(e, r) ==
  /\ Ready(e) /\ r \in stack[e]
  /\ stack' = [stack EXCEPT ![e] = @ \ {r}]
  /\ UNCHANGED <<worldVars, refVars, opc, tmp, link, held, gcVars>>

\* StructLoadField, and the result of a future.
LoadField(e, r) ==
  /\ Ready(e) /\ r \in stack[e] /\ kind[r] = "struct" /\ field[r] # Nil
  /\ stack' = [stack EXCEPT ![e] = @ \cup {field[r]}]
  /\ UNCHANGED <<worldVars, refVars, opc, tmp, link, held, gcVars>>

\* StructStoreField, and setResult() of a future.
StoreField(e, r, f) ==
  /\ Ready(e) /\ {r, f} \subseteq stack[e] /\ kind[r] = "struct"
  /\ field' = [field EXCEPT ![r] = f]
  /\ UNCHANGED <<worldVars, live, kind, collapsed, next, head, execVars, gcVars>>

\* fork(): the new executor starts with a copy of the arguments (and the
\* future) on its stack before its parent continues.
ForkArgs(e, c) ==
  /\ Ready(e)
  /\ WorldFork(e, c)
  /\ \E args \in SUBSET stack[e] : stack' = [stack EXCEPT ![c] = args]
  /\ UNCHANGED <<refVars, opc, tmp, link, held, gcVars>>

\* Trap, or block with only references that stay on the stack.
Park(e) ==
  /\ Ready(e)
  /\ WorldPark(e)
  /\ UNCHANGED <<refVars, execVars, gcVars>>

Exit(e) ==
  /\ Ready(e)
  /\ WorldExit(e)
  /\ stack' = [stack EXCEPT ![e] = {}]
  /\ UNCHANGED <<refVars, opc, tmp, link, held, gcVars>>

\* An aborted executor returns without touching any reference.
Unwind(e) ==
  /\ cpc = "terminated"
  /\ WorldUnwind(e)
  /\ UNCHANGED <<refVars, execVars, gcVars>>
-----------------------------------------------------------------------------
(***************************************************************************)
(* StreamWriteString: the string-link on the stack is collapsed, and the   *)
(* collapsed string is written by a call that may block.                   *)
(***************************************************************************)

\* collapseStringLink(): the link was collapsed before ...
WriteCollapsed(e, l) ==
  /\ Ready(e) /\ l \in stack[e] /\ kind[l] = "link" /\ collapsed[l] # Nil
  /\ held' = [held EXCEPT ![e] = collapsed[l]]
  /\ opc' = [opc EXCEPT ![e] = "write"]
  /\ UNCHANGED <<worldVars, refVars, stack, tmp, link, gcVars>>

\* ... or a string of the total size is allocated, filled ...
CollapseAlloc(e, l, r) ==
  /\ Ready(e) /\ l \in stack[e] /\ kind[l] = "link" /\ collapsed[l] = Nil
  /\ Construct(e, r, "string", Nil)
  /\ link' = [link EXCEPT ![e] = l]
  /\ UNCHANGED <<worldVars, stack, held, gcVars>>

\* ... and stored in the link.
SetCollapsed(e) ==
  /\ opc[e] = "store"
  /\ collapsed' = [collapsed EXCEPT ![link[e]] = tmp[e]]
  /\ held' = [held EXCEPT ![e] = tmp[e]]
  /\ link' = [link EXCEPT ![e] = Nil]
  /\ tmp' = [tmp EXCEPT ![e] = Nil]
  /\ opc' = [opc EXCEPT ![e] = "write"]
  /\ UNCHANGED <<worldVars, live, kind, field, next, head, stack, gcVars>>

\* The write itself: setState(Paused) ...
WriteBlock(e) ==
  /\ opc[e] = "write"
  /\ WorldPark(e)
  /\ UNCHANGED <<refVars, execVars, gcVars>>

\* ... and afterwards the executor continues with its next opcode.
Unpark(e) ==
  /\ WorldUnpark(e)
  /\ opc' = [opc EXCEPT ![e] = "ready"]
  /\ held' = [held EXCEPT ![e] = Nil]
  /\ UNCHANGED <<refVars, stack, tmp, link, gcVars>>
-----------------------------------------------------------------------------
(***************************************************************************)
(* GarbageCollector::collect()                                             *)
(***************************************************************************)
Children(r) ==
  (IF kind[r] = "link" /\ collapsed[r] # Nil THEN {collapsed[r]} ELSE {field[r]})
    \ {Nil}

Roots == UNION {stack[e] : e \in Executors}

\* The least set that contains S and is closed under the function succ.
Closure(S, succ) ==
  {x \in Refs : \A T \in SUBSET Refs :
     (S \subseteq T /\ \A t \in T : succ[t] \subseteq T) => x \in T}

\* What can be reached from a set of references.
Reachable(S) == Closure(S, [r \in Refs |-> Children(r)])

\* The references on the list that starts at r and continues along nx.
Chain(nx, r) == Closure({r} \ {Nil}, [x \in Refs |-> {nx[x]} \ {Nil}])

ListFrom(r) == Chain(next, r)

\* Mutant: only the stack of the first executor is scanned.
StopScansMain ==
  /\ cpc = "idle"
  /\ WorldStop
  /\ blocking' \in BOOLEAN
  /\ queue' = stack[Main]
  /\ cpc' = "mark"
  /\ UNCHANGED <<refVars, execVars, marked, prev, garbage>>

\* pauseExecutors() and populateMarkQueue().
Stop ==
  /\ cpc = "idle"
  /\ WorldStop
  /\ blocking' \in BOOLEAN
  /\ queue' = UNION {stack[e] : e \in {x \in Executors : mode[x] = "parked"}}
  /\ cpc' = "mark"
  /\ UNCHANGED <<refVars, execVars, marked, prev, garbage>>

\* One iteration of mark(): the children of a reference that was not marked
\* are queued; a collapsed link lets go of the chain it stands for.
Mark ==
  /\ cpc = "mark"
  /\ \E r \in queue :
       IF r \in marked
         THEN queue' = queue \ {r} /\ UNCHANGED <<marked, field>>
         ELSE /\ marked' = marked \cup {r}
              /\ queue' = (queue \ {r}) \cup Children(r)
              /\ field' = IF kind[r] = "link" /\ collapsed[r] # Nil
                            THEN [field EXCEPT ![r] = Nil] ELSE field
  /\ UNCHANGED <<worldVars, live, kind, collapsed, next, head, execVars, cpc,
                 blocking, prev, garbage>>

\* The mark-queue is empty: the head of the list is where the sweep starts.
MarkDone ==
  /\ cpc = "mark" /\ queue = {}
  /\ prev' = head
  /\ garbage' = (live \ Reachable(Roots)) \ {head}
  /\ cpc' = "marked"
  /\ UNCHANGED <<worldVars, refVars, execVars, marked, queue, blocking>>

\* Executors are resumed before a sweep that does not block them.
ResumeBeforeSweep ==
  /\ cpc = "marked" /\ ~blocking
  /\ WorldResume
  /\ cpc' = "sweepHead"
  /\ UNCHANGED <<refVars, execVars, marked, queue, blocking, prev, garbage>>

BlockingSweep ==
  /\ cpc = "marked" /\ blocking
  /\ cpc' = "sweepHead"
  /\ UNCHANGED <<worldVars, refVars, execVars, marked, queue, blocking, prev,
                 garbage>>

\* sweep(): the head is unmarked and never freed; no head, nothing to do.
SweepHead ==
  /\ cpc = "sweepHead"
  /\ cpc' = IF prev = Nil THEN "swept" ELSE "sweep"
  /\ marked' = marked \ {prev}
  /\ UNCHANGED <<worldVars, refVars, execVars, queue, blocking, prev, garbage>>

\* Mutant: stop at the first reference that is still marked.
SweepKeepStops ==
  /\ cpc = "sweep" /\ next[prev] # Nil /\ next[prev] \in marked
  /\ marked' = {}
  /\ cpc' = "swept"
  /\ UNCHANGED <<worldVars, refVars, execVars, queue, blocking, prev, garbage>>

\* The next reference is marked: unmark it and go on.
SweepKeep ==
  /\ cpc = "sweep" /\ next[prev] # Nil /\ next[prev] \in marked
  /\ marked' = marked \ {next[prev]}
  /\ prev' = next[prev]
  /\ UNCHANGED <<worldVars, refVars, execVars, queue, cpc, blocking, garbage>>

\* The next reference is not marked: freeNext() unlinks and frees it.
SweepFree ==
  /\ cpc = "sweep" /\ next[prev] # Nil /\ next[prev] \notin marked
  /\ LET r == next[prev] IN
       /\ next' = [next EXCEPT ![prev] = next[r], ![r] = Nil]
       /\ live' = live \ {r}
       /\ field' = [field EXCEPT ![r] = Nil]
       /\ collapsed' = [collapsed EXCEPT ![r] = Nil]
       /\ kind' = [kind EXCEPT ![r] = "string"]
       /\ garbage' = garbage \ {r}
  /\ UNCHANGED <<worldVars, head, execVars, marked, queue, cpc, blocking, prev>>

SweepEnd ==
  /\ cpc = "sweep" /\ next[prev] = Nil
  /\ cpc' = "swept"
  /\ UNCHANGED <<worldVars, refVars, execVars, marked, queue, blocking, prev,
                 garbage>>

\* A blocking sweep resumes the executors now.
CollectEnd ==
  /\ cpc = "swept"
  /\ IF blocking THEN WorldResume ELSE UNCHANGED worldVars
  /\ cpc' = "idle" /\ prev' = Nil
  /\ UNCHANGED <<refVars, execVars, marked, queue, blocking, garbage>>
-----------------------------------------------------------------------------
(***************************************************************************)
(* The end of run(): with the collector terminated, abortExecutors() and   *)
(* the destructor of RefAllocator.                                         *)
(***************************************************************************)
StopForAbort ==
  /\ cpc = "idle" /\ mode[Main] = "gone"
  /\ WorldStop
  /\ cpc' = "terminated"
  /\ UNCHANGED <<refVars, execVars, marked, queue, blocking, prev, garbage>>

Abort ==
  /\ cpc = "terminated"
  /\ WorldAbort
  /\ UNCHANGED <<refVars, execVars, gcVars>>

\* ~RefAllocator() frees along the list, from the head.
Destroy ==
  /\ world = "Aborted" /\ head # Nil
  /\ live' = live \ {head}
  /\ head' = next[head]
  /\ UNCHANGED <<worldVars, kind, field, collapsed, next, execVars, gcVars>>

\* run() has returned; executors in a blocking call may remain.
Finished ==
  /\ world = "Aborted" /\ head = Nil /\ \A e \in Executors : mode[e] # "parked"
  /\ UNCHANGED vars
-----------------------------------------------------------------------------
ExecutorStep(e) ==
  \/ Cas(e) \/ SetCollapsed(e) \/ WriteBlock(e) \/ Park(e) \/ Unpark(e)
  \/ Exit(e) \/ Unwind(e)
  \/ \E c \in Executors : ForkArgs(e, c)
  \/ \E r \in Refs :
       \/ Alloc(e, r) \/ Drop(e, r) \/ LoadField(e, r) \/ WriteCollapsed(e, r)
       \/ \E q \in Refs : StoreField(e, r, q) \/ CollapseAlloc(e, r, q)

CollectorStep ==
  \/ Stop \/ Mark \/ MarkDone \/ ResumeBeforeSweep \/ BlockingSweep
  \/ SweepHead \/ SweepKeep \/ SweepFree \/ SweepEnd \/ CollectEnd

Next ==
  \/ \E e \in Executors : ExecutorStep(e)
  \/ CollectorStep
  \/ StopForAbort \/ Abort \/ Destroy \/ Finished

Spec == Init /\ [][Next]_vars
-----------------------------------------------------------------------------
(***************************************************************************)
(* Properties.                                                             *)
(***************************************************************************)
TypeOK ==
  /\ world \in WorldStates
  /\ mode \in [Executors -> Modes]
  /\ live \subseteq Refs /\ marked \subseteq Refs /\ queue \subseteq Refs
  /\ garbage \subseteq Refs
  /\ kind \in [Refs -> Kinds \cup {"string"}]
  /\ {field, collapsed, next} \subseteq [Refs -> RefOrNil]
  /\ head \in RefOrNil /\ prev \in RefOrNil
  /\ stack \in [Executors -> SUBSET Refs]
  /\ opc \in [Executors -> {"ready", "cas", "store", "write"}]
  /\ {tmp, link, held} \subseteq [Executors -> RefOrNil]
  /\ cpc \in {"idle", "mark", "marked", "sweepHead", "sweep", "swept",
              "terminated"}
  /\ blocking \in BOOLEAN

\* Nothing an executor can still reach from its stack is freed, although the
\* sweep frees while executors allocate, load, store, fork and exit.
NoDangling == world # "Aborted" => Reachable(Roots) \subseteq live

\* The list that allocations extend and the sweep shortens, at the same time
\* and without a lock, has no cycle and holds exactly the references that are
\* in use and not still being linked.
ListSound ==
  /\ ListFrom(head) = live \ {tmp[e] : e \in {x \in Executors : opc[x] = "cas"}}
  /\ \A r \in ListFrom(head) : r \notin ListFrom(next[r])

\* What is reachable is in use, and what is in use is on the list, from which
\* the sweep and the destructor free.
HeapSound == NoDangling /\ ListSound

\* A collection frees everything that was unreachable when it marked, but for
\* the newest reference, which the sweep never frees; the destructor leaves
\* nothing behind.
CollectionComplete ==
  /\ cpc = "idle" => garbage = {}
  /\ world = "Aborted" /\ head = Nil => live = {}

\* Where the collector is, what the world does, and who may touch references.
PhaseInv ==
  /\ cpc = "idle" => world = "Running"
  /\ cpc \in {"mark", "marked"} => world = "Paused"
  /\ cpc \in {"sweepHead", "sweep", "swept"} =>
       world = IF blocking THEN "Paused" ELSE "Running"
  /\ cpc = "terminated" => world \in {"Paused", "Aborted"}
  /\ world # "Running" => \A e \in Executors : mode[e] # "active"
  /\ \A e \in Executors :
       mode[e] \in {"absent", "gone"} /\ cpc # "terminated" => stack[e] = {}

\* The executor holds a reference that no stack and no other reference leads to.
Linking(e) == opc[e] \in {"cas", "store"}

\* Such a reference is in use, has an owner, and lies before the sweep; what it
\* leads to is on its owner's stack.
OwnerInv ==
  \A e \in Executors :
    /\ link[e] # Nil => Linking(e)
    /\ Linking(e) =>
         /\ mode[e] = "active"
         /\ tmp[e] \in live /\ tmp[e] \notin Reachable(Roots)
         /\ tmp[e] \notin ListFrom(prev)
         /\ Children(tmp[e]) \subseteq stack[e]
         /\ link[e] \in stack[e] \cup {Nil}
         /\ \A x \in Executors : Linking(x) /\ tmp[x] = tmp[e] => x = e

\* Marking goes forward from the roots and never beyond what is reachable.
MarkInv ==
  /\ cpc \in {"idle", "mark", "terminated"} => prev = Nil
  /\ cpc \in {"idle", "swept", "terminated"} => marked = {}
  /\ cpc # "mark" => queue = {}
  /\ cpc = "mark" =>
       /\ Roots \subseteq marked \cup queue
       /\ \A r \in marked : Children(r) \subseteq marked \cup queue
       /\ marked \cup queue \subseteq Reachable(Roots)

\* Behind the sweep's place in the list everything reachable is marked, and all
\* that is marked, and all of the collection's garbage, is still behind it.
SweepInv ==
  /\ prev \in ListFrom(head) \cup {Nil}
  /\ cpc = "sweep" => prev # Nil
  /\ cpc \in {"marked", "sweepHead"} => marked \subseteq ListFrom(prev)
  /\ cpc = "sweep" => marked \subseteq ListFrom(next[prev])
  /\ IF cpc \in {"marked", "sweepHead", "sweep"} /\ prev # Nil
       THEN /\ Reachable(Roots) \cap ListFrom(next[prev]) \subseteq marked
            /\ garbage \subseteq ListFrom(next[prev]) \ marked
       ELSE garbage = {}

\* The inductive invariant.
HeapInv == TypeOK /\ PhaseInv /\ OwnerInv /\ HeapSound /\ MarkInv /\ SweepInv

\* The string a blocked StreamWriteString passes to the operating system stays
\* allocated: "Keep the string on the stack, reason is gc could run while we
\* are blocked" (pcall.hpp).
HeldAlive ==
  world # "Aborted" => \A e \in Executors : held[e] \in live \cup {Nil}

\* No string link that is in use is collapsed a second time.
CollapsedOnce ==
  \A r \in live \cap live' :
    kind[r] = "link" /\ collapsed[r] # Nil => collapsed'[r] = collapsed[r]

\* As long as that is so, the string that an executor writes is what a link on
\* its stack was collapsed to.
HeldBy(e) ==
  /\ opc[e] = "store" => link[e] # Nil
  /\ link[e] # Nil => kind[link[e]] = "link"
  /\ held[e] # Nil =>
       /\ opc[e] = "write" /\ mode[e] # "absent"
       /\ \E l \in stack[e] : kind[l] = "link" /\ collapsed[l] = held[e]

HeldInv == world # "Aborted" => \A e \in Executors : HeldBy(e)
=============================================================================
