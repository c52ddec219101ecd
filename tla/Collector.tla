------------------------------ MODULE Collector ------------------------------
(***************************************************************************)
(* How garbage collections are requested and served: the collector thread, *)
(* requestCollection(), collectNow(), notifyAlloc() and the termination of *)
(* the collector at the end of run() (garbage_collector.cpp).              *)
(*                                                                         *)
(* Sections under m_requestMutex are one step, as are single accesses to   *)
(* an atomic.  What a collection does to the heap is Heap; that it returns *)
(* is PauseCompletes of ExecutorRegistry.                                  *)
(***************************************************************************)
EXTENDS Integers, FiniteSets

CONSTANTS Threads,       \* executors
          Main,          \* the executor whose end ends the virtual machine
          AccumMax,      \* bytesAllocThreadAccumMax
          ByteInterval,  \* gcByteInterval
          MaxAlloc,      \* bound: the largest allocation
          MaxCollections,\* bound: no request is made after so many collections
          StartMayFail   \* may the operating system refuse the thread?

ASSUME CollectorAssumption ==
  /\ Main \in Threads /\ IsFiniteSet(Threads)
  /\ AccumMax \in Nat /\ ByteInterval \in Nat /\ MaxCollections \in Nat
  /\ MaxAlloc \in Nat \ {0}
  /\ StartMayFail \in BOOLEAN

VARIABLES
  status,    \* m_collectorStatus
  reqType,   \* m_requestType
  reqFlags,  \* m_requestCollectFlags: is GcCollectBlockingSweep requested?
  begun,     \* m_collectionStarted
  finished,  \* m_collectionFinished
  bytes,     \* m_bytesUntilNextCollection
  cpc,       \* where the collector thread is ("none" if it was not started)
  flags,     \* the flags of the current collection
  accum,     \* bytesAllocThreadAccum of each thread
  tpc,       \* where each executor is
  want,      \* the flags it requests
  wait,      \* does it wait (collectNow) or not (notifyAlloc)?
  id,        \* the collection it waits for
  vpc,       \* where run() is
  covered    \* history: did a collection that began after the request, with
             \* its flags, begin ("begun") or end ("ended")?

collectorVars == <<status, reqType, reqFlags, begun, finished, bytes, cpc, flags>>
threadVars == <<accum, tpc, want, wait, id>>
vars == <<collectorVars, threadVars, vpc, covered>>

Init ==
  /\ status = "NotRunning"
  /\ reqType = "None" /\ reqFlags = FALSE /\ flags = FALSE
  /\ begun = 0 /\ finished = 0
  /\ bytes = ByteInterval
  /\ cpc = "none" /\ vpc = "init"
  /\ accum = [t \in Threads |-> 0]
  /\ tpc = [t \in Threads |-> "off"]
  /\ want = [t \in Threads |-> FALSE]
  /\ wait = [t \in Threads |-> FALSE]
  /\ id = [t \in Threads |-> 0]
  /\ covered = [t \in Threads |-> "no"]

Goto(t, l) == tpc' = [tpc EXCEPT ![t] = l]
-----------------------------------------------------------------------------
(***************************************************************************)
(* run(): startCollector(), the executors, terminateCollector().           *)
(***************************************************************************)

\* startCollector(): the status is stored before the thread is started.
StartCollector ==
  /\ vpc = "init"
  /\ status' = "Running"
  /\ cpc' = "wait" /\ vpc' = "main"
  /\ tpc' = [t \in Threads |-> "run"]
  /\ UNCHANGED <<reqType, reqFlags, begun, finished, bytes, flags, accum, want,
                 wait, id, covered>>

\* No thread: run() returns VmInitFailed, which destroys the collector.
StartFails ==
  /\ vpc = "init" /\ StartMayFail
  /\ status' = "Running"
  /\ vpc' = "initFailed"
  /\ UNCHANGED <<reqType, reqFlags, begun, finished, bytes, cpc, flags,
                 threadVars, covered>>

\* terminateCollector(), from run() or from the destructor.
Terminate ==
  /\ \/ vpc = "main" /\ tpc[Main] = "ended"
     \/ vpc = "initFailed"
  /\ status = "Running"
  /\ reqType' = "Terminate"
  /\ vpc' = "terminating"
  /\ UNCHANGED <<status, reqFlags, begun, finished, bytes, cpc, flags,
                 threadVars, covered>>

\* It spins until the collector has terminated; run() aborts the executors
\* and returns.
Terminated ==
  /\ vpc = "terminating" /\ status = "Terminated"
  /\ vpc' = "aborting"
  /\ UNCHANGED <<collectorVars, threadVars, covered>>

\* The pcall marked its executor as paused before it called collectNow().
InCollectNow(t) == wait[t] /\ tpc[t] \in {"request", "spin", "return"}

\* abortExecutors(): an executor stops at its next safe point ...
Abort(t) ==
  /\ vpc = "aborting" /\ tpc[t] = "run"
  /\ Goto(t, "ended")
  /\ UNCHANGED <<collectorVars, accum, want, wait, id, vpc, covered>>

\* ... and run() returns when all have stopped; one that is in collectNow()
\* counts as paused.
Return ==
  /\ vpc = "aborting"
  /\ \A t \in Threads : InCollectNow(t) \/ tpc[t] \in {"off", "ended"}
  /\ vpc' = "returned"
  /\ UNCHANGED <<collectorVars, threadVars, covered>>
-----------------------------------------------------------------------------
(***************************************************************************)
(* Executors.                                                              *)
(***************************************************************************)

\* notifyAlloc(): small amounts are accumulated per thread.
NotifyAlloc(t) ==
  /\ tpc[t] = "run" /\ begun < MaxCollections
  /\ \E size \in 1..MaxAlloc :
       /\ accum' = [accum EXCEPT ![t] = @ + size]
       /\ IF accum[t] + size > AccumMax THEN Goto(t, "subtract") ELSE UNCHANGED tpc
  /\ UNCHANGED <<collectorVars, want, wait, id, vpc, covered>>

\* fetch_sub(), which returns the value before the subtraction.
Subtract(t) ==
  /\ tpc[t] = "subtract"
  /\ bytes' = bytes - accum[t]
  /\ IF bytes < 0
       THEN Goto(t, "reset") /\ UNCHANGED accum
       ELSE Goto(t, "run") /\ accum' = [accum EXCEPT ![t] = 0]
  /\ UNCHANGED <<status, reqType, reqFlags, begun, finished, cpc, flags, want,
                 wait, id, vpc, covered>>

ResetBytes(t) ==
  /\ tpc[t] = "reset"
  /\ bytes' = ByteInterval
  /\ want' = [want EXCEPT ![t] = FALSE]
  /\ wait' = [wait EXCEPT ![t] = FALSE]
  /\ Goto(t, "request")
  /\ UNCHANGED <<status, reqType, reqFlags, begun, finished, cpc, flags, accum,
                 id, vpc, covered>>

\* collectNow(), by a pcall whose executor is marked as paused.
CollectNow(t) ==
  /\ tpc[t] = "run" /\ begun < MaxCollections
  /\ \E f \in BOOLEAN : want' = [want EXCEPT ![t] = f]
  /\ wait' = [wait EXCEPT ![t] = TRUE]
  /\ covered' = [covered EXCEPT ![t] = "no"]
  /\ Goto(t, "request")
  /\ UNCHANGED <<collectorVars, accum, id, vpc>>

\* Mutant: flags are only noted by the first request.
RequestKeepsFlags(t) ==
  /\ tpc[t] = "request"
  /\ reqType' = IF reqType = "None" THEN "Collect" ELSE reqType
  /\ reqFlags' = IF reqType = "None" THEN want[t] ELSE reqFlags
  /\ id' = [id EXCEPT ![t] = begun + 1]
  /\ IF wait[t]
       THEN Goto(t, "spin") /\ UNCHANGED accum
       ELSE Goto(t, "run") /\ accum' = [accum EXCEPT ![t] = 0]
  /\ UNCHANGED <<status, begun, finished, bytes, cpc, flags, want, wait, vpc,
                 covered>>

\* Mutant: a request replaces whatever was requested before.
RequestOverwrites(t) ==
  /\ tpc[t] = "request"
  /\ reqType' = "Collect"
  /\ reqFlags' = (reqFlags \/ want[t])
  /\ id' = [id EXCEPT ![t] = begun + 1]
  /\ IF wait[t]
       THEN Goto(t, "spin") /\ UNCHANGED accum
       ELSE Goto(t, "run") /\ accum' = [accum EXCEPT ![t] = 0]
  /\ UNCHANGED <<status, begun, finished, bytes, cpc, flags, want, wait, vpc,
                 covered>>

\* requestCollection(): flags of several requests are merged, Terminate stays.
Request(t) ==
  /\ tpc[t] = "request"
  /\ reqType' = IF reqType = "None" THEN "Collect" ELSE reqType
  /\ reqFlags' = (reqFlags \/ want[t])
  /\ id' = [id EXCEPT ![t] = begun + 1]
  /\ IF wait[t]
       THEN Goto(t, "spin") /\ UNCHANGED accum
       ELSE Goto(t, "run") /\ accum' = [accum EXCEPT ![t] = 0]
  /\ UNCHANGED <<status, begun, finished, bytes, cpc, flags, want, wait, vpc,
                 covered>>

\* collectNow() spins until its collection has finished ...
Spin(t) ==
  /\ tpc[t] = "spin" /\ finished >= id[t]
  /\ Goto(t, "return")
  /\ UNCHANGED <<collectorVars, accum, want, wait, id, vpc, covered>>

\* ... and returns to the executor.
CollectNowReturn(t) ==
  /\ tpc[t] = "return"
  /\ Goto(t, "run")
  /\ UNCHANGED <<collectorVars, accum, want, wait, id, vpc, covered>>

End(t) ==
  /\ tpc[t] = "run"
  /\ Goto(t, "ended")
  /\ UNCHANGED <<collectorVars, accum, want, wait, id, vpc, covered>>
-----------------------------------------------------------------------------
(***************************************************************************)
(* collectorLoop()                                                         *)
(***************************************************************************)

\* The history of a request, when a collection with flags f begins.
CoveredBy(t, f) ==
  IF tpc[t] = "spin" /\ covered[t] = "no" /\ (want[t] => f) THEN "begun" ELSE covered[t]

\* The wait ends with a request or a timeout; under the mutex the request is
\* taken and a collection begins.
Wake ==
  /\ cpc = "wait"
  /\ reqType = "Collect" \/ (reqType = "None" /\ begun < MaxCollections)
  /\ flags' = reqFlags
  /\ reqType' = "None" /\ reqFlags' = FALSE
  /\ begun' = begun + 1
  /\ bytes' = ByteInterval
  /\ covered' = [t \in Threads |-> CoveredBy(t, reqFlags)]
  /\ cpc' = "collect"
  /\ UNCHANGED <<status, finished, threadVars, vpc>>

WakeTerminate ==
  /\ cpc = "wait" /\ reqType = "Terminate"
  /\ cpc' = "exit"
  /\ UNCHANGED <<status, reqType, reqFlags, begun, finished, bytes, flags,
                 threadVars, vpc, covered>>

\* Mutant: only the branch that resumes the executors early counts.
CollectCountsNormal ==
  /\ cpc = "collect"
  /\ finished' = IF flags THEN finished ELSE finished + 1
  /\ covered' = [t \in Threads |-> IF covered[t] = "begun" THEN "ended" ELSE covered[t]]
  /\ cpc' = "wait"
  /\ UNCHANGED <<status, reqType, reqFlags, begun, bytes, flags, threadVars, vpc>>

\* collect(): pauses every executor that is not in collectNow(), and ends.
Collect ==
  /\ cpc = "collect"
  /\ finished' = finished + 1
  /\ covered' = [t \in Threads |-> IF covered[t] = "begun" THEN "ended" ELSE covered[t]]
  /\ cpc' = "wait"
  /\ UNCHANGED <<status, reqType, reqFlags, begun, bytes, flags, threadVars, vpc>>

CollectorExit ==
  /\ cpc = "exit"
  /\ status' = "Terminated" /\ cpc' = "gone"
  /\ UNCHANGED <<reqType, reqFlags, begun, finished, bytes, flags, threadVars,
                 vpc, covered>>
-----------------------------------------------------------------------------
ThreadStep(t) ==
  \/ NotifyAlloc(t) \/ Subtract(t) \/ ResetBytes(t) \/ CollectNow(t)
  \/ Request(t) \/ Spin(t) \/ CollectNowReturn(t) \/ End(t) \/ Abort(t)

CollectorStep == Wake \/ WakeTerminate \/ Collect \/ CollectorExit

VmStep == StartCollector \/ StartFails \/ Terminate \/ Terminated \/ Return

\* run() has returned.
Finished == vpc = "returned" /\ UNCHANGED vars

Next == VmStep \/ CollectorStep \/ (\E t \in Threads : vpc # "returned" /\ ThreadStep(t)) \/ Finished

Spec == Init /\ [][Next]_vars

\* A thread that can take a step eventually does; only the program decides
\* whether it allocates, collects or ends.  A program that is to be aborted
\* cannot avoid safe points for ever: its loops are calls.
Fairness ==
  /\ WF_vars(VmStep) /\ WF_vars(CollectorStep)
  /\ \A t \in Threads :
       WF_vars(/\ vpc # "returned"
               /\ Subtract(t) \/ ResetBytes(t) \/ Request(t) \/ Spin(t)
                  \/ CollectNowReturn(t))
  /\ \A t \in Threads : SF_vars(Abort(t))

FairSpec == Spec /\ Fairness
-----------------------------------------------------------------------------
(***************************************************************************)
(* Properties.                                                             *)
(***************************************************************************)
ThreadPcs == {"off", "run", "subtract", "reset", "request", "spin", "return",
              "ended"}

TypeOK ==
  /\ status \in {"NotRunning", "Running", "Terminated"}
  /\ reqType \in {"None", "Collect", "Terminate"}
  /\ reqFlags \in BOOLEAN /\ flags \in BOOLEAN
  /\ begun \in Nat /\ finished \in Nat /\ bytes \in Int
  /\ cpc \in {"none", "wait", "collect", "exit", "gone"}
  /\ vpc \in {"init", "initFailed", "main", "terminating", "aborting", "returned"}
  /\ accum \in [Threads -> Nat] /\ id \in [Threads -> Nat]
  /\ tpc \in [Threads -> ThreadPcs]
  /\ want \in [Threads -> BOOLEAN] /\ wait \in [Threads -> BOOLEAN]
  /\ covered \in [Threads -> {"no", "begun", "ended"}]

\* When collectNow() returns, a collection has finished that began after the
\* call and ran with the flags the caller asked for, although requests of
\* several executors and of notifyAlloc() are merged.
CollectNowSound == \A t \in Threads : tpc[t] = "return" => covered[t] = "ended"

\* The request to terminate is never replaced by a request to collect.
TerminateStays == [][reqType = "Terminate" => reqType' = "Terminate"]_vars

\* The largest amount a thread subtracts at once.
MaxStep == AccumMax + MaxAlloc

\* However the subtractions and resets of several threads interleave, each
\* thread overdraws the budget at most once before a request is placed.
BudgetBounded == bytes >= 0 - MaxStep * (Cardinality(Threads) + 1)

\* collectNow() returns unless the virtual machine shuts down.
CollectNowReturns ==
  \A t \in Threads :
    tpc[t] = "spin" ~> (tpc[t] # "spin" \/ vpc \in {"terminating", "aborting", "returned"})

\* run() returns once its main executor has ended.
ShutdownReturns == tpc[Main] = "ended" ~> vpc = "returned"

\* If the collector thread cannot be started run() returns VmInitFailed:
\* "Failed to initialize the vm, host is likely out of resources."
InitFailureReturns == vpc = "initFailed" ~> vpc = "returned"

\* A caller of collectNow() waits for a collection that is still to begin, and
\* will do so with its flags, or for the one that runs, or has been served.
CallerInv(t) ==
  /\ tpc[t] = "return" => covered[t] = "ended"
  /\ tpc[t] = "request" /\ wait[t] => covered[t] = "no"
  /\ tpc[t] = "spin" =>
       \/ /\ covered[t] = "no" /\ id[t] = begun + 1
          /\ reqType # "None" /\ (want[t] => reqFlags)
       \/ covered[t] = "begun" /\ id[t] = begun /\ finished < begun
       \/ covered[t] = "ended" /\ id[t] <= finished

\* The ids handed out by requestCollection() against the two counters.
CollectorInv ==
  /\ TypeOK
  /\ finished <= begun /\ begun <= finished + 1
  /\ cpc = "collect" <=> begun = finished + 1
  /\ vpc = "init" => cpc = "none" /\ \A t \in Threads : tpc[t] = "off"
  /\ \A t \in Threads : CallerInv(t)

\* Threads that have found the budget overdrawn and have not reset it yet.
Overdrawn == {t \in Threads : tpc[t] = "reset"}

\* What a thread has not yet subtracted, and how far the budget is overdrawn.
BudgetInv ==
  /\ \A t \in Threads :
       accum[t] <= IF \/ tpc[t] \in {"subtract", "reset"}
                      \/ tpc[t] = "request" /\ ~wait[t]
                     THEN MaxStep ELSE AccumMax
  /\ bytes >= 0 - MaxStep * (Cardinality(Overdrawn) + 1)
=============================================================================
